------------------------------- MODULE Wallet -------------------------------
(* The wallets of a node (src/src/wallet): the one it works for, and the one    *)
(* dApps ask.                                                                   *)
EXTENDS Naturals, FiniteSets

-----------------------------------------------------------------------------
(* Whom the node works for: class NodeWallet (src/src/wallet/manager.ts), the    *)
(* wallet routes of src/src/gateway/server.ts and the calls of                  *)
(* core/platform-link.ts they make.  The node registers with the platform under *)
(* one address, its identity, and has its rewards paid to another, which the    *)
(* platform changes for the one who names its current revision.                 *)

CONSTANTS Addresses,
          WalletCalls,     \* requests of the operator, each served once
          MaxWalletFaults, \* bound: failed writes and restarts
          MaxClaims        \* bound: rewards that are claimed

Nobody == "nobody"      \* no wallet, or no reward address
Broken == "broken"      \* wallet.json that does not parse

ASSUME WalletAssumption == /\ Addresses \cap {Nobody, Broken} = {} /\ IsFiniteSet(WalletCalls)
                          /\ {MaxWalletFaults, MaxClaims} \subseteq Nat

VARIABLES walletFile,   \* [id, reward]: wallet.json
          backup,       \* the last good wallet.json, with the operator
          held,         \* [up, id, reward]: the process
          wcall,        \* [request -> stage, address, revision]
          payout,       \* the platform: [address, revision]
          registeredAs, \* the platform: the identities it has seen
          boundTo,      \* the platform: every reward address it accepted
          paidClaims, ledger, savedLedger, \* claimed; in memory; in earnings.json
          walletFaults

walletVars == <<walletFile, backup, held, wcall, payout, registeredAs, boundTo,
                paidClaims, ledger, savedLedger, walletFaults>>

Anyone == Addresses \cup {Nobody}
Card(id, reward) == [id |-> id, reward |-> reward]
NoWallet == Card(Nobody, Nobody)
NotHeld == [up |-> FALSE, id |-> Nobody, reward |-> Nobody]
CallStages == {"free", "register", "bind", "bound", "done", "claim", "paid"}

WalletTypeOK ==
    /\ walletFile \in [id : Anyone \cup {Broken}, reward : Anyone]
    /\ backup \in [id : Anyone, reward : Anyone]
    /\ held \in [up : BOOLEAN, id : Anyone, reward : Anyone]
    /\ wcall \in [WalletCalls -> [stage : CallStages, address : Anyone, revision : 0..Cardinality(WalletCalls)]]
    /\ payout \in [address : Anyone, revision : 0..Cardinality(WalletCalls)]
    /\ registeredAs \subseteq Addresses /\ boundTo \subseteq Addresses
    /\ paidClaims \in 0..MaxClaims /\ ledger \in 0..MaxClaims /\ savedLedger \in 0..MaxClaims
    /\ walletFaults \in 0..MaxWalletFaults

FreshCall == [stage |-> "free", address |-> Nobody, revision |-> 0]
WalletInit == /\ walletFile = NoWallet /\ backup = NoWallet /\ held = NotHeld
              /\ wcall = [c \in WalletCalls |-> FreshCall]
              /\ payout = [address |-> Nobody, revision |-> 0]
              /\ registeredAs = {} /\ boundTo = {}
              /\ paidClaims = 0 /\ ledger = 0 /\ savedLedger = 0 /\ walletFaults = 0

WalletFault == walletFaults < MaxWalletFaults /\ walletFaults' = walletFaults + 1

(* writeFileSync: the file holds the new wallet, which the operator backs up.   *)
Written(card) == walletFile' = card /\ backup' = card /\ UNCHANGED walletFaults
(* It throws and leaves the file as it was or truncated.                        *)
WriteFails == /\ WalletFault /\ UNCHANGED backup
              /\ walletFile' \in {walletFile, Card(Broken, Nobody)}

StartAnyhow(env) ==    \* mutant: a wallet that cannot be read is replaced
    /\ ~held.up
    /\ LET id == IF walletFile.id \in Addresses THEN walletFile.id ELSE env IN
       /\ Written(Card(id, walletFile.reward))
       /\ held' = [up |-> TRUE, id |-> id, reward |-> walletFile.reward]
    /\ ledger' = savedLedger
    /\ UNCHANGED <<wcall, payout, registeredAs, boundTo, paidClaims, savedLedger>>

(* init and createWallet, with GSTD_WALLET_ADDRESS = env: a saved wallet is     *)
(* used as it is, and the node does not start with one that does not parse.     *)
StartWallet(env) ==
    /\ ~held.up
    /\ \/ /\ walletFile.id \in Addresses
          /\ held' = [up |-> TRUE, id |-> walletFile.id, reward |-> walletFile.reward]
          /\ UNCHANGED <<walletFile, backup, walletFaults>>
       \/ /\ walletFile.id = Nobody
          /\ IF env = Nobody
             THEN held' = [NotHeld EXCEPT !.up = TRUE] /\ UNCHANGED <<walletFile, backup, walletFaults>>
             ELSE \/ Written(Card(env, Nobody)) /\ held' = [up |-> TRUE, id |-> env, reward |-> Nobody]
                  \/ WriteFails /\ held' = NotHeld
    /\ ledger' = savedLedger
    /\ UNCHANGED <<wcall, payout, registeredAs, boundTo, paidClaims, savedLedger>>

(* The operator restores wallet.json from its backup.                           *)
RestoreWallet == /\ ~held.up /\ walletFile.id = Broken
                 /\ walletFile' = backup
                 /\ UNCHANGED <<backup, held, wcall, payout, registeredAs, boundTo, paidClaims, ledger, savedLedger, walletFaults>>

StopWallet == /\ held.up /\ WalletFault
              /\ held' = NotHeld
              /\ wcall' = [c \in WalletCalls |-> IF wcall[c].stage = "free" THEN wcall[c] ELSE [FreshCall EXCEPT !.stage = "done"]]
              /\ ledger' = 0
              /\ UNCHANGED <<walletFile, backup, payout, registeredAs, boundTo, paidClaims, savedLedger>>

(* register: the platform takes the heartbeats of the node under this address.  *)
Register == /\ held.up /\ held.id # Nobody
            /\ registeredAs' = registeredAs \cup {held.id}
            /\ UNCHANGED <<walletFile, backup, held, wcall, payout, boundTo, paidClaims, ledger, savedLedger, walletFaults>>

(* configurePayoutAddress: the first address only, and in memory once the file  *)
(* is written.                                                                  *)
Configure(a) == IF held.id = Nobody THEN \/ Written(Card(a, Nobody)) /\ held' = [held EXCEPT !.id = a]
                                         \/ WriteFails /\ UNCHANGED held
                ELSE held.id = a /\ UNCHANGED <<walletFile, backup, held, walletFaults>>

(* POST /api/node/payout-address                                                *)
SetIdentity(a) == /\ held.up /\ Configure(a)
                  /\ UNCHANGED <<wcall, payout, registeredAs, boundTo, paidClaims, ledger, savedLedger>>

CallAt(c, stage) == held.up /\ wcall[c].stage = stage
CallTo(c, stage) == wcall' = [wcall EXCEPT ![c].stage = stage]

(* POST /api/node/reward-wallet: a node without an identity takes this one and  *)
(* registers first.                                                             *)
AskReward(c, a, revision) ==
    /\ CallAt(c, "free")
    /\ IF held.id = Nobody THEN Configure(a) ELSE UNCHANGED <<walletFile, backup, held, walletFaults>>
    /\ wcall' = [wcall EXCEPT ![c] = [stage |-> IF held'.id = Nobody THEN "done" ELSE IF held.id = Nobody THEN "register" ELSE "bind",
                                      address |-> IF held'.id = Nobody THEN Nobody ELSE a, revision |-> revision]]
    /\ UNCHANGED <<payout, registeredAs, boundTo, paidClaims, ledger, savedLedger>>

Registered(c) == /\ CallAt(c, "register")
                 /\ \/ registeredAs' = registeredAs \cup {held.id} /\ CallTo(c, "bind")
                    \/ UNCHANGED registeredAs /\ wcall' = [wcall EXCEPT ![c] = [FreshCall EXCEPT !.stage = "done"]]
                 /\ UNCHANGED <<walletFile, backup, held, payout, boundTo, paidClaims, ledger, savedLedger, walletFaults>>

(* bindRewardWallet at the platform: payout_revision_conflict, or the next      *)
(* revision, whose answer may be lost.                                          *)
BindReward(c) ==
    /\ CallAt(c, "bind")
    /\ IF wcall[c].revision = payout.revision
       THEN /\ payout' = [address |-> wcall[c].address, revision |-> payout.revision + 1]
            /\ boundTo' = boundTo \cup {wcall[c].address}
            /\ CallTo(c, "bound") \/ wcall' = [wcall EXCEPT ![c] = [FreshCall EXCEPT !.stage = "done"]]
       ELSE wcall' = [wcall EXCEPT ![c] = [FreshCall EXCEPT !.stage = "done"]] /\ UNCHANGED <<payout, boundTo>>
    /\ UNCHANGED <<walletFile, backup, held, registeredAs, paidClaims, ledger, savedLedger, walletFaults>>

(* cacheRewardAddress; a write that fails is reported as local_cached: false.   *)
CacheReward(c) ==
    /\ CallAt(c, "bound") /\ CallTo(c, "done")
    /\ LET card == Card(held.id, wcall[c].address) IN
       \/ Written(card) /\ held' = [held EXCEPT !.reward = wcall[c].address]
       \/ WriteFails /\ UNCHANGED held
    /\ UNCHANGED <<payout, registeredAs, boundTo, paidClaims, ledger, savedLedger>>

(* POST /api/node/claim-rewards: the platform pays what is pending, once; the   *)
(* answer, when it comes, is entered with recordVerifiedEarning.                *)
Claim(c) == /\ CallAt(c, "free") /\ held.id # Nobody /\ paidClaims < MaxClaims
            /\ paidClaims' = paidClaims + 1
            /\ CallTo(c, "paid") \/ CallTo(c, "done")
            /\ UNCHANGED <<walletFile, backup, held, payout, registeredAs, boundTo, ledger, savedLedger, walletFaults>>

RecordEarning(c) == /\ CallAt(c, "paid") /\ CallTo(c, "done")
                    /\ ledger' = ledger + 1
                    /\ UNCHANGED <<walletFile, backup, held, payout, registeredAs, boundTo, paidClaims, savedLedger, walletFaults>>

(* Every five minutes; a write that fails may lose the history.                 *)
SaveLedger == /\ held.up
              /\ \/ savedLedger' = ledger /\ UNCHANGED walletFaults
                 \/ WalletFault /\ savedLedger' \in {savedLedger, 0}
              /\ UNCHANGED <<walletFile, backup, held, wcall, payout, registeredAs, boundTo, paidClaims, ledger>>

WalletNext == \/ RestoreWallet \/ StopWallet \/ Register \/ SaveLedger
              \/ \E env \in Anyone : StartWallet(env)
              \/ \E a \in Addresses : SetIdentity(a)
              \/ \E c \in WalletCalls :
                    \/ Registered(c) \/ BindReward(c) \/ CacheReward(c) \/ Claim(c) \/ RecordEarning(c)
                    \/ \E a \in Addresses : \E revision \in 0..payout.revision : AskReward(c, a, revision)
-----------------------------------------------------------------------------
(* Through failed writes, a changed environment and restores from the backup,   *)
(* the platform sees one identity, the node takes for its reward address only   *)
(* one the platform accepted, and its history holds no more than was paid.      *)
OneIdentity == /\ Cardinality(registeredAs) <= 1
               /\ held.reward \in boundTo \cup {Nobody}
               /\ walletFile.reward \in boundTo \cup {Nobody}
               /\ ledger <= paidClaims /\ savedLedger <= paidClaims

-----------------------------------------------------------------------------
(* Requests of dApps for the node's TON wallet: class TonConnectManager of      *)
(* src/src/wallet/tonconnect.ts. A request waits under a name made of the time  *)
(* until the operator approves or rejects it; those calls await the wallet kit  *)
(* (external) and may overlap.                                                  *)

CONSTANTS DApps,        \* requests for a connection or a transaction
          TrustedDApps, \* connections approved at once
          Transactions, \* those that ask for a transaction
          Approvals,    \* calls of approve… and reject…
          MaxInstant    \* bound: the clock

NoDApp == "nobody"

(* "nobody" stands for no request: every request has the id of its event.       *)
ASSUME TonAssumption == IsFiniteSet(DApps) /\ NoDApp \notin DApps /\ MaxInstant \in Nat \ {0}

VARIABLES kit,                \* "none", "ready", "closed"
          hasTonWallet,
          waitingAt,          \* pendingConnects and pendingTransactions: [time -> request]
          asksKit,            \* [call -> [time, request, verdict]]: calls that await the kit
          approved, rejected, \* what the kit was told and took (external)
          connectedDApps,     \* state.connectedDApps
          overlapped,         \* requests that had two calls under way (not in the code)
          replaced,           \* requests whose name another took (not in the code)
          parted,             \* disconnections that were counted (not in the code)
          instant

tonVars == <<kit, hasTonWallet, waitingAt, asksKit, approved, rejected, connectedDApps, overlapped, replaced, parted, instant>>

KitIdle == [time |-> 0, request |-> NoDApp, verdict |-> "none"]
Connections == DApps \ Transactions
KindOf(r) == IF r \in Transactions THEN "transaction" ELSE "connect"
Names == {"transaction", "connect"} \X (1..MaxInstant)

TonTypeOK ==
    /\ kit \in {"none", "ready", "closed"} /\ hasTonWallet \in BOOLEAN /\ instant \in 1..MaxInstant
    /\ waitingAt \in [Names -> DApps \cup {NoDApp}]
    /\ \A a \in Approvals : asksKit[a] = KitIdle \/ asksKit[a].request \in DApps
    /\ approved \cup rejected \cup overlapped \cup replaced \subseteq DApps /\ connectedDApps \in Nat /\ parted \in Nat

TonInit ==
    /\ kit = "none" /\ hasTonWallet = FALSE /\ waitingAt = [n \in Names |-> NoDApp] /\ asksKit = [a \in Approvals |-> KitIdle]
    /\ approved = {} /\ rejected = {} /\ connectedDApps = 0 /\ overlapped = {} /\ replaced = {} /\ parted = 0 /\ instant = 1

(* init: with a mnemonic there is a wallet; a failure leaves the node without.  *)
InitKit(wallet) == /\ kit = "none" /\ kit' = "ready" /\ hasTonWallet' = wallet
                   /\ UNCHANGED <<waitingAt, asksKit, approved, rejected, connectedDApps, overlapped, replaced, parted, instant>>

UnderWay(r) == {a \in Approvals : asksKit[a].request = r}
Known(r) == \/ r \in approved \cup rejected \cup replaced \/ UnderWay(r) # {} \/ \E n \in Names : waitingAt[n] = r
(* onConnectRequest and onTransactionRequest.                                   *)
Queue(r) == LET n == <<KindOf(r), instant>> IN
            /\ waitingAt' = [waitingAt EXCEPT ![n] = r]
            /\ replaced' = replaced \cup ({waitingAt[n]} \ {NoDApp})
            /\ UNCHANGED <<asksKit, overlapped>>
AutoApprove(r, a) == /\ asksKit[a] = KitIdle /\ asksKit' = [asksKit EXCEPT ![a] = [time |-> 0, request |-> r, verdict |-> "approve"]]
                     /\ UNCHANGED <<waitingAt, overlapped, replaced>>
RequestCame(r, a) ==
    /\ kit = "ready" /\ ~Known(r)
    /\ IF r \in TrustedDApps /\ hasTonWallet THEN AutoApprove(r, a) ELSE Queue(r)
    /\ UNCHANGED <<kit, hasTonWallet, approved, rejected, connectedDApps, parted, instant>>

(* approveConnect, approveTransaction, rejectConnect, rejectTransaction up to   *)
(* the await: the request stays in the list. A connection needs the wallet.     *)
Decide(a, n, verdict) ==
    LET r == waitingAt[n] IN
    /\ asksKit[a] = KitIdle /\ r # NoDApp /\ kit = "ready"
    /\ verdict = "approve" /\ r \in Connections => hasTonWallet
    /\ asksKit' = [asksKit EXCEPT ![a] = [time |-> n[2], request |-> r, verdict |-> verdict]]
    /\ overlapped' = IF UnderWay(r) # {} THEN overlapped \cup {r} ELSE overlapped
    /\ UNCHANGED <<kit, hasTonWallet, waitingAt, approved, rejected, connectedDApps, replaced, parted, instant>>
RequestAnswered(a) == LET d == asksKit[a] IN IF d.time = 0 THEN waitingAt ELSE [waitingAt EXCEPT ![<<KindOf(d.request), d.time>>] = NoDApp]
KitTakes(a) ==
    LET d == asksKit[a] IN
    /\ d # KitIdle /\ asksKit' = [asksKit EXCEPT ![a] = KitIdle] /\ waitingAt' = RequestAnswered(a)
    /\ approved' = IF d.verdict = "approve" THEN approved \cup {d.request} ELSE approved
    /\ rejected' = IF d.verdict = "reject" THEN rejected \cup {d.request} ELSE rejected
    /\ connectedDApps' = IF d.verdict = "approve" /\ d.request \in Connections THEN connectedDApps + 1 ELSE connectedDApps
    /\ UNCHANGED <<kit, hasTonWallet, overlapped, replaced, parted, instant>>
(* The kit throws: the request waits on, one approved by itself is gone.        *)
KitThrows(a) ==
    LET d == asksKit[a] IN
    /\ d # KitIdle /\ asksKit' = [asksKit EXCEPT ![a] = KitIdle]
    /\ replaced' = IF d.time = 0 THEN replaced \cup {d.request} ELSE replaced
    /\ UNCHANGED <<kit, hasTonWallet, waitingAt, approved, rejected, connectedDApps, overlapped, parted, instant>>

(* onDisconnect.                                                                *)
DAppParts == /\ kit = "ready" /\ connectedDApps > 0 /\ connectedDApps' = connectedDApps - 1 /\ parted' = parted + 1
             /\ UNCHANGED <<kit, hasTonWallet, waitingAt, asksKit, approved, rejected, overlapped, replaced, instant>>
CloseKit == /\ kit' = "closed" /\ kit # "closed" /\ hasTonWallet' = FALSE /\ waitingAt' = [n \in Names |-> NoDApp]
            /\ UNCHANGED <<asksKit, approved, rejected, connectedDApps, overlapped, replaced, parted, instant>>
InstantPasses == instant < MaxInstant /\ instant' = instant + 1
                 /\ UNCHANGED <<kit, hasTonWallet, waitingAt, asksKit, approved, rejected, connectedDApps, overlapped, replaced, parted>>

TonNext ==
    \/ \E w \in BOOLEAN : InitKit(w)
    \/ \E a \in Approvals : \/ \E r \in DApps : RequestCame(r, a)
                            \/ \E n \in Names, v \in {"approve", "reject"} : Decide(a, n, v)
                            \/ KitTakes(a) \/ KitThrows(a)
    \/ DAppParts \/ CloseKit \/ InstantPasses
-----------------------------------------------------------------------------
(* A request that was answered no longer waits; one is both approved and        *)
(* rejected only if two calls about it overlapped; and without such overlaps    *)
(* the dApps that are counted as connected are those approved and not parted.   *)
EachAnsweredOnce ==
    /\ \A n \in Names : waitingAt[n] # NoDApp => waitingAt[n] \notin approved \cup rejected
    /\ approved \cap rejected \subseteq overlapped
    /\ overlapped = {} => connectedDApps + parted = Cardinality(approved \cap Connections)
    /\ kit = "closed" => \A n \in Names : waitingAt[n] = NoDApp
=============================================================================

----------------------------- MODULE Blockchain -----------------------------
(* What a node holds, believes and runs of blockchains (src/src/blockchain,     *)
(* validators): its stake, whether tokens were locked elsewhere, the daemons.   *)
EXTENDS Integers, Sequences, FiniteSets

-----------------------------------------------------------------------------
(* The node's book of its stake: class BlockchainManager of                     *)
(* src/src/blockchain/token.ts, beside the platform that holds the tokens.      *)
(* stake() and unstake() check before an await and book after one; calls        *)
(* overlap, replies are lost, writes fail, the process restarts.                *)

CONSTANTS Calls, CallKind(_), \* calls of stake() and unstake(), of one unit each
          Owned, Staked,      \* what the platform holds at the start, free and staked
          MaxHistory,         \* 1000 transactions are kept
          MaxHistoryEver      \* bound: transactions recorded

ASSUME LedgerAssumption == /\ IsFiniteSet(Calls) /\ \A c \in Calls : CallKind(c) \in {"stake", "unstake"}
                          /\ {Owned, Staked, MaxHistory, MaxHistoryEver} \subseteq Nat

VARIABLES hasAddress,        \* walletAddress
          staked,            \* stakingInfo.staked
          stakedSince,       \* stakingInfo.stakedSince is set
          stakeFile,         \* staking.json
          balance,           \* cachedBalance.gstd, -1: none
          transactions,      \* transactions, the newest first
          historyFile,       \* transactions.json
          call,              \* [call -> "new", "asking", "sent", "booked", "refused", "done"]
          free, stakedThere, \* the platform's books (external)
          untold,            \* what the platform booked and this node will never hear of, less what it forgot
          clamped            \* how often a negative stake was set to 0 (not in the code)

ledgerVars == <<hasAddress, staked, stakedSince, stakeFile, balance, transactions, historyFile, call, free, stakedThere, untold, clamped>>

LedgerTypeOK ==
    /\ hasAddress \in BOOLEAN /\ stakedSince \in BOOLEAN /\ staked \in Nat /\ stakeFile \in Nat
    /\ balance \in -1..Owned + Staked + Cardinality(Calls)
    /\ transactions \in Seq({"stake", "unstake", "earn"}) /\ historyFile \in Seq({"stake", "unstake", "earn"})
    /\ call \in [Calls -> {"new", "asking", "sent", "booked", "refused", "done"}]
    /\ free \in Nat /\ stakedThere \in Nat /\ untold \in Int /\ clamped \in Nat

LedgerInit == /\ hasAddress \in BOOLEAN /\ staked = Staked /\ stakedSince = (Staked > 0) /\ stakeFile = Staked /\ balance = -1
              /\ transactions = << >> /\ historyFile = << >> /\ call = [c \in Calls |-> "new"]
              /\ free = Owned /\ stakedThere = Staked /\ untold = 0 /\ clamped = 0

Change(c) == IF CallKind(c) = "stake" THEN 1 ELSE -1
(* What the replies to come will add to the stake of this book.                 *)
BookedCalls == {c \in Calls : call[c] = "booked"}
ToCome == Cardinality({c \in BookedCalls : Change(c) = 1}) - Cardinality({c \in BookedCalls : Change(c) = -1})
book == <<staked, stakedSince, stakeFile, transactions, historyFile>>
platform == <<free, stakedThere, untold, clamped>>

(* refreshBalance: at the start, every five minutes and when none is cached.    *)
RefreshBalance == hasAddress /\ balance' = free /\ UNCHANGED <<hasAddress, call>> /\ UNCHANGED book /\ UNCHANGED platform

(* stake: with a balance that may be old; unstake: with the stake of this book. *)
StakeAsked(c) == /\ call[c] = "new"
                 /\ call' = [call EXCEPT ![c] = IF ~hasAddress THEN "done"
                                                ELSE IF CallKind(c) = "unstake" THEN (IF staked < 1 THEN "done" ELSE "sent")
                                                ELSE IF balance >= 0 THEN (IF balance < 1 THEN "done" ELSE "sent") ELSE "asking"]
                 /\ UNCHANGED <<hasAddress, balance>> /\ UNCHANGED book /\ UNCHANGED platform
BalanceCame(c) == /\ call[c] = "asking" /\ balance' \in {free, balance}
                  /\ call' = [call EXCEPT ![c] = IF balance' < 1 THEN "done" ELSE "sent"]
                  /\ UNCHANGED hasAddress /\ UNCHANGED book /\ UNCHANGED platform

(* The platform books what it can (external).                                   *)
PlatformBooks(c) ==
    LET able == IF CallKind(c) = "stake" THEN free >= 1 ELSE stakedThere >= 1 IN
    /\ call[c] = "sent" /\ call' = [call EXCEPT ![c] = IF able THEN "booked" ELSE "refused"]
    /\ free' = IF able THEN free - Change(c) ELSE free
    /\ stakedThere' = IF able THEN stakedThere + Change(c) ELSE stakedThere
    /\ UNCHANGED <<hasAddress, balance, untold, clamped>> /\ UNCHANGED book

FileWritten(file, now) == file' = now \/ UNCHANGED file
Record(t) == transactions' = <<t>> \o transactions
(* saveTransactions: at most a thousand reach the file.                         *)
SavesHistory == FileWritten(historyFile, SubSeq(transactions', 1, IF Len(transactions') < MaxHistory THEN Len(transactions') ELSE MaxHistory))

NewStake(c) == IF staked + Change(c) < 0 THEN 0 ELSE staked + Change(c)
ReplyCame(c) ==
    /\ call[c] = "booked" /\ call' = [call EXCEPT ![c] = "done"]
    /\ staked' = NewStake(c) /\ stakedSince' = (NewStake(c) > 0)
    /\ clamped' = IF staked + Change(c) < 0 THEN clamped + 1 ELSE clamped
    /\ FileWritten(stakeFile, staked')
    /\ Record(CallKind(c)) /\ SavesHistory
    /\ UNCHANGED <<hasAddress, balance, free, stakedThere, untold>>
(* No reply, or a refusal.                                                      *)
CallFails(c) == /\ call[c] \in {"booked", "refused"} /\ call' = [call EXCEPT ![c] = "done"]
                /\ untold' = IF call[c] = "booked" THEN untold + Change(c) ELSE untold
                /\ UNCHANGED <<hasAddress, balance, free, stakedThere, clamped>> /\ UNCHANGED book

(* recordEarning keeps a thousand in memory too.                                *)
RecordEarned == /\ hasAddress /\ Len(transactions) < MaxHistoryEver
                /\ transactions' = LET all == <<"earn">> \o transactions IN SubSeq(all, 1, IF Len(all) < MaxHistory THEN Len(all) ELSE MaxHistory)
                /\ SavesHistory
                /\ UNCHANGED <<hasAddress, staked, stakedSince, stakeFile, balance, call>> /\ UNCHANGED platform

(* The process starts again: init reads the files; calls under way end unheard. *)
LedgerRestarts ==
    /\ \E c \in Calls : call[c] \notin {"new", "done"}
    /\ staked' = stakeFile /\ stakedSince' = (stakeFile > 0) /\ transactions' = historyFile /\ balance' = -1
    /\ call' = [c \in Calls |-> IF call[c] = "new" THEN "new" ELSE "done"]
    /\ untold' = untold + (staked - stakeFile) + ToCome
    /\ UNCHANGED <<hasAddress, stakeFile, historyFile, free, stakedThere, clamped>>

LedgerNext == \/ RefreshBalance \/ RecordEarned \/ LedgerRestarts
              \/ \E c \in Calls : StakeAsked(c) \/ BalanceCame(c) \/ PlatformBooks(c) \/ ReplyCame(c) \/ CallFails(c)
-----------------------------------------------------------------------------
(* The stake in this book is what the platform holds, but for the calls whose   *)
(* reply is still to come, those that were never heard of, and negative sums    *)
(* that were set to 0; with nothing of the kind the two agree. Nothing the      *)
(* platform holds is spent twice, and no more than a thousand transactions are  *)
(* read back.                                                                   *)
StakeIsHeld ==
    /\ staked = stakedThere - ToCome - untold + clamped
    /\ free + stakedThere = Owned + Staked
    /\ stakedSince <=> staked > 0
    /\ Len(historyFile) <= MaxHistory

-----------------------------------------------------------------------------
(* Whether tokens were locked on another chain: class CrossChainBridge of       *)
(* src/src/blockchain/bridge.ts, beside the platform and the chains it asks. A  *)
(* transaction may appear on its chain, and a chain or the platform may stop    *)
(* answering, between two questions.                                            *)

CONSTANT BridgeTasks

VARIABLES chain,      \* [task -> "TON", "Solana", "XRPL" or another name]
          onChain,    \* [task -> "absent", "pending", "failed", "moved", "transferred"]: its transaction (external)
          bridgeStep, \* [task -> "new", "platform", "direct", "any", "sign", "approved", "rejected"]
          verdict,    \* [task -> what the platform said: "none", "verified", "refuted", "silent"]
          seen        \* [task -> what the chain showed when it was asked] (not in the code)

bridgeVars == <<chain, onChain, bridgeStep, verdict, seen>>

Shown == {"absent", "pending", "failed", "moved", "transferred"}
BridgeTypeOK ==
    /\ chain \in [BridgeTasks -> {"TON", "Solana", "XRPL", "other"}]
    /\ onChain \in [BridgeTasks -> Shown] /\ seen \in [BridgeTasks -> SUBSET Shown]
    /\ bridgeStep \in [BridgeTasks -> {"new", "platform", "direct", "any", "sign", "approved", "rejected"}]
    /\ verdict \in [BridgeTasks -> {"none", "verified", "refuted", "silent"}]

BridgeInit == /\ chain \in [BridgeTasks -> {"TON", "Solana", "XRPL", "other"}]
              /\ onChain = [t \in BridgeTasks |-> "absent"] /\ bridgeStep = [t \in BridgeTasks |-> "new"]
              /\ verdict = [t \in BridgeTasks |-> "none"] /\ seen = [t \in BridgeTasks |-> {}]

(* A transaction is seen before it is final; "moved" is one without a transfer  *)
(* of the token (external).                                                     *)
ChainMoves(t) == /\ \/ onChain[t] = "absent" /\ onChain' = [onChain EXCEPT ![t] = "pending"]
                    \/ onChain[t] = "pending" /\ \E end \in {"failed", "moved", "transferred"} : onChain' = [onChain EXCEPT ![t] = end]
                 /\ UNCHANGED <<chain, bridgeStep, verdict, seen>>

BridgeGoes(t, to) == bridgeStep' = [bridgeStep EXCEPT ![t] = to]
(* processBridgeTask, validateLock: the platform is asked first; what it says   *)
(* stands; that it says yes only of a transfer that is final is assumed.        *)
ProcessBridgeTask(t) == bridgeStep[t] = "new" /\ BridgeGoes(t, "platform") /\ UNCHANGED <<chain, onChain, verdict, seen>>
ValidateLock(t) ==
    /\ bridgeStep[t] = "platform"
    /\ \E said \in {"verified", "refuted", "silent"} :
         /\ said = "verified" => onChain[t] = "transferred"
         /\ verdict' = [verdict EXCEPT ![t] = said]
         /\ BridgeGoes(t, CASE said = "verified" -> "sign" [] said = "refuted" -> "rejected" [] OTHER -> "direct")
    /\ UNCHANGED <<chain, onChain, seen>>

(* What a chain counts as there: TON transfers that are final, Solana one       *)
(* without an error, which may not be one of the token, XRPL a validated one    *)
(* whatever its result.                                                         *)
FoundOnSolana(tx) == tx \in {"moved", "transferred"}
FoundOnXRPL(tx) == tx \in {"failed", "moved", "transferred"}
FoundOn(name, tx) == \/ name = "TON" /\ tx = "transferred"
                     \/ name = "Solana" /\ FoundOnSolana(tx)
                     \/ name = "XRPL" /\ FoundOnXRPL(tx)
Look(t) == seen' = [seen EXCEPT ![t] = @ \cup {onChain[t]}]
(* verifyTONDirect, verifySolanaDirect, verifyXRPLDirect: a chain that does not *)
(* answer refutes. On TON any transaction is looked for where there was no      *)
(* transfer.                                                                    *)
VerifyDirectOnChain(t) ==
    /\ bridgeStep[t] = "direct"
    /\ \/ BridgeGoes(t, "rejected") /\ UNCHANGED seen
       \/ /\ Look(t)
          /\ BridgeGoes(t, IF FoundOn(chain[t], onChain[t]) THEN "sign" ELSE IF chain[t] = "TON" THEN "any" ELSE "rejected")
    /\ UNCHANGED <<chain, onChain, verdict>>
VerifyTONAny(t) == /\ bridgeStep[t] = "any"
                   /\ \/ BridgeGoes(t, "rejected") /\ UNCHANGED seen
                      \/ Look(t) /\ BridgeGoes(t, IF onChain[t] \in {"failed", "moved", "transferred"} THEN "sign" ELSE "rejected")
                   /\ UNCHANGED <<chain, onChain, verdict>>
SignVerification(t) == bridgeStep[t] = "sign" /\ BridgeGoes(t, "approved") /\ UNCHANGED <<chain, onChain, verdict, seen>>

BridgeNext == \E t \in BridgeTasks : \/ ChainMoves(t) \/ ProcessBridgeTask(t) \/ ValidateLock(t) \/ VerifyDirectOnChain(t)
                                     \/ VerifyTONAny(t) \/ SignVerification(t)
-----------------------------------------------------------------------------
(* What was approved is final on its chain: the platform said so, or it was     *)
(* silent and the chain showed the transaction; nothing is approved that the    *)
(* platform refuted, nor on a chain that is not known, and on Solana nothing    *)
(* that failed.                                                                 *)
ApprovedIsThere ==
    \A t \in BridgeTasks : bridgeStep[t] \in {"sign", "approved"} =>
        /\ onChain[t] \in {"failed", "moved", "transferred"}
        /\ verdict[t] \in {"verified", "silent"}
        /\ verdict[t] = "silent" => chain[t] \in {"TON", "Solana", "XRPL"} /\ seen[t] \cap {"failed", "moved", "transferred"} # {}
        /\ chain[t] = "Solana" => onChain[t] # "failed"

-----------------------------------------------------------------------------
(* class ValidatorManager (src/src/validators/manager.ts): chain daemons that   *)
(* the operator switches on and off, one child process each, their state kept   *)
(* in validators.json and refreshed by a poll of the daemon's RPC port.         *)
(* toggle and installBinary run without letting another handler in; a poll      *)
(* waits for the daemon and keeps the state object it began with.               *)

CONSTANTS Chains,     \* "ton", "eth", "btc", "sol", "xrp" in the code
          HereChains, \* those whose spec says available
          MaxToggles  \* bound: switches and restarts

ASSUME ValidatorAssumption == MaxToggles \in Nat

VARIABLES chainState, \* [chain -> enabled, status]
          chainFile,  \* validators.json: enabled
          tracked,    \* processes: the chain's child, which may have exited
          dying,      \* children that were sent SIGTERM and have not exited
          adrift,     \* history: children that run, untracked and unasked to end
          polled,     \* chains whose RPC port is being asked
          toggles

validatorVars == <<chainState, chainFile, tracked, dying, adrift, polled, toggles>>
ChainStates == {"stopped", "syncing", "ready", "error"}

ValidatorTypeOK == /\ chainState \in [Chains -> [enabled : BOOLEAN, status : ChainStates]]
                   /\ chainFile \in [Chains -> BOOLEAN]
                   /\ tracked \in [Chains -> {"none", "running", "exited"}]
                   /\ dying \in [Chains -> 0..MaxToggles] /\ adrift \in [Chains -> 0..MaxToggles]
                   /\ polled \subseteq Chains /\ toggles \in 0..MaxToggles

ValidatorInit == /\ chainState = [c \in Chains |-> [enabled |-> FALSE, status |-> "stopped"]]
                 /\ chainFile = [c \in Chains |-> FALSE]
                 /\ tracked = [c \in Chains |-> "none"]
                 /\ dying = [c \in Chains |-> 0] /\ adrift = [c \in Chains |-> 0]
                 /\ polled = {} /\ toggles = 0

SetState(c, enabled, status) ==
    /\ chainState' = [chainState EXCEPT ![c] = [enabled |-> enabled, status |-> status]]
    /\ chainFile' = [chainFile EXCEPT ![c] = enabled]

Toggled == toggles < MaxToggles /\ toggles' = toggles + 1

(* start: the heavy chains and a missing binary leave it enabled, in error.     *)
Launch(c) == /\ Toggled /\ ~chainState[c].enabled
             /\ \/ /\ c \in HereChains
                   /\ SetState(c, TRUE, "syncing")
                   /\ tracked' = [tracked EXCEPT ![c] = "running"]
                   /\ adrift' = [adrift EXCEPT ![c] = @ + IF tracked[c] = "running" THEN 1 ELSE 0]
                \/ SetState(c, TRUE, "error") /\ UNCHANGED <<tracked, adrift>>
             /\ UNCHANGED <<dying, polled>>

HaltUnkilled(c) ==    \* mutant: only a daemon that is ready is killed
    /\ Toggled /\ chainState[c].enabled
    /\ SetState(c, FALSE, "stopped")
    /\ tracked' = [tracked EXCEPT ![c] = "none"]
    /\ dying' = [dying EXCEPT ![c] = @ + IF tracked[c] = "running" /\ chainState[c].status = "ready" THEN 1 ELSE 0]
    /\ adrift' = [adrift EXCEPT ![c] = @ + IF tracked[c] = "running" /\ chainState[c].status # "ready" THEN 1 ELSE 0]
    /\ UNCHANGED polled

(* stop                                                                         *)
Halt(c) == /\ Toggled /\ chainState[c].enabled
           /\ SetState(c, FALSE, "stopped")
           /\ tracked' = [tracked EXCEPT ![c] = "none"]
           /\ dying' = [dying EXCEPT ![c] = @ + IF tracked[c] = "running" THEN 1 ELSE 0]
           /\ UNCHANGED <<adrift, polled>>

(* installBinary sets the status whether or not the daemon runs.                *)
InstallBinary(c) == /\ c \in HereChains
                    /\ \E status \in {"stopped", "error"} : SetState(c, chainState[c].enabled, status)
                    /\ UNCHANGED <<tracked, dying, adrift, polled, toggles>>

(* The exit of any child of the chain, the last one's too, marks an enabled     *)
(* chain as failed.                                                             *)
ChildExits(c) ==
    /\ \/ tracked[c] = "running" /\ tracked' = [tracked EXCEPT ![c] = "exited"] /\ UNCHANGED dying
       \/ dying[c] > 0 /\ dying' = [dying EXCEPT ![c] = @ - 1] /\ UNCHANGED tracked
    /\ IF chainState[c].enabled THEN SetState(c, TRUE, "error") ELSE UNCHANGED <<chainState, chainFile>>
    /\ UNCHANGED <<adrift, polled, toggles>>

(* The daemons of TON and Ethereum announce on stdout that they are in step.    *)
ChildReady(c) == /\ tracked[c] = "running" \/ dying[c] > 0
                 /\ SetState(c, chainState[c].enabled, "ready")
                 /\ UNCHANGED <<tracked, dying, adrift, polled, toggles>>

(* pollAll and pollOne                                                          *)
AskChild(c) == /\ polled = {} /\ polled' = {c}
               /\ chainState[c].enabled /\ chainState[c].status # "stopped"
               /\ UNCHANGED <<chainState, chainFile, tracked, dying, adrift, toggles>>

ChildAnswers(c) == /\ c \in polled /\ polled' = {}
                   /\ \/ \E status \in {"ready", "syncing"} : SetState(c, chainState[c].enabled, status)
                      \/ UNCHANGED <<chainState, chainFile>>
                   /\ UNCHANGED <<tracked, dying, adrift, toggles>>

(* The children die with the process (loadStates); what was enabled stays so.   *)
RestartManager == /\ Toggled
                  /\ chainState' = [c \in Chains |-> [enabled |-> chainFile[c], status |-> "stopped"]]
                  /\ tracked' = [c \in Chains |-> "none"]
                  /\ dying' = [c \in Chains |-> 0] /\ adrift' = [c \in Chains |-> 0]
                  /\ polled' = {} /\ UNCHANGED chainFile

ValidatorNext == \/ RestartManager
                 \/ \E c \in Chains : \/ Launch(c) \/ Halt(c) \/ InstallBinary(c)
                                      \/ ChildExits(c) \/ ChildReady(c) \/ AskChild(c) \/ ChildAnswers(c)
-----------------------------------------------------------------------------
(* However switching, exits and late answers interleave: a daemon that runs is  *)
(* the chain's own or has been told to end, the chain it runs for is enabled,   *)
(* and a restart brings back the switches as they stood.                        *)
NoStrayDaemon == \A c \in Chains : /\ adrift[c] = 0
                                   /\ tracked[c] = "running" => chainState[c].enabled
                                   /\ chainFile[c] = chainState[c].enabled
=============================================================================

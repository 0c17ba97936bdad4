----------------------------- MODULE NodeStorage ----------------------------
(* What a node stores for others (src/src/storage): pins on IPFS, and the       *)
(* shards of the vault.                                                         *)
EXTENDS Integers, FiniteSets, Functions

-----------------------------------------------------------------------------
(* What a node keeps for others on IPFS: class IpfsClient (src/src/storage/      *)
(* ipfs.ts) with the storage routes of src/src/gateway/server.ts, and the count *)
(* of what it did (FeeLedger of src/src/fees/ledger.ts).  A request awaits the  *)
(* IPFS daemon, then changes the list of pins and writes it to a file.          *)

CONSTANTS Cids, PinCalls,
          SaveEvery,   \* the ledger is written with every 10th event
          MaxPinFaults \* bound: refusals, failed writes and restarts

ASSUME PinAssumption == Cids # {} /\ IsFiniteSet(PinCalls) /\ SaveEvery \in Nat \ {0} /\ MaxPinFaults \in Nat

VARIABLES daemonPins, \* the IPFS daemon: what it keeps
          client,     \* [enabled, pins]: the process
          pinsFile,   \* ipfs_pins.json
          pinCall,    \* [call -> [kind, cid, stage]]
          stats,      \* pins whose size is asked for in the background
          lastDone,   \* history: [cid -> the last request that was completed]
          ledgerEvents, ledgerFile, acknowledged, \* recorded, saved; answered
          pinFaults

pinVars == <<daemonPins, client, pinsFile, pinCall, stats, lastDone, ledgerEvents, ledgerFile, acknowledged, pinFaults>>

PinKinds == {"add", "pin", "unpin"}
NewCall == [kind |-> "add", cid |-> CHOOSE c \in Cids : TRUE, stage |-> "new"]
MostPins == Cardinality(PinCalls)
PinTypeOK ==
    /\ daemonPins \subseteq Cids /\ pinsFile \subseteq Cids /\ stats \subseteq Cids
    /\ client \in [enabled : BOOLEAN, pins : SUBSET Cids]
    /\ pinCall \in [PinCalls -> [kind : PinKinds, cid : Cids, stage : {"new", "asked", "done", "failed", "over"}]]
    /\ lastDone \in [Cids -> {"none", "kept", "removed"}]
    /\ ledgerEvents \in 0..MostPins /\ ledgerFile \in 0..MostPins /\ acknowledged \in 0..MostPins
    /\ pinFaults \in 0..MaxPinFaults

PinInit == /\ daemonPins = {} /\ pinsFile = {} /\ stats = {}
           /\ client = [enabled |-> FALSE, pins |-> {}]
           /\ pinCall = [c \in PinCalls |-> NewCall]
           /\ lastDone = [c \in Cids |-> "none"]
           /\ ledgerEvents = 0 /\ ledgerFile = 0 /\ acknowledged = 0 /\ pinFaults = 0

PinFault == pinFaults < MaxPinFaults /\ pinFaults' = pinFaults + 1
NoPinFault == UNCHANGED pinFaults

(* FeeLedger.load: what was not saved is gone.                                  *)
LedgerLoaded == ledgerEvents' = ledgerFile

(* init: the list is read only when the daemon answers.                         *)
StartIpfs == /\ ~client.enabled
             /\ client' = [enabled |-> TRUE, pins |-> pinsFile]
             /\ LedgerLoaded
             /\ UNCHANGED <<daemonPins, pinsFile, pinCall, stats, lastDone, ledgerFile, acknowledged, pinFaults>>
StopIpfs == /\ client.enabled /\ PinFault
            /\ client' = [enabled |-> FALSE, pins |-> {}]
            /\ pinCall' = [c \in PinCalls |-> IF pinCall[c].stage = "new" THEN pinCall[c] ELSE [pinCall[c] EXCEPT !.stage = "over"]]
            /\ stats' = {} /\ LedgerLoaded /\ acknowledged' = ledgerFile
            /\ UNCHANGED <<daemonPins, pinsFile, lastDone, ledgerFile>>

AskIpfs(c, kind, cid) ==
    /\ client.enabled /\ pinCall[c].stage = "new"
    /\ pinCall' = [pinCall EXCEPT ![c] = [kind |-> kind, cid |-> cid, stage |-> "asked"]]
    /\ UNCHANGED <<daemonPins, client, pinsFile, stats, lastDone, ledgerEvents, ledgerFile, acknowledged, pinFaults>>

(* The daemon does it, or refuses, and answers later.                           *)
DaemonDoes(c) ==
    /\ pinCall[c].stage = "asked"
    /\ \/ /\ daemonPins' = IF pinCall[c].kind = "unpin" THEN daemonPins \ {pinCall[c].cid} ELSE daemonPins \cup {pinCall[c].cid}
          /\ pinCall' = [pinCall EXCEPT ![c].stage = "done"] /\ NoPinFault
       \/ /\ pinCall' = [pinCall EXCEPT ![c].stage = "failed"] /\ PinFault /\ UNCHANGED daemonPins
    /\ UNCHANGED <<client, pinsFile, stats, lastDone, ledgerEvents, ledgerFile, acknowledged>>

(* savePins: an error is ignored.                                               *)
SavePins(pins) == \/ pinsFile' = pins /\ NoPinFault
                  \/ UNCHANGED pinsFile /\ PinFault
PinOver(c) == pinCall' = [pinCall EXCEPT ![c].stage = "over"]
(* record, and every so often save.                                             *)
Charged == /\ ledgerEvents' = ledgerEvents + 1 /\ acknowledged' = acknowledged + 1
           /\ ledgerFile' = IF (ledgerEvents + 1) % SaveEvery = 0 THEN ledgerEvents + 1 ELSE ledgerFile

(* add and pin, with /api/storage/add and /api/storage/pin: the pin is listed,  *)
(* and after pin its size is asked for in the background.                       *)
Kept(c) ==
    /\ pinCall[c].stage = "done" /\ pinCall[c].kind # "unpin"
    /\ client' = [client EXCEPT !.pins = @ \cup {pinCall[c].cid}]
    /\ SavePins(client'.pins) /\ Charged /\ PinOver(c)
    /\ stats' = IF pinCall[c].kind = "pin" THEN stats \cup {pinCall[c].cid} ELSE stats
    /\ lastDone' = [lastDone EXCEPT ![pinCall[c].cid] = "kept"]
    /\ UNCHANGED daemonPins

(* unpin, with DELETE /api/storage/pin/:cid: any answer of the daemon will do.  *)
Removed(c) ==
    /\ pinCall[c].stage \in {"done", "failed"} /\ pinCall[c].kind = "unpin"
    /\ client' = [client EXCEPT !.pins = @ \ {pinCall[c].cid}]
    /\ SavePins(client'.pins) /\ PinOver(c)
    /\ lastDone' = [lastDone EXCEPT ![pinCall[c].cid] = "removed"]
    /\ UNCHANGED <<daemonPins, stats, ledgerEvents, ledgerFile, acknowledged>>

(* Refused, or no answer in time, also when the daemon did it.                  *)
Unheard(c) ==
    /\ \/ pinCall[c].stage = "failed" /\ NoPinFault
       \/ pinCall[c].stage \in {"asked", "done"} /\ PinFault
    /\ PinOver(c)
    /\ UNCHANGED <<daemonPins, client, pinsFile, stats, lastDone, ledgerEvents, ledgerFile, acknowledged>>

(* statCid answers: only a pin that is still listed gets its size.              *)
Sized(cid) ==
    /\ cid \in stats /\ stats' = stats \ {cid}
    /\ \/ cid \in client.pins /\ SavePins(client.pins)
       \/ cid \notin client.pins /\ UNCHANGED pinsFile /\ NoPinFault
    /\ UNCHANGED <<daemonPins, client, pinCall, lastDone, ledgerEvents, ledgerFile, acknowledged>>

PinNext == \/ StartIpfs \/ StopIpfs
           \/ \E cid \in Cids : Sized(cid)
           \/ \E c \in PinCalls : \/ DaemonDoes(c) \/ Kept(c) \/ Removed(c) \/ Unheard(c)
                                  \/ \E kind \in PinKinds, cid \in Cids : AskIpfs(c, kind, cid)
-----------------------------------------------------------------------------
(* However requests for one CID overlap, and while sizes are still asked for:   *)
(* the list has what was kept last and not what was removed last, the file      *)
(* follows it unless it could not be written, and every request that was        *)
(* answered is one event of the ledger, of which a restart loses fewer than one *)
(* save would have kept.                                                        *)
PinsAsAsked ==
    /\ client.enabled /\ pinFaults = 0 => /\ client.pins = {c \in Cids : lastDone[c] = "kept"}
                                          /\ pinsFile = client.pins
    /\ \A c \in Cids : c \in client.pins => lastDone[c] = "kept" \/ (c \in pinsFile /\ pinFaults > 0)
    /\ ledgerEvents = acknowledged /\ ledgerEvents - ledgerFile < SaveEvery

-----------------------------------------------------------------------------
(* class StorageVault (src/src/storage/vault.ts): shards fetched for others     *)
(* within a share of the disk, an index written after every one of them, and    *)
(* the proofs of storage.  src/src/index.ts keeps the vault switched off in the *)
(* compute profile; this is what the class does when it is on.                  *)

CONSTANTS ShardIds,      \* what the platform may ask the node to keep
          SizeOf,        \* [ShardIds -> size]
          MaxStorage,    \* maxStorageGB
          MinFree,       \* 0.1 GB in the code: with no more than it nothing is polled
          Polls,         \* polls whose downloads may overlap
          MaxVaultFaults \* bound: crashes, and files damaged or removed

ASSUME VaultAssumption ==
    /\ SizeOf \in [ShardIds -> Nat] /\ MaxStorage \in Nat /\ MaxVaultFaults \in Nat

VARIABLES vault,     \* the process: is it up, the shards it knows, the space it counts
          shardFile, \* the shard files
          index,     \* index.json: the shards it lists, or Torn
          fetching,  \* [poll -> the shards it has yet to fetch]
          vaultFaults

vaultVars == <<vault, shardFile, index, fetching, vaultFaults>>
Torn == {"torn"}

VaultTypeOK == /\ vault \in [state : {"down", "on", "stopping"}, shards : SUBSET ShardIds,
                             used : Nat, verified : SUBSET ShardIds]
               /\ shardFile \in [ShardIds -> {"none", "good", "damaged"}]
               /\ index \in (SUBSET ShardIds) \cup {Torn}
               /\ fetching \in [Polls -> SUBSET ShardIds]
               /\ vaultFaults \in 0..MaxVaultFaults

Down == [state |-> "down", shards |-> {}, used |-> 0, verified |-> {}]
NoPolls == [p \in Polls |-> {}]
Space(S) == SumFunctionOnSet(SizeOf, S)

VaultInit == /\ vault = Down /\ fetching = NoPolls
             /\ shardFile = [s \in ShardIds |-> "none"] /\ index = {}
             /\ vaultFaults = 0

(* init: loadShards takes what index.json lists and has a file; an index that    *)
(* does not parse is as good as none.                                           *)
StartVault ==
    /\ vault.state = "down"
    /\ LET kept == {s \in ShardIds \cap (IF index = Torn THEN {} ELSE index) : shardFile[s] # "none"}
       IN  \E flags \in SUBSET kept :
             vault' = [state |-> "on", shards |-> kept, used |-> Space(kept), verified |-> flags]
    /\ UNCHANGED <<shardFile, index, fetching, vaultFaults>>

(* pollStorageRequests: the interval outlives stop().                           *)
PollRequests(p) ==
    /\ vault.state # "down" /\ fetching[p] = {}
    /\ MaxStorage - vault.used > MinFree
    /\ \E offered \in (SUBSET ShardIds) \ {{}} : fetching' = [fetching EXCEPT ![p] = offered]
    /\ UNCHANGED <<vault, shardFile, index, vaultFaults>>

Fits(s) == vault.used + SizeOf[s] <= MaxStorage
FetchedFrom(p, s) == /\ s \in fetching[p]
                     /\ fetching' = [fetching EXCEPT ![p] = @ \ {s}]

StoreShardUnchecked(p, s) ==    \* mutant: the space is looked at when polling only
    /\ FetchedFrom(p, s)
    /\ shardFile' = [shardFile EXCEPT ![s] = "good"]
    /\ vault' = [vault EXCEPT !.shards = @ \cup {s}, !.used = @ + SizeOf[s], !.verified = @ \cup {s}]
    /\ index' = vault'.shards
    /\ UNCHANGED vaultFaults

(* storeShard: a shard that is kept already is written, and counted, again.     *)
StoreShard(p, s) ==
    /\ FetchedFrom(p, s)
    /\ Fits(s)
    /\ shardFile' = [shardFile EXCEPT ![s] = "good"]
    /\ vault' = [vault EXCEPT !.shards = @ \cup {s}, !.used = @ + SizeOf[s], !.verified = @ \cup {s}]
    /\ index' = vault'.shards
    /\ UNCHANGED vaultFaults

(* No room, a download that fails, or a file that cannot be written.            *)
SkipShard(p, s) == FetchedFrom(p, s) /\ UNCHANGED <<vault, shardFile, index, vaultFaults>>

(* The file is written before the index, and neither is replaced atomically.    *)
CrashStoring(p, s) ==
    /\ vaultFaults < MaxVaultFaults /\ vaultFaults' = vaultFaults + 1
    /\ s \in fetching[p] /\ Fits(s)
    /\ \/ shardFile' = [shardFile EXCEPT ![s] = "damaged"] /\ UNCHANGED index
       \/ shardFile' = [shardFile EXCEPT ![s] = "good"] /\ index' \in {index, Torn}
    /\ vault' = Down /\ fetching' = NoPolls

(* respondToPoStChallenges: the challenged shards that can be read are proved;  *)
(* when the platform does not answer, selfVerify compares every checksum.  A    *)
(* damaged file may still decrypt, to something else.                           *)
ProveStorage ==
    /\ vault.state = "on" /\ vault.shards # {}
    /\ \/ \E challenged \in SUBSET vault.shards, garbled \in SUBSET ShardIds :
            LET read == {s \in challenged : shardFile[s] = "good" \/ (shardFile[s] = "damaged" /\ s \in garbled)}
            IN  vault' = [vault EXCEPT !.verified = (@ \ challenged) \cup read]
       \/ vault' = [vault EXCEPT !.verified = {s \in vault.shards : shardFile[s] = "good"}]
    /\ UNCHANGED <<shardFile, index, fetching, vaultFaults>>

StopVault == /\ vault.state = "on"
             /\ vault' = [vault EXCEPT !.state = "stopping"]
             /\ index' = vault.shards
             /\ UNCHANGED <<shardFile, fetching, vaultFaults>>

ExitVault == /\ vault.state = "stopping"
             /\ vault' = Down /\ fetching' = NoPolls
             /\ UNCHANGED <<shardFile, index, vaultFaults>>

VaultFault == /\ vaultFaults < MaxVaultFaults /\ vaultFaults' = vaultFaults + 1
              /\ \/ vault' = Down /\ fetching' = NoPolls /\ UNCHANGED shardFile
                 \/ \E s \in ShardIds : /\ shardFile[s] # "none"
                                        /\ shardFile' \in {[shardFile EXCEPT ![s] = to] : to \in {"none", "damaged"}}
                                        /\ UNCHANGED <<vault, fetching>>
              /\ UNCHANGED index

VaultNext == \/ StartVault \/ ProveStorage \/ StopVault \/ ExitVault \/ VaultFault
             \/ \E p \in Polls : PollRequests(p)
             \/ \E p \in Polls, s \in ShardIds : StoreShard(p, s) \/ SkipShard(p, s) \/ CrashStoring(p, s)

VaultSpec == VaultInit /\ [][VaultNext]_vaultVars
-----------------------------------------------------------------------------
(* However polls overlap, and whatever a crash leaves of the index, the vault   *)
(* never counts more than its share of the disk, never less than the shards it  *)
(* knows take, and an index that can be read lists every one of them.           *)
VaultWithinShare == /\ vault.used <= MaxStorage
                    /\ Space(vault.shards) <= vault.used
                    /\ index = Torn \/ vault.shards \subseteq index
=============================================================================

--------------------------- MODULE NodeAsAService ---------------------------
(* The chain nodes of an operator (src/src/naas): the roles the hardware allows  *)
(* (hardware_profiler.ts), their containers (orchestrator.ts), the RPC proxy    *)
(* that charges before it forwards (rpc_proxy.ts) and the flywheel that has the *)
(* fees settled (revenue_flywheel.ts).                                          *)
EXTENDS Naturals, Sequences, FiniteSets, Functions

CONSTANTS RoleCatalog,  \* CHAIN_CATALOG by priority: [chain, cpu, ram, disk, port]
          Profiles,     \* what HardwareDetector may find: [cpu, ram, disk]
          Fees,         \* earnings that are recorded
          WorthOf,      \* [fee -> hundredths of a cent]
          RpcCalls,
          MaxNaasFaults \* bound: answers that are lost, refusals, stops
ASSUME NaasAssumption ==
    /\ RoleCatalog \in Seq([cpu : Nat, ram : Nat, disk : Nat, port : Nat])
    /\ Profiles \subseteq [cpu : Nat, ram : Nat, disk : Nat]
    /\ IsFiniteSet(Fees) /\ WorthOf \in [Fees -> Nat] /\ IsFiniteSet(RpcCalls) /\ MaxNaasFaults \in Nat

VARIABLES manager,    \* [phase, roles, left]: NaaSManager.start
          containers, \* the roles that run in Docker; they outlive the process
          proxyUp, flywheelUp,
          purse,      \* [recorded, pending, batch, worthless]: the fees of this process
          settled,    \* the platform: [fee -> times it was settled]
          rpcStage,   \* [call -> where it is]
          charged, served, earnedCalls, \* at the platform; forwarded; requestCount
          naasFaults

naasVars == <<manager, containers, proxyUp, flywheelUp, purse, settled, rpcStage, charged, served, earnedCalls, naasFaults>>

RoleIds == DOMAIN RoleCatalog
RpcStages == {"new", "charging", "paid", "answered"}
NaasTypeOK ==
    /\ manager \in [phase : {"off", "launching", "on"}, roles : SUBSET RoleIds, left : SUBSET RoleIds]
    /\ containers \subseteq RoleIds /\ proxyUp \in BOOLEAN /\ flywheelUp \in BOOLEAN
    /\ purse \in [recorded : SUBSET Fees, pending : SUBSET Fees, batch : SUBSET Fees, worthless : SUBSET Fees]
    /\ settled \in [Fees -> 0..MaxNaasFaults + 1]
    /\ rpcStage \in [RpcCalls -> RpcStages] /\ charged \subseteq RpcCalls /\ served \subseteq RpcCalls
    /\ earnedCalls \in 0..Cardinality(RpcCalls) /\ naasFaults \in 0..MaxNaasFaults

NoFees == [recorded |-> {}, pending |-> {}, batch |-> {}, worthless |-> {}]
NaasInit == /\ manager = [phase |-> "off", roles |-> {}, left |-> {}] /\ containers = {}
            /\ proxyUp = FALSE /\ flywheelUp = FALSE
            /\ purse = NoFees
            /\ settled = [e \in Fees |-> 0]
            /\ rpcStage = [c \in RpcCalls |-> "new"] /\ charged = {} /\ served = {} /\ earnedCalls = 0
            /\ naasFaults = 0

NaasFault == naasFaults < MaxNaasFaults /\ naasFaults' = naasFaults + 1
NoNaasFault == UNCHANGED naasFaults

(* RoleAssigner.assign: by priority, what fits into 70 % of the memory and 80 % *)
(* of the free disk that the roles before it left.                              *)
RoleFits(role, profile, room) == role.cpu <= profile.cpu /\ 10 * role.ram <= room.ram /\ 10 * role.disk <= room.disk
Take(profile, room, i) ==
    LET role == RoleCatalog[i] IN
    IF RoleFits(role, profile, room)
    THEN [ram |-> room.ram - 10 * role.ram, disk |-> room.disk - 10 * role.disk, roles |-> room.roles \cup {i}]
    ELSE room
Assigned(profile) ==
    LET room[i \in 0..Len(RoleCatalog)] ==
            IF i = 0 THEN [ram |-> 7 * profile.ram, disk |-> 8 * profile.disk, roles |-> {}]
            ELSE Take(profile, room[i - 1], i)
    IN  room[Len(RoleCatalog)].roles

(* start: no role, no service.                                                  *)
StartNaas(profile) ==
    /\ manager.phase = "off" /\ Assigned(profile) # {}
    /\ manager' = [phase |-> "launching", roles |-> Assigned(profile), left |-> Assigned(profile)]
    /\ UNCHANGED <<containers, proxyUp, flywheelUp, purse, settled, rpcStage, charged, served, earnedCalls, naasFaults>>

(* launchChainNode, one after the other while the images are pulled: a role     *)
(* that runs already is left alone; docker run fails on a port that is taken.   *)
LaunchRole ==
    /\ manager.phase = "launching" /\ manager.left # {}
    /\ LET i == CHOOSE i \in manager.left : \A j \in manager.left : i <= j
           free == \A j \in containers : RoleCatalog[j].port # RoleCatalog[i].port
       IN  /\ manager' = [manager EXCEPT !.left = @ \ {i}]
           /\ \/ containers' = (IF free THEN containers \cup {i} ELSE containers) /\ NoNaasFault
              \/ i \notin containers /\ UNCHANGED containers /\ NaasFault
    /\ UNCHANGED <<proxyUp, flywheelUp, purse, settled, rpcStage, charged, served, earnedCalls>>

(* settle: the batch is taken out first; one below a cent is dropped.           *)
WorthOfAll(S) == SumFunctionOnSet(WorthOf, S)
Settling == IF purse.pending = {} \/ purse.batch # {} THEN purse
            ELSE IF WorthOfAll(purse.pending) < 100
            THEN [purse EXCEPT !.pending = {}, !.worthless = @ \cup purse.pending]
            ELSE [purse EXCEPT !.pending = {}, !.batch = purse.pending]

(* The proxy and the flywheel come up after the last container, whether or not  *)
(* stop was called meanwhile.                                                   *)
ServicesUp == /\ manager.phase = "launching" /\ manager.left = {}
              /\ manager' = [manager EXCEPT !.phase = "on"]
              /\ proxyUp' = TRUE /\ flywheelUp' = TRUE
              /\ purse' = Settling
              /\ UNCHANGED <<containers, settled, rpcStage, charged, served, earnedCalls, naasFaults>>

(* stop: only what has been made is stopped; requests in flight go on.          *)
StopNaas == /\ manager.phase # "off" /\ NaasFault
            /\ proxyUp' = FALSE /\ flywheelUp' = FALSE
            /\ UNCHANGED <<manager, containers, purse, settled, rpcStage, charged, served, earnedCalls>>

(* The process ends: the fees it had not settled are gone.                      *)
ExitNaas == /\ manager.phase # "off" /\ NaasFault
            /\ manager' = [phase |-> "off", roles |-> {}, left |-> {}]
            /\ proxyUp' = FALSE /\ flywheelUp' = FALSE
            /\ purse' = NoFees
            /\ rpcStage' = [c \in RpcCalls |-> IF rpcStage[c] = "new" THEN "new" ELSE "answered"]
            /\ earnedCalls' = 0
            /\ UNCHANGED <<containers, settled, charged, served>>

SettledFees == {e \in Fees : settled[e] > 0}
RecordFee(e) == /\ manager.phase = "on" /\ e \notin purse.recorded \cup SettledFees
                /\ purse' = [purse EXCEPT !.recorded = @ \cup {e}, !.pending = @ \cup {e}]
                /\ UNCHANGED <<manager, containers, proxyUp, flywheelUp, settled, rpcStage, charged, served, earnedCalls, naasFaults>>

SettleTick == /\ flywheelUp /\ purse' = Settling /\ purse' # purse
              /\ UNCHANGED <<manager, containers, proxyUp, flywheelUp, settled, rpcStage, charged, served, earnedCalls, naasFaults>>

Paid(S) == settled' = [e \in Fees |-> settled[e] + IF e \in S THEN 1 ELSE 0]
Requeued == purse' = [purse EXCEPT !.pending = @ \cup purse.batch, !.batch = {}]

(* The platform settles the batch; a refusal, an outage and an answer that is   *)
(* lost all put it back.                                                        *)
SettlementAnswered ==
    /\ purse.batch # {}
    /\ \/ Paid(purse.batch) /\ purse' = [purse EXCEPT !.batch = {}] /\ NoNaasFault
       \/ Requeued /\ NaasFault /\ (UNCHANGED settled \/ Paid(purse.batch))
    /\ UNCHANGED <<manager, containers, proxyUp, flywheelUp, rpcStage, charged, served, earnedCalls>>

RpcTo(c, stage) == rpcStage' = [rpcStage EXCEPT ![c] = stage]
AskRpc(c) == /\ proxyUp /\ rpcStage[c] = "new" /\ RpcTo(c, "charging")
             /\ UNCHANGED <<manager, containers, proxyUp, flywheelUp, purse, settled, charged, served, earnedCalls, naasFaults>>

(* checkAndDeductBalance fails closed: a refusal and a lost answer are the end. *)
Charge(c) ==
    /\ rpcStage[c] = "charging"
    /\ \/ charged' = charged \cup {c} /\ RpcTo(c, "paid") /\ NoNaasFault
       \/ RpcTo(c, "answered") /\ NaasFault /\ (UNCHANGED charged \/ charged' = charged \cup {c})
    /\ UNCHANGED <<manager, containers, proxyUp, flywheelUp, purse, settled, served, earnedCalls>>

(* forwardToChain: a chain node that is down answers 503, and is counted too.   *)
Forward(c) ==
    /\ rpcStage[c] = "paid" /\ RpcTo(c, "answered")
    /\ served' = IF containers = {} THEN served ELSE served \cup {c}
    /\ earnedCalls' = earnedCalls + 1
    /\ UNCHANGED <<manager, containers, proxyUp, flywheelUp, purse, settled, charged, naasFaults>>

NaasNext == \/ \E profile \in Profiles : StartNaas(profile)
            \/ LaunchRole \/ ServicesUp \/ StopNaas \/ ExitNaas \/ SettleTick \/ SettlementAnswered
            \/ \E e \in Fees : RecordFee(e)
            \/ \E c \in RpcCalls : AskRpc(c) \/ Charge(c) \/ Forward(c)
-----------------------------------------------------------------------------
RamOf(S) == SumFunctionOnSet([i \in RoleIds |-> RoleCatalog[i].ram], S)
(* No two containers want one port.                                             *)
PortsApart == \A i, j \in containers : i # j => RoleCatalog[i].port # RoleCatalog[j].port

(* However settlements and payments fail, no fee a process recorded is lost: it *)
(* is settled, or kept to be settled, or worth less than a cent with the rest   *)
(* of its batch, and then never settled.  Nobody is served unpaid, and no role  *)
(* is assigned memory that the others need.                                     *)
FeesBalance ==
    /\ purse.recorded \subseteq purse.pending \cup purse.batch \cup purse.worthless \cup SettledFees
    /\ purse.pending \cap purse.batch = {} /\ purse.worthless \cap SettledFees = {}
    /\ served \subseteq charged /\ earnedCalls <= Cardinality(charged)
    /\ \A profile \in Profiles : 10 * RamOf(Assigned(profile)) <= 7 * profile.ram
    /\ PortsApart
=============================================================================

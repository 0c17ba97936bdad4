-------------------------------- MODULE Swarm -------------------------------
(* A node in the swarm of the platform (src/src/swarm): its tasks, and the      *)
(* directory of the others.                                                     *)
EXTENDS Naturals, FiniteSets

-----------------------------------------------------------------------------
(* The tasks of src/src/swarm/agent.ts: poll, compute, the quorum gate, the     *)
(* report, and the two files of what the platform did not answer, with the      *)
(* periodic rounds that send their entries again.  apiCall never throws: it     *)
(* returns null when the platform is not reached, and also when the platform    *)
(* acted and its reply was lost.                                                *)

CONSTANTS SwarmTasks, \* tasks the platform hands to this node
          MaxCrashes  \* bound: restarts of the process

ASSUME SwarmAssumption == IsFiniteSet(SwarmTasks) /\ MaxCrashes \in Nat

Queues == {"proofs", "reports"}      \* pending-settlements.json, pending-task-reports.json
Outcomes == {"answered", "unreached", "replyLost"}

VARIABLES work,       \* where each task is
          processing, \* stats.tasksProcessing
          file,       \* the entries of each queue's file
          round,      \* the retry round of each queue
          received,   \* what the platform has got
          earned,     \* wallet.earnings in memory: entries per task
          saved,      \* earnings.json
          crashes

swarmVars == <<work, processing, file, round, received, earned, saved, crashes>>

InFlight == {"computing", "proving", "settling", "reporting"}
Stages == InFlight \cup {"offered", "confirmed", "queued", "forfeited", "failed", "lost"}
NoRound == [on |-> FALSE, left |-> {}, kept |-> {}]

SwarmTypeOK == /\ work \in [SwarmTasks -> Stages]
               /\ processing \in Nat
               /\ file \in [Queues -> SUBSET SwarmTasks]
               /\ round \in [Queues -> [on : BOOLEAN, left : SUBSET SwarmTasks, kept : SUBSET SwarmTasks]]
               /\ received \in [Queues -> SUBSET SwarmTasks]
               /\ earned \in [SwarmTasks -> Nat] /\ saved \in [SwarmTasks -> Nat]
               /\ crashes \in 0..MaxCrashes

SwarmInit == /\ work = [t \in SwarmTasks |-> "offered"]
             /\ processing = 0
             /\ file = [q \in Queues |-> {}]
             /\ round = [q \in Queues |-> NoRound]
             /\ received = [q \in Queues |-> {}]
             /\ earned = [t \in SwarmTasks |-> 0] /\ saved = [t \in SwarmTasks |-> 0]
             /\ crashes = 0

(* apiCall: what the platform has got afterwards.                               *)
ApiCall(q, t, outcome) ==
    received' = IF outcome = "unreached" THEN received
                ELSE [received EXCEPT ![q] = @ \cup {t}]

Moves(t, from, to) == work[t] = from /\ work' = [work EXCEPT ![t] = to]
Leaves(t, from, to) == Moves(t, from, to) /\ processing' = processing - 1

PollTask(t) == /\ Moves(t, "offered", "computing")
               /\ processing' = processing + 1
               /\ UNCHANGED <<file, round, received, earned, saved, crashes>>

(* The quorum gate is for inference when two peers and the identity are there.  *)
ComputeTask(t) == /\ \/ Moves(t, "computing", "proving") /\ UNCHANGED processing
                     \/ Moves(t, "computing", "reporting") /\ UNCHANGED processing
                     \/ Leaves(t, "computing", "failed")
                  /\ UNCHANGED <<file, round, received, earned, saved, crashes>>

QuorumEnds(t) == /\ \/ Moves(t, "proving", "settling") /\ UNCHANGED processing
                    \/ Leaves(t, "proving", "forfeited")
                 /\ UNCHANGED <<file, round, received, earned, saved, crashes>>

(* The proof is sent, or queued for the rounds; the report follows either way.  *)
SubmitProof(t, outcome) ==
    /\ Moves(t, "settling", "reporting")
    /\ ApiCall("proofs", t, outcome)
    /\ file' = IF outcome = "answered" THEN file ELSE [file EXCEPT !["proofs"] = @ \cup {t}]
    /\ UNCHANGED <<processing, round, earned, saved, crashes>>

ReportTaskCredited(t, outcome) ==    \* mutant: credited whatever the platform says
    /\ Leaves(t, "reporting", IF outcome = "answered" THEN "confirmed" ELSE "queued")
    /\ ApiCall("reports", t, outcome)
    /\ earned' = [earned EXCEPT ![t] = @ + 1]
    /\ file' = IF outcome = "answered" THEN file ELSE [file EXCEPT !["reports"] = @ \cup {t}]
    /\ UNCHANGED <<round, saved, crashes>>

(* recordTaskEarning only when the platform answered.                           *)
ReportTask(t, outcome) ==
    /\ Leaves(t, "reporting", IF outcome = "answered" THEN "confirmed" ELSE "queued")
    /\ ApiCall("reports", t, outcome)
    /\ IF outcome = "answered"
       THEN earned' = [earned EXCEPT ![t] = @ + 1] /\ UNCHANGED file
       ELSE file' = [file EXCEPT !["reports"] = @ \cup {t}] /\ UNCHANGED earned
    /\ UNCHANGED <<round, saved, crashes>>

(* retryPendingSettlements and retryPendingTaskReports: read the file, send each *)
(* entry in turn, then write the entries that are still pending over the file.  *)
StartRound(q) == /\ ~round[q].on
                 /\ file[q] # {}
                 /\ round' = [round EXCEPT ![q] = [on |-> TRUE, left |-> file[q], kept |-> {}]]
                 /\ UNCHANGED <<work, processing, file, received, earned, saved, crashes>>

Resend(q, t, outcome) ==
    /\ t \in round[q].left
    /\ ApiCall(q, t, outcome)
    /\ round' = [round EXCEPT ![q].left = @ \ {t},
                              ![q].kept = IF outcome = "answered" THEN @ ELSE @ \cup {t}]
    /\ earned' = IF q = "reports" /\ outcome = "answered"
                 THEN [earned EXCEPT ![t] = @ + 1] ELSE earned
    /\ UNCHANGED <<work, processing, file, saved, crashes>>

EndRound(q) == /\ round[q].on
               /\ round[q].left = {}
               /\ file' = [file EXCEPT ![q] = round[q].kept]
               /\ round' = [round EXCEPT ![q] = NoRound]
               /\ UNCHANGED <<work, processing, received, earned, saved, crashes>>

SaveEarnings == /\ saved # earned
                /\ saved' = earned
                /\ UNCHANGED <<work, processing, file, round, received, earned, crashes>>

(* A restart finds the files and nothing else.                                  *)
Crash == /\ crashes < MaxCrashes
         /\ crashes' = crashes + 1
         /\ work' = [t \in SwarmTasks |-> IF work[t] \in InFlight THEN "lost" ELSE work[t]]
         /\ processing' = 0
         /\ round' = [q \in Queues |-> NoRound]
         /\ earned' = saved
         /\ UNCHANGED <<file, received, saved>>

SwarmNext == \/ \E t \in SwarmTasks : PollTask(t) \/ ComputeTask(t) \/ QuorumEnds(t)
             \/ \E t \in SwarmTasks, o \in Outcomes :
                    SubmitProof(t, o) \/ ReportTask(t, o) \/ \E q \in Queues : Resend(q, t, o)
             \/ \E q \in Queues : StartRound(q) \/ EndRound(q)
             \/ SaveEarnings
             \/ Crash

SwarmSpec == SwarmInit /\ [][SwarmNext]_swarmVars

-----------------------------------------------------------------------------
(* Nothing is credited that the platform has not got, over every order of       *)
(* retries, lost replies and restarts.                                          *)
CreditsAreReceived == \A t \in SwarmTasks : earned[t] > 0 \/ saved[t] > 0 => t \in received["reports"]

(* A report is credited once; only a restart between a resend and the rewrite   *)
(* of the file can repeat it, and then once for each restart.                   *)
CreditedOnce == \A t \in SwarmTasks : earned[t] <= 1 + crashes

(* A task that failed the quorum gate is never reported, now or by a retry.     *)
ForfeitedNotReported ==
    \A t \in SwarmTasks : work[t] = "forfeited" =>
        t \notin received["reports"] \cup received["proofs"] \cup file["reports"] \cup file["proofs"]

(* The gauge sent with each heartbeat returns to what is under way, on every    *)
(* path out of processTask.                                                     *)
GaugeExact == processing = Cardinality({t \in SwarmTasks : work[t] \in InFlight})

(* The earnings a node shows are those the platform has got reports for, each   *)
(* once, and a task leaves its mark in neither the reports nor the gauge when   *)
(* it fails: over lost replies, retries and restarts.                           *)
CreditsRight == CreditsAreReceived /\ CreditedOnce /\ ForfeitedNotReported /\ GaugeExact

-----------------------------------------------------------------------------
(* The other nodes as the platform lists them: class SwarmOrchestrator of       *)
(* src/src/swarm/orchestrator.ts. A listing is asked for every five minutes     *)
(* without a timeout, so that answers may overlap and come late; stale entries  *)
(* are dropped by a timer of its own.                                           *)

CONSTANTS SwarmNodes,  \* nodes
          Volunteers,  \* those that host models and join federated tasks
          SwarmModels, \* initBuiltinModels
          StaleAfter,  \* 10 min
          MaxAsked,    \* bound: listings under way at once
          MaxPeriods   \* bound: the clock, in periods of five minutes

ASSUME DirectoryAssumption == /\ Volunteers \subseteq SwarmNodes
                             /\ {StaleAfter, MaxAsked} \subseteq Nat /\ MaxPeriods \in Nat \ {0}

Unlisted == [seen |-> 0, relay |-> FALSE]

VARIABLES known,     \* peers: [node -> [seen, relay]]; seen 0: not in the map
          relayPeers,
          hostedBy,  \* [model -> nodes]
          fedTasks,  \* federatedTasks: [time of creation -> participants]
          asked,     \* listings asked for and not answered
          timersSet, \* the timers are set
          period,
          expired    \* dropped since the last listing (not in the code)

directoryVars == <<known, relayPeers, hostedBy, fedTasks, asked, timersSet, period, expired>>

DirectoryTypeOK ==
    /\ known \in [SwarmNodes -> [seen : 0..MaxPeriods, relay : BOOLEAN]]
    /\ relayPeers \subseteq SwarmNodes /\ expired \subseteq SwarmNodes
    /\ hostedBy \in [SwarmModels -> SUBSET SwarmNodes]
    /\ DOMAIN fedTasks \subseteq 1..MaxPeriods /\ \A t \in DOMAIN fedTasks : fedTasks[t] \subseteq SwarmNodes
    /\ asked \in 0..MaxAsked /\ timersSet \in BOOLEAN /\ period \in 1..MaxPeriods

DirectoryInit ==
    /\ known = [n \in SwarmNodes |-> Unlisted] /\ relayPeers = {} /\ expired = {}
    /\ hostedBy = [m \in SwarmModels |-> {}] /\ fedTasks = [t \in {} |-> {}]
    /\ asked = 0 /\ timersSet = FALSE /\ period = 1

Peers == {n \in SwarmNodes : known[n].seen # 0}

(* init, which src/src/index.ts calls once, on an empty map, and the timer of   *)
(* five minutes.                                                                *)
InitSwarm == /\ ~timersSet /\ Peers = {} /\ timersSet' = TRUE /\ asked' = asked + 1 /\ asked < MaxAsked
             /\ UNCHANGED <<known, relayPeers, hostedBy, fedTasks, period, expired>>
DiscoverPeers == /\ timersSet /\ asked < MaxAsked /\ asked' = asked + 1
                 /\ UNCHANGED <<known, relayPeers, hostedBy, fedTasks, timersSet, period, expired>>

RelaysOf(heard) == {n \in SwarmNodes : IF n \in DOMAIN heard THEN heard[n] ELSE known[n].seen # 0 /\ known[n].relay}
(* A listing arrives, after stop() as well: who is in it is known from now on,  *)
(* and the relays are taken from all that are known.                            *)
PeersListed(heard) ==
    /\ asked > 0 /\ asked' = asked - 1
    /\ known' = [n \in SwarmNodes |-> IF n \in DOMAIN heard THEN [seen |-> period, relay |-> heard[n]] ELSE known[n]]
    /\ relayPeers' = RelaysOf(heard) /\ expired' = {}
    /\ UNCHANGED <<hostedBy, fedTasks, timersSet, period>>
DiscoveryFails == asked > 0 /\ asked' = asked - 1 /\ UNCHANGED <<known, relayPeers, hostedBy, fedTasks, timersSet, period, expired>>

(* Time passes; broadcastHeartbeat runs many times in a period and drops who    *)
(* was not listed for ten minutes.                                              *)
LongUnlisted(n, now) == known[n].seen # 0 /\ now - known[n].seen > StaleAfter
PeriodPasses ==
    LET gone == IF timersSet THEN {n \in SwarmNodes : LongUnlisted(n, period + 1)} ELSE {} IN
    /\ period < MaxPeriods /\ period' = period + 1
    /\ known' = [n \in SwarmNodes |-> IF n \in gone THEN Unlisted ELSE known[n]]
    /\ expired' = expired \cup gone
    /\ UNCHANGED <<relayPeers, hostedBy, fedTasks, asked, timersSet>>
StopSwarm == timersSet /\ timersSet' = FALSE /\ UNCHANGED <<known, relayPeers, hostedBy, fedTasks, asked, period, expired>>

RegisterModelHost(m, n) == hostedBy' = [hostedBy EXCEPT ![m] = @ \cup {n}]
                           /\ UNCHANGED <<known, relayPeers, fedTasks, asked, timersSet, period, expired>>
FindModelHosts(m) == hostedBy[m] \cap Peers
(* getRelayRoute: through one relay that is not the target.                     *)
RelayRoutes(target) == LET r == relayPeers \ {target} IN IF r = {} THEN {{target}} ELSE {{n, target} : n \in r}

(* createFederatedTask names the task after the clock: two at one time are one. *)
CreateFederatedTask == /\ DOMAIN fedTasks \subseteq {period} \* bound: one at a time
                       /\ fedTasks' = [t \in DOMAIN fedTasks \cup {period} |-> IF t = period THEN {} ELSE fedTasks[t]]
                       /\ UNCHANGED <<known, relayPeers, hostedBy, asked, timersSet, period, expired>>
JoinFederatedTask(t, n) == /\ t \in DOMAIN fedTasks /\ fedTasks' = [fedTasks EXCEPT ![t] = @ \cup {n}]
                           /\ UNCHANGED <<known, relayPeers, hostedBy, asked, timersSet, period, expired>>

DirectoryNext ==
    \/ InitSwarm \/ DiscoverPeers \/ DiscoveryFails \/ StopSwarm \/ PeriodPasses \/ CreateFederatedTask
    \/ \E ns \in SUBSET SwarmNodes : \E heard \in [ns -> BOOLEAN] : PeersListed(heard)
    \/ \E n \in Volunteers : \/ \E m \in SwarmModels : RegisterModelHost(m, n)
                             \/ \E t \in 1..MaxPeriods : JoinFederatedTask(t, n)
-----------------------------------------------------------------------------
(* While the timers run no node is counted that was not listed for ten minutes; *)
(* a known node is a relay exactly when its last listing said so, in whatever   *)
(* order the listings came; a route goes through a node that is not known only  *)
(* if that was dropped since the last listing, and a host of a model was not.   *)
DirectoryIsCurrent ==
    /\ timersSet => \A n \in Peers : period - known[n].seen <= StaleAfter
    /\ \A n \in Peers : n \in relayPeers <=> known[n].relay
    /\ \A n \in SwarmNodes : \A r \in RelayRoutes(n) : r \ {n} \subseteq Peers \cup expired
    /\ \A m \in SwarmModels : FindModelHosts(m) \cap expired = {}
=============================================================================

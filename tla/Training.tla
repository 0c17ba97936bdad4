------------------------------ MODULE Training ------------------------------
(* Training on a node: the rounds of gradients, and the work that is kept while *)
(* the platform is away (src/src/training).                                     *)
EXTENDS Naturals, Sequences, FiniteSets

-----------------------------------------------------------------------------
(* Federated training on one node: classes SwarmTrainer and GradientAggregator  *)
(* of src/src/training/federated.ts and aggregator.ts. A gradient that is good  *)
(* enough is kept and the round of its job is aggregated at once if two are     *)
(* there. (activeJobs, where the progress of a job is kept, is never filled.)   *)

CONSTANTS Trainers, TrainJobs,
          Norms,          \* what the norm of a gradient may be
          MinSubmissions, \* 2
          Outlier,        \* 3 times the median
          MaxGradients    \* bound: submissions

ASSUME GradientAssumption ==
    /\ Norms \subseteq Nat /\ MaxGradients \in Nat
    /\ MinSubmissions \in 1..2 /\ Outlier \in Nat \ {0}

VARIABLES trainPeers,   \* SwarmTrainer.peers
          submissions,  \* [job -> gradients that wait]
          checkpoints,  \* [job -> rounds: [round, in, out], gradients by their number]
          roundCounter, \* round
          accepted,     \* [job -> numbers of the accepted gradients] (not in the code)
          sentGradients \* gradients so far

gradientVars == <<trainPeers, submissions, checkpoints, roundCounter, accepted, sentGradients>>

Gradient == [number : 1..MaxGradients, node : Trainers, norm : Norms]
Round == [round : Nat, in : SUBSET (1..MaxGradients), out : SUBSET (1..MaxGradients)]
GradientTypeOK ==
    /\ trainPeers \subseteq Trainers /\ sentGradients \in 0..MaxGradients
    /\ submissions \in [TrainJobs -> Seq(Gradient)] /\ checkpoints \in [TrainJobs -> Seq(Round)]
    /\ roundCounter \in [TrainJobs -> Nat] /\ accepted \in [TrainJobs -> SUBSET (1..MaxGradients)]

GradientInit ==
    /\ trainPeers = {} /\ submissions = [j \in TrainJobs |-> << >>] /\ checkpoints = [j \in TrainJobs |-> << >>]
    /\ roundCounter = [j \in TrainJobs |-> 0] /\ accepted = [j \in TrainJobs |-> {}] /\ sentGradients = 0

RegisterTrainer(n) == n \notin trainPeers /\ trainPeers' = trainPeers \cup {n} /\ UNCHANGED <<submissions, checkpoints, roundCounter, accepted, sentGradients>>

Median(pending) == CHOOSE x \in {pending[i].norm : i \in DOMAIN pending} :
                     /\ Cardinality({i \in DOMAIN pending : pending[i].norm < x}) <= Len(pending) \div 2
                     /\ Cardinality({i \in DOMAIN pending : pending[i].norm <= x}) > Len(pending) \div 2
(* aggregate: the median of an even number is the upper one, so that of two     *)
(* gradients neither is ever an outlier.                                        *)
Threshold(pending) == Outlier * Median(pending)
WithinThreshold(pending) == {i \in DOMAIN pending : pending[i].norm <= Threshold(pending)}
NumbersOf(pending, chosen) == {pending[i].number : i \in chosen}
AfterRound(pending) == << >>
Aggregate(j, pending) ==
    IF Len(pending) < MinSubmissions
    THEN submissions' = [submissions EXCEPT ![j] = pending] /\ UNCHANGED <<checkpoints, roundCounter>>
    ELSE /\ submissions' = [submissions EXCEPT ![j] = AfterRound(pending)]
         /\ IF WithinThreshold(pending) = {} THEN UNCHANGED <<checkpoints, roundCounter>>
            ELSE /\ roundCounter' = [roundCounter EXCEPT ![j] = @ + 1]
                 /\ checkpoints' = [checkpoints EXCEPT ![j] =
                      Append(@, [round |-> roundCounter[j] + 1, in |-> NumbersOf(pending, WithinThreshold(pending)),
                                 out |-> NumbersOf(pending, DOMAIN pending \ WithinThreshold(pending))])]

(* submitGradient: one whose score is too low is refused; one node may send     *)
(* more than one to a round, and need not be a registered peer.                 *)
SubmitGradient(j, n, norm, good) ==
    /\ sentGradients < MaxGradients /\ sentGradients' = sentGradients + 1
    /\ IF good THEN /\ Aggregate(j, Append(submissions[j], [number |-> sentGradients', node |-> n, norm |-> norm]))
                    /\ accepted' = [accepted EXCEPT ![j] = @ \cup {sentGradients'}]
       ELSE UNCHANGED <<submissions, checkpoints, roundCounter, accepted>>
    /\ UNCHANGED trainPeers

GradientNext == \/ \E n \in Trainers : RegisterTrainer(n)
                \/ \E j \in TrainJobs, n \in Trainers, norm \in Norms, good \in BOOLEAN : SubmitGradient(j, n, norm, good)
-----------------------------------------------------------------------------
(* Every gradient that was accepted waits or is in exactly one round of its     *)
(* job, as taken or as an outlier; the rounds are numbered one after another;   *)
(* and as a round never has more than two gradients, none is left out of it.    *)
RoundsUseEachOnce ==
    \A j \in TrainJobs :
      /\ \A g \in accepted[j] : Cardinality({i \in DOMAIN checkpoints[j] : g \in checkpoints[j][i].in \cup checkpoints[j][i].out})
                                + Cardinality({i \in DOMAIN submissions[j] : submissions[j][i].number = g}) = 1
      /\ \A i \in DOMAIN checkpoints[j] : /\ checkpoints[j][i].round = i /\ checkpoints[j][i].in # {}
                                          /\ checkpoints[j][i].out = {}
      /\ Len(submissions[j]) < MinSubmissions

-----------------------------------------------------------------------------
(* Work kept while the platform is away: class OfflineQueue of                  *)
(* src/src/training/offline-queue.ts, and class NodeHealth of health.ts, whose  *)
(* checks of the platform overlap. The queue lives in memory: where             *)
(* better-sqlite3 is installed every call of it throws and is swallowed.        *)

CONSTANTS OfflineTasks, MaxTries \* bound: how often a task is put in

ASSUME OfflineAssumption == IsFiniteSet(OfflineTasks) /\ MaxTries \in Nat

VARIABLES inMemory, \* the fallback is in use
          task,     \* tasks: [task -> "absent", "pending", "running", "done", "failed"]
          workers,  \* [task -> how many work on it]
          tries,    \* [task -> how often it was put in]
          finished, \* tasks whose result was put in and not yet taken out (not in the code)
          checks,   \* health checks under way
          offline,  \* offlineSince is set
          lastCheck \* the check that ended last: "none", "ok", "refused", "threw" (not in the code)

offlineVars == <<inMemory, task, workers, tries, finished, checks, offline, lastCheck>>
queueVars == <<inMemory, task, workers, tries, finished>>
healthVars == <<checks, offline, lastCheck>>

OfflineTypeOK ==
    /\ inMemory \in BOOLEAN /\ task \in [OfflineTasks -> {"absent", "pending", "running", "done", "failed"}]
    /\ workers \in [OfflineTasks -> 0..MaxTries] /\ tries \in [OfflineTasks -> 0..MaxTries] /\ finished \subseteq OfflineTasks
    /\ checks \in 0..2 /\ offline \in BOOLEAN /\ lastCheck \in {"none", "ok", "refused", "threw"}

OfflineInit == /\ inMemory \in BOOLEAN /\ task = [t \in OfflineTasks |-> "absent"] /\ workers = [t \in OfflineTasks |-> 0]
               /\ tries = [t \in OfflineTasks |-> 0] /\ finished = {} /\ checks = 0 /\ offline = FALSE /\ lastCheck = "none"

SetTaskStatus(t, s) == task' = IF inMemory /\ task[t] # "absent" THEN [task EXCEPT ![t] = s] ELSE task
(* enqueue puts a task in anew, whatever became of the one with its id.         *)
Enqueue(t) == /\ tries[t] < MaxTries /\ tries' = [tries EXCEPT ![t] = @ + 1]
              /\ task' = IF inMemory THEN [task EXCEPT ![t] = "pending"] ELSE task
              /\ finished' = finished \ {t}
              /\ UNCHANGED <<inMemory, workers>> /\ UNCHANGED healthVars
Marked(t) == task' = [task EXCEPT ![t] = "running"]
Dequeue(t) == /\ task[t] = "pending" /\ workers[t] < MaxTries /\ Marked(t) /\ workers' = [workers EXCEPT ![t] = @ + 1]
              /\ UNCHANGED <<inMemory, tries, finished>> /\ UNCHANGED healthVars
CompleteTask(t) == /\ workers[t] > 0 /\ workers' = [workers EXCEPT ![t] = @ - 1] /\ SetTaskStatus(t, "done")
                   /\ finished' = IF task'[t] = "done" THEN finished \cup {t} ELSE finished
                   /\ UNCHANGED <<inMemory, tries>> /\ UNCHANGED healthVars
Fail(t) == /\ workers[t] > 0 /\ workers' = [workers EXCEPT ![t] = @ - 1] /\ SetTaskStatus(t, "failed") /\ finished' = finished \ {t}
           /\ UNCHANGED <<inMemory, tries>> /\ UNCHANGED healthVars
PendingResults == {t \in OfflineTasks : task[t] = "done"}
MarkResultSubmitted(t) == /\ t \in PendingResults /\ task' = [task EXCEPT ![t] = "absent"] /\ finished' = finished \ {t}
                          /\ UNCHANGED <<inMemory, workers, tries>> /\ UNCHANGED healthVars
PendingCount == Cardinality({t \in OfflineTasks : task[t] = "pending"})

(* refresh, by the loop of 30 s and by getHealth: an answer that is no success  *)
(* leaves the time of the outage as it was.                                     *)
Refresh == checks < 2 /\ checks' = checks + 1 /\ UNCHANGED <<offline, lastCheck>> /\ UNCHANGED queueVars
CheckEnds(how) == /\ checks > 0 /\ checks' = checks - 1 /\ lastCheck' = how
                  /\ offline' = IF how = "ok" THEN FALSE ELSE IF how = "threw" THEN TRUE ELSE offline
                  /\ UNCHANGED queueVars
(* computeAutonomy, in tenths.                                                  *)
Autonomy(hasGpu) == 1 + (IF hasGpu THEN 4 ELSE 0) + (IF PendingCount > 0 THEN 3 ELSE 0) + (IF lastCheck = "ok" THEN 2 ELSE 0)

OfflineNext == \/ Refresh \/ \E how \in {"ok", "refused", "threw"} : CheckEnds(how)
               \/ \E t \in OfflineTasks : Enqueue(t) \/ Dequeue(t) \/ CompleteTask(t) \/ Fail(t) \/ MarkResultSubmitted(t)
-----------------------------------------------------------------------------
(* No task is worked on more often than it was put in; a result stays until it  *)
(* was submitted or its task was put in again; the platform counts as away only *)
(* while no check has succeeded since one threw; and autonomy is full only with *)
(* work to do and the platform there.                                           *)
ResultsAreKept ==
    /\ \A t \in OfflineTasks : workers[t] <= tries[t]
    /\ \A t \in OfflineTasks : task[t] = "pending" => workers[t] < tries[t]
    /\ PendingResults = finished
    /\ lastCheck = "ok" => ~offline
    /\ lastCheck = "threw" => offline
    /\ Autonomy(TRUE) = 10 <=> lastCheck = "ok" /\ PendingCount > 0
=============================================================================

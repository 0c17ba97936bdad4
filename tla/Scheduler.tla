----------------------------- MODULE Scheduler -----------------------------
(* src/src/core/scheduler.ts: periodic jobs with an interval and a start timer, *)
(* runNow() from the REST API (gateway/server.ts:4105), enabling and disabling, *)
(* and stop(), which the gateway awaits when the node shuts down.  A job is a   *)
(* ScheduledTask; its executions are numbered in the order they begin.          *)
EXTENDS Naturals

CONSTANTS Jobs,   \* ids of the registered tasks
          MaxRuns \* bound: executions of a job

ASSUME SchedulerAssumption == MaxRuns \in Nat

VARIABLES enabled,    \* task.enabled
          timer,      \* jobs with an interval timer
          startTimer, \* jobs with a start timer
          begun,      \* executions begun so far; the last one is task.running
          ended,      \* executions ended so far (runs of one job never overlap)
          inFlight,   \* task.inFlight: the number of an execution, or 0
          awaited,    \* <<job, execution>> that stop() waits for
          halt        \* "no" | "stopping" | "stopped"

schedulerVars == <<enabled, timer, startTimer, begun, ended, inFlight, awaited, halt>>

Runs == 0..MaxRuns
Running(j) == begun[j] > ended[j]

SchedulerTypeOK ==
    /\ enabled \subseteq Jobs /\ timer \subseteq Jobs /\ startTimer \subseteq Jobs
    /\ begun \in [Jobs -> Runs] /\ ended \in [Jobs -> Runs] /\ inFlight \in [Jobs -> Runs]
    /\ awaited \subseteq Jobs \X Runs
    /\ halt \in {"no", "stopping", "stopped"}

(* register() and startAll() of the gateway's start.                            *)
SchedulerInit == /\ enabled = Jobs /\ timer = Jobs /\ startTimer = Jobs
                 /\ begun = [j \in Jobs |-> 0] /\ ended = [j \in Jobs |-> 0]
                 /\ inFlight = [j \in Jobs |-> 0]
                 /\ awaited = {}
                 /\ halt = "no"

(* runTask: nothing for a job that is disabled or still running.                *)
RunTask(j) == IF j \in enabled /\ ~Running(j)
              THEN /\ begun[j] < MaxRuns
                   /\ begun' = [begun EXCEPT ![j] = @ + 1]
                   /\ inFlight' = [inFlight EXCEPT ![j] = begun[j] + 1]
              ELSE UNCHANGED <<begun, inFlight>>

StartFires(j) == /\ j \in startTimer
                 /\ startTimer' = startTimer \ {j}
                 /\ RunTask(j)
                 /\ UNCHANGED <<enabled, timer, ended, awaited, halt>>

IntervalFires(j) == /\ j \in timer
                    /\ RunTask(j)
                    /\ UNCHANGED <<enabled, timer, startTimer, ended, awaited, halt>>

RunNow(j) == /\ RunTask(j)
             /\ UNCHANGED <<enabled, timer, startTimer, ended, awaited, halt>>

(* The job's function returns or throws: running is reset at once ...           *)
ExecutionEnds(j) == /\ Running(j)
                    /\ ended' = [ended EXCEPT ![j] = @ + 1]
                    /\ UNCHANGED <<enabled, timer, startTimer, begun, inFlight, awaited, halt>>

ClearInFlightAny(j) ==    \* mutant: also another execution's
    /\ inFlight[j] # 0 /\ ended[j] > 0
    /\ inFlight' = [inFlight EXCEPT ![j] = 0]
    /\ UNCHANGED <<enabled, timer, startTimer, begun, ended, awaited, halt>>

(* ... and runTask clears inFlight later, unless it is another execution's.     *)
ClearInFlight(j) == /\ inFlight[j] # 0
                    /\ inFlight[j] <= ended[j]
                    /\ inFlight' = [inFlight EXCEPT ![j] = 0]
                    /\ UNCHANGED <<enabled, timer, startTimer, begun, ended, awaited, halt>>

Disable(j) == /\ enabled' = enabled \ {j}
              /\ timer' = timer \ {j}
              /\ startTimer' = IF j \in timer THEN startTimer \ {j} ELSE startTimer
              /\ UNCHANGED <<begun, ended, inFlight, awaited, halt>>

(* scheduleTask again, also after stop().                                       *)
Enable(j) == /\ enabled' = enabled \cup {j}
             /\ timer' = timer \cup {j}
             /\ startTimer' = IF j \in timer THEN startTimer ELSE startTimer \cup {j}
             /\ UNCHANGED <<begun, ended, inFlight, awaited, halt>>

(* stop() clears every timer and collects what is in flight, once.              *)
Stop == /\ halt = "no"
        /\ halt' = "stopping"
        /\ timer' = {} /\ startTimer' = {}
        /\ awaited' = {<<j, inFlight[j]>> : j \in {i \in Jobs : inFlight[i] # 0}}
        /\ UNCHANGED <<enabled, begun, ended, inFlight>>

StopResolves == /\ halt = "stopping"
                /\ \A w \in awaited : ended[w[1]] >= w[2]
                /\ halt' = "stopped"
                /\ UNCHANGED <<enabled, timer, startTimer, begun, ended, inFlight, awaited>>

SchedulerNext == \/ \E j \in Jobs : \/ StartFires(j) \/ IntervalFires(j) \/ RunNow(j)
                                    \/ ExecutionEnds(j) \/ ClearInFlight(j)
                                    \/ Disable(j) \/ Enable(j)
                 \/ Stop \/ StopResolves

SchedulerSpec == SchedulerInit /\ [][SchedulerNext]_schedulerVars

SchedulerFairness == /\ WF_schedulerVars(StopResolves)
                     /\ \A j \in Jobs : WF_schedulerVars(ExecutionEnds(j))

-----------------------------------------------------------------------------
(* What runs can be waited for: an execution under way is the one inFlight      *)
(* names, whatever an earlier execution's late clean-up does.                   *)
RunningIsInFlight == \A j \in Jobs : Running(j) => inFlight[j] = begun[j]

(* A job that was disabled leaves no timer behind.                              *)
DisabledIsQuiet == timer \cup startTimer \subseteq enabled /\ startTimer \subseteq timer

(* What stop() waits for is every execution under way when it is called, also   *)
(* when an earlier run's clean-up is still due.  Runs that runNow() and         *)
(* setEnabled() start later are not waited for.                                 *)
StopWaitsForRuns == [][Stop => \A j \in Jobs : Running(j) => <<j, begun[j]>> \in awaited']_schedulerVars

(* stop() returns although jobs keep being started meanwhile.                   *)
StopReturnsInTime == halt = "stopping" ~> halt = "stopped"

(* Executions are accounted for from their start to the stop() that waits for   *)
(* them, over overlapping runs, late clean-ups and jobs that come and go.       *)
JobsAccounted == [](RunningIsInFlight /\ DisabledIsQuiet) /\ StopWaitsForRuns
=============================================================================

------------------------------ MODULE HostProofs ------------------------------
(* Proofs about the host of a node: how its process ends and updates itself      *)
(* (NodeProcess), the jobs it runs (Scheduler), the phones it counts as nodes    *)
(* (MobileNodes), who may operate it and how its requests are hardened           *)
(* (GatewayAccess), whom it locks out (LoginLimiter), the daemons and heartbeats *)
(* it starts and stops (Blockchain, UptimeDaemon), the certificates it asks for  *)
(* (NodeHttps), the apps and skills it installs (AppsAndSkills), where it       *)
(* answers a chat (ChatRouter), the browsers it chats with (ChatClients), the    *)
(* viewers of its event bus (EventBus) and the models it asks in turn            *)
(* (ModelFailover).                                                              *)
(* Each invariant is proved with the strengthening that makes it inductive.      *)
EXTENDS NodeProcess, MobileNodes, Scheduler, GatewayAccess, LoginLimiter,
        Blockchain, UptimeDaemon, NodeHttps, AppsAndSkills, ChatRouter,
        EventBus, ChatClients, ModelFailover,
        FiniteSetTheorems, WellFoundedInduction, TLAPS

-----------------------------------------------------------------------------
(* The process.  A shutdown begins once, when the node is ready, so the link    *)
(* cannot be opened again after the gateway's stop closed it.                   *)
Shutdown == /\ shutdowns = IF stopping = "no" THEN 0 ELSE 1
            /\ stopping # "no" => booted = "ready"
            /\ stopping = "memory" => ~link

LifecycleInv == LifecycleTypeOK /\ Shutdown /\ CleanMeansStopped

(* The order of the stops, spelt out.                                           *)
LEMMA TheStops == /\ DOMAIN Stops = 1..4 /\ Len(Stops) = 4
                  /\ Stops[1] = "mesh" /\ Stops[2] = "http" /\ Stops[3] = "gateway" /\ Stops[4] = "memory"
                  /\ StopNames = {"mesh", "http", "gateway", "memory"}
<1>1. DOMAIN Stops = 1..4 /\ Len(Stops) = 4
  BY DEF Stops
<1>2. Stops[1] = "mesh" /\ Stops[2] = "http" /\ Stops[3] = "gateway" /\ Stops[4] = "memory"
  BY DEF Stops
<1>3. StopNames = {Stops[1], Stops[2], Stops[3], Stops[4]}
  BY <1>1 DEF StopNames
<1> QED BY <1>1, <1>2, <1>3

(* A node that just starts has nothing open and nothing to stop.                *)
LEMMA LifecycleStarts == LifecycleInit => LifecycleInv
<1> SUFFICES ASSUME LifecycleInit PROVE LifecycleInv
  OBVIOUS
<1>1. 0 \in 0..MaxPorts - 1 /\ 0 \in 0..Grace
  BY LifecycleAssumption
<1>2. LifecycleTypeOK
  BY <1>1 DEF LifecycleInit, LifecycleTypeOK
<1>3. Shutdown /\ CleanMeansStopped
  BY DEF LifecycleInit, Shutdown, CleanMeansStopped
<1> QED BY <1>2, <1>3 DEF LifecycleInv

(* One stop of the sequence returns.                                            *)
LEMMA StopReturnsKeeps == ASSUME LifecycleInv, NEW i \in DOMAIN Stops, StopReturnsIn(i)
                          PROVE  LifecycleInv'
<1> USE TheStops DEF LifecycleInv, LifecycleTypeOK, Shutdown, CleanMeansStopped, StopReturnsIn, Alive, Exit
<1>1. LifecycleTypeOK'
  OBVIOUS
<1>2. CASE i = 4
  <2>1. /\ stopping = "memory" /\ ~link /\ ~link'
        /\ UNCHANGED <<booted, stopping, shutdowns>>
    BY <1>2
  <2> QED BY <1>1, <2>1
<1>3. CASE i \in 1..3
  <2>1. i # Len(Stops)
    BY <1>3
  <2>2. stopping = Stops[i] /\ stopping' = Stops[i + 1] /\ process' = "running"
    BY <2>1
  <2>3. link' = (link /\ Stops[i] # "gateway")
    OBVIOUS
  <2>4. UNCHANGED <<booted, shutdowns>>
    OBVIOUS
  <2>5. CleanMeansStopped'
    BY <2>2
  <2>6. shutdowns' = 1 /\ booted' = "ready" /\ stopping' # "no"
    BY <1>3, <2>2, <2>4
  <2>7. stopping' = "memory" => i = 3
    <3>1. i = 1 => stopping' = "http"
      BY <2>2
    <3>2. i = 2 => stopping' = "gateway"
      BY <2>2
    <3> QED BY <1>3, <3>1, <3>2
  <2>8. stopping' = "memory" => ~link'
    BY <2>3, <2>7
  <2>9. Shutdown'
    BY <2>6, <2>8
  <2> QED BY <1>1, <2>5, <2>9
<1> QED BY <1>2, <1>3

(* No step breaks the invariant.                                                *)
LEMMA LifecycleKept == LifecycleInv /\ [LifecycleNext]_lifecycleVars => LifecycleInv'
<1> SUFFICES ASSUME LifecycleInv, [LifecycleNext]_lifecycleVars PROVE LifecycleInv'
  OBVIOUS
<1> USE LifecycleAssumption, TheStops DEF LifecycleInv, LifecycleTypeOK, Shutdown, CleanMeansStopped, Alive, Exit
<1>1. CASE PortBusy BY <1>1 DEF PortBusy
<1>2. CASE Listening BY <1>2 DEF Listening
<1>3. CASE ServicesStart BY <1>3 DEF ServicesStart
<1>4. CASE MeshStarts BY <1>4 DEF MeshStarts
<1>5. CASE MeshRetried BY <1>5 DEF MeshRetried
<1>6. CASE Signal BY <1>6 DEF Signal
<1>7. CASE StopThrows BY <1>7 DEF StopThrows
<1>8. CASE LifecycleTick BY <1>8 DEF LifecycleTick
<1>9. CASE GraceOver BY <1>9 DEF GraceOver
<1>10. CASE UpdateExits BY <1>10 DEF UpdateExits
<1>11. CASE \E i \in DOMAIN Stops : StopReturnsIn(i) BY <1>11, StopReturnsKeeps
<1>12. CASE UNCHANGED lifecycleVars BY <1>12 DEF lifecycleVars
<1> QED BY <1>1, <1>2, <1>3, <1>4, <1>5, <1>6, <1>7, <1>8, <1>9, <1>10, <1>11, <1>12 DEF LifecycleNext

(* The strengthened invariant holds in every behaviour of the process.          *)
LEMMA LifecycleAlways == LifecycleSpec => []LifecycleInv
<1> QED BY LifecycleStarts, LifecycleKept, PTL DEF LifecycleSpec

(* Whatever the signals and whichever stops hang or throw, the sequence of      *)
(* stops runs at most once, and a process that ended with 0 in the middle of a  *)
(* shutdown had finished it: the supervisor can trust the code.                 *)
THEOREM ExitCodeIsTrue == LifecycleSpec => []StopsTold
<1>1. LifecycleInv => StopsTold
  BY DEF LifecycleInv, Shutdown, StopsTold, StopsOnce
<1> QED BY <1>1, LifecycleAlways, PTL

-----------------------------------------------------------------------------
(* The jobs.  An execution under way is the last one begun, and its number is   *)
(* the one stop() would wait for.                                               *)
RunsCounted == \A j \in Jobs : /\ ended[j] <= begun[j] /\ begun[j] <= ended[j] + 1
                           /\ inFlight[j] <= begun[j]

SchedulerInv == SchedulerTypeOK /\ RunsCounted /\ RunningIsInFlight /\ DisabledIsQuiet

(* Jobs that have their timers and never ran.                                   *)
LEMMA SchedulerStarts == SchedulerInit => SchedulerInv
  BY SchedulerAssumption
  DEF SchedulerInit, SchedulerInv, SchedulerTypeOK, RunsCounted, RunningIsInFlight, DisabledIsQuiet, Running, Runs

(* runTask begins an execution no other one overlaps, or does nothing.          *)
LEMMA RunTaskKeeps == ASSUME SchedulerInv, NEW j \in Jobs, RunTask(j), UNCHANGED ended
                      PROVE  /\ begun' \in [Jobs -> Runs] /\ inFlight' \in [Jobs -> Runs]
                             /\ RunsCounted' /\ RunningIsInFlight'
<1> USE SchedulerAssumption DEF SchedulerInv, SchedulerTypeOK, Runs
<1>1. CASE j \in enabled /\ ~Running(j)
  <2>1. /\ begun[j] < MaxRuns /\ begun' = [begun EXCEPT ![j] = @ + 1]
        /\ inFlight' = [inFlight EXCEPT ![j] = begun[j] + 1]
    BY <1>1 DEF RunTask
  <2>2. begun' \in [Jobs -> Runs] /\ inFlight' \in [Jobs -> Runs]
    BY <2>1
  <2>3. begun[j] = ended[j]
    BY <1>1 DEF RunsCounted, Running
  <2>4. RunsCounted'
    BY <2>1, <2>3 DEF RunsCounted
  <2>5. RunningIsInFlight'
    BY <2>1 DEF RunningIsInFlight, Running
  <2> QED BY <2>2, <2>4, <2>5
<1>2. CASE ~(j \in enabled /\ ~Running(j))
  <2>1. UNCHANGED <<begun, inFlight>>
    BY <1>2 DEF RunTask
  <2> QED BY <2>1 DEF RunsCounted, RunningIsInFlight, Running
<1> QED BY <1>1, <1>2

(* An execution ends, and its late clean-up touches no other execution.         *)
LEMMA EndKeeps == ASSUME SchedulerInv, NEW j \in Jobs, ExecutionEnds(j) \/ ClearInFlight(j)
                  PROVE  SchedulerInv'
<1> USE SchedulerAssumption DEF SchedulerInv, SchedulerTypeOK, Runs, DisabledIsQuiet
<1>1. CASE ExecutionEnds(j)
  <2>1. Running(j) /\ ended' = [ended EXCEPT ![j] = @ + 1]
        /\ UNCHANGED <<enabled, timer, startTimer, begun, inFlight, awaited, halt>>
    BY <1>1 DEF ExecutionEnds
  <2>2. begun[j] = ended[j] + 1
    BY <2>1 DEF RunsCounted, Running
  <2>3. ended' \in [Jobs -> Runs]
    BY <2>1, <2>2
  <2>4. RunsCounted'
    BY <2>1, <2>2 DEF RunsCounted
  <2>5. RunningIsInFlight'
    BY <2>1, <2>2 DEF RunningIsInFlight, Running
  <2> QED BY <2>1, <2>3, <2>4, <2>5
<1>2. CASE ClearInFlight(j)
  <2>1. inFlight[j] <= ended[j] /\ inFlight' = [inFlight EXCEPT ![j] = 0]
        /\ UNCHANGED <<enabled, timer, startTimer, begun, ended, awaited, halt>>
    BY <1>2 DEF ClearInFlight
  <2>2. ~Running(j)
    BY <2>1 DEF RunningIsInFlight, Running
  <2>3. inFlight' \in [Jobs -> Runs]
    BY <2>1
  <2>4. RunsCounted'
    BY <2>1 DEF RunsCounted
  <2>5. RunningIsInFlight'
    BY <2>1, <2>2 DEF RunningIsInFlight, Running
  <2> QED BY <2>1, <2>3, <2>4, <2>5
<1> QED BY <1>1, <1>2

(* stop() collects numbers of executions.                                       *)
LEMMA StopCollects == ASSUME SchedulerInv, Stop
                      PROVE  /\ SchedulerInv'
                             /\ \A j \in Jobs : Running(j) => <<j, begun[j]>> \in awaited'
<1> USE SchedulerAssumption DEF SchedulerInv, SchedulerTypeOK, Runs
<1>1. /\ halt' = "stopping" /\ timer' = {} /\ startTimer' = {}
      /\ awaited' = {<<j, inFlight[j]>> : j \in {i \in Jobs : inFlight[i] # 0}}
      /\ UNCHANGED <<enabled, begun, ended, inFlight>>
  BY DEF Stop
<1>2. awaited' \subseteq Jobs \X Runs
  BY <1>1
<1>3. SchedulerInv'
  BY <1>1, <1>2 DEF RunsCounted, RunningIsInFlight, Running, DisabledIsQuiet
<1>4. ASSUME NEW j \in Jobs, Running(j) PROVE <<j, begun[j]>> \in awaited'
  <2>1. inFlight[j] = begun[j] /\ inFlight[j] # 0
    BY <1>4 DEF RunningIsInFlight, Running
  <2> QED BY <1>1, <2>1
<1> QED BY <1>3, <1>4

(* No step breaks the invariant.                                                *)
LEMMA SchedulerKept == SchedulerInv /\ [SchedulerNext]_schedulerVars => SchedulerInv'
<1> SUFFICES ASSUME SchedulerInv, [SchedulerNext]_schedulerVars PROVE SchedulerInv'
  OBVIOUS
<1>1. ASSUME NEW j \in Jobs, StartFires(j) \/ IntervalFires(j) \/ RunNow(j)
      PROVE  SchedulerInv'
  <2>1. RunTask(j) /\ UNCHANGED <<enabled, timer, ended, awaited, halt>>
        /\ (startTimer' = startTimer \/ startTimer' = startTimer \ {j})
    BY <1>1 DEF StartFires, IntervalFires, RunNow
  <2>2. begun' \in [Jobs -> Runs] /\ inFlight' \in [Jobs -> Runs] /\ RunsCounted' /\ RunningIsInFlight'
    BY <2>1, RunTaskKeeps
  <2> QED BY <2>1, <2>2 DEF SchedulerInv, SchedulerTypeOK, DisabledIsQuiet, Runs
<1>2. ASSUME NEW j \in Jobs, Disable(j) \/ Enable(j)
      PROVE  SchedulerInv'
  <2>1. UNCHANGED <<begun, ended, inFlight, awaited, halt>>
    BY <1>2 DEF Disable, Enable
  <2>2. /\ enabled' \subseteq Jobs /\ timer' \subseteq Jobs /\ startTimer' \subseteq Jobs
        /\ DisabledIsQuiet'
    BY <1>2 DEF Disable, Enable, SchedulerInv, SchedulerTypeOK, DisabledIsQuiet
  <2> QED BY <2>1, <2>2 DEF SchedulerInv, SchedulerTypeOK, RunsCounted, RunningIsInFlight, Running, Runs
<1>3. CASE StopResolves
  BY <1>3 DEF StopResolves, SchedulerInv, SchedulerTypeOK, RunsCounted, RunningIsInFlight, Running, DisabledIsQuiet, Runs
<1>4. CASE UNCHANGED schedulerVars
  BY <1>4 DEF schedulerVars, SchedulerInv, SchedulerTypeOK, RunsCounted, RunningIsInFlight, Running, DisabledIsQuiet, Runs
<1> QED BY <1>1, <1>2, <1>3, <1>4, EndKeeps, StopCollects DEF SchedulerNext

(* Every execution is accounted for: the one under way is the one a stop()      *)
(* waits for, whatever late clean-ups, runNow() and setEnabled() do around it,  *)
(* and a job that was disabled leaves no timer behind.                          *)
THEOREM ExecutionsAreAccounted == SchedulerSpec => JobsAccounted
<1>1. SchedulerSpec => []SchedulerInv
  BY SchedulerStarts, SchedulerKept, PTL DEF SchedulerSpec
<1>2. SchedulerInv => RunningIsInFlight /\ DisabledIsQuiet
  BY DEF SchedulerInv
<1>3. SchedulerInv /\ [SchedulerNext]_schedulerVars
        => [Stop => \A j \in Jobs : Running(j) => <<j, begun[j]>> \in awaited']_schedulerVars
  BY StopCollects
<1> QED BY <1>1, <1>2, <1>3, PTL DEF SchedulerSpec, JobsAccounted, StopWaitsForRuns

-----------------------------------------------------------------------------
(* The phones.                                                                  *)
MobileInv == MobileTypeOK /\ ActiveIsWatched

(* No session, nothing active.                                                  *)
LEMMA MobileStarts == MobileInit => MobileInv
  BY MobileAssumption DEF MobileInit, MobileInv, MobileTypeOK, ActiveIsWatched, IsActive, Sessions

(* A session is made together with its interval.                                *)
LEMMA SessionMadeKeeps == ASSUME MobileInv, NEW u \in Users, SessionMade(u) PROVE MobileInv'
<1> USE MobileAssumption DEF MobileInv, MobileTypeOK, Sessions
<1> DEFINE s == made[u] + 1
<1>1. s \in Sessions
  BY DEF SessionMade
<1>2. MobileTypeOK'
  BY <1>1 DEF SessionMade
<1>3. ActiveIsWatched'
  BY <1>1 DEF SessionMade, ActiveIsWatched, IsActive
<1> QED BY <1>2, <1>3

(* The intervals that are cleared watch nothing active any more.                *)
LEMMA DeactivateKeeps == ASSUME MobileInv, NEW u \in Users, Deactivate(u), UNCHANGED <<session, heard, activating, made>>
                         PROVE  MobileInv'
<1>1. MobileTypeOK'
  BY MobileAssumption DEF MobileInv, MobileTypeOK, Deactivate, Sessions
<1>2. ActiveIsWatched'
  BY DEF MobileInv, MobileTypeOK, Deactivate, Sessions, ActiveIsWatched, IsActive
<1> QED BY <1>1, <1>2 DEF MobileInv

(* No step breaks the invariant.                                                *)
LEMMA MobileKept == MobileInv /\ [MobileNext]_mobileVars => MobileInv'
<1> SUFFICES ASSUME MobileInv, [MobileNext]_mobileVars PROVE MobileInv'
  OBVIOUS
<1>1. ASSUME NEW u \in Users, Activate(u) \/ PhoneBeats(u) \/ PhoneSilent(u)
      PROVE  MobileInv'
  <2>1. MobileTypeOK'
    <3>1. CASE Activate(u)
      BY <3>1, MobileAssumption DEF Activate, MobileInv, MobileTypeOK
    <3>2. CASE PhoneBeats(u) \/ PhoneSilent(u)
      <4>1. heard' \in [Users -> BOOLEAN]
        BY <3>2 DEF PhoneBeats, PhoneSilent, MobileInv, MobileTypeOK
      <4>2. UNCHANGED <<session, live, watchers, watcher, activating, made>>
        BY <3>2 DEF PhoneBeats, PhoneSilent
      <4> QED BY <4>1, <4>2 DEF MobileInv, MobileTypeOK
    <3> QED BY <1>1, <3>1, <3>2
  <2>2. UNCHANGED <<session, live, watchers>>
    BY <1>1 DEF Activate, PhoneBeats, PhoneSilent
  <2> QED BY <2>1, <2>2 DEF MobileInv, ActiveIsWatched, IsActive
<1>2. ASSUME NEW u \in Users, NEW w \in watchers[u], WatcherFires(u, w)
      PROVE  MobileInv'
  <2>1. CASE IsActive(u) /\ ~heard[u] /\ Deactivate(u)
    BY <1>2, <2>1, DeactivateKeeps DEF WatcherFires
  <2>2. CASE ~IsActive(u) /\ watchers' = [watchers EXCEPT ![u] = @ \ {w}] /\ UNCHANGED <<live, watcher>>
    <3>1. UNCHANGED <<session, heard, activating, made>>
      BY <1>2 DEF WatcherFires
    <3>2. MobileTypeOK'
      BY <2>2, <3>1 DEF MobileInv, MobileTypeOK
    <3>3. ActiveIsWatched'
      BY <2>2, <3>1 DEF MobileInv, MobileTypeOK, ActiveIsWatched, IsActive
    <3> QED BY <3>2, <3>3 DEF MobileInv
  <2> QED BY <1>2, <2>1, <2>2 DEF WatcherFires
<1>3. ASSUME NEW u \in Users, StopNode(u) PROVE MobileInv'
  BY <1>3, DeactivateKeeps DEF StopNode
<1>4. CASE UNCHANGED mobileVars
  BY <1>4 DEF mobileVars, MobileInv, MobileTypeOK, ActiveIsWatched, IsActive
<1> QED BY <1>1, <1>2, <1>3, <1>4, SessionMadeKeeps DEF MobileNext

(* However activations, stops and the intervals of older sessions overlap, a    *)
(* session that counts as active has an interval that will look at it.          *)
THEOREM ActivePhonesAreWatched == MobileSpec => []ActiveIsWatched
<1>1. MobileInv => ActiveIsWatched
  BY DEF MobileInv
<1> QED BY <1>1, MobileStarts, MobileKept, PTL DEF MobileSpec

-----------------------------------------------------------------------------
(* The update.  Which of sources, packages and dist/ belong together where.     *)
Consistent ==
    /\ step = "compile" => deps = head
    /\ step = "restart" => deps = head /\ dist = head
    /\ step = "reinstall" => head = previous
    /\ step = "recompile" => head = previous /\ deps = head
    /\ step = "none" /\ kills = 0 => deps = head /\ dist = head

UpdateInv == UpdateTypeOK /\ Consistent

LEMMA UpdateStarts == UpdateInit => UpdateInv
  BY UpdateAssumption DEF UpdateInit, UpdateInv, UpdateTypeOK, Consistent, Commits, Callers, Steps

(* The forward steps.                                                           *)
LEMMA ForwardKeeps ==
    ASSUME UpdateInv, Push \/ (\E c \in Callers : BeginUpdate(c)) \/ Install \/ Compile PROVE UpdateInv'
<1> USE UpdateAssumption DEF UpdateInv, UpdateTypeOK, Consistent, Steps
<1>1. CASE Push
  BY <1>1 DEF Push, Commits
<1>2. CASE \E c \in Callers : BeginUpdate(c)
  BY <1>2 DEF BeginUpdate
<1>3. CASE Install
  BY <1>3 DEF Install
<1>4. CASE Compile
  BY <1>4 DEF Compile, CompileTo
<1> QED BY <1>1, <1>2, <1>3, <1>4

(* The way back, and what interrupts either.                                    *)
LEMMA BackwardKeeps ==
    ASSUME UpdateInv, Undo \/ Reinstall \/ Recompile \/ RollbackFails \/ ExitForUpdate \/ Killed \/ Restart \/ CrashAtStart
    PROVE  UpdateInv'
<1> USE UpdateAssumption DEF UpdateInv, UpdateTypeOK, Consistent, Steps
<1>1. CASE Undo BY <1>1 DEF Undo
<1>2. CASE Reinstall BY <1>2 DEF Reinstall
<1>3. CASE Recompile BY <1>3 DEF Recompile
<1>4. CASE RollbackFails BY <1>4 DEF RollbackFails
<1>5. CASE ExitForUpdate BY <1>5 DEF ExitForUpdate
<1>6. CASE Killed BY <1>6 DEF Killed
<1>7. CASE Restart BY <1>7 DEF Restart
<1>8. CASE CrashAtStart BY <1>8 DEF CrashAtStart
<1> QED BY <1>1, <1>2, <1>3, <1>4, <1>5, <1>6, <1>7, <1>8

LEMMA UpdateKept == UpdateInv /\ [UpdateNext]_updateVars => UpdateInv'
<1> SUFFICES ASSUME UpdateInv, [UpdateNext]_updateVars PROVE UpdateInv'
  OBVIOUS
<1>1. CASE UNCHANGED updateVars
  BY <1>1 DEF updateVars, UpdateInv, UpdateTypeOK, Consistent
<1> QED BY <1>1, ForwardKeeps, BackwardKeeps DEF UpdateNext

(* A rollback that nothing interrupted ends where the update began.             *)
LEMMA RollbackIsComplete ==
    ASSUME UpdateInv, UpdateNext, step = "recompile", step' = "none", kills' = kills
    PROVE  head' = previous /\ deps' = previous /\ dist' = previous
<1>1. kills \in Nat
  BY UpdateAssumption DEF UpdateInv, UpdateTypeOK
<1>2. Recompile
  BY <1>1 DEF UpdateNext, Push, BeginUpdate, Install, Compile, CompileTo, Undo, Reinstall, RollbackFails,
              ExitForUpdate, Killed, Restart, CrashAtStart
<1> QED BY <1>2 DEF Recompile, UpdateInv, Consistent

(* The node never restarts into a half-built one: for every number of commits,  *)
(* whichever of them fail to build or to start, and kills at every step.        *)
THEOREM BuildsAreKept == UpdateSpec => UpdateKeepsBuild
<1>1. UpdateInv /\ UpdateInv' /\ [UpdateNext]_updateVars
        => [/\ ExitForUpdate => head = deps /\ head = dist
            /\ step = "recompile" /\ step' = "none" /\ kills' = kills =>
                   head' = previous /\ deps' = previous /\ dist' = previous
            /\ step' = "none" /\ kills' = 0 => head' = deps' /\ head' = dist']_updateVars
  <2> SUFFICES ASSUME UpdateInv, UpdateInv', UpdateNext
               PROVE  /\ ExitForUpdate => head = deps /\ head = dist
                      /\ step = "recompile" /\ step' = "none" /\ kills' = kills =>
                             head' = previous /\ deps' = previous /\ dist' = previous
                      /\ step' = "none" /\ kills' = 0 => head' = deps' /\ head' = dist'
    OBVIOUS
  <2>1. ExitForUpdate => head = deps /\ head = dist
    BY DEF ExitForUpdate, UpdateInv, Consistent
  <2>2. step' = "none" /\ kills' = 0 => head' = deps' /\ head' = dist'
    BY DEF UpdateInv, Consistent
  <2> QED BY <2>1, <2>2, RollbackIsComplete
<1> QED BY <1>1, UpdateStarts, UpdateKept, PTL DEF UpdateSpec, UpdateKeepsBuild

-----------------------------------------------------------------------------
(* The operator.  Once a first PIN was set its file is never absent again, a    *)
(* process that is down has no sessions, and a code that was redeemed is gone.  *)
GateKept == /\ setups >= 1 => hashFile # NoPin
            /\ \A p \in GateProcesses : /\ ~gate[p].up => opened[p] = {}
                                        /\ gate[p].redeemed >= 1 => gate[p].codeUntil = -1

GateInv == GateTypeOK /\ OperatorOnly /\ GateKept

(* What is written over a PIN's file is a PIN, or nothing but the file is left. *)
LEMMA OverwrittenIsThere ==
    ASSUME GateInv, NEW pin \in Pins, Overwritten(pin)
    PROVE  /\ hashFile' \in Pins \cup {NoPin, Emptied}
           /\ hashFile # NoPin => hashFile' # NoPin
  BY GateAssumption DEF GateInv, GateTypeOK, Overwritten, NoPin, Emptied

(* A session made now is a current one, and so are those that are kept.         *)
LEMMA SignedIn ==
    ASSUME GateInv, NEW p \in GateProcesses, SignIn(p, gate[p].era), minutes' = minutes,
           \A q \in GateProcesses : gate'[q].era = gate[q].era
    PROVE  /\ opened' \in [GateProcesses -> SUBSET SessionRecord] /\ SessionsAreCurrent'
           /\ \A q \in GateProcesses : q # p => opened'[q] = opened[q]
<1> USE GateAssumption DEF GateInv, GateTypeOK, OperatorOnly, SignIn
<1>1. [until |-> minutes + SessionTtl, era |-> gate[p].era] \in SessionRecord
  BY DEF SessionRecord
<1>2. opened' \in [GateProcesses -> SUBSET SessionRecord]
  BY <1>1
<1>3. \A q \in GateProcesses : q # p => opened'[q] = opened[q]
  OBVIOUS
<1>4. ASSUME NEW q \in GateProcesses, NEW s \in opened'[q]
      PROVE  s.era = gate'[q].era /\ s.until <= minutes' + SessionTtl
  <2>1. CASE s \in opened[q]
    BY <2>1 DEF SessionsAreCurrent
  <2>2. CASE s \notin opened[q]
    BY <1>3, <2>2
  <2> QED BY <2>1, <2>2
<1> QED BY <1>2, <1>3, <1>4 DEF SessionsAreCurrent

LEMMA GateStarts == GateInit => GateInv
<1> SUFFICES ASSUME GateInit PROVE GateInv
  OBVIOUS
<1>1. GateTypeOK
  BY GateAssumption DEF GateInit, GateTypeOK, Off, NoPin
<1>2. OperatorOnly /\ GateKept
  BY DEF GateInit, OperatorOnly, SessionsAreCurrent, GateKept, Off
<1> QED BY <1>1, <1>2 DEF GateInv

(* What a process holds in memory.                                              *)
Closure == [up : BOOLEAN, pin : Pins \cup {NoPin}, armed : BOOLEAN,
            codeUntil : -1..MaxMinutes + CodeTtl, era : 0..MaxPinChanges, redeemed : 0..2]

(* A process starts with the PIN of a file, or stops.                           *)
LEMMA StartOrStopKeeps == ASSUME GateInv, NEW p \in GateProcesses, StartGate(p) \/ StopGate(p) PROVE GateInv'
<1> USE GateAssumption DEF GateInv, GateTypeOK, OperatorOnly, GateKept
<1>1. Off \in Closure
  BY DEF Off, Closure, NoPin
<1>2. gate \in [GateProcesses -> Closure]
  BY DEF Closure
<1>3. CASE StartGate(p)
  <2> DEFINE found == IF plainFile # NoPin THEN plainFile ELSE IF hashFile = Emptied THEN NoPin ELSE hashFile
             new == [Off EXCEPT !.up = TRUE, !.pin = found, !.armed = Armed(found)]
  <2>1. /\ ~gate[p].up /\ gate' = [gate EXCEPT ![p] = new]
        /\ UNCHANGED <<opened, minutes, setups>>
    BY <1>3 DEF StartGate
  <2>2. found \in Pins \cup {NoPin} /\ Armed(found) \in BOOLEAN
    BY DEF Armed
  <2>3. new \in Closure /\ new.up /\ new.redeemed = 0
    BY <1>1, <2>2 DEF Off, Closure
  <2>4. /\ hashFile' \in Pins \cup {NoPin, Emptied} /\ (hashFile # NoPin => hashFile' # NoPin)
        /\ plainFile' \in Pins \cup {NoPin}
    <3>1. CASE plainFile = NoPin
      BY <1>3, <3>1 DEF StartGate
    <3>2. CASE plainFile # NoPin
      <4>1. plainFile \in Pins /\ Overwritten(plainFile) /\ plainFile' \in {plainFile, NoPin}
        BY <1>3, <3>2 DEF StartGate
      <4> QED BY <4>1, OverwrittenIsThere
    <3> QED BY <3>1, <3>2
  <2>5. gate' \in [GateProcesses -> Closure]
    BY <1>2, <2>1, <2>3
  <2>6. GateTypeOK'
    BY <2>1, <2>4, <2>5 DEF Closure
  <2>7. OperatorOnly'
    BY <1>2, <2>1, <2>3 DEF SessionsAreCurrent
  <2>8. GateKept'
    BY <1>2, <2>1, <2>3, <2>4
  <2> QED BY <2>6, <2>7, <2>8
<1>4. CASE StopGate(p)
  <2>1. /\ gate' = [gate EXCEPT ![p] = Off] /\ opened' = [opened EXCEPT ![p] = {}]
        /\ UNCHANGED <<hashFile, plainFile, minutes, setups>>
    BY <1>4 DEF StopGate
  <2>2. GateTypeOK'
    BY <1>1, <1>2, <2>1 DEF Closure
  <2>3. OperatorOnly'
    BY <2>1 DEF SessionsAreCurrent, Off
  <2>4. GateKept'
    BY <2>1 DEF Off
  <2> QED BY <2>2, <2>3, <2>4
<1> QED BY <1>3, <1>4

(* The first PIN: only over a file that is not there.                           *)
LEMMA FirstPinKeeps == ASSUME GateInv, NEW p \in GateProcesses, NEW pin \in Pins, FirstPin(p, pin) PROVE GateInv'
<1> USE GateAssumption DEF GateInv, GateTypeOK, OperatorOnly, GateKept
<1>1. gate[p].up /\ hashFile = NoPin /\ setups = 0 /\ UNCHANGED <<plainFile, minutes>>
  BY DEF FirstPin
<1>2. CASE /\ hashFile' = pin /\ gate' = [gate EXCEPT ![p].pin = pin]
           /\ setups' = setups + 1 /\ SignIn(p, gate[p].era)
  <2>1. hashFile' \in Pins /\ hashFile' # NoPin /\ setups' = 1
    BY <1>1, <1>2
  <2>2. /\ gate' \in [GateProcesses -> Closure]
        /\ \A q \in GateProcesses : /\ gate'[q].era = gate[q].era /\ gate'[q].up = gate[q].up
                                    /\ gate'[q].redeemed = gate[q].redeemed /\ gate'[q].codeUntil = gate[q].codeUntil
    BY <1>2 DEF Closure
  <2>3. /\ opened' \in [GateProcesses -> SUBSET SessionRecord] /\ SessionsAreCurrent'
        /\ \A q \in GateProcesses : q # p => opened'[q] = opened[q]
    BY <1>1, <1>2, <2>2, SignedIn
  <2>4. GateTypeOK'
    BY <1>1, <2>1, <2>2, <2>3 DEF Closure
  <2>5. OperatorOnly' /\ GateKept'
    BY <1>1, <2>1, <2>2, <2>3
  <2> QED BY <2>4, <2>5
<1>3. CASE hashFile' = Emptied /\ UNCHANGED <<gate, setups, opened>>
  BY <1>1, <1>3 DEF SessionsAreCurrent
<1> QED BY <1>2, <1>3 DEF FirstPin

(* A login opens a session, and may write the file of the PIN anew.             *)
LEMMA LogInKeeps == ASSUME GateInv, NEW p \in GateProcesses, LogIn(p) PROVE GateInv'
<1> USE GateAssumption DEF GateInv, GateTypeOK, OperatorOnly, GateKept
<1>1. gate[p].up /\ gate[p].pin \in Pins /\ UNCHANGED <<plainFile, gate, minutes, setups>>
  BY DEF LogIn
<1>2. hashFile' \in Pins \cup {NoPin, Emptied} /\ (hashFile # NoPin => hashFile' # NoPin)
  BY <1>1, OverwrittenIsThere DEF LogIn
<1>3. CASE SignIn(p, gate[p].era)
  <2>1. /\ opened' \in [GateProcesses -> SUBSET SessionRecord] /\ SessionsAreCurrent'
        /\ \A q \in GateProcesses : q # p => opened'[q] = opened[q]
    BY <1>1, <1>3, SignedIn
  <2> QED BY <1>1, <1>2, <2>1
<1>4. CASE UNCHANGED opened
  BY <1>1, <1>2, <1>4 DEF SessionsAreCurrent
<1> QED BY <1>3, <1>4 DEF LogIn

(* A change of the PIN leaves one session, of the new era.                      *)
LEMMA ChangePinKeeps == ASSUME GateInv, NEW p \in GateProcesses, NEW pin \in Pins, ChangePin(p, pin) PROVE GateInv'
<1> USE GateAssumption DEF GateInv, GateTypeOK, OperatorOnly, GateKept
<1> DEFINE s == [until |-> minutes + SessionTtl, era |-> gate[p].era + 1]
<1>1. /\ gate[p].up /\ gate[p].era < MaxPinChanges
      /\ gate' = [gate EXCEPT ![p].pin = pin, ![p].era = @ + 1]
      /\ opened' = [opened EXCEPT ![p] = {s}] /\ Overwritten(pin)
      /\ UNCHANGED <<plainFile, minutes, setups>>
  BY DEF ChangePin
<1>2. hashFile' \in Pins \cup {NoPin, Emptied} /\ (hashFile # NoPin => hashFile' # NoPin)
  BY <1>1, OverwrittenIsThere
<1>3. s \in SessionRecord
  BY <1>1 DEF SessionRecord
<1>4. /\ gate' \in [GateProcesses -> Closure]
      /\ gate'[p].era = gate[p].era + 1
      /\ \A q \in GateProcesses : /\ (q # p => gate'[q].era = gate[q].era) /\ gate'[q].up = gate[q].up
                                  /\ gate'[q].redeemed = gate[q].redeemed /\ gate'[q].codeUntil = gate[q].codeUntil
  BY <1>1 DEF Closure
<1>5. GateTypeOK'
  BY <1>1, <1>2, <1>3, <1>4 DEF Closure
<1>6. SessionsAreCurrent'
  BY <1>1, <1>4 DEF SessionsAreCurrent
<1>7. OperatorOnly' /\ GateKept'
  BY <1>1, <1>2, <1>4, <1>6
<1> QED BY <1>5, <1>7

(* A reset code is sent, and redeemed once.                                     *)
LEMMA ResetKeeps == ASSUME GateInv, NEW p \in GateProcesses, RequestReset(p) \/ \E pin \in Pins : ConfirmReset(p, pin)
                    PROVE  GateInv'
<1> USE GateAssumption DEF GateInv, GateTypeOK, OperatorOnly, GateKept
<1>1. CASE RequestReset(p)
  <2>1. /\ gate[p].up /\ gate' = [gate EXCEPT ![p].codeUntil = minutes + CodeTtl, ![p].redeemed = 0]
        /\ UNCHANGED <<hashFile, plainFile, opened, minutes, setups>>
    BY <1>1 DEF RequestReset
  <2>2. gate' \in [GateProcesses -> Closure] /\ gate'[p].redeemed = 0
        /\ \A q \in GateProcesses : /\ gate'[q].era = gate[q].era /\ gate'[q].up = gate[q].up
                                    /\ q # p => gate'[q] = gate[q]
    <3>1. minutes + CodeTtl \in -1..MaxMinutes + CodeTtl /\ 0 \in 0..2
      OBVIOUS
    <3>2. gate[p] \in Closure
      BY DEF Closure
    <3>3. [gate[p] EXCEPT !.codeUntil = minutes + CodeTtl, !.redeemed = 0] \in Closure
      BY <3>1, <3>2 DEF Closure
    <3>4. gate' = [gate EXCEPT ![p] = [gate[p] EXCEPT !.codeUntil = minutes + CodeTtl, !.redeemed = 0]]
      BY <2>1
    <3>5. gate' \in [GateProcesses -> Closure]
      BY <3>3, <3>4 DEF Closure
    <3> QED BY <2>1, <3>2, <3>4, <3>5 DEF Closure
  <2>3. GateTypeOK'
    BY <2>1, <2>2 DEF Closure
  <2>4. OperatorOnly' /\ GateKept'
    BY <2>1, <2>2 DEF SessionsAreCurrent
  <2> QED BY <2>3, <2>4
<1>2. ASSUME NEW pin \in Pins, ConfirmReset(p, pin) PROVE GateInv'
  <2>1. /\ gate[p].up /\ minutes <= gate[p].codeUntil
        /\ gate' = [gate EXCEPT ![p].pin = pin, ![p].codeUntil = -1, ![p].redeemed = @ + 1]
        /\ Overwritten(pin) /\ SignIn(p, gate[p].era)
        /\ UNCHANGED <<plainFile, minutes, setups>>
    BY <1>2 DEF ConfirmReset
  <2>2. hashFile' \in Pins \cup {NoPin, Emptied} /\ (hashFile # NoPin => hashFile' # NoPin)
    BY <2>1, OverwrittenIsThere
  <2>3. gate[p].redeemed = 0
    BY <2>1
  <2>4. gate' \in [GateProcesses -> Closure] /\ gate'[p].redeemed = 1 /\ gate'[p].codeUntil = -1
        /\ \A q \in GateProcesses : /\ gate'[q].era = gate[q].era /\ gate'[q].up = gate[q].up
                                    /\ q # p => gate'[q] = gate[q]
    BY <2>1, <2>3 DEF Closure
  <2>5. /\ opened' \in [GateProcesses -> SUBSET SessionRecord] /\ SessionsAreCurrent'
        /\ \A q \in GateProcesses : q # p => opened'[q] = opened[q]
    BY <2>1, <2>4, SignedIn
  <2>6. GateTypeOK'
    BY <2>1, <2>2, <2>4, <2>5 DEF Closure
  <2>7. OperatorOnly' /\ GateKept'
    BY <2>1, <2>2, <2>4, <2>5
  <2> QED BY <2>6, <2>7
<1> QED BY <1>1, <1>2

LEMMA GateIsKept == GateInv /\ [GateNext]_gateVars => GateInv'
<1> SUFFICES ASSUME GateInv, [GateNext]_gateVars PROVE GateInv'
  OBVIOUS
<1>1. CASE MinutePasses
  BY <1>1, GateAssumption DEF MinutePasses, GateInv, GateTypeOK, OperatorOnly, GateKept, SessionsAreCurrent, SessionRecord
<1>2. ASSUME NEW p \in GateProcesses, NEW s \in opened[p], ShowSession(p, s) PROVE GateInv'
  BY <1>2 DEF ShowSession, GateInv, GateTypeOK, OperatorOnly, GateKept, SessionsAreCurrent
<1>3. CASE UNCHANGED gateVars
  BY <1>3 DEF gateVars, GateInv, GateTypeOK, OperatorOnly, GateKept, SessionsAreCurrent
<1> QED BY <1>1, <1>2, <1>3, StartOrStopKeeps, FirstPinKeeps, LogInKeeps, ChangePinKeeps, ResetKeeps DEF GateNext

(* Whatever writes fail, whenever processes start and stop over the same files: *)
(* the setup token names one first PIN, a reset code changes the PIN once, and  *)
(* no session outlives its day or a change of the PIN.                          *)
THEOREM OnlyTheOperator == GateInit /\ [][GateNext]_gateVars => []OperatorOnly
<1>1. GateInv => OperatorOnly
  BY DEF GateInv
<1> QED BY <1>1, GateStarts, GateIsKept, PTL

-----------------------------------------------------------------------------
(* The failure windows of the login, for every set of clients and every value   *)
(* of the bounds.                                                               *)
\* An entry that is not stale and does not block is short of the limit: this is
\* what keeps record() from counting past MaxFailures.
Short == \A c \in DOMAIN attempts :
            attempts[c].lockedUntil = 0 => attempts[c].count < MaxFailures

Inv == TypeOK /\ Short

LEMMA InitInv == Init => Inv
  BY DEF Init, Inv, TypeOK, Short

\* Whatever check() deletes, what it keeps is unchanged.
LEMMA CheckedKeeps ==
  ASSUME NEW c \in Clients, TypeOK
  PROVE  /\ DOMAIN Checked(c) \subseteq DOMAIN attempts
         /\ \A d \in DOMAIN Checked(c) : Checked(c)[d] = attempts[d]
         /\ Checked(c) \in [DOMAIN Checked(c) -> Attempt]
         /\ \A d \in DOMAIN attempts : ~Stale(attempts[d]) => d \in DOMAIN Checked(c)
         /\ c \in DOMAIN Checked(c) => ~Stale(Checked(c)[c])
  <1> DEFINE own == Without(attempts, StaleIn(attempts, {c}))
  <1>1. /\ DOMAIN own \subseteq DOMAIN attempts
        /\ \A d \in DOMAIN own : own[d] = attempts[d]
        /\ \A d \in DOMAIN attempts : ~Stale(attempts[d]) => d \in DOMAIN own
        /\ c \in DOMAIN own => ~Stale(own[c])
    BY DEF Without, StaleIn
  <1> DEFINE fresh == Without(own, StaleIn(own, DOMAIN own))
  <1>2. /\ DOMAIN fresh \subseteq DOMAIN own
        /\ \A d \in DOMAIN fresh : fresh[d] = own[d]
        /\ \A d \in DOMAIN own : ~Stale(own[d]) => d \in DOMAIN fresh
    BY DEF Without, StaleIn
  <1>3. /\ own = [d \in DOMAIN own |-> own[d]]
        /\ fresh = [d \in DOMAIN fresh |-> fresh[d]]
    BY DEF Without
  <1>4. Checked(c) = own \/ Checked(c) = fresh
    BY DEF Checked
  <1> HIDE DEF own, fresh
  <1>5. CASE Checked(c) = own
    BY <1>1, <1>3, <1>5 DEF TypeOK
  <1>6. CASE Checked(c) = fresh
    BY <1>1, <1>2, <1>3, <1>6 DEF TypeOK
  <1> QED BY <1>4, <1>5, <1>6

LEMMA NextInv == Inv /\ [Next]_vars => Inv'
  <1> SUFFICES ASSUME Inv, [Next]_vars PROVE Inv'
    OBVIOUS
  <1> USE LimiterAssumption DEF LimiterAssumption
  <1>1. ASSUME NEW c \in Clients, Refused(c) PROVE Inv'
    BY <1>1, CheckedKeeps DEF Inv, TypeOK, Short, Refused
  <1>2. ASSUME NEW c \in Clients, CorrectPin(c) PROVE Inv'
    <2>1. attempts' = [d \in DOMAIN Checked(c) \ {c} |-> Checked(c)[d]]
      BY <1>2 DEF CorrectPin, Without
    <2> DEFINE table == Checked(c)
    <2>2. /\ DOMAIN table \subseteq DOMAIN attempts
          /\ \A d \in DOMAIN table : table[d] = attempts[d] /\ table[d] \in Attempt
      BY CheckedKeeps DEF Inv
    <2>3. failed' = [failed EXCEPT ![c] = << >>] /\ now' = now
      BY <1>2 DEF CorrectPin
    <2> HIDE DEF table
    <2>4. /\ DOMAIN attempts' = DOMAIN table \ {c}
          /\ \A d \in DOMAIN attempts' : attempts'[d] = attempts[d] /\ attempts'[d] \in Attempt
          /\ attempts' \in [DOMAIN attempts' -> Attempt]
      BY <2>1, <2>2 DEF table
    <2>5. Short'
      BY <2>2, <2>4 DEF Short, Inv
    <2>6. failed' \in [Clients -> Seq(Nat)] /\ now' \in Nat
      BY <2>3 DEF Inv, TypeOK
    <2> QED BY <2>2, <2>4, <2>5, <2>6 DEF Inv, TypeOK
  <1>3. ASSUME NEW c \in Clients, WrongPin(c) PROVE Inv'
    <2> DEFINE table == Checked(c)
    <2>1. /\ attempts' = [d \in DOMAIN table \cup {c} |->
                             IF d = c THEN Failure(table, c) ELSE table[d]]
          /\ failed' = [failed EXCEPT ![c] = Append(@, now)]
          /\ now' = now
          /\ Allowed(c)
      BY <1>3 DEF WrongPin
    <2>2. /\ DOMAIN table \subseteq DOMAIN attempts
          /\ \A d \in DOMAIN table : table[d] = attempts[d]
          /\ table \in [DOMAIN table -> Attempt]
          /\ c \in DOMAIN table => ~Stale(table[c])
      BY CheckedKeeps DEF Inv
    <2>3. c \in DOMAIN table => table[c].lockedUntil = 0 /\ table[c].count < MaxFailures
      BY <2>1, <2>2 DEF Allowed, Stale, Inv, TypeOK, Short, Attempt
    <2> DEFINE new == Failure(table, c)
    <2>4. new \in Attempt /\ (new.lockedUntil = 0 => new.count < MaxFailures)
      <3>1. CASE c \in DOMAIN table
        <4>1. /\ table[c].count \in Nat /\ table[c].count + 1 \in 1 .. MaxFailures
              /\ table[c].firstFailureAt \in Nat /\ table[c].lockedUntil = 0
          BY <3>1, <2>2, <2>3 DEF Attempt
        <4>2. new = [count |-> table[c].count + 1,
                     firstFailureAt |-> table[c].firstFailureAt,
                     lockedUntil |-> IF table[c].count + 1 >= MaxFailures
                                     THEN now + Window ELSE table[c].lockedUntil]
          BY <3>1 DEF Failure
        <4>3. now \in Nat
          BY DEF Inv, TypeOK
        <4> HIDE DEF new, table
        <4> QED BY <4>1, <4>2, <4>3 DEF Attempt
      <3>2. CASE c \notin DOMAIN table
        <4>1. new = [count |-> 0 + 1, firstFailureAt |-> now,
                     lockedUntil |-> IF 0 + 1 >= MaxFailures THEN now + Window ELSE 0]
          BY <3>2 DEF Failure
        <4>2. now \in Nat
          BY DEF Inv, TypeOK
        <4> HIDE DEF new, table
        <4> QED BY <4>1, <4>2 DEF Attempt
      <3> QED BY <3>1, <3>2
    <2> HIDE DEF table, new
    <2>5. /\ DOMAIN attempts' = DOMAIN table \cup {c}
          /\ \A d \in DOMAIN attempts' : attempts'[d] = IF d = c THEN new ELSE table[d]
      BY <2>1 DEF new
    <2>6. (DOMAIN attempts \subseteq Clients)' /\ (attempts \in [DOMAIN attempts -> Attempt])'
      BY <2>1, <2>2, <2>4, <2>5 DEF Inv, TypeOK, new
    <2>7. Short'
      BY <2>2, <2>4, <2>5 DEF Short, Inv
    <2>8. failed' \in [Clients -> Seq(Nat)] /\ now' \in Nat
      BY <2>1 DEF Inv, TypeOK
    <2> QED BY <2>6, <2>7, <2>8 DEF Inv, TypeOK
  <1>4. CASE Tick
    BY <1>4 DEF Tick, Inv, TypeOK, Short
  <1>5. CASE UNCHANGED vars
    BY <1>5 DEF vars, Inv, TypeOK, Short
  <1> QED BY <1>1, <1>2, <1>3, <1>4, <1>5 DEF Next

\* The table holds well-formed attempts of known clients, whatever the order of
\* correct and wrong PINs and of the prunings they cause.
THEOREM TypeCorrect == Spec => []TypeOK
  <1>1. Inv => TypeOK
    BY DEF Inv
  <1> QED BY <1>1, InitInv, NextInv, PTL DEF Spec

LEMMA LockoutStep == Inv /\ [Next]_vars => LockoutStands
  <1> SUFFICES ASSUME Inv, [Next]_vars, NEW c \in Clients, Locked(c),
                      now' < attempts[c].lockedUntil
               PROVE  c \in DOMAIN attempts' /\ attempts'[c] = attempts[c]
    BY DEF LockoutStands
  <1>0. ~Stale(attempts[c])
    BY DEF Locked, Stale, Inv, TypeOK, Attempt
  <1> DEFINE StaysPut == c \in DOMAIN attempts' /\ attempts'[c] = attempts[c]
  <1>1. ASSUME NEW d \in Clients, Refused(d) PROVE StaysPut
    BY <1>0, <1>1, CheckedKeeps DEF Refused, Inv, Locked
  <1>2. ASSUME NEW d \in Clients, Allowed(d) PROVE c \in DOMAIN Checked(d) /\ d # c
    <2>1. c \in DOMAIN Checked(d) /\ Checked(d)[c] = attempts[c]
      BY <1>0, CheckedKeeps DEF Inv, Locked
    <2>2. ~(attempts[c].lockedUntil <= now)
      BY DEF Locked, Inv, TypeOK, Attempt
    <2> QED BY <1>2, <2>1, <2>2 DEF Allowed
  <1>3. ASSUME NEW d \in Clients, CorrectPin(d) PROVE StaysPut
    BY <1>2, <1>3, CheckedKeeps DEF CorrectPin, Without, Inv
  <1>4. ASSUME NEW d \in Clients, WrongPin(d) PROVE StaysPut
    BY <1>2, <1>4, CheckedKeeps DEF WrongPin, Inv
  <1>5. Tick \/ UNCHANGED vars => StaysPut
    BY DEF Tick, vars, Locked
  <1> QED BY <1>1, <1>3, <1>4, <1>5 DEF Next

\* No request, of this client or another, touches an entry whose lockout runs.
THEOREM LockoutIsKept == Spec => LockoutKept
  BY LockoutStep, InitInv, NextInv, PTL DEF Spec, LockoutKept
\* The failures of a history from a time on, and those in a stretch of time.
Since(s, t) == {i \in DOMAIN s : s[i] >= t}
Between(s, t, u) == {i \in DOMAIN s : s[i] >= t /\ s[i] < u}

\* A tracked client: its entry counts the failures since its window opened, one of
\* them at that very time, none after the window or the start of the lockout, and the
\* windows before left less than a budget in any stretch that reaches into this one.
Opened(s, a) ==
    /\ a.firstFailureAt <= now
    /\ Cardinality(Since(s, a.firstFailureAt)) = a.count
    /\ Cardinality(Since(s, a.firstFailureAt + 1)) < a.count
    /\ a.lockedUntil = 0 => a.count < MaxFailures
    /\ \A i \in DOMAIN s : IF a.lockedUntil = 0 THEN s[i] < a.firstFailureAt + Window
                           ELSE s[i] + Window <= a.lockedUntil
    /\ \A t \in Nat : a.firstFailureAt < t + Window =>
          Cardinality(Between(s, t, a.firstFailureAt)) <= MaxFailures - 2

\* One that is not tracked: its failures are past, and fewer than a budget of them are
\* less than a window old.
NoWindow(s) ==
    /\ \A i \in DOMAIN s : s[i] < now
    /\ \A t \in Nat : now < t + Window => Cardinality(Since(s, t)) <= MaxFailures - 2

Calm(s) == \A t \in Nat : Cardinality(Between(s, t, t + Window)) <= 2 * MaxFailures - 2

Remembered(table, c) == IF c \in DOMAIN table THEN Opened(failed[c], table[c]) ELSE NoWindow(failed[c])

LimitsInv ==
    /\ Inv
    /\ IsFiniteSet(DOMAIN attempts) /\ Cardinality(DOMAIN attempts) <= MaxTracked
    /\ \A c \in Clients : /\ \A i \in DOMAIN failed[c] : failed[c][i] <= now
                          /\ Remembered(attempts, c)
                          /\ Calm(failed[c])

-----------------------------------------------------------------------------
LEMMA FailuresAreCounted ==
  ASSUME NEW s \in Seq(Nat), NEW t, NEW u
  PROVE  /\ IsFiniteSet(Since(s, t)) /\ Cardinality(Since(s, t)) \in Nat
         /\ IsFiniteSet(Between(s, t, u)) /\ Cardinality(Between(s, t, u)) \in Nat
  <1>1. IsFiniteSet(1 .. Len(s))
    BY FS_Interval
  <1>2. Since(s, t) \in SUBSET (1 .. Len(s)) /\ Between(s, t, u) \in SUBSET (1 .. Len(s))
    BY DEF Since, Between
  <1>3. IsFiniteSet(Since(s, t)) /\ IsFiniteSet(Between(s, t, u))
    BY <1>1, <1>2, FS_Subset
  <1> QED BY <1>3, FS_CardinalityType

\* One more failure, now: it counts in every stretch that has begun, and in no past one.
LEMMA OneMoreFailure ==
  ASSUME NEW s \in Seq(Nat), NEW x \in Nat, NEW t \in Nat, NEW u \in Nat
  PROVE  /\ x >= t => Cardinality(Since(Append(s, x), t)) = Cardinality(Since(s, t)) + 1
         /\ x < t => Since(Append(s, x), t) = Since(s, t)
         /\ x >= u => Between(Append(s, x), t, u) = Between(s, t, u)
  <1>1. /\ DOMAIN Append(s, x) = DOMAIN s \cup {Len(s) + 1} /\ Len(s) + 1 \notin DOMAIN s
        /\ \A i \in DOMAIN s : Append(s, x)[i] = s[i] /\ s[i] \in Nat
        /\ Append(s, x)[Len(s) + 1] = x
    OBVIOUS
  <1>2. ASSUME x >= t PROVE Cardinality(Since(Append(s, x), t)) = Cardinality(Since(s, t)) + 1
    <2>1. Since(Append(s, x), t) = Since(s, t) \cup {Len(s) + 1} /\ Len(s) + 1 \notin Since(s, t)
      BY <1>1, <1>2 DEF Since
    <2> QED BY <2>1, FailuresAreCounted, FS_AddElement
  <1>3. x < t => Since(Append(s, x), t) = Since(s, t)
    BY <1>1 DEF Since
  <1>4. x >= u => Between(Append(s, x), t, u) = Between(s, t, u)
    BY <1>1 DEF Between
  <1> QED BY <1>2, <1>3, <1>4

\* Fewer hold in less time, and a stretch splits where a window opens.
LEMMA StretchSplits ==
  ASSUME NEW s \in Seq(Nat), NEW t \in Nat, NEW u \in Nat, NEW f \in Nat
  PROVE  /\ t <= f => Cardinality(Since(s, f)) <= Cardinality(Since(s, t))
         /\ Cardinality(Between(s, t, u)) <= Cardinality(Between(s, t, f)) + Cardinality(Since(s, f))
  <1>0. \A i \in DOMAIN s : s[i] \in Nat
    OBVIOUS
  <1>1. ASSUME t <= f PROVE Cardinality(Since(s, f)) <= Cardinality(Since(s, t))
    <2>1. Since(s, f) \in SUBSET Since(s, t)
      BY <1>0, <1>1 DEF Since
    <2> QED BY <2>1, FailuresAreCounted, FS_Subset
  <1>2. Cardinality(Between(s, t, u)) <= Cardinality(Between(s, t, f)) + Cardinality(Since(s, f))
    <2> DEFINE P == Between(s, t, f)
               Q == Since(s, f)
    <2>1. Between(s, t, u) \in SUBSET (P \cup Q)
      BY <1>0 DEF Between, Since
    <2>2. /\ IsFiniteSet(P) /\ IsFiniteSet(Q)
          /\ Cardinality(P) \in Nat /\ Cardinality(Q) \in Nat
          /\ Cardinality(Between(s, t, u)) \in Nat
      BY FailuresAreCounted
    <2> HIDE DEF P, Q
    <2>3. /\ IsFiniteSet(P \cup Q)
          /\ Cardinality(P \cup Q) = Cardinality(P) + Cardinality(Q) - Cardinality(P \cap Q)
      BY <2>2, FS_Union
    <2>4. Cardinality(P \cap Q) \in Nat
      <3>1. P \cap Q \in SUBSET P
        OBVIOUS
      <3>2. IsFiniteSet(P \cap Q)
        BY <2>2, <3>1, FS_Subset
      <3> QED BY <3>2, FS_CardinalityType
    <2>5. Cardinality(Between(s, t, u)) <= Cardinality(P \cup Q)
      BY <2>1, <2>3, FS_Subset
    <2>6. Cardinality(Between(s, t, u)) <= Cardinality(P) + Cardinality(Q)
      BY <2>2, <2>3, <2>4, <2>5
    <2> QED BY <2>6 DEF P, Q
  <1> QED BY <1>1, <1>2

\* An entry that is stale may be dropped: a window ended, and left less than a budget.
LEMMA StaleMayGo ==
  ASSUME NEW s \in Seq(Nat), NEW a \in Attempt, now \in Nat, Opened(s, a), Stale(a)
  PROVE  NoWindow(s)
  <1> USE LimiterAssumption DEF LimiterAssumption
  <1>0. /\ \A i \in DOMAIN s : s[i] \in Nat
        /\ a.firstFailureAt \in Nat /\ a.lockedUntil \in Nat /\ a.count \in 1 .. MaxFailures
    BY DEF Attempt
  <1>1. CASE a.lockedUntil = 0
    <2>1. a.firstFailureAt + Window <= now
      BY <1>0, <1>1 DEF Stale
    <2>2. \A i \in DOMAIN s : s[i] < now
      BY <1>0, <1>1, <2>1 DEF Opened
    <2>3. ASSUME NEW t \in Nat, now < t + Window PROVE Cardinality(Since(s, t)) <= MaxFailures - 2
      <3>1. a.firstFailureAt + 1 <= t
        BY <1>0, <2>1, <2>3
      <3>2. Cardinality(Since(s, t)) <= Cardinality(Since(s, a.firstFailureAt + 1))
        BY <1>0, <3>1, StretchSplits
      <3>3. /\ Cardinality(Since(s, t)) \in Nat
            /\ Cardinality(Since(s, a.firstFailureAt + 1)) \in Nat
            /\ Cardinality(Since(s, a.firstFailureAt + 1)) < a.count
        BY FailuresAreCounted DEF Opened
      <3>4. a.count # MaxFailures
        BY <1>0, <1>1 DEF Opened
      <3> QED BY <1>0, <3>2, <3>3, <3>4
    <2> QED BY <2>2, <2>3 DEF NoWindow
  <1>2. CASE a.lockedUntil # 0
    <2>1. \A i \in DOMAIN s : s[i] + Window <= now
      BY <1>0, <1>2 DEF Stale, Opened
    <2>2. \A t \in Nat : now < t + Window => Since(s, t) = {}
      BY <1>0, <2>1 DEF Since
    <2>3. ASSUME NEW t \in Nat, now < t + Window PROVE Cardinality(Since(s, t)) <= MaxFailures - 2
      <3>1. Cardinality(Since(s, t)) = 0
        BY <2>2, <2>3, FS_EmptySet
      <3> QED BY <3>1
    <2> QED BY <1>0, <2>1, <2>3 DEF NoWindow
  <1> QED BY <1>1, <1>2

\* A failure in a window, the first of it or a later one, keeps what is remembered of
\* the client and the calm: the windows before leave room for one full budget.
LEMMA FailureKeepsCalm ==
  ASSUME NEW s \in Seq(Nat), now \in Nat, \A i \in DOMAIN s : s[i] <= now, Calm(s),
         NEW f \in Nat, f <= now, NEW k \in Nat, k < MaxFailures,
         Cardinality(Since(s, f)) = k,
         \/ f = now /\ k = 0
         \/ Cardinality(Since(s, f + 1)) < k,
         \A i \in DOMAIN s : s[i] < f + Window, now < f + Window,
         \A t \in Nat : f < t + Window => Cardinality(Between(s, t, f)) <= MaxFailures - 2,
         NEW a, a.count = k + 1, a.firstFailureAt = f,
         a.lockedUntil = IF k + 1 >= MaxFailures THEN now + Window ELSE 0
  PROVE  Opened(Append(s, now), a) /\ Calm(Append(s, now))
  <1> USE LimiterAssumption DEF LimiterAssumption
  <1> DEFINE r == Append(s, now)
  <1>0. /\ \A i \in DOMAIN s : s[i] \in Nat
        /\ r \in Seq(Nat)
        /\ \A i \in DOMAIN r : r[i] = now \/ \E j \in DOMAIN s : r[i] = s[j]
    BY SMTT(30)
  <1>1. Cardinality(Since(r, f)) = k + 1
    BY OneMoreFailure
  <1>2. Cardinality(Since(r, f + 1)) < k + 1
    <2>0. f + 1 \in Nat /\ Cardinality(Since(s, f + 1)) \in Nat /\ Cardinality(Since(s, f)) \in Nat
      BY FailuresAreCounted
    <2>1. CASE f = now /\ k = 0
      <3>1. Since(r, f + 1) = Since(s, f + 1)
        BY <2>0, <2>1, OneMoreFailure
      <3>2. Cardinality(Since(s, f + 1)) <= Cardinality(Since(s, f))
        BY <2>0, StretchSplits
      <3> QED BY <2>0, <2>1, <3>1, <3>2
    <2>2. CASE Cardinality(Since(s, f + 1)) < k
      <3>1. \/ Cardinality(Since(r, f + 1)) = Cardinality(Since(s, f + 1)) + 1
            \/ Since(r, f + 1) = Since(s, f + 1)
        BY <2>0, OneMoreFailure
      <3> QED BY <2>0, <2>2, <3>1
    <2> QED BY <2>1, <2>2
  <1>3. \A i \in DOMAIN r : IF a.lockedUntil = 0 THEN r[i] < f + Window ELSE r[i] + Window <= a.lockedUntil
    <2> HIDE DEF r
    <2>1. ASSUME NEW i \in DOMAIN r PROVE r[i] \in Nat /\ r[i] <= now /\ r[i] < f + Window
      <3>1. CASE r[i] = now
        BY <3>1
      <3>2. ASSUME NEW j \in DOMAIN s, r[i] = s[j] PROVE r[i] \in Nat /\ r[i] <= now /\ r[i] < f + Window
        BY <1>0, <3>2
      <3> QED BY <1>0, <3>1, <3>2
    <2> QED BY <2>1
  <1>4. \A t \in Nat : Between(r, t, f) = Between(s, t, f)
    BY OneMoreFailure
  <1>5. Opened(r, a)
    <2> HIDE DEF r
    <2> QED BY <1>1, <1>2, <1>3, <1>4 DEF Opened
  <1>6. ASSUME NEW t \in Nat PROVE Cardinality(Between(r, t, t + Window)) <= 2 * MaxFailures - 2
    <2>1. CASE t + Window <= f
      <3>1. Between(r, t, t + Window) = Between(s, t, t + Window)
        BY <2>1, OneMoreFailure
      <3> QED BY <3>1 DEF Calm
    <2>2. CASE f < t + Window
      <3>1. Cardinality(Between(r, t, f)) <= MaxFailures - 2
        BY <1>4, <2>2
      <3>2. Cardinality(Between(r, t, t + Window)) <= Cardinality(Between(r, t, f)) + Cardinality(Since(r, f))
        <4>1. t + Window \in Nat
          OBVIOUS
        <4> HIDE DEF r
        <4> QED BY <1>0, <4>1, StretchSplits
      <3>3. Cardinality(Between(r, t, f)) \in Nat /\ Cardinality(Between(r, t, t + Window)) \in Nat
        BY <1>0, FailuresAreCounted
      <3> HIDE DEF r
      <3> QED BY <1>1, <3>1, <3>2, <3>3
    <2> QED BY <2>1, <2>2
  <1> QED BY <1>5, <1>6 DEF Calm

\* What check() keeps of a client is what happened to it.
LEMMA CheckedRemembers ==
  ASSUME LimitsInv, NEW c \in Clients
  PROVE  /\ \A d \in Clients : Remembered(Checked(c), d)
         /\ IsFiniteSet(DOMAIN Checked(c)) /\ Cardinality(DOMAIN Checked(c)) <= MaxTracked
  <1>1. TypeOK /\ Inv
    BY DEF LimitsInv, Inv
  <1>2. ASSUME NEW d \in Clients PROVE Remembered(Checked(c), d)
    <2>1. failed[d] \in Seq(Nat) /\ now \in Nat /\ Remembered(attempts, d)
      BY <1>1 DEF LimitsInv, TypeOK
    <2>2. CASE d \in DOMAIN Checked(c)
      BY <1>1, <2>1, <2>2, CheckedKeeps DEF Remembered
    <2>3. CASE d \notin DOMAIN Checked(c) /\ d \in DOMAIN attempts
      <3>1. Stale(attempts[d]) /\ attempts[d] \in Attempt
        BY <1>1, <2>3, CheckedKeeps DEF TypeOK
      <3>2. NoWindow(failed[d])
        BY <2>1, <2>3, <3>1, StaleMayGo DEF Remembered
      <3> QED BY <2>3, <3>2 DEF Remembered
    <2>4. CASE d \notin DOMAIN Checked(c) /\ d \notin DOMAIN attempts
      BY <2>1, <2>4 DEF Remembered
    <2> QED BY <2>2, <2>3, <2>4
  <1>3. DOMAIN Checked(c) \in SUBSET DOMAIN attempts
    BY <1>1, CheckedKeeps
  <1>4. IsFiniteSet(DOMAIN Checked(c)) /\ Cardinality(DOMAIN Checked(c)) <= Cardinality(DOMAIN attempts)
    BY <1>3, FS_Subset DEF LimitsInv
  <1>5. Cardinality(DOMAIN Checked(c)) \in Nat /\ Cardinality(DOMAIN attempts) \in Nat
    BY <1>4, FS_CardinalityType DEF LimitsInv
  <1> QED BY <1>2, <1>4, <1>5, LimiterAssumption DEF LimitsInv, LimiterAssumption

\* A wrong PIN is added to what is remembered of its client.
LEMMA WrongPinRemembers ==
  ASSUME LimitsInv, NEW c \in Clients, WrongPin(c)
  PROVE  /\ \A i \in DOMAIN failed'[c] : failed'[c][i] <= now
         /\ Opened(failed'[c], attempts'[c]) /\ Calm(failed'[c])
         /\ DOMAIN attempts' = DOMAIN Checked(c) \cup {c}
         /\ \A d \in DOMAIN Checked(c) \ {c} : attempts'[d] = Checked(c)[d]
  <1> USE LimiterAssumption DEF LimiterAssumption
  <1> DEFINE table == Checked(c)
             s == failed[c]
  <1>0. /\ TypeOK /\ Inv /\ s \in Seq(Nat) /\ now \in Nat
        /\ \A i \in DOMAIN s : s[i] <= now
        /\ Calm(s) /\ Remembered(table, c)
    BY CheckedRemembers DEF LimitsInv, Inv, TypeOK
  <1>1. /\ attempts' = [d \in DOMAIN table \cup {c} |-> IF d = c THEN Failure(table, c) ELSE table[d]]
        /\ failed'[c] = Append(s, now) /\ Allowed(c)
    BY <1>0 DEF WrongPin, TypeOK
  <1>2. /\ \A d \in DOMAIN table : table[d] = attempts[d] /\ table[d] \in Attempt
        /\ c \in DOMAIN table => ~Stale(table[c])
    BY <1>0, CheckedKeeps
  <1>3. \A i \in DOMAIN failed'[c] : failed'[c][i] <= now
    BY <1>0, <1>1
  <1>4. Opened(Append(s, now), Failure(table, c)) /\ Calm(Append(s, now))
    <2>1. CASE c \in DOMAIN table
      <3> DEFINE a == table[c]
      <3>1. /\ a \in Attempt /\ ~Stale(a) /\ a.lockedUntil <= now /\ Opened(s, a)
        BY <1>0, <1>1, <1>2, <2>1 DEF Allowed, Remembered
      <3>2. a.lockedUntil = 0 /\ now < a.firstFailureAt + Window
        BY <1>0, <3>1 DEF Stale, Attempt
      <3>3. /\ a.count \in Nat /\ a.firstFailureAt \in Nat /\ a.count < MaxFailures
        BY <3>1, <3>2 DEF Attempt, Opened
      <3>4. /\ Failure(table, c).count = a.count + 1
            /\ Failure(table, c).firstFailureAt = a.firstFailureAt
            /\ Failure(table, c).lockedUntil = IF a.count + 1 >= MaxFailures THEN now + Window ELSE 0
        BY <2>1, <3>2 DEF Failure
      <3>5. /\ a.firstFailureAt <= now
            /\ Cardinality(Since(s, a.firstFailureAt)) = a.count
            /\ Cardinality(Since(s, a.firstFailureAt + 1)) < a.count
            /\ \A i \in DOMAIN s : s[i] < a.firstFailureAt + Window
            /\ \A t \in Nat : a.firstFailureAt < t + Window =>
                  Cardinality(Between(s, t, a.firstFailureAt)) <= MaxFailures - 2
        BY <3>1, <3>2 DEF Opened
      <3> HIDE DEF a, s, table
      <3> QED BY <1>0, <3>2, <3>3, <3>4, <3>5, FailureKeepsCalm
    <2>2. CASE c \notin DOMAIN table
      <3>1. /\ Failure(table, c).count = 0 + 1
            /\ Failure(table, c).firstFailureAt = now
            /\ Failure(table, c).lockedUntil = IF 0 + 1 >= MaxFailures THEN now + Window ELSE 0
        BY <2>2 DEF Failure
      <3>2. NoWindow(s)
        BY <1>0, <2>2 DEF Remembered
      <3>3. \A i \in DOMAIN s : s[i] < now /\ s[i] \in Nat
        BY <1>0, <3>2 DEF NoWindow
      <3>4. Cardinality(Since(s, now)) = 0
        <4>1. Since(s, now) = {}
          BY <1>0, <3>3 DEF Since
        <4> QED BY <4>1, FS_EmptySet
      <3>5. ASSUME NEW t \in Nat, now < t + Window
            PROVE  Cardinality(Between(s, t, now)) <= MaxFailures - 2
        <4>1. Between(s, t, now) = Since(s, t)
          BY <3>3 DEF Between, Since
        <4> QED BY <3>2, <3>5, <4>1 DEF NoWindow
      <3>6. \A i \in DOMAIN s : s[i] < now + Window
        BY <1>0, <3>3
      <3> HIDE DEF s, table
      <3> QED BY <1>0, <3>1, <3>4, <3>5, <3>6, FailureKeepsCalm, SMTT(30)
    <2> QED BY <2>1, <2>2
  <1> HIDE DEF table, s
  <1> QED BY <1>1, <1>3, <1>4 DEF table

LEMMA LimitsStart == Init => LimitsInv
  <1> SUFFICES ASSUME Init PROVE LimitsInv
    OBVIOUS
  <1> USE LimiterAssumption DEF LimiterAssumption
  <1>1. DOMAIN attempts = {} /\ IsFiniteSet(DOMAIN attempts) /\ Cardinality(DOMAIN attempts) = 0
    BY FS_EmptySet DEF Init
  <1>2. ASSUME NEW c \in Clients, NEW t, NEW u
        PROVE  Cardinality(Since(failed[c], t)) = 0 /\ Cardinality(Between(failed[c], t, u)) = 0
    <2>1. DOMAIN failed[c] = {}
      BY DEF Init
    <2>2. Since(failed[c], t) = {} /\ Between(failed[c], t, u) = {}
      BY <2>1 DEF Since, Between
    <2> QED BY <2>2, FS_EmptySet
  <1>3. ASSUME NEW c \in Clients
        PROVE  /\ \A i \in DOMAIN failed[c] : failed[c][i] <= now
               /\ Remembered(attempts, c) /\ Calm(failed[c])
    <2>1. DOMAIN failed[c] = {}
      BY DEF Init
    <2>2. NoWindow(failed[c])
      BY <1>2, <2>1 DEF NoWindow
    <2>3. Calm(failed[c])
      BY <1>2 DEF Calm
    <2> QED BY <1>1, <2>1, <2>2, <2>3 DEF Remembered
  <1> QED BY <1>1, <1>3, InitInv DEF LimitsInv

LEMMA LimitsKeep == LimitsInv /\ [Next]_vars => LimitsInv'
  <1> SUFFICES ASSUME LimitsInv, [Next]_vars PROVE LimitsInv'
    OBVIOUS
  <1> USE LimiterAssumption DEF LimiterAssumption
  <1>0. TypeOK /\ Inv' /\ now \in Nat
    BY NextInv DEF LimitsInv, Inv, TypeOK
  <1>1. ASSUME NEW c \in Clients, Refused(c) PROVE LimitsInv'
    BY <1>0, <1>1, CheckedRemembers DEF LimitsInv, Refused, Remembered, Opened, NoWindow, Calm
  <1>2. ASSUME NEW c \in Clients, CorrectPin(c) PROVE LimitsInv'
    <2>1. /\ DOMAIN attempts' = DOMAIN Checked(c) \ {c}
          /\ \A d \in DOMAIN attempts' : attempts'[d] = Checked(c)[d]
          /\ failed' = [failed EXCEPT ![c] = << >>] /\ now' = now
      BY <1>2 DEF CorrectPin, Without
    <2>2. DOMAIN attempts' \in SUBSET DOMAIN Checked(c)
      BY <2>1
    <2>3. IsFiniteSet(DOMAIN attempts') /\ Cardinality(DOMAIN attempts') <= Cardinality(DOMAIN Checked(c))
      BY <2>2, CheckedRemembers, FS_Subset
    <2>4. Cardinality(DOMAIN attempts') <= MaxTracked
      BY <2>3, CheckedRemembers, FS_CardinalityType
    <2>5. ASSUME NEW d \in Clients, d # c
          PROVE  /\ \A i \in DOMAIN failed'[d] : failed'[d][i] <= now'
                 /\ Remembered(attempts, d)' /\ Calm(failed[d])'
      <3>1. failed'[d] = failed[d]
        BY <1>0, <2>1, <2>5 DEF TypeOK
      <3>2. Remembered(Checked(c), d) /\ Calm(failed[d]) /\ \A i \in DOMAIN failed[d] : failed[d][i] <= now
        BY CheckedRemembers DEF LimitsInv
      <3>3. Remembered(attempts, d)'
        BY <2>1, <2>5, <3>1, <3>2 DEF Remembered, Opened, NoWindow
      <3> QED BY <2>1, <3>1, <3>2, <3>3 DEF Calm
    <2>6. /\ \A i \in DOMAIN failed'[c] : failed'[c][i] <= now'
          /\ Remembered(attempts, c)' /\ Calm(failed[c])'
      <3>1. failed'[c] = << >> /\ DOMAIN failed'[c] = {}
        BY <1>0, <2>1 DEF TypeOK
      <3>2. \A t, u : Cardinality(Since(failed'[c], t)) = 0 /\ Cardinality(Between(failed'[c], t, u)) = 0
        <4> TAKE t, u
        <4>1. Since(failed'[c], t) = {} /\ Between(failed'[c], t, u) = {}
          BY <3>1 DEF Since, Between
        <4> QED BY <4>1, FS_EmptySet
      <3>3. NoWindow(failed[c])' /\ Calm(failed[c])'
        BY <3>1, <3>2 DEF NoWindow, Calm
      <3> QED BY <2>1, <3>1, <3>3 DEF Remembered
    <2> QED BY <1>0, <2>3, <2>4, <2>5, <2>6 DEF LimitsInv
  <1>3. ASSUME NEW c \in Clients, WrongPin(c) PROVE LimitsInv'
    <2>1. /\ \A i \in DOMAIN failed'[c] : failed'[c][i] <= now
          /\ Opened(failed'[c], attempts'[c]) /\ Calm(failed'[c])
          /\ DOMAIN attempts' = DOMAIN Checked(c) \cup {c}
          /\ \A d \in DOMAIN Checked(c) \ {c} : attempts'[d] = Checked(c)[d]
      BY <1>3, WrongPinRemembers
    <2>2. failed' = [failed EXCEPT ![c] = Append(@, now)] /\ now' = now /\ Allowed(c)
      BY <1>3 DEF WrongPin
    <2>3. /\ IsFiniteSet(DOMAIN Checked(c)) /\ Cardinality(DOMAIN Checked(c)) <= MaxTracked
          /\ c \notin DOMAIN Checked(c) => Cardinality(DOMAIN Checked(c)) < MaxTracked
          /\ Cardinality(DOMAIN Checked(c)) \in Nat
      BY <2>2, CheckedRemembers, FS_CardinalityType DEF Allowed
    <2>4. IsFiniteSet(DOMAIN attempts') /\ Cardinality(DOMAIN attempts') <= MaxTracked
      <3> DEFINE D == DOMAIN Checked(c)
      <3>1. /\ IsFiniteSet(D \cup {c})
            /\ Cardinality(D \cup {c}) = IF c \in D THEN Cardinality(D) ELSE Cardinality(D) + 1
        BY <2>3, FS_AddElement
      <3> HIDE DEF D
      <3> QED BY <2>1, <2>3, <3>1 DEF D
    <2>5. ASSUME NEW d \in Clients, d # c
          PROVE  /\ \A i \in DOMAIN failed'[d] : failed'[d][i] <= now'
                 /\ Remembered(attempts, d)' /\ Calm(failed[d])'
      <3>1. failed'[d] = failed[d]
        BY <1>0, <2>2, <2>5 DEF TypeOK
      <3>2. Remembered(Checked(c), d) /\ Calm(failed[d]) /\ \A i \in DOMAIN failed[d] : failed[d][i] <= now
        BY CheckedRemembers DEF LimitsInv
      <3>3. Remembered(attempts, d)'
        BY <2>1, <2>2, <2>5, <3>1, <3>2 DEF Remembered, Opened, NoWindow
      <3> QED BY <2>2, <3>1, <3>2, <3>3 DEF Calm
    <2>6. Remembered(attempts, c)'
      BY <2>1, <2>2 DEF Remembered, Opened
    <2>7. Calm(failed[c])'
      BY <2>1 DEF Calm
    <2> QED BY <1>0, <2>1, <2>2, <2>4, <2>5, <2>6, <2>7 DEF LimitsInv
  <1>4. CASE Tick
    <2>1. UNCHANGED <<attempts, failed>> /\ now' = now + 1
      BY <1>4 DEF Tick
    <2>2. ASSUME NEW c \in Clients
          PROVE  /\ \A i \in DOMAIN failed'[c] : failed'[c][i] <= now'
                 /\ Remembered(attempts, c)' /\ Calm(failed[c])'
      <3> DEFINE s == failed[c]
      <3>1. /\ s \in Seq(Nat) /\ \A i \in DOMAIN s : s[i] <= now /\ s[i] \in Nat
            /\ Remembered(attempts, c) /\ Calm(s)
        BY <1>0 DEF LimitsInv, TypeOK
      <3>2. ASSUME c \in DOMAIN attempts PROVE Remembered(attempts, c)'
        <4>1. attempts[c] \in Attempt /\ Opened(s, attempts[c])
          BY <1>0, <3>1, <3>2 DEF TypeOK, Remembered
        <4>2. attempts[c].firstFailureAt <= now'
          BY <1>0, <2>1, <4>1 DEF Attempt, Opened
        <4>3. Opened(s, attempts[c])'
          BY <2>1, <4>1, <4>2 DEF Opened
        <4> QED BY <2>1, <3>2, <4>3 DEF Remembered
      <3>3. ASSUME c \notin DOMAIN attempts PROVE Remembered(attempts, c)'
        <4>1. NoWindow(s)
          BY <3>1, <3>3 DEF Remembered
        <4>2. NoWindow(s)'
          <5>1. now \in Nat /\ now' = now + 1 /\ s' = s /\ Window \in Nat
            BY <1>0, <2>1, LimiterAssumption DEF TypeOK, LimiterAssumption
          <5>2. \A i \in DOMAIN s : s[i] < now + 1
            BY <3>1, <5>1
          <5>3. \A t \in Nat : now + 1 < t + Window => now < t + Window
            BY <5>1
          <5>4. \A t \in Nat : now + 1 < t + Window => Cardinality(Since(s, t)) <= MaxFailures - 2
            BY <4>1, <5>3 DEF NoWindow
          <5> HIDE DEF s
          <5> QED BY <5>1, <5>2, <5>4 DEF NoWindow, Since
        <4> QED BY <2>1, <3>3, <4>2 DEF Remembered
      <3>4. Calm(failed[c])'
        BY <2>1, <3>1 DEF Calm
      <3>5. ASSUME NEW i \in DOMAIN failed[c] PROVE failed[c][i] <= now + 1
        BY <1>0, <3>1, <3>5
      <3>6. \A i \in DOMAIN failed'[c] : failed'[c][i] <= now'
        BY <2>1, <3>5
      <3> QED BY <3>2, <3>3, <3>4, <3>6
    <2> QED BY <1>0, <2>1, <2>2 DEF LimitsInv
  <1>5. CASE UNCHANGED vars
    BY <1>0, <1>5 DEF vars, LimitsInv, Remembered, Opened, NoWindow, Calm
  <1> QED BY <1>1, <1>2, <1>3, <1>4, <1>5 DEF Next

LEMMA LimitsMean == LimitsInv => TableBounded /\ CountsFailures /\ BurstBound
  <1> SUFFICES ASSUME LimitsInv PROVE TableBounded /\ CountsFailures /\ BurstBound
    OBVIOUS
  <1> USE LimiterAssumption DEF LimiterAssumption
  <1>1. TypeOK
    BY DEF LimitsInv, Inv
  <1>2. CountsFailures
    BY <1>1 DEF LimitsInv, TypeOK, CountsFailures, Remembered, Opened, Since
  <1>3. BurstBound
    <2> SUFFICES ASSUME NEW c \in Clients, NEW t \in 1 .. now
                 PROVE  Cardinality({i \in DOMAIN failed[c] : failed[c][i] \in t .. t + Window - 1})
                           <= 2 * MaxFailures - 2
      BY DEF BurstBound
    <2>1. t \in Nat /\ Calm(failed[c]) /\ \A i \in DOMAIN failed[c] : failed[c][i] \in Nat
      BY <1>1 DEF LimitsInv, TypeOK
    <2>2. {i \in DOMAIN failed[c] : failed[c][i] \in t .. t + Window - 1} = Between(failed[c], t, t + Window)
      BY <2>1 DEF Between
    <2> QED BY <2>1, <2>2 DEF Calm
  <1> QED BY <1>2, <1>3 DEF TableBounded, LimitsInv

\* Whoever else knocks, in every history of right and wrong PINs: a lockout stands, the
\* failures counted are those that happened, no stretch as long as a window holds two
\* full budgets, and the table keeps its bound.
THEOREM LimitsAreKept == Spec => LimitsKept
  <1>1. LimitsInv /\ [Next]_vars => LockoutStands /\ (TableBounded /\ CountsFailures /\ BurstBound)'
    <2>1. LimitsInv => Inv
      BY DEF LimitsInv
    <2>2. LimitsInv' => (TableBounded /\ CountsFailures /\ BurstBound)'
      BY LimitsMean, PTL
    <2> QED BY <2>1, <2>2, LimitsKeep, LockoutStep
  <1> QED BY <1>1, LimitsStart, LimitsKeep, PTL DEF Spec, LimitsKept

-----------------------------------------------------------------------------
(* Chain daemons (Blockchain).  A child is started only for a chain that was    *)
(* switched off, which runs none; so none is ever forgotten.                    *)
ChildrenInv ==
    /\ chainState \in [Chains -> [enabled : BOOLEAN, status : ChainStates]]
    /\ chainFile \in [Chains -> BOOLEAN]
    /\ tracked \in [Chains -> {"none", "running", "exited"}]
    /\ adrift \in [Chains -> Nat]
    /\ polled \subseteq Chains
    /\ NoStrayDaemon

LEMMA ChildrenStart == ValidatorInit => ChildrenInv
  <1> SUFFICES ASSUME ValidatorInit PROVE ChildrenInv
    OBVIOUS
  <1>1. /\ chainState \in [Chains -> [enabled : BOOLEAN, status : ChainStates]]
        /\ \A c \in Chains : ~chainState[c].enabled
    BY DEF ValidatorInit, ChainStates
  <1>2. /\ chainFile \in [Chains -> BOOLEAN] /\ \A c \in Chains : ~chainFile[c]
    BY DEF ValidatorInit
  <1>3. \A c \in Chains : ~chainFile[c] /\ ~chainState[c].enabled => chainFile[c] = chainState[c].enabled
    BY <1>1, <1>2
  <1> QED BY <1>1, <1>2, <1>3 DEF ValidatorInit, ChildrenInv, NoStrayDaemon

LEMMA StateSet ==
  ASSUME ChildrenInv, NEW c \in Chains, NEW on \in BOOLEAN, NEW status \in ChainStates, SetState(c, on, status)
  PROVE  /\ chainState' \in [Chains -> [enabled : BOOLEAN, status : ChainStates]]
         /\ chainFile' \in [Chains -> BOOLEAN]
         /\ chainState'[c].enabled = on /\ chainFile'[c] = on
         /\ \A d \in Chains \ {c} : chainState'[d] = chainState[d] /\ chainFile'[d] = chainFile[d]
  BY DEF SetState, ChildrenInv

LEMMA ChildrenKept == ChildrenInv /\ [ValidatorNext]_validatorVars => ChildrenInv'
  <1> SUFFICES ASSUME ChildrenInv, [ValidatorNext]_validatorVars PROVE ChildrenInv'
    OBVIOUS
  <1> USE DEF ChildrenInv, NoStrayDaemon
  <1>1. CASE RestartManager
    BY <1>1 DEF RestartManager, ChainStates
  <1>2. ASSUME NEW c \in Chains, Launch(c) PROVE ChildrenInv'
    <2>1. ~chainState[c].enabled /\ tracked[c] # "running"
      BY <1>2 DEF Launch
    <2>2. /\ \/ SetState(c, TRUE, "syncing") \/ SetState(c, TRUE, "error")
          /\ adrift' = adrift
          /\ tracked' = tracked \/ tracked' = [tracked EXCEPT ![c] = "running"]
          /\ polled' = polled
      <3>1. tracked[c] # "running" /\ adrift \in [Chains -> Nat]
        BY <2>1
      <3>2. [adrift EXCEPT ![c] = @ + 0] = adrift
        BY <3>1
      <3> QED BY <1>2, <3>1, <3>2 DEF Launch
    <2>3. /\ chainState' \in [Chains -> [enabled : BOOLEAN, status : ChainStates]]
          /\ chainFile' \in [Chains -> BOOLEAN]
          /\ chainState'[c].enabled = TRUE /\ chainFile'[c] = TRUE
          /\ \A d \in Chains \ {c} : chainState'[d] = chainState[d] /\ chainFile'[d] = chainFile[d]
      BY <2>2, StateSet DEF ChainStates
    <2> QED BY <2>2, <2>3
  <1>3. ASSUME NEW c \in Chains, Halt(c) PROVE ChildrenInv'
    <2>1. SetState(c, FALSE, "stopped") /\ tracked' = [tracked EXCEPT ![c] = "none"] /\ UNCHANGED <<adrift, polled>>
      BY <1>3 DEF Halt
    <2>2. /\ chainState' \in [Chains -> [enabled : BOOLEAN, status : ChainStates]]
          /\ chainFile' \in [Chains -> BOOLEAN]
          /\ chainState'[c].enabled = FALSE /\ chainFile'[c] = FALSE
          /\ \A d \in Chains \ {c} : chainState'[d] = chainState[d] /\ chainFile'[d] = chainFile[d]
      BY <2>1, StateSet DEF ChainStates
    <2> QED BY <2>1, <2>2
  <1>4. ASSUME NEW c \in Chains, NEW on \in BOOLEAN, NEW status \in ChainStates,
               SetState(c, on, status), on = chainState[c].enabled,
               UNCHANGED adrift, polled' \subseteq Chains,
               tracked' = tracked \/ tracked' = [tracked EXCEPT ![c] = "exited"]
        PROVE  ChildrenInv'
    <2>1. /\ chainState' \in [Chains -> [enabled : BOOLEAN, status : ChainStates]]
          /\ chainFile' \in [Chains -> BOOLEAN]
          /\ chainState'[c].enabled = on /\ chainFile'[c] = on
          /\ \A d \in Chains \ {c} : chainState'[d] = chainState[d] /\ chainFile'[d] = chainFile[d]
      BY <1>4, StateSet
    <2> QED BY <1>4, <2>1
  <1>5. ASSUME NEW c \in Chains, InstallBinary(c) PROVE ChildrenInv'
    BY <1>4, <1>5 DEF InstallBinary, ChainStates
  <1>6. ASSUME NEW c \in Chains, ChildExits(c) PROVE ChildrenInv'
    <2>1. /\ UNCHANGED <<adrift, polled>>
          /\ tracked' = tracked \/ tracked' = [tracked EXCEPT ![c] = "exited"]
          /\ chainState[c].enabled \in BOOLEAN
      BY <1>6 DEF ChildExits
    <2>2. CASE chainState[c].enabled
      BY <1>4, <1>6, <2>1, <2>2 DEF ChildExits, ChainStates
    <2>3. CASE ~chainState[c].enabled
      BY <1>6, <2>1, <2>3 DEF ChildExits
    <2> QED BY <2>2, <2>3
  <1>7. ASSUME NEW c \in Chains, ChildReady(c) PROVE ChildrenInv'
    BY <1>4, <1>7 DEF ChildReady, ChainStates
  <1>8. ASSUME NEW c \in Chains, AskChild(c) PROVE ChildrenInv'
    BY <1>8 DEF AskChild
  <1>9. ASSUME NEW c \in Chains, ChildAnswers(c) PROVE ChildrenInv'
    BY <1>4, <1>9 DEF ChildAnswers, ChainStates
  <1>10. CASE UNCHANGED validatorVars
    BY <1>10 DEF validatorVars
  <1> QED BY <1>1, <1>2, <1>3, <1>5, <1>6, <1>7, <1>8, <1>9, <1>10 DEF ValidatorNext

(* A child that is told to end is one of a switch that was counted.             *)
DyingInv == /\ toggles \in 0..MaxToggles
            /\ dying \in [Chains -> Nat] /\ \A c \in Chains : dying[c] <= toggles

LEMMA DyingStarts == ValidatorInit => DyingInv
  BY ValidatorAssumption DEF ValidatorInit, DyingInv, ValidatorAssumption

LEMMA DyingKept == DyingInv /\ [ValidatorNext]_validatorVars => DyingInv'
  <1> SUFFICES ASSUME DyingInv, [ValidatorNext]_validatorVars PROVE DyingInv'
    OBVIOUS
  <1>m. MaxToggles \in Nat
    BY ValidatorAssumption DEF ValidatorAssumption
  <1>1. CASE RestartManager
    BY <1>1, <1>m DEF DyingInv, RestartManager, Toggled
  <1>2. ASSUME NEW c \in Chains, Launch(c) PROVE DyingInv'
    BY <1>2, <1>m DEF DyingInv, Launch, Toggled
  <1>3. ASSUME NEW c \in Chains, Halt(c) PROVE DyingInv'
    <2>1. Toggled /\ dying' = [dying EXCEPT ![c] = @ + IF tracked[c] = "running" THEN 1 ELSE 0]
      BY <1>3 DEF Halt
    <2>2. dying' = [dying EXCEPT ![c] = dying[c] + 1] \/ dying' = [dying EXCEPT ![c] = dying[c] + 0]
      <3>1. CASE tracked[c] = "running"
        BY <3>1, <2>1
      <3>2. CASE tracked[c] # "running"
        BY <3>2, <2>1
      <3> QED BY <3>1, <3>2
    <2> QED BY <2>1, <2>2, <1>m DEF DyingInv, Toggled
  <1>4. ASSUME NEW c \in Chains, ChildExits(c) PROVE DyingInv'
    <2>1. CASE dying' = dying
      BY <2>1, <1>4 DEF DyingInv, ChildExits
    <2>2. CASE dying[c] > 0 /\ dying' = [dying EXCEPT ![c] = @ - 1]
      BY <2>2, <1>4 DEF DyingInv, ChildExits
    <2> QED BY <1>4, <2>1, <2>2 DEF ChildExits
  <1>5. CASE UNCHANGED <<toggles, dying>>
    BY <1>5 DEF DyingInv
  <1> QED BY <1>1, <1>2, <1>3, <1>4, <1>5 DEF ValidatorNext, validatorVars, InstallBinary, ChildReady, AskChild, ChildAnswers

LEMMA ChildrenMean == ChildrenInv /\ DyingInv => ValidatorTypeOK
  <1> SUFFICES ASSUME ChildrenInv, DyingInv PROVE ValidatorTypeOK
    OBVIOUS
  <1>m. MaxToggles \in Nat
    BY ValidatorAssumption DEF ValidatorAssumption
  <1>1. dying \in [Chains -> 0..MaxToggles]
    BY <1>m DEF DyingInv
  <1>2. adrift \in [Chains -> 0..MaxToggles]
    BY <1>m DEF ChildrenInv, NoStrayDaemon
  <1> QED BY <1>1, <1>2 DEF ChildrenInv, DyingInv, ValidatorTypeOK

-----------------------------------------------------------------------------
(* The heartbeat (UptimeDaemon).  The flag is up exactly while a heartbeat is   *)
(* on its way, and a model is in the set exactly while it is pulled.            *)
BeatsInv ==
    /\ heartbeats \in [Waits -> Nat] /\ daemon.inFlight \in BOOLEAN
    /\ daemon \in [timer : BOOLEAN, registered : BOOLEAN, inFlight : BOOLEAN]
    /\ heartbeats["register"] + heartbeats["heartbeat"] = IF daemon.inFlight THEN 1 ELSE 0
    /\ pullingModels \subseteq PullModels
    /\ pulls = [m \in PullModels |-> IF m \in pullingModels THEN 1 ELSE 0]

LEMMA BeatsStart == UptimeInit => BeatsInv
  BY DEF UptimeInit, BeatsInv, Waits

LEMMA BeatOver ==
  ASSUME BeatsInv, NEW w \in Waits, Over(w), NEW d \in [timer : BOOLEAN, registered : BOOLEAN, inFlight : BOOLEAN],
         FlagDown(d)
  PROVE  /\ heartbeats' \in [Waits -> Nat]
         /\ daemon' \in [timer : BOOLEAN, registered : BOOLEAN, inFlight : BOOLEAN]
         /\ ~daemon'.inFlight
         /\ heartbeats'["register"] + heartbeats'["heartbeat"] = 0
  <1>1. heartbeats[w] > 0 /\ heartbeats' = [heartbeats EXCEPT ![w] = @ - 1]
    BY DEF Over
  <1>2. heartbeats["register"] \in Nat /\ heartbeats["heartbeat"] \in Nat /\ heartbeats["register"] + heartbeats["heartbeat"] <= 1
    <2>1. heartbeats["register"] \in Nat /\ heartbeats["heartbeat"] \in Nat
      BY DEF BeatsInv, Waits
    <2> QED BY <2>1 DEF BeatsInv
  <1>3. daemon' \in [timer : BOOLEAN, registered : BOOLEAN, inFlight : BOOLEAN] /\ ~daemon'.inFlight
    BY DEF FlagDown
  <1>4. heartbeats[w] = 1 /\ \A v \in Waits : v # w => heartbeats[v] = 0
    BY <1>1, <1>2 DEF BeatsInv, Waits
  <1>5. \A v \in Waits : heartbeats'[v] = 0
    BY <1>1, <1>4 DEF BeatsInv
  <1>6. heartbeats' = [v \in Waits |-> heartbeats'[v]]
    BY <1>1 DEF BeatsInv
  <1> QED BY <1>3, <1>5, <1>6 DEF Waits

LEMMA BeatsKept == BeatsInv /\ [UptimeNext]_uptimeVars => BeatsInv'
  <1> SUFFICES ASSUME BeatsInv, [UptimeNext]_uptimeVars PROVE BeatsInv'
    OBVIOUS
  <1>0. /\ heartbeats["register"] \in Nat /\ heartbeats["heartbeat"] \in Nat
        /\ daemon \in [timer : BOOLEAN, registered : BOOLEAN, inFlight : BOOLEAN]
    BY DEF BeatsInv, Waits
  <1>1. CASE StartDaemon \/ StopDaemon
    BY <1>1 DEF StartDaemon, StopDaemon, BeatsInv
  <1>2. CASE SendHeartbeat
    <2>1. /\ ~daemon.inFlight /\ daemon'.inFlight
          /\ daemon' \in [timer : BOOLEAN, registered : BOOLEAN, inFlight : BOOLEAN]
          /\ UNCHANGED <<pullingModels, pulls>>
      BY <1>0, <1>2 DEF SendHeartbeat
    <2>2. \E w \in Waits : heartbeats' = [heartbeats EXCEPT ![w] = @ + 1]
      BY <1>2 DEF SendHeartbeat, Waits
    <2>3. heartbeats["register"] = 0 /\ heartbeats["heartbeat"] = 0
      BY <1>0, <2>1 DEF BeatsInv
    <2>4. PICK w \in Waits : heartbeats' = [heartbeats EXCEPT ![w] = @ + 1]
      BY <2>2
    <2>5. heartbeats' \in [Waits -> Nat] /\ heartbeats'[w] = 1 /\ \A v \in Waits : v # w => heartbeats'[v] = 0
      BY <2>3, <2>4 DEF BeatsInv, Waits
    <2>6. heartbeats'["register"] + heartbeats'["heartbeat"] = 1
      BY <2>4, <2>5 DEF Waits
    <2> QED BY <2>1, <2>5, <2>6 DEF BeatsInv
  <1>3. CASE Registers
    <2>1. /\ heartbeats' = [register |-> heartbeats["register"] - 1, heartbeat |-> heartbeats["heartbeat"] + 1]
          /\ daemon' = [daemon EXCEPT !.registered = TRUE] /\ UNCHANGED <<pullingModels, pulls>>
          /\ heartbeats["register"] > 0
      BY <1>3 DEF Registers
    <2>2. /\ heartbeats'["register"] = heartbeats["register"] - 1
          /\ heartbeats'["heartbeat"] = heartbeats["heartbeat"] + 1
          /\ DOMAIN heartbeats' = Waits /\ heartbeats' = [w \in DOMAIN heartbeats' |-> heartbeats'[w]]
      BY <2>1 DEF Waits
    <2>3. heartbeats' \in [Waits -> Nat]
      BY <1>0, <2>1, <2>2 DEF Waits
    <2>4. heartbeats'["register"] + heartbeats'["heartbeat"] = heartbeats["register"] + heartbeats["heartbeat"]
      BY <1>0, <2>2
    <2>5. daemon'.inFlight = daemon.inFlight /\ daemon' \in [timer : BOOLEAN, registered : BOOLEAN, inFlight : BOOLEAN]
      BY <1>0, <2>1
    <2> QED BY <2>1, <2>3, <2>4, <2>5 DEF BeatsInv
  <1>4. CASE RegistrationFails
    <2>1. Over("register") /\ UNCHANGED <<pullingModels, pulls>>
      BY <1>4 DEF RegistrationFails
    <2>2. PICK d \in [timer : BOOLEAN, registered : BOOLEAN, inFlight : BOOLEAN] : FlagDown(d)
      BY <1>0, <1>4 DEF RegistrationFails
    <2> QED BY <2>1, <2>2, BeatOver DEF BeatsInv, Waits
  <1>5. CASE HeartbeatFails
    <2>1. Over("heartbeat") /\ UNCHANGED <<pullingModels, pulls>>
      BY <1>5 DEF HeartbeatFails
    <2>2. PICK d \in [timer : BOOLEAN, registered : BOOLEAN, inFlight : BOOLEAN] : FlagDown(d)
      BY <1>0, <1>5 DEF HeartbeatFails
    <2> QED BY <2>1, <2>2, BeatOver DEF BeatsInv, Waits
  <1>6. ASSUME NEW queued \in SUBSET PullModels, HeartbeatTaken(queued) PROVE BeatsInv'
    <2>1. Over("heartbeat") /\ FlagDown(daemon) /\ PullQueue(queued)
      BY <1>6 DEF HeartbeatTaken
    <2>2. /\ pullingModels' \subseteq PullModels
          /\ pulls' = [m \in PullModels |-> IF m \in pullingModels' THEN 1 ELSE 0]
      BY <2>1 DEF PullQueue, BeatsInv
    <2> QED BY <1>0, <2>1, <2>2, BeatOver DEF BeatsInv, Waits
  <1>7. ASSUME NEW m \in PullModels, PullEnds(m) PROVE BeatsInv'
    BY <1>7 DEF PullEnds, BeatsInv
  <1>8. ASSUME UNCHANGED <<daemon, heartbeats, pullingModels, pulls>> PROVE BeatsInv'
    BY <1>8 DEF BeatsInv
  <1>9. CASE OtherCall \/ OtherAnswered \/ BackoffTick \/ CentralReturns \/ CentralForgets
    BY <1>8, <1>9 DEF OtherCall, OtherAnswered, BackoffTick, CentralReturns, CentralForgets
  <1>10. CASE UNCHANGED uptimeVars
    BY <1>8, <1>10 DEF uptimeVars
  <1>11. ASSUME NEW s \in {"down", "disabled"}, CentralFails(s) PROVE BeatsInv'
    BY <1>8, <1>11 DEF CentralFails
  <1> QED BY <1>1, <1>2, <1>3, <1>4, <1>5, <1>6, <1>7, <1>9, <1>10, <1>11 DEF UptimeNext

LEMMA BeatsMean == BeatsInv => OneAtATime
  BY DEF BeatsInv, OneAtATime, Waits

(* The breaker waits a power of two, and never longer than the longest wait.    *)
BreakerInv == /\ central \in [state : {"up", "down", "disabled"}, known : BOOLEAN]
              /\ breaker \in [failures : 0..MaxBackoff + 1, wait : 0..MaxBackoff]
              /\ elsewhere \in 0..1 /\ platformFaults \in 0..MaxPlatformFaults

LEMMA UptimeBounds == MaxBackoff \in Nat /\ MaxPlatformFaults \in Nat
  BY UptimeAssumption DEF UptimeAssumption

LEMMA PowerIsNat ==
  ASSUME NEW n \in Nat
  PROVE  2 ^ n \in Nat
  <1>1. IsFiniteSet(1..n) /\ Cardinality(1..n) = n
    <2>1. IsFiniteSet(1..n) /\ Cardinality(1..n) = IF 1 > n THEN 0 ELSE n - 1 + 1
      BY FS_Interval
    <2>2. (IF 1 > n THEN 0 ELSE n - 1 + 1) = n
      OBVIOUS
    <2> QED BY <2>1, <2>2
  <1>2. IsFiniteSet(SUBSET (1..n)) /\ Cardinality(SUBSET (1..n)) = 2 ^ Cardinality(1..n)
    BY <1>1, FS_SUBSET
  <1>3. Cardinality(SUBSET (1..n)) \in Nat
    BY <1>2, FS_CardinalityType
  <1> QED BY <1>1, <1>2, <1>3

LEMMA BackoffIsBounded ==
  ASSUME NEW n \in 1..MaxBackoff + 1
  PROVE  Backoff(n) \in 0..MaxBackoff
  <1>1. n - 1 \in Nat
    BY UptimeBounds
  <1>2. PICK p : p = 2 ^ (n - 1)
    OBVIOUS
  <1>3. p \in Nat
    BY <1>1, <1>2, PowerIsNat
  <1>4. Backoff(n) = IF p < MaxBackoff THEN p ELSE MaxBackoff
    BY <1>2 DEF Backoff
  <1> QED BY <1>3, <1>4, UptimeBounds

LEMMA FailureIsCounted ==
  ASSUME NEW n \in 0..MaxBackoff + 1, FailedAfter(n)
  PROVE  breaker' \in [failures : 0..MaxBackoff + 1, wait : 0..MaxBackoff]
  <1>1. PICK f : f = IF n < MaxBackoff + 1 THEN n + 1 ELSE n
    OBVIOUS
  <1>2. f \in 1..MaxBackoff + 1
    BY <1>1, UptimeBounds
  <1>3. Backoff(f) \in 0..MaxBackoff
    BY <1>2, BackoffIsBounded
  <1>4. breaker' = [failures |-> f, wait |-> Backoff(f)]
    BY <1>1 DEF FailedAfter
  <1> QED BY <1>2, <1>3, <1>4, UptimeBounds

LEMMA BreakerStarts == UptimeInit => BreakerInv
  BY UptimeBounds DEF UptimeInit, BreakerInv

LEMMA BreakerKept == BreakerInv /\ [UptimeNext]_uptimeVars => BreakerInv'
  <1> SUFFICES ASSUME BreakerInv, [UptimeNext]_uptimeVars PROVE BreakerInv'
    OBVIOUS
  <1> DEFINE CentralKind == [state : {"up", "down", "disabled"}, known : BOOLEAN]
             BreakerKind == [failures : 0..MaxBackoff + 1, wait : 0..MaxBackoff]
  <1>k. central \in CentralKind /\ breaker \in BreakerKind /\ elsewhere \in 0..1 /\ platformFaults \in 0..MaxPlatformFaults
    BY DEF BreakerInv
  <1>c. breaker.failures \in 0..MaxBackoff + 1 /\ central.known \in BOOLEAN
    BY <1>k
  <1>s. ASSUME RecordSuccess PROVE breaker' \in BreakerKind
    BY <1>s, UptimeBounds DEF RecordSuccess
  <1>f. ASSUME RecordFailure \/ FailedAfter(0) PROVE breaker' \in BreakerKind
    <2>1. FailedAfter(breaker.failures) \/ FailedAfter(0)
      BY <1>f DEF RecordFailure
    <2>2. 0 \in 0..MaxBackoff + 1
      BY UptimeBounds
    <2> QED BY <1>c, <2>1, <2>2, FailureIsCounted
  <1>p. ASSUME PlatformFault \/ NoFault PROVE platformFaults' \in 0..MaxPlatformFaults
    BY <1>k, <1>p, UptimeBounds DEF PlatformFault, NoFault
  <1>q. ASSUME central' \in CentralKind, breaker' \in BreakerKind, elsewhere' \in 0..1, platformFaults' \in 0..MaxPlatformFaults
        PROVE  BreakerInv'
    BY <1>q DEF BreakerInv
  <1> HIDE DEF CentralKind, BreakerKind
  <1>1. CASE StartDaemon \/ SendHeartbeat
    BY <1>1, <1>k, <1>q DEF StartDaemon, SendHeartbeat
  <1>2. CASE StopDaemon \/ RegistrationFails
    <2>1. PlatformFault \/ NoFault
      BY <1>2 DEF StopDaemon, RegistrationFails
    <2>2. UNCHANGED <<central, breaker, elsewhere>>
      BY <1>2 DEF StopDaemon, RegistrationFails
    <2> QED BY <1>k, <1>p, <1>q, <2>1, <2>2
  <1>3. CASE Registers
    <2>1. RecordSuccess /\ UNCHANGED <<central, elsewhere, platformFaults>>
      BY <1>3 DEF Registers
    <2> QED BY <1>k, <1>s, <1>q, <2>1
  <1>4. CASE HeartbeatFails
    <2>1. PlatformFault \/ NoFault
      BY <1>4 DEF HeartbeatFails
    <2>2. RecordSuccess \/ RecordFailure \/ FailedAfter(0)
      BY <1>4 DEF HeartbeatFails
    <2>3. UNCHANGED elsewhere
      BY <1>4 DEF HeartbeatFails
    <2>4. UNCHANGED central \/ central' = [central EXCEPT !.known = (@ \/ central.state = "up")]
      BY <1>4 DEF HeartbeatFails
    <2>5. central' \in CentralKind
      <3>1. CASE UNCHANGED central
        BY <3>1, <1>k
      <3>2. CASE central' = [central EXCEPT !.known = (@ \/ central.state = "up")]
        BY <3>2, <1>k, <1>c DEF CentralKind
      <3> QED BY <2>4, <3>1, <3>2
    <2> QED BY <1>k, <1>s, <1>f, <1>p, <1>q, <2>1, <2>2, <2>3, <2>5
  <1>5. ASSUME NEW queued \in SUBSET PullModels, HeartbeatTaken(queued) PROVE BreakerInv'
    <2>1. RecordSuccess /\ central' = [central EXCEPT !.known = TRUE] /\ UNCHANGED <<elsewhere, platformFaults>>
      BY <1>5 DEF HeartbeatTaken
    <2>2. central' \in CentralKind
      BY <2>1, <1>k DEF CentralKind
    <2> QED BY <1>k, <1>s, <1>q, <2>1, <2>2
  <1>6. ASSUME NEW m \in PullModels, PullEnds(m) PROVE BreakerInv'
    BY <1>6, <1>k, <1>q DEF PullEnds
  <1>7. CASE OtherCall
    <2>1. elsewhere' \in 0..1 /\ UNCHANGED <<central, breaker, platformFaults>>
      BY <1>7 DEF OtherCall
    <2> QED BY <1>k, <1>q, <2>1
  <1>8. CASE OtherAnswered
    <2>1. PlatformFault \/ NoFault
      BY <1>8 DEF OtherAnswered
    <2>2. RecordSuccess \/ RecordFailure
      BY <1>8 DEF OtherAnswered
    <2>3. elsewhere' \in 0..1 /\ UNCHANGED central
      BY <1>8 DEF OtherAnswered
    <2> QED BY <1>k, <1>s, <1>f, <1>p, <1>q, <2>1, <2>2, <2>3
  <1>9. CASE BackoffTick
    <2>1. breaker.wait > 0 /\ breaker' = [breaker EXCEPT !.wait = @ - 1] /\ UNCHANGED <<central, elsewhere, platformFaults>>
      BY <1>9 DEF BackoffTick
    <2>2. breaker' \in BreakerKind
      BY <2>1, <1>k, UptimeBounds DEF BreakerKind
    <2> QED BY <1>k, <1>q, <2>1, <2>2
  <1>10. ASSUME NEW s \in {"down", "disabled"}, CentralFails(s) PROVE BreakerInv'
    <2>1. PlatformFault /\ central' = [central EXCEPT !.state = s] /\ UNCHANGED <<breaker, elsewhere>>
      BY <1>10 DEF CentralFails
    <2>2. central' \in CentralKind
      BY <2>1, <1>k DEF CentralKind
    <2> QED BY <1>k, <1>p, <1>q, <2>1, <2>2
  <1>11. CASE CentralReturns \/ CentralForgets
    <2>1. UNCHANGED <<breaker, elsewhere, platformFaults>>
      BY <1>11 DEF CentralReturns, CentralForgets
    <2>2. central' = [central EXCEPT !.state = "up"] \/ central' = [central EXCEPT !.known = FALSE]
      BY <1>11 DEF CentralReturns, CentralForgets
    <2>3. central' \in CentralKind
      BY <2>2, <1>k DEF CentralKind
    <2> QED BY <1>k, <1>q, <2>1, <2>3
  <1>12. CASE UNCHANGED uptimeVars
    BY <1>12, <1>k, <1>q DEF uptimeVars
  <1> QED BY <1>1, <1>2, <1>3, <1>4, <1>5, <1>6, <1>7, <1>8, <1>9, <1>10, <1>11, <1>12 DEF UptimeNext

LEMMA HeartbeatsTyped == BeatsInv /\ BreakerInv => UptimeTypeOK
  <1> SUFFICES ASSUME BeatsInv, BreakerInv PROVE UptimeTypeOK
    OBVIOUS
  <1>1. heartbeats \in [Waits -> 0..2]
    <2>1. heartbeats["register"] \in Nat /\ heartbeats["heartbeat"] \in Nat
      BY DEF BeatsInv, Waits
    <2>2. heartbeats["register"] + heartbeats["heartbeat"] <= 1
      BY DEF BeatsInv
    <2>3. \A w \in Waits : heartbeats[w] \in 0..2
      BY <2>1, <2>2 DEF Waits
    <2> QED BY <2>3 DEF BeatsInv
  <1>2. pulls \in [PullModels -> 0..2]
    BY DEF BeatsInv
  <1> QED BY <1>1, <1>2 DEF BeatsInv, BreakerInv, UptimeTypeOK

-----------------------------------------------------------------------------
(* The certificate helper (NodeHttps).  As long as a setup is under way, the    *)
(* status file says what was there before it, and the copy holds it.            *)
Undoable == statusFile.state = "configuring" =>
    /\ statusFile.hadPrevious = (before.file # NoSite)
    /\ statusFile.previousActive = before.active
    /\ before.file # NoSite => previousFile = before.file /\ before.file.domain = statusFile.domain

(* A worker knows the same, and where it stands is what the file and the proxy  *)
(* are.                                                                         *)
AtWork == worker.step # "none" =>
    /\ helper.up /\ helper.status.state = "configuring" /\ statusFile.state = "configuring"
    /\ worker.step \notin {"recover", "undo", "redo"} =>
          /\ worker.was = before.file /\ worker.wasActive = before.active
          /\ worker.site \in Sites /\ worker.site.domain = statusFile.domain
    /\ worker.step = "accepted" => caddyfile = before.file /\ proxy.active = before.active
    /\ worker.step \in {"written", "probing", "restore"} => caddyfile = worker.site
    /\ worker.step = "restart" => IF before.file = NoSite THEN ~proxy.active /\ proxy.serving = NoSite
                                  ELSE caddyfile = before.file
    /\ worker.step \in {"undo", "redo"} => IF before.file = NoSite THEN worker.step = "undo" /\ ~proxy.active
                                           ELSE caddyfile = before.file /\ (worker.step = "undo" => before.active)

(* What is asked for is one domain, at most once per cooldown.                  *)
AskedOnce ==
    /\ issued <= statusFile.retry /\ statusFile.retry <= tenMinutes + 1
    /\ helper.up => helper.status.retry = statusFile.retry /\ helper.status.domain = statusFile.domain
    /\ statusFile.domain = "none" => statusFile.retry = 0 /\ statusFile.state # "configuring"
    /\ caddyfile # NoSite => caddyfile.domain = statusFile.domain
    /\ helper.up /\ helper.status.state = "verified" => caddyfile # NoSite

(* Before anything fails nothing is recovered, and the proxy serves the file.   *)
Unharmed == httpsFaults = 0 =>
    /\ helper.up \/ statusFile.state # "configuring"
    /\ worker.step \notin {"recover", "undo", "redo"}
    /\ worker.step \in {"none", "accepted", "probing", "restore"} => proxy.serving \in {NoSite, caddyfile}

HttpsInv == HttpsTypeOK /\ Undoable /\ AtWork /\ AskedOnce /\ Unharmed /\ FailedSetupUndone

LEMMA HttpsStart == HttpsInit => HttpsInv
  BY HttpsAssumption DEF HttpsInit, HttpsInv, HttpsTypeOK, Undoable, AtWork, AskedOnce, Unharmed, FailedSetupUndone,
     HttpsStatus, Unset, NoWorker, NoSite, SiteFiles, Sites, HttpsSteps, HttpsAssumption

(* What the parts of a step do to the records they change.                      *)
WorkerKind == [step : HttpsSteps, site : SiteFiles, was : SiteFiles, wasActive : BOOLEAN]
HelperKind == [up : BOOLEAN, status : HttpsStatus]
ProxyKind == [active : BOOLEAN, enabled : BOOLEAN, serving : SiteFiles]

LEMMA StepTaken ==
  ASSUME worker \in WorkerKind, NEW s \in HttpsSteps, ToStep(s)
  PROVE  /\ worker' \in WorkerKind /\ worker'.step = s
         /\ worker'.site = worker.site /\ worker'.was = worker.was /\ worker'.wasActive = worker.wasActive
  BY DEF ToStep, WorkerKind

LEMMA ProxyServes ==
  ASSUME proxy \in ProxyKind
  PROVE  /\ \A f \in SiteFiles : Serve(f) =>
               proxy' \in ProxyKind /\ proxy'.active /\ proxy'.serving = f /\ proxy'.enabled = proxy.enabled
         /\ StopProxy => proxy' \in ProxyKind /\ ~proxy'.active /\ proxy'.serving = NoSite
  BY DEF Serve, StopProxy, ProxyKind, SiteFiles

LEMMA Reported ==
  ASSUME helper \in HelperKind, NEW s \in HttpsStatus, Persist(s)
  PROVE  /\ helper' \in HelperKind /\ statusFile' \in HttpsStatus
         /\ helper'.up = helper.up /\ helper'.status = s /\ statusFile' = s
  BY DEF Persist, HelperKind

LEMMA StatusChanged ==
  ASSUME NEW s \in HttpsStatus, NEW state \in {"configuring", "verified", "verification_required", "failed"},
         NEW error \in {"none", "failed", "rollback_failed"}
  PROVE  LET r == [s EXCEPT !.state = state, !.error = error] IN
         /\ r \in HttpsStatus /\ r.state = state /\ r.error = error
         /\ r.domain = s.domain /\ r.retry = s.retry
  BY DEF HttpsStatus

LEMMA AtRest == /\ NoWorker \in WorkerKind /\ NoWorker.step = "none"
              /\ Unset \in HttpsStatus /\ Unset.retry = 0 /\ Unset.domain = "none"
              /\ Unset.state = "not_configured" /\ Unset.error = "none"
  BY HttpsAssumption DEF NoWorker, WorkerKind, HttpsSteps, NoSite, SiteFiles, Unset, HttpsStatus, HttpsAssumption

LEMMA SetupFailed ==
  ASSUME helper \in HelperKind, NEW error \in {"failed", "rollback_failed"}, Failed(error)
  PROVE  /\ worker' \in WorkerKind /\ worker'.step = "none"
         /\ helper' \in HelperKind /\ statusFile' \in HttpsStatus
         /\ helper'.up = helper.up /\ helper'.status = statusFile'
         /\ statusFile'.state \in {"verification_required", "failed"} /\ statusFile'.error = error
         /\ statusFile'.domain = helper.status.domain /\ statusFile'.retry = helper.status.retry
  <1>1. helper.status \in HttpsStatus
    BY DEF HelperKind
  <1>2. \E state \in {"verification_required", "failed"} :
           Persist([helper.status EXCEPT !.state = state, !.error = error])
    <2>1. [helper.status EXCEPT !.error = error,
                !.state = IF worker.was # NoSite THEN "verification_required" ELSE "failed"]
          = [helper.status EXCEPT !.state = IF worker.was # NoSite THEN "verification_required" ELSE "failed",
                                  !.error = error]
      BY <1>1 DEF HttpsStatus
    <2> QED BY <2>1 DEF Failed
  <1>3. worker' = NoWorker
    BY DEF Failed
  <1>4. PICK state \in {"verification_required", "failed"} :
           Persist([helper.status EXCEPT !.state = state, !.error = error])
    BY <1>2
  <1> DEFINE r == [helper.status EXCEPT !.state = state, !.error = error]
  <1>5. /\ r \in HttpsStatus /\ r.state = state /\ r.error = error
        /\ r.domain = helper.status.domain /\ r.retry = helper.status.retry
    <2> DEFINE s == helper.status
    <2>1. s \in HttpsStatus
      BY <1>1
    <2> HIDE DEF s
    <2>2. LET q == [s EXCEPT !.state = state, !.error = error] IN
             q \in HttpsStatus /\ q.state = state /\ q.error = error /\ q.domain = s.domain /\ q.retry = s.retry
      BY <2>1 DEF HttpsStatus
    <2> QED BY <2>2 DEF s
  <1> HIDE DEF r
  <1>6. helper' \in HelperKind /\ helper'.up = helper.up /\ helper'.status = r /\ statusFile' = r
    BY <1>4, <1>5, Reported DEF r
  <1> QED BY <1>3, <1>5, <1>6, AtRest

LEMMA Kinds == HttpsTypeOK <=>
    /\ caddyfile \in SiteFiles /\ previousFile \in SiteFiles
    /\ proxy \in ProxyKind /\ statusFile \in HttpsStatus /\ helper \in HelperKind /\ worker \in WorkerKind
    /\ before \in [file : SiteFiles, active : BOOLEAN]
    /\ tenMinutes \in 0..MaxCooldowns /\ issued \in 0..MaxCooldowns + 1 /\ httpsFaults \in 0..MaxHttpsFaults
  BY DEF HttpsTypeOK, ProxyKind, HelperKind, WorkerKind

LEMMA KindsNext == HttpsTypeOK' <=>
    /\ caddyfile' \in SiteFiles /\ previousFile' \in SiteFiles
    /\ proxy' \in ProxyKind /\ statusFile' \in HttpsStatus /\ helper' \in HelperKind /\ worker' \in WorkerKind
    /\ before' \in [file : SiteFiles, active : BOOLEAN]
    /\ tenMinutes' \in 0..MaxCooldowns /\ issued' \in 0..MaxCooldowns + 1 /\ httpsFaults' \in 0..MaxHttpsFaults
  BY DEF HttpsTypeOK, ProxyKind, HelperKind, WorkerKind

LEMMA OneFault ==
  ASSUME httpsFaults \in 0..MaxHttpsFaults, HttpsFault
  PROVE  httpsFaults' \in 0..MaxHttpsFaults /\ httpsFaults' # 0
  BY HttpsAssumption DEF HttpsFault, HttpsAssumption

LEMMA FieldKinds ==
  ASSUME HttpsTypeOK
  PROVE  /\ helper.status \in HttpsStatus /\ helper.up \in BOOLEAN
         /\ statusFile.domain \in Domains \cup {"none"} /\ statusFile.retry \in Nat /\ statusFile.retry \in 0..MaxCooldowns + 1
         /\ statusFile.hadPrevious \in BOOLEAN /\ statusFile.previousActive \in BOOLEAN
         /\ statusFile.state \in {"not_configured", "configuring", "verified", "verification_required", "failed"}
         /\ worker.step \in HttpsSteps /\ worker.site \in SiteFiles /\ worker.was \in SiteFiles
         /\ worker.wasActive \in BOOLEAN
         /\ proxy.active \in BOOLEAN /\ proxy.enabled \in BOOLEAN /\ proxy.serving \in SiteFiles
         /\ before.file \in SiteFiles /\ before.active \in BOOLEAN
         /\ httpsFaults \in Nat /\ tenMinutes \in Nat /\ issued \in Nat
  BY HttpsAssumption DEF HttpsTypeOK, HttpsStatus, HttpsAssumption

LEMMA HelperStartsKeeps == ASSUME HttpsInv, HelperStarts PROVE HttpsInv'
  <1> USE DEF HttpsInv
  <1>k. HttpsTypeOK
    OBVIOUS
  <1>0. /\ ~helper.up /\ worker' \in WorkerKind /\ helper' \in HelperKind /\ helper'.up
        /\ worker'.step = (IF statusFile.state = "configuring" THEN "recover" ELSE "none")
        /\ helper'.status.error = "none" /\ helper'.status.state # "verified"
        /\ worker'.step = "recover" => helper'.status.state = "configuring"
        /\ helper'.status.domain = statusFile.domain /\ helper'.status.retry = statusFile.retry
        /\ UNCHANGED <<caddyfile, previousFile, proxy, statusFile, before, tenMinutes, issued, httpsFaults>>
    <2>1. statusFile.domain = "none" => statusFile.retry = 0 /\ statusFile.state # "configuring"
      BY DEF AskedOnce
    <2>2. worker' \in WorkerKind /\ worker'.step = (IF statusFile.state = "configuring" THEN "recover" ELSE "none")
      <3>1. [NoWorker EXCEPT !.step = "recover"] \in WorkerKind /\ [NoWorker EXCEPT !.step = "recover"].step = "recover"
        BY AtRest DEF WorkerKind, HttpsSteps
      <3> QED BY <3>1, AtRest DEF HelperStarts
    <2>3. CASE statusFile.domain = "none"
      <3>1. helper' = [up |-> TRUE, status |-> Unset]
        BY <2>3 DEF HelperStarts
      <3> QED BY <2>1, <2>2, <2>3, <3>1, AtRest DEF HelperStarts, HelperKind
    <2>4. CASE statusFile.domain # "none"
      <3> DEFINE state == IF statusFile.state = "configuring" THEN "configuring" ELSE "verification_required"
                 s == [Unset EXCEPT !.domain = statusFile.domain, !.retry = statusFile.retry, !.state = state]
      <3>1. helper' = [up |-> TRUE, status |-> s]
        BY <2>4 DEF HelperStarts
      <3>2. /\ s \in HttpsStatus /\ s.error = "none" /\ s.state = state
            /\ s.domain = statusFile.domain /\ s.retry = statusFile.retry
        <4>1. PICK old : old = statusFile /\ old \in HttpsStatus
          BY <1>k DEF HttpsTypeOK
        <4>2. PICK u : u = Unset /\ u \in HttpsStatus /\ u.error = "none"
          BY AtRest
        <4>3. PICK st \in {"configuring", "verification_required"} : st = state
          OBVIOUS
        <4> DEFINE t == [u EXCEPT !.domain = old.domain, !.retry = old.retry, !.state = st]
        <4>4. t \in HttpsStatus /\ t.error = "none" /\ t.state = st /\ t.domain = old.domain /\ t.retry = old.retry
          BY <4>1, <4>2 DEF HttpsStatus
        <4>5. s = t
          BY <4>1, <4>2, <4>3, Zenon
        <4> HIDE DEF s, t, state
        <4> QED BY <4>1, <4>3, <4>4, <4>5
      <3>3. state \in {"configuring", "verification_required"} /\ (statusFile.state = "configuring" => state = "configuring")
        OBVIOUS
      <3> HIDE DEF s, state
      <3>4. helper' \in HelperKind /\ helper'.up /\ helper'.status = s
        BY <3>1, <3>2 DEF HelperKind
      <3> QED BY <2>2, <3>2, <3>3, <3>4 DEF HelperStarts
    <2> QED BY <2>3, <2>4
  <1>1. HttpsTypeOK'
    BY <1>0, <1>k, FieldKinds, Kinds, KindsNext DEF SiteFiles
  <1>2. Undoable'
    BY <1>0, <1>k, FieldKinds DEF Undoable, AtWork, AskedOnce, Unharmed, FailedSetupUndone
  <1>3. AtWork'
    BY <1>0, <1>k, FieldKinds DEF Undoable, AtWork, AskedOnce, Unharmed, FailedSetupUndone
  <1>4. AskedOnce'
    BY <1>0, <1>k, FieldKinds DEF Undoable, AtWork, AskedOnce, Unharmed, FailedSetupUndone
  <1>5. Unharmed'
    BY <1>0, <1>k, FieldKinds DEF Undoable, AtWork, AskedOnce, Unharmed, FailedSetupUndone
  <1>6. FailedSetupUndone'
    BY <1>0, <1>k, FieldKinds DEF Undoable, AtWork, AskedOnce, Unharmed, FailedSetupUndone
  <1> QED BY <1>1, <1>2, <1>3, <1>4, <1>5, <1>6

LEMMA HelperKilledKeeps == ASSUME HttpsInv, HelperKilled PROVE HttpsInv'
  <1> USE DEF HttpsInv
  <1>k. HttpsTypeOK
    OBVIOUS
  <1>0. /\ worker' \in WorkerKind /\ worker'.step = "none" /\ helper' \in HelperKind /\ ~helper'.up
        /\ proxy' \in ProxyKind /\ httpsFaults' \in 0..MaxHttpsFaults /\ httpsFaults' # 0
        /\ UNCHANGED <<caddyfile, previousFile, statusFile, before, tenMinutes, issued>>
    <2>1. helper' \in HelperKind /\ ~helper'.up
      BY <1>k, Kinds DEF HelperKilled, HelperKind
    <2>2. proxy' \in ProxyKind
      BY <1>k, Kinds DEF HelperKilled, ProxyKind, SiteFiles
    <2> QED BY <1>k, <2>1, <2>2, AtRest, OneFault, Kinds DEF HelperKilled
  <1>1. HttpsTypeOK'
    BY <1>0, <1>k, FieldKinds, Kinds, KindsNext DEF SiteFiles
  <1>2. Undoable'
    BY <1>0, <1>k, FieldKinds DEF Undoable, AtWork, AskedOnce, Unharmed, FailedSetupUndone
  <1>3. AtWork'
    BY <1>0, <1>k, FieldKinds DEF Undoable, AtWork, AskedOnce, Unharmed, FailedSetupUndone
  <1>4. AskedOnce'
    BY <1>0, <1>k, FieldKinds DEF Undoable, AtWork, AskedOnce, Unharmed, FailedSetupUndone
  <1>5. Unharmed'
    BY <1>0, <1>k, FieldKinds DEF Undoable, AtWork, AskedOnce, Unharmed, FailedSetupUndone
  <1>6. FailedSetupUndone'
    BY <1>0, <1>k, FieldKinds DEF Undoable, AtWork, AskedOnce, Unharmed, FailedSetupUndone
  <1> QED BY <1>1, <1>2, <1>3, <1>4, <1>5, <1>6

LEMMA WriteSiteKeeps == ASSUME HttpsInv, WriteSite PROVE HttpsInv'
  <1> USE DEF HttpsInv
  <1>k. HttpsTypeOK
    OBVIOUS
  <1>u. helper.up /\ helper.status.domain = statusFile.domain /\ helper.status.retry = statusFile.retry /\ worker.step = "accepted"
    BY DEF WriteSite, AtWork, AskedOnce
  <1>0. /\ \/ /\ caddyfile' = worker.site /\ worker' \in WorkerKind /\ worker'.step = "written"
              /\ worker'.site = worker.site /\ worker'.was = worker.was /\ worker'.wasActive = worker.wasActive
              /\ UNCHANGED <<helper, statusFile, httpsFaults>>
           \/ /\ worker' \in WorkerKind /\ worker'.step = "none"
              /\ helper' \in HelperKind /\ statusFile' \in HttpsStatus
              /\ helper'.up /\ helper'.status = statusFile'
              /\ statusFile'.state \in {"verification_required", "failed"}
              /\ statusFile'.domain = statusFile.domain /\ statusFile'.retry = statusFile.retry
              /\ httpsFaults' \in 0..MaxHttpsFaults /\ httpsFaults' # 0 /\ UNCHANGED caddyfile
        /\ worker.step = "accepted" /\ worker.site \in Sites
        /\ UNCHANGED <<previousFile, proxy, before, tenMinutes, issued>>
    <2>1. ASSUME ToStep("written") PROVE worker' \in WorkerKind /\ worker'.step = "written"
              /\ worker'.site = worker.site /\ worker'.was = worker.was /\ worker'.wasActive = worker.wasActive
      BY <1>k, <2>1, Kinds, StepTaken DEF HttpsSteps
    <2>2. ASSUME PreflightFails
          PROVE  /\ worker' \in WorkerKind /\ worker'.step = "none"
                 /\ helper' \in HelperKind /\ statusFile' \in HttpsStatus
                 /\ helper'.up /\ helper'.status = statusFile'
                 /\ statusFile'.state \in {"verification_required", "failed"}
                 /\ statusFile'.domain = statusFile.domain /\ statusFile'.retry = statusFile.retry
                 /\ httpsFaults' \in 0..MaxHttpsFaults /\ httpsFaults' # 0
      BY <1>k, <1>u, <2>2, Kinds, SetupFailed, OneFault DEF PreflightFails
    <2>3. worker.site \in Sites
      BY <1>u DEF AtWork
    <2> QED BY <1>u, <2>1, <2>2, <2>3 DEF WriteSite, NoHttpsFault
  <1>1. HttpsTypeOK'
    BY <1>0, <1>k, FieldKinds, Kinds, KindsNext DEF SiteFiles
  <1>2. Undoable'
    BY <1>0, <1>k, FieldKinds DEF Undoable, AtWork, AskedOnce, Unharmed, FailedSetupUndone, SiteFiles, NoSite, Sites
  <1>3. AtWork'
    BY <1>0, <1>k, FieldKinds DEF Undoable, AtWork, AskedOnce, Unharmed, FailedSetupUndone, SiteFiles, NoSite, Sites
  <1>4. AskedOnce'
    BY <1>0, <1>k, FieldKinds DEF Undoable, AtWork, AskedOnce, Unharmed, FailedSetupUndone, SiteFiles, NoSite, Sites
  <1>5. Unharmed'
    BY <1>0, <1>k, FieldKinds DEF Undoable, AtWork, AskedOnce, Unharmed, FailedSetupUndone, SiteFiles, NoSite, Sites
  <1>6. FailedSetupUndone'
    BY <1>0, <1>k, FieldKinds DEF Undoable, AtWork, AskedOnce, Unharmed, FailedSetupUndone, SiteFiles, NoSite, Sites
  <1> QED BY <1>1, <1>2, <1>3, <1>4, <1>5, <1>6

LEMMA ServeSiteKeeps == ASSUME HttpsInv, ServeSite PROVE HttpsInv'
  <1> USE DEF HttpsInv
  <1>k. HttpsTypeOK
    OBVIOUS
  <1>0. /\ worker.step = "written"
        /\ \/ /\ proxy' \in ProxyKind /\ proxy'.serving = caddyfile /\ worker'.step = "probing" /\ UNCHANGED httpsFaults
           \/ worker'.step = "restore" /\ httpsFaults' \in 0..MaxHttpsFaults /\ httpsFaults' # 0 /\ UNCHANGED proxy
        /\ worker' \in WorkerKind
        /\ worker'.site = worker.site /\ worker'.was = worker.was /\ worker'.wasActive = worker.wasActive
        /\ UNCHANGED <<caddyfile, previousFile, statusFile, helper, before, tenMinutes, issued>>
    <2>1. ASSUME NEW s \in {"probing", "restore"}, ToStep(s)
          PROVE  worker' \in WorkerKind /\ worker'.step = s
                 /\ worker'.site = worker.site /\ worker'.was = worker.was /\ worker'.wasActive = worker.wasActive
      BY <1>k, <2>1, Kinds, StepTaken DEF HttpsSteps
    <2>2. Serve(caddyfile) => proxy' \in ProxyKind /\ proxy'.serving = caddyfile
      BY <1>k, Kinds, ProxyServes
    <2> QED BY <1>k, <2>1, <2>2, Kinds, OneFault DEF ServeSite, NoHttpsFault
  <1>1. HttpsTypeOK'
    BY <1>0, <1>k, FieldKinds, Kinds, KindsNext DEF SiteFiles
  <1>2. Undoable'
    BY <1>0, <1>k, FieldKinds DEF Undoable, AtWork, AskedOnce, Unharmed, FailedSetupUndone
  <1>3. AtWork'
    BY <1>0, <1>k, FieldKinds DEF Undoable, AtWork, AskedOnce, Unharmed, FailedSetupUndone
  <1>4. AskedOnce'
    BY <1>0, <1>k, FieldKinds DEF Undoable, AtWork, AskedOnce, Unharmed, FailedSetupUndone
  <1>5. Unharmed'
    BY <1>0, <1>k, FieldKinds DEF Undoable, AtWork, AskedOnce, Unharmed, FailedSetupUndone
  <1>6. FailedSetupUndone'
    BY <1>0, <1>k, FieldKinds DEF Undoable, AtWork, AskedOnce, Unharmed, FailedSetupUndone
  <1> QED BY <1>1, <1>2, <1>3, <1>4, <1>5, <1>6

LEMMA CertificateComesKeeps == ASSUME HttpsInv, CertificateComes PROVE HttpsInv'
  <1> USE DEF HttpsInv
  <1>k. HttpsTypeOK
    OBVIOUS
  <1>0. /\ worker.step \in {"probing", "recover"} /\ caddyfile # NoSite
        /\ proxy' \in ProxyKind /\ proxy'.active = proxy.active /\ proxy'.serving = proxy.serving
        /\ worker' \in WorkerKind /\ worker'.step = "none" /\ previousFile' = NoSite
        /\ helper' \in HelperKind /\ statusFile' \in HttpsStatus
        /\ helper'.up /\ helper'.status = statusFile'
        /\ statusFile'.state = "verified" /\ statusFile'.error = "none"
        /\ statusFile'.domain = statusFile.domain /\ statusFile'.retry = statusFile.retry
        /\ UNCHANGED <<caddyfile, before, tenMinutes, issued, httpsFaults>>
    <2>1. proxy' \in ProxyKind /\ proxy'.active = proxy.active /\ proxy'.serving = proxy.serving
      BY <1>k, Kinds DEF CertificateComes, ProxyKind
    <2>2. helper.up /\ helper.status.domain = statusFile.domain /\ helper.status.retry = statusFile.retry
      BY DEF CertificateComes, AtWork, AskedOnce
    <2> DEFINE s == Verified(helper.status)
    <2>3. /\ s \in HttpsStatus /\ s.state = "verified" /\ s.error = "none"
          /\ s.domain = helper.status.domain /\ s.retry = helper.status.retry
      BY <1>k, FieldKinds, StatusChanged DEF Verified
    <2>4. Persist(s)
      BY DEF CertificateComes
    <2> HIDE DEF s
    <2>5. helper' \in HelperKind /\ statusFile' \in HttpsStatus
         /\ helper'.up = helper.up /\ helper'.status = s /\ statusFile' = s
      BY <1>k, <2>3, <2>4, Kinds, Reported
    <2> QED BY <2>1, <2>2, <2>3, <2>5, AtRest DEF CertificateComes, Probed
  <1>1. HttpsTypeOK'
    BY <1>0, <1>k, FieldKinds, Kinds, KindsNext DEF SiteFiles
  <1>2. Undoable'
    BY <1>0, <1>k, FieldKinds DEF Undoable, AtWork, AskedOnce, Unharmed, FailedSetupUndone, SiteFiles
  <1>3. AtWork'
    BY <1>0, <1>k, FieldKinds DEF Undoable, AtWork, AskedOnce, Unharmed, FailedSetupUndone, SiteFiles
  <1>4. AskedOnce'
    BY <1>0, <1>k, FieldKinds DEF Undoable, AtWork, AskedOnce, Unharmed, FailedSetupUndone, SiteFiles
  <1>5. Unharmed'
    BY <1>0, <1>k, FieldKinds DEF Undoable, AtWork, AskedOnce, Unharmed, FailedSetupUndone, SiteFiles
  <1>6. FailedSetupUndone'
    BY <1>0, <1>k, FieldKinds DEF Undoable, AtWork, AskedOnce, Unharmed, FailedSetupUndone, SiteFiles
  <1> QED BY <1>1, <1>2, <1>3, <1>4, <1>5, <1>6

LEMMA ProbesEndKeeps == ASSUME HttpsInv, ProbesEnd PROVE HttpsInv'
  <1> USE DEF HttpsInv
  <1>k. HttpsTypeOK
    OBVIOUS
  <1>0. /\ worker.step = "probing" /\ worker' \in WorkerKind /\ worker'.step = "restore"
        /\ worker'.site = worker.site /\ worker'.was = worker.was /\ worker'.wasActive = worker.wasActive
        /\ UNCHANGED <<caddyfile, previousFile, proxy, statusFile, helper, before, tenMinutes, issued, httpsFaults>>
    BY <1>k, Kinds, StepTaken DEF ProbesEnd, HttpsSteps
  <1>1. HttpsTypeOK'
    BY <1>0, <1>k, FieldKinds, Kinds, KindsNext DEF SiteFiles
  <1>2. Undoable'
    BY <1>0, <1>k, FieldKinds DEF Undoable, AtWork, AskedOnce, Unharmed, FailedSetupUndone
  <1>3. AtWork'
    BY <1>0, <1>k, FieldKinds DEF Undoable, AtWork, AskedOnce, Unharmed, FailedSetupUndone
  <1>4. AskedOnce'
    BY <1>0, <1>k, FieldKinds DEF Undoable, AtWork, AskedOnce, Unharmed, FailedSetupUndone
  <1>5. Unharmed'
    BY <1>0, <1>k, FieldKinds DEF Undoable, AtWork, AskedOnce, Unharmed, FailedSetupUndone
  <1>6. FailedSetupUndone'
    BY <1>0, <1>k, FieldKinds DEF Undoable, AtWork, AskedOnce, Unharmed, FailedSetupUndone
  <1> QED BY <1>1, <1>2, <1>3, <1>4, <1>5, <1>6

LEMMA RestoreFileKeeps == ASSUME HttpsInv, RestoreFile PROVE HttpsInv'
  <1> USE DEF HttpsInv
  <1>k. HttpsTypeOK
    OBVIOUS
  <1>u. /\ helper.up /\ helper.status.domain = statusFile.domain /\ helper.status.retry = statusFile.retry
        /\ worker.step = "restore" /\ worker.was = before.file
    BY DEF RestoreFile, AtWork, AskedOnce
  <1>0. /\ \/ /\ \/ before.file # NoSite /\ caddyfile' = before.file /\ UNCHANGED proxy
                 \/ /\ before.file = NoSite /\ proxy' \in ProxyKind /\ ~proxy'.active /\ proxy'.serving = NoSite
                    /\ UNCHANGED caddyfile
              /\ worker' \in WorkerKind /\ worker'.step = "restart"
              /\ worker'.site = worker.site /\ worker'.was = worker.was /\ worker'.wasActive = worker.wasActive
              /\ UNCHANGED <<helper, statusFile, httpsFaults>>
           \/ /\ worker' \in WorkerKind /\ worker'.step = "none"
              /\ helper' \in HelperKind /\ statusFile' \in HttpsStatus
              /\ helper'.up /\ helper'.status = statusFile'
              /\ statusFile'.state \in {"verification_required", "failed"} /\ statusFile'.error = "rollback_failed"
              /\ statusFile'.domain = statusFile.domain /\ statusFile'.retry = statusFile.retry
              /\ httpsFaults' \in 0..MaxHttpsFaults /\ httpsFaults' # 0 /\ UNCHANGED <<caddyfile, proxy>>
        /\ worker.step = "restore"
        /\ UNCHANGED <<previousFile, before, tenMinutes, issued>>
    <2>1. ASSUME ToStep("restart")
          PROVE  worker' \in WorkerKind /\ worker'.step = "restart"
              /\ worker'.site = worker.site /\ worker'.was = worker.was /\ worker'.wasActive = worker.wasActive
      BY <1>k, <2>1, Kinds, StepTaken DEF HttpsSteps
    <2>2. StopProxy => proxy' \in ProxyKind /\ ~proxy'.active /\ proxy'.serving = NoSite
      BY <1>k, Kinds, ProxyServes
    <2>3. ASSUME Failed("rollback_failed")
          PROVE  /\ worker' \in WorkerKind /\ worker'.step = "none"
                 /\ helper' \in HelperKind /\ statusFile' \in HttpsStatus
                 /\ helper'.up /\ helper'.status = statusFile'
                 /\ statusFile'.state \in {"verification_required", "failed"} /\ statusFile'.error = "rollback_failed"
                 /\ statusFile'.domain = statusFile.domain /\ statusFile'.retry = statusFile.retry
      BY <1>k, <1>u, <2>3, Kinds, SetupFailed
    <2>4. HttpsFault => httpsFaults' \in 0..MaxHttpsFaults /\ httpsFaults' # 0
      BY <1>k, Kinds, OneFault
    <2> QED BY <1>u, <2>1, <2>2, <2>3, <2>4 DEF RestoreFile, NoHttpsFault
  <1>1. HttpsTypeOK'
    BY <1>0, <1>k, FieldKinds, Kinds, KindsNext DEF SiteFiles
  <1>2. Undoable'
    BY <1>0, <1>k, FieldKinds DEF Undoable, AtWork, AskedOnce, Unharmed, FailedSetupUndone
  <1>3. AtWork'
    BY <1>0, <1>k, FieldKinds DEF Undoable, AtWork, AskedOnce, Unharmed, FailedSetupUndone
  <1>4. AskedOnce'
    BY <1>0, <1>k, FieldKinds DEF Undoable, AtWork, AskedOnce, Unharmed, FailedSetupUndone
  <1>5. Unharmed'
    BY <1>0, <1>k, FieldKinds DEF Undoable, AtWork, AskedOnce, Unharmed, FailedSetupUndone
  <1>6. FailedSetupUndone'
    BY <1>0, <1>k, FieldKinds DEF Undoable, AtWork, AskedOnce, Unharmed, FailedSetupUndone
  <1> QED BY <1>1, <1>2, <1>3, <1>4, <1>5, <1>6

LEMMA RestoreProxyKeeps == ASSUME HttpsInv, RestoreProxy PROVE HttpsInv'
  <1> USE DEF HttpsInv
  <1>k. HttpsTypeOK
    OBVIOUS
  <1>u. /\ helper.up /\ helper.status.domain = statusFile.domain /\ helper.status.retry = statusFile.retry
        /\ worker.step = "restart" /\ worker.was = before.file /\ worker.wasActive = before.active
    BY DEF RestoreProxy, AtWork, AskedOnce
  <1>0. /\ \/ /\ statusFile'.error = "failed" /\ UNCHANGED httpsFaults
              /\ \/ before.file = NoSite /\ caddyfile' = NoSite /\ UNCHANGED proxy
                 \/ /\ before.file # NoSite /\ UNCHANGED caddyfile
                    /\ proxy' \in ProxyKind /\ proxy'.active = before.active /\ proxy'.serving \in {NoSite, caddyfile}
           \/ /\ statusFile'.error = "rollback_failed" /\ UNCHANGED <<caddyfile, proxy>>
              /\ httpsFaults' \in 0..MaxHttpsFaults /\ httpsFaults' # 0
        /\ worker' \in WorkerKind /\ worker'.step = "none"
        /\ helper' \in HelperKind /\ statusFile' \in HttpsStatus
        /\ helper'.up /\ helper'.status = statusFile'
        /\ statusFile'.state \in {"verification_required", "failed"}
        /\ statusFile'.domain = statusFile.domain /\ statusFile'.retry = statusFile.retry
        /\ worker.step = "restart" /\ NoSite \in SiteFiles
        /\ UNCHANGED <<previousFile, before, tenMinutes, issued>>
    <2>1. StopProxy => proxy' \in ProxyKind /\ ~proxy'.active /\ proxy'.serving = NoSite
      BY <1>k, Kinds, ProxyServes
    <2>2. Serve(caddyfile) => proxy' \in ProxyKind /\ proxy'.active /\ proxy'.serving = caddyfile
      BY <1>k, Kinds, ProxyServes
    <2>3. ASSUME NEW error \in {"failed", "rollback_failed"}, Failed(error)
          PROVE  /\ worker' \in WorkerKind /\ worker'.step = "none"
                 /\ helper' \in HelperKind /\ statusFile' \in HttpsStatus
                 /\ helper'.up /\ helper'.status = statusFile' /\ statusFile'.error = error
                 /\ statusFile'.state \in {"verification_required", "failed"}
                 /\ statusFile'.domain = statusFile.domain /\ statusFile'.retry = statusFile.retry
      BY <1>k, <1>u, <2>3, Kinds, SetupFailed
    <2>4. HttpsFault => httpsFaults' \in 0..MaxHttpsFaults /\ httpsFaults' # 0
      BY <1>k, Kinds, OneFault
    <2>5. ASSUME Failed("failed"), NoHttpsFault,
                 IF worker.was = NoSite THEN caddyfile' = NoSite /\ UNCHANGED proxy
                 ELSE IF worker.wasActive THEN Serve(caddyfile) /\ UNCHANGED caddyfile
                 ELSE StopProxy /\ UNCHANGED caddyfile
          PROVE  /\ UNCHANGED httpsFaults
                 /\ \/ before.file = NoSite /\ caddyfile' = NoSite /\ UNCHANGED proxy
                    \/ /\ before.file # NoSite /\ UNCHANGED caddyfile
                       /\ proxy' \in ProxyKind /\ proxy'.active = before.active /\ proxy'.serving \in {NoSite, caddyfile}
      <3>1. before.active \in BOOLEAN /\ (proxy' \in ProxyKind => proxy'.active \in BOOLEAN)
        BY <1>k, FieldKinds DEF ProxyKind
      <3> QED BY <1>u, <2>1, <2>2, <2>5, <3>1 DEF NoHttpsFault
    <2> QED BY <1>u, <2>3, <2>4, <2>5 DEF RestoreProxy, SiteFiles
  <1>1. HttpsTypeOK'
    BY <1>0, <1>k, FieldKinds, Kinds, KindsNext DEF SiteFiles
  <1>2. Undoable'
    BY <1>0, <1>k, FieldKinds DEF Undoable, AtWork, AskedOnce, Unharmed, FailedSetupUndone
  <1>3. AtWork'
    BY <1>0, <1>k, FieldKinds DEF Undoable, AtWork, AskedOnce, Unharmed, FailedSetupUndone
  <1>4. AskedOnce'
    BY <1>0, <1>k, FieldKinds DEF Undoable, AtWork, AskedOnce, Unharmed, FailedSetupUndone
  <1>5. Unharmed'
    BY <1>0, <1>k, FieldKinds DEF Undoable, AtWork, AskedOnce, Unharmed, FailedSetupUndone
  <1>6. FailedSetupUndone'
    BY <1>0, <1>k, FieldKinds DEF Undoable, AtWork, AskedOnce, Unharmed, FailedSetupUndone
  <1> QED BY <1>1, <1>2, <1>3, <1>4, <1>5, <1>6

LEMMA RecoverUndoesKeeps == ASSUME HttpsInv, RecoverUndoes PROVE HttpsInv'
  <1> USE DEF HttpsInv
  <1>k. HttpsTypeOK
    OBVIOUS
  <1>u. /\ worker.step = "recover" /\ statusFile.state = "configuring"
        /\ statusFile.hadPrevious = (before.file # NoSite) /\ statusFile.previousActive = before.active
        /\ before.file # NoSite => previousFile = before.file /\ before.file.domain = statusFile.domain
        /\ before.file \in SiteFiles
    BY <1>k, FieldKinds DEF RecoverUndoes, AtWork, Undoable
  <1>0. /\ worker.step = "recover" /\ statusFile.state = "configuring"
        /\ worker' \in WorkerKind
        /\ \/ /\ before.file # NoSite /\ caddyfile' = before.file /\ UNCHANGED proxy
              /\ worker'.step \in {"undo", "redo"} /\ (worker'.step = "undo" => before.active)
           \/ /\ before.file = NoSite /\ proxy' \in ProxyKind /\ ~proxy'.active /\ worker'.step = "undo" /\ UNCHANGED caddyfile
        /\ UNCHANGED <<previousFile, statusFile, helper, before, tenMinutes, issued, httpsFaults>>
        /\ before.file # NoSite => before.file.domain = statusFile.domain
    <2>1. StopProxy => proxy' \in ProxyKind /\ ~proxy'.active
      BY <1>k, Kinds, ProxyServes
    <2>2. ToStep("undo") => worker' \in WorkerKind /\ worker'.step = "undo"
      BY <1>k, Kinds, StepTaken DEF HttpsSteps
    <2> DEFINE s == IF caddyfile # previousFile \/ ~proxy.active \/ ~statusFile.previousActive THEN "redo" ELSE "undo"
    <2>3. s \in HttpsSteps
      BY DEF HttpsSteps
    <2>4. ToStep(s) => worker' \in WorkerKind /\ worker'.step = s
      BY <1>k, <2>3, Kinds, StepTaken
    <2>5. CASE before.file # NoSite
      <3>1. caddyfile' = before.file /\ UNCHANGED proxy /\ ToStep(s)
        BY <1>u, <2>5 DEF RecoverUndoes, ToStep
      <3> QED BY <1>u, <2>4, <2>5, <3>1 DEF RecoverUndoes
    <2>6. CASE before.file = NoSite
      <3>1. StopProxy /\ ToStep("undo") /\ UNCHANGED caddyfile
        BY <1>u, <2>6 DEF RecoverUndoes
      <3> QED BY <1>u, <2>1, <2>2, <2>6, <3>1 DEF RecoverUndoes
    <2> QED BY <2>5, <2>6
  <1>1. HttpsTypeOK'
    BY <1>0, <1>k, FieldKinds, Kinds, KindsNext DEF SiteFiles
  <1>2. Undoable'
    BY <1>0, <1>k, FieldKinds DEF Undoable, AtWork, AskedOnce, Unharmed, FailedSetupUndone
  <1>3. AtWork'
    BY <1>0, <1>k, FieldKinds DEF Undoable, AtWork, AskedOnce, Unharmed, FailedSetupUndone
  <1>4. AskedOnce'
    BY <1>0, <1>k, FieldKinds DEF Undoable, AtWork, AskedOnce, Unharmed, FailedSetupUndone
  <1>5. Unharmed'
    BY <1>0, <1>k, FieldKinds DEF Undoable, AtWork, AskedOnce, Unharmed, FailedSetupUndone
  <1>6. FailedSetupUndone'
    BY <1>0, <1>k, FieldKinds DEF Undoable, AtWork, AskedOnce, Unharmed, FailedSetupUndone
  <1> QED BY <1>1, <1>2, <1>3, <1>4, <1>5, <1>6

LEMMA RecoverEndsKeeps == ASSUME HttpsInv, RecoverEnds PROVE HttpsInv'
  <1> USE DEF HttpsInv
  <1>k. HttpsTypeOK
    OBVIOUS
  <1>u. /\ helper.up /\ helper.status.domain = statusFile.domain /\ helper.status.retry = statusFile.retry
        /\ worker.step \in {"undo", "redo"} /\ statusFile.state = "configuring"
        /\ statusFile.hadPrevious = (before.file # NoSite) /\ statusFile.previousActive = before.active
        /\ before.file # NoSite => previousFile = before.file
        /\ IF before.file = NoSite THEN worker.step = "undo" /\ ~proxy.active
           ELSE caddyfile = before.file /\ (worker.step = "undo" => before.active)
    BY DEF RecoverEnds, AtWork, AskedOnce, Undoable
  <1>0. /\ \/ /\ caddyfile' = before.file /\ proxy' \in ProxyKind /\ (proxy'.active => before.active)
              /\ UNCHANGED httpsFaults
           \/ /\ statusFile'.error = "rollback_failed" /\ UNCHANGED <<caddyfile, proxy>>
              /\ httpsFaults' \in 0..MaxHttpsFaults /\ httpsFaults' # 0
        /\ worker' \in WorkerKind /\ worker'.step = "none"
        /\ helper' \in HelperKind /\ statusFile' \in HttpsStatus
        /\ helper'.up /\ helper'.status = statusFile' /\ statusFile'.state = "failed"
        /\ statusFile'.domain = statusFile.domain /\ statusFile'.retry = statusFile.retry
        /\ worker.step \in {"undo", "redo"}
        /\ UNCHANGED <<previousFile, before, tenMinutes, issued>>
    <2>1. StopProxy => proxy' \in ProxyKind /\ ~proxy'.active
      BY <1>k, Kinds, ProxyServes
    <2>2. Serve(caddyfile) => proxy' \in ProxyKind /\ proxy'.active
      BY <1>k, Kinds, ProxyServes
    <2>3. ASSUME NEW error \in {"failed", "rollback_failed"}, Persist([helper.status EXCEPT !.state = "failed", !.error = error])
          PROVE  /\ helper' \in HelperKind /\ statusFile' \in HttpsStatus
                 /\ helper'.up /\ helper'.status = statusFile' /\ statusFile'.error = error
                 /\ statusFile'.state = "failed"
                 /\ statusFile'.domain = statusFile.domain /\ statusFile'.retry = statusFile.retry
      <3> DEFINE r == [helper.status EXCEPT !.state = "failed", !.error = error]
      <3>1. /\ r \in HttpsStatus /\ r.state = "failed" /\ r.error = error
            /\ r.domain = helper.status.domain /\ r.retry = helper.status.retry
        <4> DEFINE s == helper.status
        <4>1. s \in HttpsStatus
          BY <1>k, FieldKinds
        <4> HIDE DEF s
        <4>2. LET q == [s EXCEPT !.state = "failed", !.error = error] IN
                 q \in HttpsStatus /\ q.state = "failed" /\ q.error = error /\ q.domain = s.domain /\ q.retry = s.retry
          BY <4>1 DEF HttpsStatus
        <4> QED BY <4>2 DEF s
      <3>2. Persist(r)
        BY <2>3
      <3> HIDE DEF r
      <3> QED BY <1>k, <1>u, <3>1, <3>2, Kinds, Reported
    <2>4. HttpsFault => httpsFaults' \in 0..MaxHttpsFaults /\ httpsFaults' # 0
      BY <1>k, Kinds, OneFault
    <2>5. ASSUME caddyfile' = (IF statusFile.hadPrevious /\ previousFile # NoSite THEN caddyfile ELSE NoSite),
                 IF worker.step = "undo" THEN UNCHANGED proxy
                 ELSE IF statusFile.previousActive THEN Serve(caddyfile) ELSE StopProxy
          PROVE  caddyfile' = before.file /\ proxy' \in ProxyKind /\ (proxy'.active => before.active)
      BY <1>k, <1>u, <2>1, <2>2, <2>5, Kinds
    <2>6. worker' \in WorkerKind /\ worker'.step = "none"
      BY AtRest DEF RecoverEnds
    <2> QED BY <1>u, <2>3, <2>4, <2>5, <2>6 DEF RecoverEnds, NoHttpsFault
  <1>1. HttpsTypeOK'
    BY <1>0, <1>k, FieldKinds, Kinds, KindsNext DEF SiteFiles
  <1>2. Undoable'
    BY <1>0, <1>k, FieldKinds DEF Undoable, AtWork, AskedOnce, Unharmed, FailedSetupUndone
  <1>3. AtWork'
    BY <1>0, <1>k, FieldKinds DEF Undoable, AtWork, AskedOnce, Unharmed, FailedSetupUndone
  <1>4. AskedOnce'
    BY <1>0, <1>k, FieldKinds DEF Undoable, AtWork, AskedOnce, Unharmed, FailedSetupUndone
  <1>5. Unharmed'
    BY <1>0, <1>k, FieldKinds DEF Undoable, AtWork, AskedOnce, Unharmed, FailedSetupUndone
  <1>6. FailedSetupUndone'
    BY <1>0, <1>k, FieldKinds DEF Undoable, AtWork, AskedOnce, Unharmed, FailedSetupUndone
  <1> QED BY <1>1, <1>2, <1>3, <1>4, <1>5, <1>6

LEMMA LookAgainKeeps == ASSUME HttpsInv, LookAgain PROVE HttpsInv'
  <1> USE DEF HttpsInv
  <1>k. HttpsTypeOK
    OBVIOUS
  <1>0. /\ worker.step = "none" /\ helper' \in HelperKind /\ helper'.up /\ helper.up
        /\ \/ helper'.status.state = "verified" /\ helper'.status.error = "none" /\ caddyfile # NoSite
           \/ helper'.status.state = "verification_required" /\ helper'.status.error = helper.status.error
        /\ helper'.status.domain = helper.status.domain /\ helper'.status.retry = helper.status.retry
        /\ UNCHANGED <<caddyfile, previousFile, proxy, statusFile, worker, before, tenMinutes, issued, httpsFaults>>
    <2> DEFINE s == helper.status
               a == Verified(s)
               b == [s EXCEPT !.state = "verification_required"]
    <2>1. s \in HttpsStatus
      BY <1>k, FieldKinds
    <2>2. /\ a \in HttpsStatus /\ a.state = "verified" /\ a.error = "none" /\ a.domain = s.domain /\ a.retry = s.retry
      BY <2>1, StatusChanged, ZenonT(60) DEF Verified
    <2>3. /\ b \in HttpsStatus /\ b.state = "verification_required" /\ b.error = s.error
          /\ b.domain = s.domain /\ b.retry = s.retry
      <3> HIDE DEF s
      <3> QED BY <2>1 DEF HttpsStatus
    <2>4. /\ helper.up /\ worker.step = "none"
          /\ \/ Probed /\ helper' = [helper EXCEPT !.status = a]
             \/ helper' = [helper EXCEPT !.status = b]
          /\ UNCHANGED <<caddyfile, previousFile, proxy, statusFile, worker, before, tenMinutes, issued, httpsFaults>>
      BY DEF LookAgain, Reachable
    <2>5. ASSUME NEW r \in HttpsStatus, helper' = [helper EXCEPT !.status = r]
          PROVE  helper' \in HelperKind /\ helper'.up = helper.up /\ helper'.status = r
      BY <1>k, <2>5, Kinds DEF HelperKind
    <2> HIDE DEF a, b
    <2> QED BY <2>2, <2>3, <2>4, <2>5 DEF Probed
  <1>1. HttpsTypeOK'
    BY <1>0, <1>k, FieldKinds, Kinds, KindsNext DEF SiteFiles
  <1>2. Undoable'
    BY <1>0, <1>k, FieldKinds DEF Undoable, AtWork, AskedOnce, Unharmed, FailedSetupUndone
  <1>3. AtWork'
    BY <1>0, <1>k, FieldKinds DEF Undoable, AtWork, AskedOnce, Unharmed, FailedSetupUndone
  <1>4. AskedOnce'
    BY <1>0, <1>k, FieldKinds DEF Undoable, AtWork, AskedOnce, Unharmed, FailedSetupUndone
  <1>5. Unharmed'
    BY <1>0, <1>k, FieldKinds DEF Undoable, AtWork, AskedOnce, Unharmed, FailedSetupUndone
  <1>6. FailedSetupUndone'
    BY <1>0, <1>k, FieldKinds DEF Undoable, AtWork, AskedOnce, Unharmed, FailedSetupUndone
  <1> QED BY <1>1, <1>2, <1>3, <1>4, <1>5, <1>6

LEMMA TenMinutesPassKeeps == ASSUME HttpsInv, TenMinutesPass PROVE HttpsInv'
  <1> USE DEF HttpsInv
  <1>k. HttpsTypeOK
    OBVIOUS
  <1>0. /\ tenMinutes' = tenMinutes + 1 /\ tenMinutes' \in 0..MaxCooldowns
        /\ UNCHANGED <<caddyfile, previousFile, proxy, statusFile, helper, worker, before, issued, httpsFaults>>
    BY <1>k, Kinds, HttpsAssumption DEF TenMinutesPass, HttpsAssumption
  <1>1. HttpsTypeOK'
    BY <1>0, <1>k, FieldKinds, Kinds, KindsNext DEF SiteFiles
  <1>2. Undoable'
    BY <1>0, <1>k, FieldKinds DEF Undoable, AtWork, AskedOnce, Unharmed, FailedSetupUndone
  <1>3. AtWork'
    BY <1>0, <1>k, FieldKinds DEF Undoable, AtWork, AskedOnce, Unharmed, FailedSetupUndone
  <1>4. AskedOnce'
    BY <1>0, <1>k, FieldKinds DEF Undoable, AtWork, AskedOnce, Unharmed, FailedSetupUndone
  <1>5. Unharmed'
    BY <1>0, <1>k, FieldKinds DEF Undoable, AtWork, AskedOnce, Unharmed, FailedSetupUndone
  <1>6. FailedSetupUndone'
    BY <1>0, <1>k, FieldKinds DEF Undoable, AtWork, AskedOnce, Unharmed, FailedSetupUndone
  <1> QED BY <1>1, <1>2, <1>3, <1>4, <1>5, <1>6


LEMMA ConfigureHttpsKeeps == ASSUME HttpsInv, NEW site \in Sites, ConfigureHttps(site) PROVE HttpsInv'
  <1> USE DEF HttpsInv
  <1>k. HttpsTypeOK
    OBVIOUS
  <1> DEFINE s == [Unset EXCEPT !.state = "configuring", !.domain = site.domain, !.retry = tenMinutes + 1,
                             !.hadPrevious = caddyfile # NoSite, !.previousActive = proxy.active]
  <1>d. site.domain \in Domains /\ site \in SiteFiles /\ site # NoSite /\ NoSite \in SiteFiles /\ site.domain # "none"
    BY HttpsAssumption DEF Sites, SiteFiles, NoSite, HttpsAssumption
  <1>s. /\ s \in HttpsStatus /\ s.state = "configuring" /\ s.domain = site.domain /\ s.retry = tenMinutes + 1
        /\ s.hadPrevious = (caddyfile # NoSite) /\ s.previousActive = proxy.active /\ s.error = "none"
    <2> DEFINE domain == site.domain
               retry == tenMinutes + 1
               had == (caddyfile # NoSite)
               upBefore == proxy.active
    <2>1. domain \in Domains /\ retry \in 0..MaxCooldowns + 1 /\ had \in BOOLEAN /\ upBefore \in BOOLEAN
      BY <1>d, <1>k, FieldKinds, Kinds, HttpsAssumption DEF HttpsAssumption
    <2> HIDE DEF domain, retry, had, upBefore
    <2>2. LET q == [Unset EXCEPT !.state = "configuring", !.domain = domain, !.retry = retry,
                                 !.hadPrevious = had, !.previousActive = upBefore] IN
          /\ q \in HttpsStatus /\ q.state = "configuring" /\ q.domain = domain /\ q.retry = retry
          /\ q.hadPrevious = had /\ q.previousActive = upBefore /\ q.error = "none"
      BY <2>1 DEF HttpsStatus, Unset
    <2> QED BY <2>2 DEF domain, retry, had, upBefore
  <1>p. Persist(s)
    BY DEF ConfigureHttps, Accept
  <1> HIDE DEF s
  <1>h. helper' \in HelperKind /\ statusFile' \in HttpsStatus
         /\ helper'.up = helper.up /\ helper'.status = s /\ statusFile' = s
    BY <1>k, <1>p, <1>s, Kinds, Reported
  <1>r. helper.status.retry = statusFile.retry /\ helper.up /\ tenMinutes >= helper.status.retry /\ worker.step = "none"
        /\ helper.status.retry \in Nat
    BY <1>k, FieldKinds DEF ConfigureHttps, Reachable, Accept, AskedOnce
  <1>w. /\ worker' \in WorkerKind /\ worker'.step = "accepted" /\ worker'.site = site
        /\ worker'.was = caddyfile /\ worker'.wasActive = proxy.active
        /\ before' \in [file : SiteFiles, active : BOOLEAN] /\ before'.file = caddyfile /\ before'.active = proxy.active
    BY <1>d, <1>k, Kinds, FieldKinds DEF ConfigureHttps, Accept, WorkerKind, HttpsSteps
  <1>i. issued' = issued + 1 /\ issued' \in 0..MaxCooldowns + 1 /\ issued' <= tenMinutes + 1
    BY <1>k, <1>r, Kinds, FieldKinds, HttpsAssumption DEF ConfigureHttps, Accept, AskedOnce, HttpsAssumption
  <1>0. /\ previousFile' = IF caddyfile = NoSite THEN previousFile ELSE caddyfile
        /\ caddyfile # NoSite => caddyfile.domain = site.domain
        /\ UNCHANGED <<caddyfile, proxy, tenMinutes, httpsFaults>>
    BY DEF ConfigureHttps, Accept, Backup
  <1>1. HttpsTypeOK'
    BY <1>0, <1>h, <1>w, <1>i, <1>k, Kinds, KindsNext
  <1>2. Undoable'
    BY <1>0, <1>h, <1>s, <1>w DEF Undoable
  <1>3. AtWork'
    BY <1>0, <1>d, <1>h, <1>r, <1>s, <1>w DEF AtWork
  <1>4. AskedOnce'
    BY <1>0, <1>d, <1>h, <1>i, <1>k, <1>r, <1>s, FieldKinds DEF AskedOnce
  <1>5. Unharmed'
    BY <1>0, <1>h, <1>r, <1>w DEF Unharmed
  <1>6. FailedSetupUndone'
    BY <1>0, <1>h, <1>w DEF FailedSetupUndone
  <1> QED BY <1>1, <1>2, <1>3, <1>4, <1>5, <1>6

LEMMA HttpsKept == ASSUME HttpsInv, [HttpsNext]_httpsVars PROVE HttpsInv'
  <1>1. CASE HttpsNext
    BY <1>1, HelperStartsKeeps, HelperKilledKeeps, WriteSiteKeeps, ServeSiteKeeps, CertificateComesKeeps,
       ProbesEndKeeps, RestoreFileKeeps, RestoreProxyKeeps, RecoverUndoesKeeps, RecoverEndsKeeps, LookAgainKeeps,
       TenMinutesPassKeeps, ConfigureHttpsKeeps DEF HttpsNext
  <1>2. CASE UNCHANGED httpsVars
    BY <1>2 DEF httpsVars, HttpsInv, HttpsTypeOK, Undoable, AtWork, AskedOnce, Unharmed, FailedSetupUndone
  <1> QED BY <1>1, <1>2

LEMMA HttpsMeans == HttpsInv => IssuanceCapped
  <1> SUFFICES ASSUME HttpsInv PROVE IssuanceCapped
    OBVIOUS
  <1>1. HttpsTypeOK
    BY DEF HttpsInv
  <1> QED BY <1>1, FieldKinds DEF HttpsInv, AskedOnce, AtWork, IssuanceCapped

-----------------------------------------------------------------------------
(* Applications (AppsAndSkills).  The object of an installation is its own:     *)
(* the table holds it for the app of that installation, until it is removed.    *)
ObjectsAreOwn ==
    /\ \A a \in Apps : installed[a].object <= used
    /\ \A a, b \in Apps : a # b /\ Listed(a) => installed[a].object # installed[b].object
    /\ \A i \in Installations : inst[i] # Idle =>
           /\ i <= used
           /\ ~inst[i].removed => installed[inst[i].app].object = i
           /\ \A a \in Apps : installed[a].object = i => inst[i].app = a

AppInv == AppTypeOK /\ ObjectsAreOwn /\ ContainersListed /\ FileFollowsTable

AppKind == {NoApp} \cup [object : Installations, status : Statuses]
InstKind == {Idle} \cup [app : Apps, step : 0..LastStep, start : BOOLEAN, removed : BOOLEAN]

LEMMA AppKinds ==
  ASSUME NEW x \in AppKind
  PROVE  /\ x.object \in Nat /\ x.status \in Statuses \cup {"none"}
         /\ x # NoApp <=> x.status # "none"
         /\ x # NoApp <=> x.object # 0
         /\ x # NoApp => x.status \in Statuses /\ x.object \in Installations
         /\ \A s \in Statuses : x # NoApp =>
               LET y == [x EXCEPT !.status = s] IN y \in AppKind /\ y.status = s /\ y.object = x.object
  BY AppAssumption DEF AppKind, NoApp, Statuses, Installations, AppAssumption

LEMMA InstKinds ==
  ASSUME NEW x \in InstKind
  PROVE  /\ x # Idle <=> x.app \in Apps
         /\ x # Idle => x.step \in 0..LastStep /\ x.start \in BOOLEAN /\ x.removed \in BOOLEAN
         /\ Idle \in InstKind /\ Idle.app = "none" /\ "none" \notin Apps
         /\ x # Idle /\ x.step < LastStep =>
               LET y == [x EXCEPT !.step = @ + 1] IN
               y \in InstKind /\ y # Idle /\ y.app = x.app /\ y.removed = x.removed /\ y.step = x.step + 1
         /\ x # Idle =>
               LET y == [x EXCEPT !.removed = TRUE] IN
               y \in InstKind /\ y # Idle /\ y.app = x.app /\ y.removed = TRUE /\ y.step = x.step
  <1>1. Idle \in InstKind /\ Idle.app = "none" /\ "none" \notin Apps
    BY AppAssumption DEF InstKind, Idle, AppAssumption
  <1>2. CASE x = Idle
    BY <1>1, <1>2
  <1>3. CASE x # Idle
    <2>1. x \in [app : Apps, step : 0..LastStep, start : BOOLEAN, removed : BOOLEAN] /\ LastStep \in Nat
      BY <1>3, AppAssumption DEF InstKind, AppAssumption
    <2>2. ASSUME x.step < LastStep
          PROVE  LET y == [x EXCEPT !.step = @ + 1] IN
                 /\ y \in [app : Apps, step : 0..LastStep, start : BOOLEAN, removed : BOOLEAN]
                 /\ y.app = x.app /\ y.removed = x.removed /\ y.step = x.step + 1
      BY <2>1, <2>2
    <2>3. LET y == [x EXCEPT !.removed = TRUE] IN
          /\ y \in [app : Apps, step : 0..LastStep, start : BOOLEAN, removed : BOOLEAN]
          /\ y.app = x.app /\ y.removed = TRUE /\ y.step = x.step
      BY <2>1
    <2>4. \A y \in [app : Apps, step : 0..LastStep, start : BOOLEAN, removed : BOOLEAN] : y \in InstKind /\ y # Idle
      BY <1>1 DEF InstKind
    <2> QED BY <1>1, <1>3, <2>1, <2>2, <2>3, <2>4
  <1> QED BY <1>2, <1>3

LEMMA AppTyped == AppTypeOK <=> /\ installed \in [Apps -> AppKind] /\ stateFile \in [Apps -> Statuses \cup {"none"}]
                                /\ inst \in [Installations -> InstKind] /\ container \subseteq DockerApps
                                /\ used \in 0..MaxInstalls
  BY DEF AppTypeOK, AppKind, InstKind

LEMMA AppTypedNext == AppTypeOK' <=> /\ installed' \in [Apps -> AppKind] /\ stateFile' \in [Apps -> Statuses \cup {"none"}]
                                     /\ inst' \in [Installations -> InstKind] /\ container' \subseteq DockerApps
                                     /\ used' \in 0..MaxInstalls
  BY DEF AppTypeOK, AppKind, InstKind

(* What the parts of a handler do to the table.                                 *)
SameObjects == /\ installed' \in [Apps -> AppKind]
               /\ \A a \in Apps : installed'[a].object = installed[a].object /\ (Listed(a)' <=> Listed(a))

LEMMA StatusIsSet ==
  ASSUME AppTypeOK, NEW a \in Apps, Listed(a), NEW s \in Statuses, SetStatus(a, s)
  PROVE  /\ SameObjects /\ installed'[a].status = s
         /\ \A b \in Apps : b # a => installed'[b] = installed[b]
  <1> DEFINE y == [installed[a] EXCEPT !.status = s]
  <1>1. installed \in [Apps -> AppKind] /\ installed[a] \in AppKind
    BY AppTyped
  <1>2. installed' = [installed EXCEPT ![a] = y]
    BY DEF SetStatus
  <1>3. y \in AppKind /\ y.status = s /\ y.object = installed[a].object
    BY <1>1, AppKinds DEF Listed
  <1> HIDE DEF y
  <1>4. installed' \in [Apps -> AppKind] /\ installed'[a] = y /\ \A b \in Apps : b # a => installed'[b] = installed[b]
    BY <1>1, <1>2, <1>3
  <1>5. y # NoApp
    BY <1>3, AppKinds DEF Statuses
  <1> QED BY <1>3, <1>4, <1>5 DEF SameObjects, Listed

LEMMA ObjectIsMarked ==
  ASSUME AppTypeOK, NEW i \in Installations, NEW s \in Statuses, MarkObject(i, s)
  PROVE  /\ SameObjects
         /\ \A a \in Apps : installed'[a].status = IF installed[a].object = i THEN s ELSE installed[a].status
  <1>1. installed \in [Apps -> AppKind] /\ i # 0
    BY AppTyped DEF Installations
  <1>2. ASSUME NEW a \in Apps
        PROVE  /\ installed'[a] \in AppKind /\ installed'[a].object = installed[a].object
               /\ Listed(a)' <=> Listed(a)
               /\ installed'[a].status = IF installed[a].object = i THEN s ELSE installed[a].status
    <2> DEFINE x == installed[a]
               y == [x EXCEPT !.status = s]
    <2>1. x \in AppKind /\ installed'[a] = IF x.object = i THEN y ELSE x
      BY <1>1 DEF MarkObject
    <2>2. CASE x.object = i
      <3>1. x # NoApp
        BY <1>1, <2>1, <2>2, AppKinds
      <3>2. y \in AppKind /\ y.status = s /\ y.object = x.object
        BY <2>1, <3>1, AppKinds
      <3> HIDE DEF y
      <3>3. y # NoApp
        BY <3>2, AppKinds DEF Statuses
      <3> QED BY <2>1, <2>2, <3>1, <3>2, <3>3 DEF Listed
    <2>3. CASE x.object # i
      BY <2>1, <2>3 DEF Listed
    <2> QED BY <2>2, <2>3
  <1>3. installed' = [a \in Apps |-> installed'[a]]
    BY DEF MarkObject
  <1> QED BY <1>2, <1>3 DEF SameObjects

LEMMA SavedFollows ==
  ASSUME installed' \in [Apps -> AppKind], Saved
  PROVE  stateFile' \in [Apps -> Statuses \cup {"none"}] /\ FileFollowsTable'
  <1>1. \A a \in Apps : /\ installed'[a].status \in Statuses \cup {"none"}
                        /\ Listed(a)' <=> installed'[a].status # "none"
    BY AppKinds DEF Listed
  <1>2. /\ stateFile' = [a \in Apps |-> stateFile'[a]]
        /\ \A a \in Apps : stateFile'[a] = installed'[a].status
    BY DEF Saved
  <1> QED BY <1>1, <1>2 DEF FileFollowsTable

LEMMA ObjectsStay ==
  ASSUME AppInv, SameObjects, UNCHANGED used, inst' \in [Installations -> InstKind],
         \A i \in Installations : inst'[i] # Idle =>
             inst[i] # Idle /\ inst'[i].app = inst[i].app /\ inst'[i].removed = inst[i].removed
  PROVE  ObjectsAreOwn'
  <1>1. \A i \in Installations : inst[i] # Idle => inst[i].app \in Apps
    BY AppTyped, InstKinds DEF AppInv
  <1> QED BY <1>1 DEF AppInv, ObjectsAreOwn, SameObjects

LEMMA AppStarts == AppInit => AppInv
  <1> SUFFICES ASSUME AppInit PROVE AppInv
    OBVIOUS
  <1>1. NoApp \in AppKind /\ Idle \in InstKind /\ NoApp.object = 0 /\ NoApp.status = "none"
    BY DEF AppKind, InstKind, NoApp
  <1>2. AppTypeOK
    BY <1>1, AppTyped, AppAssumption DEF AppInit, AppAssumption
  <1> QED BY <1>1, <1>2 DEF AppInit, AppInv, ObjectsAreOwn, ContainersListed, FileFollowsTable, Listed

LEMMA InstallBegins ==
  ASSUME AppInv, NEW a \in Apps, NEW start \in BOOLEAN, BeginInstall(a, start)
  PROVE  AppInv'
  <1> DEFINE u == used + 1
             x == [object |-> u, status |-> "installing"]
             y == [app |-> a, step |-> 0, start |-> start, removed |-> FALSE]
  <1>0. /\ installed \in [Apps -> AppKind] /\ inst \in [Installations -> InstKind]
        /\ used \in 0..MaxInstalls /\ container \subseteq DockerApps
    BY AppTyped DEF AppInv
  <1>1. u \in Installations /\ used' = u /\ used' \in 0..MaxInstalls /\ used \in Nat /\ u = used + 1
    BY <1>0, AppAssumption DEF BeginInstall, Installations, AppAssumption
  <1>2. x \in AppKind /\ x.object = u /\ x # NoApp
    BY <1>1 DEF AppKind, Statuses, NoApp
  <1>3. y \in InstKind /\ y.app = a /\ ~y.removed /\ y # Idle
    BY AppAssumption DEF InstKind, Idle, AppAssumption
  <1>4. ~Listed(a) /\ UNCHANGED container /\ Saved
    BY DEF BeginInstall
  <1>5. installed' = [installed EXCEPT ![a] = x] /\ inst' = [inst EXCEPT ![u] = y]
    BY <1>1 DEF BeginInstall
  <1> HIDE DEF x, y, u
  <1>6. /\ installed' \in [Apps -> AppKind] /\ installed'[a] = x
        /\ \A b \in Apps : b # a => installed'[b] = installed[b]
    BY <1>0, <1>2, <1>5
  <1>7. /\ inst' \in [Installations -> InstKind] /\ inst'[u] = y
        /\ \A i \in Installations : i # u => inst'[i] = inst[i]
    BY <1>0, <1>1, <1>3, <1>5
  <1>8. AppTypeOK' /\ FileFollowsTable'
    BY <1>0, <1>1, <1>4, <1>6, <1>7, AppTypedNext, SavedFollows
  <1>9. ObjectsAreOwn'
    <2>1. /\ \A b \in Apps : installed[b].object \in Nat /\ installed[b].object <= used
          /\ installed[a].object = 0
      BY <1>0, <1>4, AppKinds DEF AppInv, ObjectsAreOwn, Listed
    <2>2. \A i \in Installations : inst[i] # Idle =>
             inst[i].app \in Apps /\ i # u /\ i \in Nat /\ (~inst[i].removed => inst[i].app # a)
      <3>1. \A i \in Installations : inst[i] # Idle => inst[i].app \in Apps
        BY <1>0, InstKinds
      <3> QED BY <1>0, <1>1, <2>1, <3>1 DEF AppInv, ObjectsAreOwn, Installations
    <2>3. \A b \in Apps : installed'[b].object <= used'
      BY <1>1, <1>2, <1>6, <2>1
    <2>4. \A b, c \in Apps : b # c /\ Listed(b)' => installed'[b].object # installed'[c].object
      BY <1>1, <1>2, <1>6, <2>1 DEF AppInv, ObjectsAreOwn, Listed
    <2>5. ASSUME NEW i \in Installations, inst'[i] # Idle
          PROVE  /\ i <= used'
                 /\ ~inst'[i].removed => installed'[inst'[i].app].object = i
                 /\ \A b \in Apps : installed'[b].object = i => inst'[i].app = b
      <3>1. CASE i = u
        BY <1>1, <1>2, <1>3, <1>6, <1>7, <2>1, <3>1
      <3>2. CASE i # u
        <4>1. inst'[i] = inst[i] /\ i <= used /\ i \in Nat
          BY <1>7, <2>2, <2>5, <3>2 DEF AppInv, ObjectsAreOwn, Installations
        <4> QED BY <1>1, <1>2, <1>6, <2>2, <2>5, <3>2, <4>1 DEF AppInv, ObjectsAreOwn
      <3> QED BY <3>1, <3>2
    <2> QED BY <2>3, <2>4, <2>5 DEF ObjectsAreOwn
  <1>10. ContainersListed'
    <2>1. \A b \in container : b \in Apps /\ Listed(b)'
      BY <1>0, <1>2, <1>6, AppAssumption DEF AppInv, ContainersListed, Listed, AppAssumption
    <2> QED BY <1>4, <1>8, <2>1 DEF ContainersListed, FileFollowsTable
  <1> QED BY <1>8, <1>9, <1>10 DEF AppInv

LEMMA StepIsDone ==
  ASSUME AppInv, NEW i \in Installations, StepDone(i)
  PROVE  AppInv'
  <1> DEFINE y == [inst[i] EXCEPT !.step = @ + 1]
  <1>0. /\ installed \in [Apps -> AppKind] /\ inst \in [Installations -> InstKind]
        /\ used \in 0..MaxInstalls /\ container \subseteq DockerApps /\ stateFile \in [Apps -> Statuses \cup {"none"}]
        /\ AppTypeOK
    BY AppTyped DEF AppInv
  <1>1. /\ inst[i] # Idle /\ inst[i].step < LastStep /\ inst' = [inst EXCEPT ![i] = y]
        /\ UNCHANGED <<stateFile, container, used>>
    BY DEF StepDone
  <1>2. y \in InstKind /\ y # Idle /\ y.app = inst[i].app /\ y.removed = inst[i].removed /\ y.step = inst[i].step + 1
    BY <1>0, <1>1, InstKinds
  <1> HIDE DEF y
  <1>3. /\ inst' \in [Installations -> InstKind] /\ inst'[i] = y
        /\ \A j \in Installations : j # i => inst'[j] = inst[j]
    BY <1>0, <1>1, <1>2
  <1>4. /\ SameObjects
        /\ \A a \in Apps : \/ installed'[a].status = installed[a].status
                           \/ installed[a].object = i /\ y.step = LastStep
    <2>1. CASE inst[i].step + 1 = LastStep
      <3>1. MarkObject(i, "stopped")
        BY <2>1 DEF StepDone
      <3> QED BY <1>0, <1>2, <2>1, <3>1, ObjectIsMarked DEF Statuses
    <2>2. CASE inst[i].step + 1 # LastStep
      <3>1. UNCHANGED installed
        BY <2>2 DEF StepDone
      <3> QED BY <1>0, <3>1 DEF SameObjects, Listed
    <2> QED BY <2>1, <2>2
  <1>5. AppTypeOK'
    BY <1>0, <1>1, <1>3, <1>4, AppTypedNext DEF SameObjects
  <1>6. ObjectsAreOwn'
    BY <1>1, <1>2, <1>3, <1>4, ObjectsStay
  <1>7. ContainersListed'
    BY <1>0, <1>1, <1>4, AppAssumption DEF AppInv, ContainersListed, SameObjects, AppAssumption
  <1>8. FileFollowsTable'
    <2>1. ASSUME NEW a \in Apps, stateFile'[a] # installed'[a].status
          PROVE  \/ installed'[a].status = "error"
                 \/ \E j \in Installations : inst'[j] # Idle /\ inst'[j].step = LastStep /\ installed'[a].object = j
      <3>1. CASE installed[a].object = i /\ y.step = LastStep
        BY <1>2, <1>3, <1>4, <3>1 DEF SameObjects
      <3>2. CASE installed'[a].status = installed[a].status
        <4>1. ASSUME NEW j \in Installations, inst[j] # Idle /\ inst[j].step = LastStep /\ installed[a].object = j
              PROVE  inst'[j] # Idle /\ inst'[j].step = LastStep /\ installed'[a].object = j
          <5>1. j # i
            BY <1>1, <4>1, AppAssumption DEF AppAssumption
          <5> QED BY <1>3, <1>4, <4>1, <5>1 DEF SameObjects
        <4> QED BY <1>1, <2>1, <3>2, <4>1 DEF AppInv, FileFollowsTable
      <3> QED BY <1>4, <3>1, <3>2
    <2> QED BY <1>1, <1>4, <2>1 DEF AppInv, FileFollowsTable, SameObjects
  <1> QED BY <1>5, <1>6, <1>7, <1>8 DEF AppInv

(* After any handler that saves the table, and leaves its objects alone.        *)
LEMMA TableSaved ==
  ASSUME AppInv, SameObjects, Saved, UNCHANGED used, inst' \in [Installations -> InstKind],
         \A i \in Installations : inst'[i] # Idle =>
             inst[i] # Idle /\ inst'[i].app = inst[i].app /\ inst'[i].removed = inst[i].removed,
         container' \subseteq DockerApps, \A a \in container' : Listed(a)
  PROVE  AppInv'
  <1>1. FileFollowsTable' /\ AppTypeOK'
    BY AppTyped, AppTypedNext, SavedFollows DEF AppInv, SameObjects
  <1>2. ObjectsAreOwn'
    BY ObjectsStay
  <1>3. ContainersListed'
    BY <1>1, AppAssumption DEF ContainersListed, FileFollowsTable, SameObjects, AppAssumption
  <1> QED BY <1>1, <1>2, <1>3 DEF AppInv

LEMMA StepHasFailed ==
  ASSUME AppInv, NEW i \in Installations, StepFails(i)
  PROVE  AppInv'
  <1>0. /\ inst \in [Installations -> InstKind] /\ container \subseteq DockerApps /\ AppTypeOK
        /\ Idle \in InstKind
    BY AppTyped DEF AppInv, InstKind
  <1>1. SameObjects
    BY <1>0, ObjectIsMarked DEF StepFails, Statuses
  <1>2. \A a \in container' : Listed(a)
    BY DEF StepFails, AppInv, ContainersListed
  <1> QED BY <1>0, <1>1, <1>2, TableSaved DEF StepFails

LEMMA AppIsStarted ==
  ASSUME AppInv, NEW a \in Apps, NEW ok \in BOOLEAN, StartApp(a, ok)
  PROVE  AppInv'
  <1>0. /\ inst \in [Installations -> InstKind] /\ container \subseteq DockerApps /\ AppTypeOK
    BY AppTyped DEF AppInv
  <1>1. /\ SameObjects /\ installed'[a].status = (IF ok THEN "running" ELSE "error")
        /\ \A b \in Apps : b # a => installed'[b] = installed[b]
    BY <1>0, StatusIsSet DEF StartApp, Statuses
  <1>2. container' \subseteq DockerApps /\ UNCHANGED <<inst, used>>
        /\ \A b \in container' : b = a \/ b \in container
    BY <1>0 DEF StartApp
  <1>3. \A b \in container' : Listed(b)
    BY <1>2 DEF StartApp, AppInv, ContainersListed
  <1>4. CASE ok
    BY <1>0, <1>1, <1>2, <1>3, <1>4, TableSaved DEF StartApp
  <1>5. CASE ~ok
    <2>1. UNCHANGED stateFile
      BY <1>5 DEF StartApp
    <2>2. AppTypeOK'
      BY <1>0, <1>1, <1>2, <2>1, AppTyped, AppTypedNext DEF SameObjects
    <2>3. ObjectsAreOwn'
      BY <1>0, <1>1, <1>2, ObjectsStay
    <2>4. FileFollowsTable'
      <3>1. \A b \in Apps : stateFile'[b] # "none" <=> Listed(b)'
        BY <1>1, <2>1 DEF AppInv, FileFollowsTable, SameObjects
      <3>2. ASSUME NEW b \in Apps, stateFile'[b] # installed'[b].status
            PROVE  \/ installed'[b].status = "error"
                   \/ \E j \in Installations : inst'[j] # Idle /\ inst'[j].step = LastStep /\ installed'[b].object = j
        <4>1. CASE b = a
          BY <1>1, <1>5, <4>1
        <4>2. CASE b # a
          BY <1>1, <1>2, <2>1, <3>2, <4>2 DEF AppInv, FileFollowsTable
        <4> QED BY <4>1, <4>2
      <3> QED BY <3>1, <3>2 DEF FileFollowsTable
    <2>5. ContainersListed'
      BY <1>2, <1>3, <2>1, <2>4, <1>1, AppAssumption DEF ContainersListed, FileFollowsTable, SameObjects, AppAssumption
    <2> QED BY <2>2, <2>3, <2>4, <2>5 DEF AppInv
  <1> QED BY <1>4, <1>5

LEMMA InstallEnds ==
  ASSUME AppInv, NEW i \in Installations, NEW ok \in BOOLEAN, EndInstall(i, ok)
  PROVE  AppInv'
  <1> DEFINE a == inst[i].app
             starts == inst[i].start /\ Listed(a) /\ (ok \/ a \in DockerApps)
  <1>0. /\ installed \in [Apps -> AppKind] /\ inst \in [Installations -> InstKind]
        /\ container \subseteq DockerApps /\ AppTypeOK
        /\ inst[i] # Idle /\ a \in Apps /\ Idle \in InstKind
    BY AppTyped, InstKinds DEF AppInv, EndInstall
  <1>1. /\ SameObjects
        /\ \A b \in Apps : \/ installed'[b].status = installed[b].status
                           \/ b = a /\ Listed(a) /\ installed'[b].status = IF ok THEN "running" ELSE "error"
        /\ container' \subseteq DockerApps
        /\ \A b \in container' : Listed(b)
    <2>1. CASE starts
      <3>1. SetStatus(a, IF ok THEN "running" ELSE "error") /\ Listed(a)
        BY <2>1 DEF EndInstall
      <3>2. /\ SameObjects /\ installed'[a].status = (IF ok THEN "running" ELSE "error")
            /\ \A b \in Apps : b # a => installed'[b] = installed[b]
        BY <1>0, <3>1, StatusIsSet DEF Statuses
      <3>3. container' \subseteq DockerApps /\ \A b \in container' : b = a \/ b \in container
        BY <1>0, <2>1 DEF EndInstall
      <3>4. \A b \in container' : Listed(b)
        BY <3>1, <3>3 DEF AppInv, ContainersListed
      <3> QED BY <3>1, <3>2, <3>3, <3>4
    <2>2. CASE ~starts
      <3>1. UNCHANGED <<installed, container>>
        BY <2>2 DEF EndInstall
      <3> QED BY <1>0, <3>1 DEF SameObjects, AppInv, ContainersListed, Listed
    <2> QED BY <2>1, <2>2
  <1>2. /\ inst' \in [Installations -> InstKind] /\ UNCHANGED used
        /\ \A j \in Installations : inst'[j] # Idle =>
             inst[j] # Idle /\ inst'[j].app = inst[j].app /\ inst'[j].removed = inst[j].removed
    BY <1>0 DEF EndInstall
  <1>3. /\ stateFile' = [b \in Apps |-> stateFile'[b]]
        /\ \A b \in Apps : stateFile'[b] = IF ok THEN installed'[b].status ELSE installed[b].status
    BY DEF EndInstall
  <1>4. \A b \in Apps : /\ installed[b].status \in Statuses \cup {"none"} /\ installed'[b].status \in Statuses \cup {"none"}
                        /\ Listed(b) <=> installed[b].status # "none"
                        /\ Listed(b)' <=> installed'[b].status # "none"
    BY <1>0, <1>1, AppKinds DEF Listed, SameObjects
  <1>5. AppTypeOK'
    BY <1>0, <1>1, <1>2, <1>3, <1>4, AppTyped, AppTypedNext DEF SameObjects
  <1>6. ObjectsAreOwn'
    BY <1>1, <1>2, ObjectsStay
  <1>7. FileFollowsTable'
    <2>1. \A b \in Apps : stateFile'[b] # "none" <=> Listed(b)'
      BY <1>1, <1>3, <1>4 DEF SameObjects
    <2>2. \A b \in Apps : stateFile'[b] # installed'[b].status => installed'[b].status = "error"
      BY <1>1, <1>3, <1>4
    <2> QED BY <2>1, <2>2 DEF FileFollowsTable
  <1>8. ContainersListed'
    BY <1>1, <1>7, AppAssumption DEF ContainersListed, FileFollowsTable, SameObjects, AppAssumption
  <1> QED BY <1>5, <1>6, <1>7, <1>8 DEF AppInv

LEMMA AppIsStopped ==
  ASSUME AppInv, NEW a \in Apps, NEW ok \in BOOLEAN, StopApp(a, ok)
  PROVE  AppInv'
  <1>0. /\ inst \in [Installations -> InstKind] /\ container \subseteq DockerApps /\ AppTypeOK
    BY AppTyped DEF AppInv
  <1>1. SameObjects
    BY <1>0, StatusIsSet DEF StopApp, Statuses
  <1>2. container' \subseteq DockerApps /\ \A b \in container' : Listed(b)
    BY <1>0 DEF StopApp, AppInv, ContainersListed
  <1> QED BY <1>0, <1>1, <1>2, TableSaved DEF StopApp

LEMMA AppIsRemoved ==
  ASSUME AppInv, NEW a \in Apps, Uninstall(a)
  PROVE  AppInv'
  <1>0. /\ installed \in [Apps -> AppKind] /\ inst \in [Installations -> InstKind]
        /\ container \subseteq DockerApps /\ used \in 0..MaxInstalls /\ NoApp \in AppKind /\ NoApp.object = 0
    BY AppTyped DEF AppInv, AppKind, NoApp
  <1>1. /\ installed' \in [Apps -> AppKind] /\ installed'[a] = NoApp
        /\ \A b \in Apps : b # a => installed'[b] = installed[b]
    BY <1>0 DEF Uninstall
  <1>2. ASSUME NEW i \in Installations
        PROVE  /\ inst'[i] \in InstKind
               /\ inst'[i] # Idle => /\ inst[i] # Idle /\ inst'[i].app = inst[i].app
                                     /\ IF inst[i].app = a THEN inst'[i].removed ELSE inst'[i] = inst[i]
    <2>1. inst'[i] = IF inst[i].app = a THEN [inst[i] EXCEPT !.removed = TRUE] ELSE inst[i]
      BY DEF Uninstall
    <2>2. inst[i] \in InstKind
      BY <1>0
    <2>3. CASE inst[i].app = a
      <3> DEFINE y == [inst[i] EXCEPT !.removed = TRUE]
      <3>1. inst[i] # Idle
        BY <2>3, AppAssumption DEF Idle, AppAssumption
      <3>2. y \in InstKind /\ y # Idle /\ y.app = inst[i].app /\ y.removed = TRUE
        BY <2>2, <3>1, InstKinds
      <3>3. inst'[i] = y
        BY <2>1, <2>3
      <3> HIDE DEF y
      <3> QED BY <2>3, <3>1, <3>2, <3>3
    <2>4. CASE inst[i].app # a
      BY <2>1, <2>2, <2>4
    <2> QED BY <2>3, <2>4
  <1>3. inst' = [i \in Installations |-> inst'[i]]
    BY DEF Uninstall
  <1>4. AppTypeOK' /\ FileFollowsTable'
    <2>1. container' \subseteq DockerApps /\ UNCHANGED used /\ Saved
      BY <1>0 DEF Uninstall
    <2> QED BY <1>0, <1>1, <1>2, <1>3, <2>1, AppTypedNext, SavedFollows
  <1>5. ObjectsAreOwn'
    <2>1. \A b \in Apps : installed[b].object \in Nat
      BY <1>0, AppKinds
    <2>2. \A i \in Installations : inst[i] # Idle => inst[i].app \in Apps
      BY <1>0, InstKinds
    <2>3. UNCHANGED used
      BY DEF Uninstall
    <2>4. \A b \in Apps : installed'[b].object <= used'
      BY <1>0, <1>1, <2>3 DEF AppInv, ObjectsAreOwn
    <2>5. \A b, c \in Apps : b # c /\ Listed(b)' => installed'[b].object # installed'[c].object
      BY <1>0, <1>1, AppKinds DEF AppInv, ObjectsAreOwn, Listed
    <2>6. ASSUME NEW i \in Installations, inst'[i] # Idle
          PROVE  /\ i <= used'
                 /\ ~inst'[i].removed => installed'[inst'[i].app].object = i
                 /\ \A b \in Apps : installed'[b].object = i => inst'[i].app = b
      <3>1. i # 0
        BY DEF Installations
      <3> QED BY <1>0, <1>1, <1>2, <2>2, <2>3, <2>6, <3>1 DEF AppInv, ObjectsAreOwn
    <2> QED BY <2>4, <2>5, <2>6 DEF ObjectsAreOwn
  <1>6. ContainersListed'
    <2>1. \A b \in container' : b \in Apps /\ Listed(b)'
      BY <1>0, <1>1, AppAssumption DEF Uninstall, AppInv, ContainersListed, Listed, AppAssumption
    <2> QED BY <1>4, <2>1 DEF ContainersListed, FileFollowsTable
  <1> QED BY <1>4, <1>5, <1>6 DEF AppInv

LEMMA AppsReadAgain ==
  ASSUME AppInv, AppRestart
  PROVE  AppInv'
  <1>0. /\ installed \in [Apps -> AppKind] /\ stateFile \in [Apps -> Statuses \cup {"none"}]
        /\ container \subseteq DockerApps /\ used \in 0..MaxInstalls
        /\ NoApp \in AppKind /\ Idle \in InstKind /\ NoApp.object = 0 /\ NoApp.status = "none"
    BY AppTyped DEF AppInv, AppKind, InstKind, NoApp
  <1>1. ASSUME NEW a \in Apps
        PROVE  /\ installed'[a] \in AppKind /\ installed'[a].object = installed[a].object
               /\ Listed(a)' <=> Listed(a)
               /\ installed'[a].status = stateFile[a]
    <2>1. installed'[a] = IF stateFile[a] = "none" THEN NoApp
                          ELSE [object |-> IF Listed(a) THEN installed[a].object ELSE 1, status |-> stateFile[a]]
      BY DEF AppRestart
    <2>2. stateFile[a] # "none" <=> Listed(a)
      BY DEF AppInv, FileFollowsTable
    <2>3. CASE Listed(a)
      <3>1. installed[a].object \in Installations /\ stateFile[a] \in Statuses
        BY <1>0, <2>2, <2>3, AppKinds DEF Listed
      <3> DEFINE y == [object |-> installed[a].object, status |-> stateFile[a]]
      <3>2. y \in AppKind /\ y.object = installed[a].object /\ y.status = stateFile[a]
        BY <3>1 DEF AppKind
      <3>3. installed'[a] = y
        BY <2>1, <2>2, <2>3
      <3> HIDE DEF y
      <3>4. y # NoApp
        BY <1>0, <2>2, <2>3, <3>2
      <3> QED BY <2>3, <3>2, <3>3, <3>4 DEF Listed
    <2>4. CASE ~Listed(a)
      BY <1>0, <2>1, <2>2, <2>4 DEF Listed
    <2> QED BY <2>3, <2>4
  <1>2. installed' = [a \in Apps |-> installed'[a]]
    BY DEF AppRestart
  <1>3. SameObjects
    BY <1>1, <1>2 DEF SameObjects
  <1>4. inst' = [i \in Installations |-> Idle] /\ UNCHANGED <<stateFile, container, used>>
    BY DEF AppRestart
  <1>5. AppTypeOK'
    BY <1>0, <1>3, <1>4, AppTypedNext DEF SameObjects
  <1>6. ObjectsAreOwn'
    BY <1>0, <1>3, <1>4, ObjectsStay
  <1>7. FileFollowsTable'
    BY <1>1, <1>4 DEF AppInv, FileFollowsTable
  <1>8. ContainersListed'
    BY <1>0, <1>1, <1>4, AppAssumption DEF AppInv, ContainersListed, AppAssumption
  <1> QED BY <1>5, <1>6, <1>7, <1>8 DEF AppInv

LEMMA AppsKept == AppInv /\ [AppNext]_appVars => AppInv'
  <1> SUFFICES ASSUME AppInv, [AppNext]_appVars PROVE AppInv'
    OBVIOUS
  <1>1. CASE AppNext
    BY <1>1, InstallBegins, StepIsDone, StepHasFailed, AppIsStarted, InstallEnds, AppIsStopped, AppIsRemoved,
       AppsReadAgain DEF AppNext
  <1>2. CASE UNCHANGED appVars
    BY <1>2 DEF appVars, AppInv, AppTypeOK, ObjectsAreOwn, ContainersListed, FileFollowsTable, Listed
  <1> QED BY <1>1, <1>2

LEMMA AppsMean == AppInv => AppsAgree
  BY AppTyped, InstKinds DEF AppInv, ObjectsAreOwn, OneInstallation, AppsAgree

(* Whatever installations, starts, removals and restarts overlap: an app has    *)
(* one installation at a time, its container is listed where the operator can   *)
(* stop it, and the file names the apps the table does.                         *)
THEOREM AppsStayInStep == AppSpec => []AppsAgree
  BY AppStarts, AppsKept, AppsMean, PTL DEF AppSpec

-----------------------------------------------------------------------------
(* The chat router (ChatRouter).  A cached answer was computed where the key it *)
(* is kept under wants it, and only one that may leave the machine is queued.   *)
ModelNames == LocalModels \cup {"none"} \cup {r.model : r \in Requests}
AnswerKind == [model : ModelNames, prompt : {"none"} \cup {r.prompt : r \in Requests}, from : {"here", "network", "nowhere"}]
ChatKind == [ask : Requests, at : Waiting \cup {"new", "answered", "refused"}, model : ModelNames, answer : AnswerKind]
EntryKind == [ask : Requests, answer : AnswerKind, ts : Nat]

Computed(r, a) == a.prompt = r.prompt /\ (r.privacy = "local" => a.from = "here")
AsAsked(r, a) == r.model \in {"auto", a.model} /\ Computed(r, a)

CacheIsTrue == /\ cache \in Seq(EntryKind) /\ Len(cache) <= MaxCached
               /\ \A i \in DOMAIN cache : Computed(cache[i].ask, cache[i].answer)

(* A removal keeps every chat out: the chats on their way hold the slots.       *)
OnTheirWay == {c \in Chats : chat[c].at \in Waiting}
SlotsHeld == /\ SlotsTypeOK /\ (maintenance => active = 0)
             /\ IsFiniteSet(OnTheirWay) /\ active = Cardinality(OnTheirWay)

ModelsKnown == /\ runtimeHas \subseteq LocalModels /\ gone \subseteq LocalModels /\ gone \cap runtimeHas = {}
               /\ autoModel \in [model : LocalModels \cup {"none"}, until : Nat] /\ autoModel.model \notin gone
               /\ clock \in 0..MaxClock

(* Where one chat may stand.                                                    *)
ChatIsTrue(x) == /\ x.at = "answered" => AsAsked(x.ask, x.answer)
                 /\ x.at \in {"queue", "peer"} => x.ask.privacy = "network"
                 /\ x.at = "local" /\ x.ask.model = "auto" => x.model \notin gone

RouterInv == /\ chat \in [Chats -> ChatKind] /\ \A c \in Chats : ChatIsTrue(chat[c])
             /\ CacheIsTrue /\ SlotsHeld /\ ModelsKnown

LEMMA RouterStarts == RouterInit => RouterInv
  <1> SUFFICES ASSUME RouterInit PROVE RouterInv
    OBVIOUS
  <1>1. NoAnswer \in AnswerKind
    BY DEF NoAnswer, AnswerKind, ModelNames
  <1>2. chat \in [Chats -> ChatKind] /\ \A c \in Chats : chat[c].at = "new"
    BY <1>1 DEF RouterInit, ChatKind, ModelNames
  <1>3. OnTheirWay = {}
    BY <1>2 DEF OnTheirWay, Waiting
  <1>4. SlotsHeld
    <2>1. IsFiniteSet({}) /\ Cardinality({}) = 0
      BY FS_EmptySet
    <2>2. IsFiniteSet(OnTheirWay) /\ Cardinality(OnTheirWay) = 0
      BY <1>3, <2>1
    <2>3. active = 0 /\ maintenance = FALSE /\ SlotsTypeOK
      <3>1. active = 0 /\ maintenance = FALSE
        BY DEF RouterInit, SlotsInit
      <3>2. Capacity \in Nat
        BY CapacityAssumption DEF CapacityAssumption
      <3>3. 0 \in 0..Capacity
        BY <3>2
      <3> QED BY <3>1, <3>3 DEF SlotsTypeOK
    <2> QED BY <2>2, <2>3 DEF SlotsHeld
  <1>5. ModelsKnown /\ CacheIsTrue
    BY RouterAssumption DEF RouterInit, ModelsKnown, CacheIsTrue, None, RouterAssumption
  <1> QED BY <1>2, <1>4, <1>5 DEF RouterInv, ChatIsTrue

(* How the chats on their way change with one of them.                          *)
Moved(c) == chat' \in [Chats -> ChatKind] /\ chat'[c].ask = chat[c].ask /\ \A d \in Chats : d # c => chat'[d] = chat[d]

LEMMA SlotIsTaken ==
  ASSUME SlotsHeld, NEW c \in Chats, Moved(c), chat[c].at \notin Waiting, chat'[c].at \in Waiting, TakeSlot
  PROVE  SlotsHeld'
  <1>1. OnTheirWay' = OnTheirWay \cup {c} /\ c \notin OnTheirWay
    BY DEF OnTheirWay, Moved
  <1> DEFINE W == OnTheirWay
  <1>2. IsFiniteSet(W) /\ W' = W \cup {c} /\ c \notin W
    BY <1>1 DEF SlotsHeld
  <1> HIDE DEF W
  <1>3. IsFiniteSet(W \cup {c}) /\ Cardinality(W \cup {c}) = Cardinality(W) + 1
    BY <1>2, FS_AddElement
  <1>4. IsFiniteSet(OnTheirWay)' /\ Cardinality(OnTheirWay') = Cardinality(OnTheirWay) + 1
    BY <1>1, <1>3 DEF W
  <1> QED BY <1>4, CapacityAssumption DEF SlotsHeld, SlotsTypeOK, TakeSlot, CapacityAvailable, CapacityAssumption

LEMMA SlotIsFreed ==
  ASSUME SlotsHeld, NEW c \in Chats, Moved(c), chat[c].at \in Waiting, chat'[c].at \notin Waiting, FreeSlot
  PROVE  SlotsHeld'
  <1>1. OnTheirWay' = OnTheirWay \ {c} /\ c \in OnTheirWay
    BY DEF OnTheirWay, Moved
  <1> DEFINE W == OnTheirWay
  <1>2. IsFiniteSet(W) /\ W' = W \ {c} /\ c \in W
    BY <1>1 DEF SlotsHeld
  <1> HIDE DEF W
  <1>3. IsFiniteSet(W \ {c}) /\ Cardinality(W \ {c}) = Cardinality(W) - 1 /\ Cardinality(W) \in Nat
        /\ Cardinality(W) # 0
    BY <1>2, FS_RemoveElement, FS_CardinalityType, FS_EmptySet
  <1>4. /\ IsFiniteSet(OnTheirWay)' /\ Cardinality(OnTheirWay') = Cardinality(OnTheirWay) - 1
        /\ Cardinality(OnTheirWay) \in Nat /\ Cardinality(OnTheirWay) # 0
    BY <1>1, <1>3 DEF W
  <1> QED BY <1>4, CapacityAssumption DEF SlotsHeld, SlotsTypeOK, FreeSlot, CapacityAssumption

LEMMA SlotsStay ==
  ASSUME SlotsHeld, NEW c \in Chats, Moved(c), chat[c].at \in Waiting <=> chat'[c].at \in Waiting, UNCHANGED slotVars
  PROVE  SlotsHeld'
  <1>1. OnTheirWay' = OnTheirWay
    BY DEF OnTheirWay, Moved
  <1> QED BY <1>1 DEF SlotsHeld, SlotsTypeOK, slotVars

LEMMA OneChatMoves ==
  ASSUME RouterInv, NEW c \in Chats, Moved(c), ChatIsTrue(chat'[c]), SlotsHeld', CacheIsTrue',
         UNCHANGED <<runtimeHas, gone, clock>>,
         autoModel' \in [model : LocalModels \cup {"none"}, until : Nat] /\ autoModel'.model \notin gone
  PROVE  RouterInv'
  BY DEF RouterInv, Moved, ChatIsTrue, ModelsKnown

(* What the helpers do to a chat.                                               *)
LEMMA ChatGoes ==
  ASSUME RouterInv, NEW c \in Chats, NEW where \in Waiting \cup {"new", "answered", "refused"}, chat' = At(c, where)
  PROVE  Moved(c) /\ chat'[c].at = where /\ chat'[c].answer = chat[c].answer /\ chat'[c].model = chat[c].model
  BY DEF RouterInv, At, Moved, ChatKind

LEMMA ChatAsks ==
  ASSUME RouterInv, NEW c \in Chats, NEW where \in Waiting, NEW m \in ModelNames, chat' = AsksFor(c, m, where)
  PROVE  Moved(c) /\ chat'[c].at = where /\ chat'[c].model = m
  BY DEF RouterInv, AsksFor, Moved, ChatKind

LEMMA ChatConcludes ==
  ASSUME RouterInv, NEW c \in Chats, NEW answer \in AnswerKind, Computed(chat[c].ask, answer),
         chat' = Conclude(c, answer)
  PROVE  Moved(c) /\ chat'[c].at \in {"answered", "refused"} /\ ChatIsTrue(chat'[c])
  <1>1. CASE chat[c].ask.model \in {"auto", answer.model}
    <2>1. chat' = [chat EXCEPT ![c].at = "answered", ![c].answer = answer]
      BY <1>1 DEF Conclude
    <2>2. Moved(c) /\ chat'[c].at = "answered" /\ chat'[c].answer = answer
      <3> DEFINE y == [chat[c] EXCEPT !.at = "answered", !.answer = answer]
      <3>1. chat \in [Chats -> ChatKind] /\ chat[c] \in ChatKind
        BY DEF RouterInv
      <3>2. chat' = [chat EXCEPT ![c] = y]
        BY <2>1, <3>1
      <3>3. y \in ChatKind /\ y.at = "answered" /\ y.answer = answer /\ y.ask = chat[c].ask
        BY <3>1 DEF ChatKind
      <3> HIDE DEF y
      <3> QED BY <3>1, <3>2, <3>3 DEF Moved
    <2> QED BY <1>1, <2>2 DEF Moved, ChatIsTrue, AsAsked
  <1>2. CASE ~(chat[c].ask.model \in {"auto", answer.model})
    <2>1. chat' = At(c, "refused")
      BY <1>2 DEF Conclude
    <2> QED BY <2>1, ChatGoes DEF ChatIsTrue
  <1> QED BY <1>1, <1>2

LEMMA CacheKeeps ==
  ASSUME CacheIsTrue, clock \in Nat, NEW r \in Requests, NEW answer \in AnswerKind, Computed(r, answer),
         cache' = CacheSet(r, answer)
  PROVE  CacheIsTrue'
  <1> DEFINE kept == IF Len(cache) >= MaxCached THEN Tail(cache) ELSE cache
             entry == [ask |-> r, answer |-> answer, ts |-> clock]
             own == {i \in DOMAIN kept : Key(kept[i].ask) = Key(r)}
  <1>0. MaxCached \in Nat /\ MaxCached > 0 /\ r.cache \in BOOLEAN
    BY RouterAssumption DEF RouterAssumption
  <1>1. entry \in EntryKind /\ Computed(entry.ask, entry.answer)
    BY DEF EntryKind
  <1>2. /\ kept \in Seq(EntryKind) /\ \A i \in DOMAIN kept : Computed(kept[i].ask, kept[i].answer)
        /\ Len(kept) < MaxCached
    <2>1. CASE Len(cache) >= MaxCached
      <3>1. cache # << >> /\ kept = Tail(cache)
        BY <1>0, <2>1 DEF CacheIsTrue
      <3>2. kept \in Seq(EntryKind) /\ Len(kept) = Len(cache) - 1 /\ \A i \in DOMAIN kept : kept[i] = cache[i + 1] /\ i + 1 \in DOMAIN cache
        BY <3>1 DEF CacheIsTrue
      <3> HIDE DEF kept
      <3> QED BY <1>0, <3>2 DEF CacheIsTrue
    <2>2. CASE ~(Len(cache) >= MaxCached)
      BY <1>0, <2>2 DEF CacheIsTrue
    <2> QED BY <2>1, <2>2
  <1>3. cache' = IF ~r.cache THEN cache
                 ELSE IF own = {} THEN Append(kept, entry)
                 ELSE [i \in DOMAIN kept |-> IF i \in own THEN entry ELSE kept[i]]
    BY DEF CacheSet
  <1> HIDE DEF kept, entry, own
  <1>4. CASE ~r.cache
    BY <1>3, <1>4 DEF CacheIsTrue
  <1>5. CASE r.cache /\ own = {}
    <2>1. cache' = Append(kept, entry)
      BY <1>3, <1>5
    <2>2. /\ cache' \in Seq(EntryKind) /\ Len(cache') = Len(kept) + 1
          /\ \A i \in DOMAIN cache' : cache'[i] = entry \/ (i \in DOMAIN kept /\ cache'[i] = kept[i])
      BY <1>1, <1>2, <2>1
    <2> QED BY <1>0, <1>1, <1>2, <2>2 DEF CacheIsTrue
  <1>6. CASE r.cache /\ own # {}
    <2>1. cache' = [i \in 1..Len(kept) |-> IF i \in own THEN entry ELSE kept[i]]
      BY <1>2, <1>3, <1>6
    <2>2. Len(kept) \in Nat /\ \A i \in 1..Len(kept) : kept[i] \in EntryKind /\ i \in DOMAIN kept
      BY <1>2
    <2>3. cache' \in Seq(EntryKind) /\ Len(cache') = Len(kept) /\ DOMAIN cache' = 1..Len(kept)
      BY <1>1, <2>1, <2>2
    <2>4. \A i \in DOMAIN cache' : cache'[i] = entry \/ (i \in DOMAIN kept /\ cache'[i] = kept[i])
      BY <2>1, <2>2, <2>3
    <2> QED BY <1>0, <1>1, <1>2, <2>3, <2>4 DEF CacheIsTrue
  <1> QED BY <1>0, <1>4, <1>5, <1>6

LEMMA CacheForgets ==
  ASSUME CacheIsTrue, NEW r, cache' = CacheGet(r)
  PROVE  CacheIsTrue'
  <1>1. CASE r.cache /\ Found(r) # Fresh(r)
    <2> DEFINE i == CHOOSE k \in Found(r) \ Fresh(r) : TRUE
    <2>1. i \in DOMAIN cache /\ cache' = Lists!RemoveAt(cache, i)
      <3>1. Found(r) \ Fresh(r) # {}
        BY <1>1 DEF Fresh
      <3> QED BY <1>1, <3>1 DEF CacheGet, Found
    <2> HIDE DEF i
    <2>2. cache' = SubSeq(cache, 1, i - 1) \o SubSeq(cache, i + 1, Len(cache))
      BY <2>1 DEF Lists!RemoveAt
    <2>3. cache \in Seq(EntryKind) /\ i \in 1..Len(cache) /\ Len(cache) \in Nat
      BY <2>1 DEF CacheIsTrue
    <2> DEFINE a == SubSeq(cache, 1, i - 1)
               b == SubSeq(cache, i + 1, Len(cache))
    <2>4. /\ a \in Seq(EntryKind) /\ Len(a) = i - 1 /\ \A k \in DOMAIN a : k \in DOMAIN cache /\ a[k] = cache[k]
      BY <2>3
    <2>5. /\ b \in Seq(EntryKind) /\ Len(b) = Len(cache) - i
          /\ \A k \in DOMAIN b : i + k \in DOMAIN cache /\ b[k] = cache[i + k]
      BY <2>3
    <2> HIDE DEF a, b
    <2>6. /\ cache' \in Seq(EntryKind) /\ Len(cache') = Len(cache) - 1
          /\ \A k \in DOMAIN cache' : IF k <= Len(a) THEN k \in DOMAIN a /\ cache'[k] = a[k]
                                      ELSE k - Len(a) \in DOMAIN b /\ cache'[k] = b[k - Len(a)]
      <3>1. a \in Seq(EntryKind) /\ b \in Seq(EntryKind) /\ Len(a) \in Nat /\ Len(b) \in Nat /\ cache' = a \o b
        BY <2>2, <2>4, <2>5 DEF a, b
      <3>2. cache' \in Seq(EntryKind) /\ Len(cache') = Len(a) + Len(b)
        BY <3>1
      <3>3. ASSUME NEW k \in DOMAIN cache'
            PROVE  IF k <= Len(a) THEN k \in DOMAIN a /\ cache'[k] = a[k]
                                  ELSE k - Len(a) \in DOMAIN b /\ cache'[k] = b[k - Len(a)]
        <4>1. k \in 1..(Len(a) + Len(b)) /\ DOMAIN a = 1..Len(a) /\ DOMAIN b = 1..Len(b)
          BY <3>1, <3>2
        <4>2. cache'[k] = IF k <= Len(a) THEN a[k] ELSE b[k - Len(a)]
          BY <3>1, <4>1
        <4> QED BY <3>1, <4>1, <4>2
      <3> QED BY <2>3, <2>4, <2>5, <3>2, <3>3
    <2>7. \A k \in DOMAIN cache' : \E j \in DOMAIN cache : cache'[k] = cache[j]
      BY <2>4, <2>5, <2>6
    <2> QED BY <2>3, <2>6, <2>7, RouterAssumption DEF CacheIsTrue, RouterAssumption
  <1>2. CASE ~(r.cache /\ Found(r) # Fresh(r))
    BY <1>2 DEF CacheGet, CacheIsTrue
  <1> QED BY <1>1, <1>2

(* The automatic choice is a model of the runtime.                              *)
LEMMA ChoiceIsHeld ==
  ASSUME runtimeHas # {}, runtimeHas \subseteq LocalModels
  PROVE  Choice \in runtimeHas
  <1> DEFINE I == {i \in DOMAIN AutoOrder : AutoOrder[i] \in runtimeHas}
  <1>1. AutoOrder \in Seq(LocalModels) /\ DOMAIN AutoOrder = 1..Len(AutoOrder) /\ Len(AutoOrder) \in Nat
    BY RouterAssumption DEF RouterAssumption
  <1>2. I \subseteq Nat /\ I # {}
    BY <1>1 DEF LocalModels
  <1>3. PICK i \in I : \A j \in I : i <= j
    <2> DEFINE R == OpToRel(<, Nat)
    <2>1. IsWellFoundedOn(R, Nat)
      BY NatLessThanWellFounded
    <2>2. \A j, k \in Nat : <<j, k>> \in R <=> j < k
      BY DEF OpToRel
    <2> HIDE DEF R, I
    <2>3. PICK k \in I : \A j \in I : ~(<<j, k>> \in R)
      BY <1>2, <2>1, WFMin
    <2>4. ASSUME NEW j \in I PROVE k <= j
      <3>1. k \in Nat /\ j \in Nat
        BY <1>2
      <3>2. ~(j < k)
        BY <2>2, <2>3, <3>1
      <3> QED BY <3>1, <3>2
    <2> QED BY <2>4
  <1>4. \A k \in runtimeHas : \E j \in I : AutoOrder[j] = k
    BY DEF LocalModels
  <1>5. AutoOrder[i] \in runtimeHas /\ i \in DOMAIN AutoOrder
    OBVIOUS
  <1>6. \A k \in runtimeHas : \E a, b \in DOMAIN AutoOrder : a <= b /\ AutoOrder[a] = AutoOrder[i] /\ AutoOrder[b] = k
    BY <1>1, <1>3, <1>4, <1>5
  <1> QED BY <1>5, <1>6 DEF Choice

LEMMA ChoiceStays == ASSUME RouterInv, UNCHANGED <<autoModel, gone>>
  PROVE  autoModel' \in [model : LocalModels \cup {"none"}, until : Nat] /\ autoModel'.model \notin gone
  BY DEF RouterInv, ModelsKnown

LEMMA CacheStays == ASSUME RouterInv, UNCHANGED cache PROVE CacheIsTrue'
  BY DEF RouterInv, CacheIsTrue

LEMMA ServeCachedKeeps == ASSUME RouterInv, NEW c \in Chats, ServeCached(c) PROVE RouterInv'
  <1>1. PICK i \in Fresh(chat[c].ask) : chat' = Conclude(c, cache[i].answer)
    BY DEF ServeCached
  <1>2. i \in DOMAIN cache /\ cache[i] \in EntryKind /\ cache[i].ask = chat[c].ask
    BY DEF Fresh, Found, Key, RouterInv, CacheIsTrue
  <1>3. cache[i].answer \in AnswerKind /\ Computed(chat[c].ask, cache[i].answer)
    BY <1>2 DEF EntryKind, RouterInv, CacheIsTrue
  <1>4. Moved(c) /\ chat'[c].at \in {"answered", "refused"} /\ ChatIsTrue(chat'[c])
    BY <1>1, <1>3, ChatConcludes
  <1>5. chat[c].at = "new" /\ UNCHANGED <<slotVars, cache, autoModel, runtimeHas, gone, clock>>
    BY DEF ServeCached
  <1>6. SlotsHeld'
    BY <1>4, <1>5, SlotsStay DEF RouterInv, Waiting
  <1> QED BY <1>4, <1>5, <1>6, ChoiceStays, CacheStays, OneChatMoves

LEMMA BeginChatKeeps == ASSUME RouterInv, NEW c \in Chats, BeginChat(c) PROVE RouterInv'
  <1>1. chat[c].at = "new" /\ TakeSlot /\ cache' = CacheGet(chat[c].ask) /\ UNCHANGED <<autoModel, runtimeHas, gone, clock>>
    BY DEF BeginChat
  <1>2. chat \in [Chats -> ChatKind] /\ chat[c].ask \in Requests /\ chat[c].ask.model \in ModelNames
    BY DEF RouterInv, ChatKind, ModelNames
  <1>3. CacheIsTrue'
    BY <1>1, CacheForgets DEF RouterInv
  <1>4. Moved(c) /\ chat'[c].at \in {"local", "inventory"} /\ ChatIsTrue(chat'[c])
    <2>1. CASE chat[c].ask.model # "auto"
      <3>1. chat' = AsksFor(c, chat[c].ask.model, "local")
        BY <2>1 DEF BeginChat
      <3>2. Moved(c) /\ chat'[c].at = "local"
        BY <1>2, <3>1, ChatAsks DEF Waiting
      <3> QED BY <2>1, <3>2 DEF Moved, ChatIsTrue
    <2>2. CASE chat[c].ask.model = "auto" /\ autoModel.until > clock
      <3>1. chat' = AsksFor(c, autoModel.model, "local")
        BY <2>2 DEF BeginChat
      <3>2. autoModel.model \in ModelNames /\ autoModel.model \notin gone
        BY DEF RouterInv, ModelsKnown, ModelNames
      <3>3. Moved(c) /\ chat'[c].at = "local" /\ chat'[c].model = autoModel.model
        BY <3>1, <3>2, ChatAsks DEF Waiting
      <3> QED BY <1>1, <3>2, <3>3 DEF ChatIsTrue
    <2>3. CASE chat[c].ask.model = "auto" /\ ~(autoModel.until > clock)
      <3>1. chat' = At(c, "inventory")
        BY <2>3 DEF BeginChat
      <3>2. Moved(c) /\ chat'[c].at = "inventory"
        BY <3>1, ChatGoes DEF Waiting
      <3> QED BY <3>2 DEF ChatIsTrue
    <2> QED BY <2>1, <2>2, <2>3
  <1>5. SlotsHeld'
    BY <1>1, <1>4, SlotIsTaken DEF RouterInv, Waiting
  <1> QED BY <1>1, <1>3, <1>4, <1>5, ChoiceStays, OneChatMoves

LEMMA ChatBusyKeeps == ASSUME RouterInv, NEW c \in Chats, ChatBusy(c) PROVE RouterInv'
  <1>1. chat[c].at = "new" /\ chat' = At(c, "refused") /\ UNCHANGED <<slotVars, cache, autoModel, runtimeHas, gone, clock>>
    BY DEF ChatBusy
  <1>2. Moved(c) /\ chat'[c].at = "refused" /\ ChatIsTrue(chat'[c])
    BY <1>1, ChatGoes DEF ChatIsTrue
  <1>3. SlotsHeld'
    BY <1>1, <1>2, SlotsStay DEF RouterInv, Waiting
  <1> QED BY <1>1, <1>2, <1>3, ChoiceStays, CacheStays, OneChatMoves

LEMMA InventoryArrivesKeeps == ASSUME RouterInv, NEW c \in Chats, InventoryArrives(c) PROVE RouterInv'
  <1>1. /\ chat[c].at = "inventory" /\ runtimeHas # {} /\ chat' = AsksFor(c, Choice, "local")
        /\ autoModel' = [model |-> Choice, until |-> clock + AutoTtl] /\ UNCHANGED <<slotVars, cache, runtimeHas, gone, clock>>
    BY DEF InventoryArrives
  <1>2. Choice \in runtimeHas /\ Choice \in LocalModels /\ Choice \notin gone
    BY <1>1, ChoiceIsHeld DEF RouterInv, ModelsKnown
  <1>3. Moved(c) /\ chat'[c].at = "local" /\ chat'[c].model = Choice
    BY <1>1, <1>2, ChatAsks DEF Waiting, ModelNames
  <1>4. ChatIsTrue(chat'[c])
    BY <1>1, <1>2, <1>3 DEF ChatIsTrue
  <1>5. SlotsHeld'
    BY <1>1, <1>3, SlotsStay DEF RouterInv, Waiting
  <1>6. autoModel' \in [model : LocalModels \cup {"none"}, until : Nat] /\ autoModel'.model \notin gone
    BY <1>1, <1>2, RouterAssumption DEF RouterInv, ModelsKnown, RouterAssumption
  <1> QED BY <1>1, <1>3, <1>4, <1>5, <1>6, CacheStays, OneChatMoves

LEMMA BeyondKeeps ==
  ASSUME RouterInv, NEW c \in Chats, chat[c].at \in {"inventory", "local"}, Beyond(c),
         UNCHANGED <<cache, autoModel, runtimeHas, gone, clock>>
  PROVE  RouterInv'
  <1>1. CASE chat[c].ask.privacy = "network"
    <2>1. chat' = At(c, "queue") /\ UNCHANGED slotVars
      BY <1>1 DEF Beyond
    <2>2. Moved(c) /\ chat'[c].at = "queue"
      BY <2>1, ChatGoes DEF Waiting
    <2>3. ChatIsTrue(chat'[c])
      BY <1>1, <2>2 DEF ChatIsTrue, Moved
    <2>4. SlotsHeld'
      BY <2>1, <2>2, SlotsStay DEF RouterInv, Waiting
    <2> QED BY <2>2, <2>3, <2>4, ChoiceStays, CacheStays, OneChatMoves
  <1>2. CASE chat[c].ask.privacy # "network"
    <2>1. chat' = At(c, "refused") /\ FreeSlot
      BY <1>2 DEF Beyond
    <2>2. Moved(c) /\ chat'[c].at = "refused" /\ ChatIsTrue(chat'[c])
      BY <2>1, ChatGoes DEF ChatIsTrue
    <2>3. SlotsHeld'
      BY <2>1, <2>2, SlotIsFreed DEF RouterInv, Waiting
    <2> QED BY <2>2, <2>3, ChoiceStays, CacheStays, OneChatMoves
  <1> QED BY <1>1, <1>2

LEMMA EndsKeeps ==
  ASSUME RouterInv, NEW c \in Chats, chat[c].at \in Waiting, NEW answer \in AnswerKind,
         Computed(chat[c].ask, answer), Ends(c, answer), UNCHANGED <<autoModel, runtimeHas, gone, clock>>
  PROVE  RouterInv'
  <1>1. Moved(c) /\ chat'[c].at \in {"answered", "refused"} /\ ChatIsTrue(chat'[c])
    BY ChatConcludes DEF Ends
  <1>2. chat[c].ask \in Requests /\ clock \in Nat
    BY RouterAssumption DEF RouterInv, ChatKind, ModelsKnown, RouterAssumption
  <1>3. CacheIsTrue'
    BY <1>2, CacheKeeps DEF Ends, RouterInv
  <1>4. SlotsHeld'
    BY <1>1, SlotIsFreed DEF RouterInv, Waiting, Ends
  <1> QED BY <1>1, <1>3, <1>4, ChoiceStays, OneChatMoves

LEMMA LocalAnswersKeeps == ASSUME RouterInv, NEW c \in Chats, LocalAnswers(c) PROVE RouterInv'
  <1>1. chat[c] \in ChatKind /\ chat[c].ask \in Requests /\ chat[c].model \in ModelNames
    BY DEF RouterInv, ChatKind
  <1>2. Answer(chat[c].model, c, "here") \in AnswerKind /\ Computed(chat[c].ask, Answer(chat[c].model, c, "here"))
    BY <1>1 DEF Answer, AnswerKind, Computed
  <1> QED BY <1>2, EndsKeeps DEF LocalAnswers, Waiting

LEMMA NetworkAnswersKeeps == ASSUME RouterInv, NEW c \in Chats, NEW m \in LocalModels, NetworkAnswers(c, m) PROVE RouterInv'
  <1>1. chat[c] \in ChatKind /\ chat[c].ask \in Requests /\ chat[c].ask.privacy = "network"
    BY DEF RouterInv, ChatKind, ChatIsTrue, NetworkAnswers
  <1>2. Answer(m, c, "network") \in AnswerKind /\ Computed(chat[c].ask, Answer(m, c, "network"))
    BY <1>1 DEF Answer, AnswerKind, Computed, ModelNames
  <1> QED BY <1>2, EndsKeeps DEF NetworkAnswers, Waiting

LEMMA QueueFailsKeeps == ASSUME RouterInv, NEW c \in Chats, QueueFails(c) PROVE RouterInv'
  <1>1. chat[c].at = "queue" /\ chat' = At(c, "peer") /\ UNCHANGED <<slotVars, cache, autoModel, runtimeHas, gone, clock>>
    BY DEF QueueFails
  <1>2. Moved(c) /\ chat'[c].at = "peer"
    BY <1>1, ChatGoes DEF Waiting
  <1>3. ChatIsTrue(chat'[c])
    BY <1>1, <1>2 DEF ChatIsTrue, Moved, RouterInv
  <1>4. SlotsHeld'
    BY <1>1, <1>2, SlotsStay DEF RouterInv, Waiting
  <1> QED BY <1>1, <1>2, <1>3, <1>4, ChoiceStays, CacheStays, OneChatMoves

LEMMA PeerFailsKeeps == ASSUME RouterInv, NEW c \in Chats, PeerFails(c) PROVE RouterInv'
  <1>1. chat[c].at = "peer" /\ chat' = At(c, "refused") /\ FreeSlot /\ UNCHANGED <<cache, autoModel, runtimeHas, gone, clock>>
    BY DEF PeerFails
  <1>2. Moved(c) /\ chat'[c].at = "refused" /\ ChatIsTrue(chat'[c])
    BY <1>1, ChatGoes DEF ChatIsTrue
  <1>3. SlotsHeld'
    BY <1>1, <1>2, SlotIsFreed DEF RouterInv, Waiting
  <1> QED BY <1>1, <1>2, <1>3, ChoiceStays, CacheStays, OneChatMoves

(* What touches no chat.                                                        *)
LEMMA ChatsRest ==
  ASSUME RouterInv, UNCHANGED <<chat, cache>>, ModelsKnown',
         \A c \in Chats : chat[c].at = "local" => chat[c].model \notin gone' \ gone
  PROVE  RouterInv' <=> SlotsHeld'
  BY DEF RouterInv, ChatIsTrue, CacheIsTrue

LEMMA SlotsRest ==
  ASSUME SlotsHeld, UNCHANGED <<chat, active>>, maintenance' \in BOOLEAN, maintenance' => active = 0
  PROVE  SlotsHeld'
  <1>1. OnTheirWay' = OnTheirWay
    BY DEF OnTheirWay
  <1> QED BY <1>1 DEF SlotsHeld, SlotsTypeOK

LEMMA NobodyOnTheWay ==
  ASSUME RouterInv, maintenance
  PROVE  \A c \in Chats : chat[c].at # "local"
  <1> DEFINE W == OnTheirWay
  <1>1. IsFiniteSet(W) /\ Cardinality(W) = 0
    BY DEF RouterInv, SlotsHeld
  <1> HIDE DEF W
  <1>2. W = {}
    BY <1>1, FS_EmptySet
  <1> QED BY <1>2 DEF W, OnTheirWay, Waiting

LEMMA RemovalsKeep ==
  ASSUME RouterInv,
         StartRemoval \/ \E m \in LocalModels : RemovalConfirmed(m) \/ RemovalFails(m)
  PROVE  RouterInv'
  <1>1. CASE StartRemoval
    <2>1. SlotsHeld' /\ ModelsKnown' /\ UNCHANGED <<chat, cache, gone>>
      BY <1>1, SlotsRest DEF StartRemoval, AcquireMaintenance, RouterInv, ModelsKnown
    <2> QED BY <2>1, ChatsRest
  <1>2. ASSUME NEW m \in LocalModels, RemovalConfirmed(m) PROVE RouterInv'
    <2>1. \A c \in Chats : chat[c].at # "local"
      BY <1>2, NobodyOnTheWay DEF RemovalConfirmed
    <2>2. SlotsHeld'
      BY <1>2, SlotsRest DEF RemovalConfirmed, ReleaseMaintenance, RouterInv
    <2>3. ModelsKnown' /\ UNCHANGED <<chat, cache>>
      BY <1>2, RouterAssumption DEF RemovalConfirmed, RouterInv, ModelsKnown, None, RouterAssumption
    <2> QED BY <2>1, <2>2, <2>3, ChatsRest
  <1>3. ASSUME NEW m \in LocalModels, RemovalFails(m) PROVE RouterInv'
    <2>1. SlotsHeld'
      BY <1>3, SlotsRest DEF RemovalFails, ReleaseMaintenance, RouterInv
    <2>2. ModelsKnown' /\ UNCHANGED <<chat, cache, gone>>
      BY <1>3 DEF RemovalFails, RouterInv, ModelsKnown
    <2> QED BY <2>1, <2>2, ChatsRest
  <1> QED BY <1>1, <1>2, <1>3

LEMMA SharedKeeps ==
  ASSUME RouterInv, RefreshModels \/ RouterTick \/ \E m \in LocalModels : ModelPulled(m)
  PROVE  RouterInv'
  <1>1. CASE RefreshModels
    <2>1. SlotsHeld' /\ UNCHANGED <<chat, cache, gone>>
      BY <1>1, SlotsRest DEF RefreshModels, slotVars, RouterInv, SlotsHeld, SlotsTypeOK
    <2>2. ModelsKnown'
      BY <1>1, RouterAssumption DEF RefreshModels, RouterInv, ModelsKnown, None, RouterAssumption
    <2> QED BY <2>1, <2>2, ChatsRest
  <1>2. CASE RouterTick
    <2>1. SlotsHeld' /\ UNCHANGED <<chat, cache, gone>>
      BY <1>2, SlotsRest DEF RouterTick, slotVars, RouterInv, SlotsHeld, SlotsTypeOK
    <2>2. ModelsKnown'
      BY <1>2, RouterAssumption DEF RouterTick, RouterInv, ModelsKnown, RouterAssumption
    <2> QED BY <2>1, <2>2, ChatsRest
  <1>3. ASSUME NEW m \in LocalModels, ModelPulled(m) PROVE RouterInv'
    <2>1. SlotsHeld' /\ UNCHANGED <<chat, cache>> /\ gone' \subseteq gone
      BY <1>3, SlotsRest DEF ModelPulled, slotVars, RouterInv, SlotsHeld, SlotsTypeOK
    <2>2. ModelsKnown'
      BY <1>3, RouterAssumption DEF ModelPulled, RouterInv, ModelsKnown, None, RouterAssumption
    <2> QED BY <2>1, <2>2, ChatsRest
  <1> QED BY <1>1, <1>2, <1>3

LEMMA RouterKept == RouterInv /\ [RouterNext]_routerVars => RouterInv'
  <1> SUFFICES ASSUME RouterInv, [RouterNext]_routerVars PROVE RouterInv'
    OBVIOUS
  <1>1. ASSUME NEW c \in Chats,
               ServeCached(c) \/ BeginChat(c) \/ ChatBusy(c) \/ InventoryArrives(c) \/ QueueFails(c) \/ PeerFails(c)
        PROVE  RouterInv'
    BY <1>1, ServeCachedKeeps, BeginChatKeeps, ChatBusyKeeps, InventoryArrivesKeeps, QueueFailsKeeps, PeerFailsKeeps
  <1>2. ASSUME NEW c \in Chats, InventoryFails(c) \/ LocalFails(c) PROVE RouterInv'
    BY <1>2, BeyondKeeps DEF InventoryFails, LocalFails
  <1>3. ASSUME NEW c \in Chats, LocalAnswers(c) \/ \E m \in LocalModels : NetworkAnswers(c, m) PROVE RouterInv'
    BY <1>3, LocalAnswersKeeps, NetworkAnswersKeeps
  <1>4. CASE UNCHANGED routerVars
    <2>1. SlotsHeld' /\ ModelsKnown' /\ UNCHANGED <<chat, cache, gone>>
      BY <1>4, SlotsRest DEF routerVars, slotVars, RouterInv, SlotsHeld, SlotsTypeOK, ModelsKnown
    <2> QED BY <2>1, ChatsRest
  <1> QED BY <1>1, <1>2, <1>3, <1>4, RemovalsKeep, SharedKeeps DEF RouterNext

LEMMA RouterMeans == RouterInv => ServedAsAsked
  BY DEF RouterInv, ServedAsAsked, AnswersAsAsked, RemovedIsForgotten, ChatIsTrue, AsAsked, Computed, ModelsKnown

(* A chat, the cache and the slots of the router keep their types.              *)
LEMMA RouterIsTyped == RouterInv => RouterTypeOK
  <1> HAVE RouterInv
  <1>1. \A c \in Chats : chat[c] \in ChatKind
    BY DEF RouterInv
  <1>2. \A c \in Chats : chat[c].ask \in Requests /\ chat[c].at \in Waiting \cup {"new", "answered", "refused"}
    BY <1>1 DEF ChatKind
  <1>3. SlotsTypeOK /\ Len(cache) <= MaxCached
    BY DEF RouterInv, SlotsHeld, CacheIsTrue
  <1>4. runtimeHas \subseteq LocalModels /\ gone \subseteq LocalModels /\ clock \in 0..MaxClock
    BY DEF RouterInv, ModelsKnown
  <1> QED BY <1>2, <1>3, <1>4 DEF RouterTypeOK

(* A client gets an answer to its own prompt, of the model it named and, where  *)
(* it asked for privacy, from this machine, from the cache too; and no automatic *)
(* choice names a model whose removal was confirmed (route of gateway/router.ts, *)
(* the removal of a model in gateway/server.ts).                                *)
THEOREM AnswersAreAsAsked == RouterSpec => []ServedAsAsked
  <1> QED BY RouterStarts, RouterKept, RouterMeans, PTL DEF RouterSpec

-----------------------------------------------------------------------------
(* The node's own limits on callers (GatewayAccess).  Of what was admitted to a *)
(* stranger, at most the limit lies in the window of its entry, and at most the *)
(* limit between any earlier time that a window may still reach back to and the *)
(* start of that entry; without an entry nothing lies that near.                *)
LimitKind == [count : 0..MaxSeen + 1, start : 0..MaxTick, until : 0..MaxTick + LimitWindow]
From(list, from) == {l \in list : from <= l.at}
Span(list, from, to) == {l \in list : from <= l.at /\ l.at < to}
InWindow(list, from, to) == {l \in list : from <= l.at /\ l.at <= to}

LimitIsKept(e, list) ==
    /\ IsFiniteSet(list)
    /\ \A t \in Nat : Cardinality(InWindow(list, t, t + LimitWindow)) <= 2 * RateLimit
    /\ e.start = 0 => \A l \in list : l.at + LimitWindow < tick
    /\ e.start # 0 =>
         /\ e.start <= tick
         /\ Cardinality(From(list, e.start)) <= e.count /\ Cardinality(From(list, e.start)) <= RateLimit
         /\ \A l \in list : l.at <= e.start + LimitWindow
         /\ \A t \in Nat : t + LimitWindow >= e.start => Cardinality(Span(list, t, e.start)) <= RateLimit

(* What is forgotten of the failures is too old to be counted again.            *)
FailuresAreKept == \A c \in Sources : logins[c] \subseteq failedAt[c] /\ Recent(failedAt[c]) \subseteq logins[c]

KeyIsKept == keyFile \in {0, nodeKey} /\ sealed \subseteq {keyFile} \ {0}

HardeningInv == /\ HardeningTypeOK
                /\ \A c \in Sources : \A l \in admitted[c] : l.at <= tick
                /\ \A c \in Sources \ Trusted : LimitIsKept(limits[c], admitted[c])
                /\ FailuresAreKept /\ KeyIsKept
                /\ bansSaved => bansFile = banned

LEMMA HardeningNats == /\ RateLimit \in Nat /\ LimitWindow \in Nat /\ MaxLogins \in Nat /\ Lockout \in Nat
                       /\ MaxTick \in Nat /\ MaxSeen \in Nat /\ MaxTick > 0
  BY HardeningAssumption DEF HardeningAssumption

LEMMA NothingAdmitted == ASSUME NEW e, NEW k, e.start = 0 PROVE LimitIsKept(e, {})
  <1>1. IsFiniteSet({}) /\ Cardinality({}) = 0
    BY FS_EmptySet
  <1>2. \A t : InWindow({}, t, t + LimitWindow) = {}
    BY DEF InWindow
  <1>3. \A t \in Nat : Cardinality(InWindow({}, t, t + LimitWindow)) <= 2 * RateLimit
    BY <1>1, <1>2, HardeningNats
  <1> QED BY <1>1, <1>3 DEF LimitIsKept

LEMMA NoEntryIsNone == NoEntry \in LimitKind /\ NoEntry.start = 0
  <1>1. 0 \in 0..MaxSeen + 1 /\ 0 \in 0..MaxTick /\ 0 \in 0..MaxTick + LimitWindow
    BY HardeningNats
  <1> QED BY <1>1 DEF NoEntry, LimitKind

LEMMA HardeningStarts == HardeningInit => HardeningInv
  <1> SUFFICES ASSUME HardeningInit PROVE HardeningInv
    OBVIOUS
  <1>1. limits = [c \in Sources |-> NoEntry] /\ admitted = [c \in Sources |-> {}] /\ logins = [c \in Sources |-> {}]
        /\ failedAt = [c \in Sources |-> {}]
    BY DEF HardeningInit
  <1>2. \A c \in Sources : LimitIsKept(limits[c], admitted[c])
    BY <1>1, NothingAdmitted, NoEntryIsNone
  <1>3. 1 \in 1..MaxTick /\ 0 \in 0..MaxTick /\ 1 \in 0..MaxTick
    BY HardeningNats
  <1>4. limits \in [Sources -> LimitKind]
    BY <1>1, NoEntryIsNone
  <1>5. HardeningTypeOK
    BY <1>1, <1>3, <1>4 DEF HardeningInit, HardeningTypeOK, LimitKind
  <1>6. FailuresAreKept
    BY <1>1 DEF FailuresAreKept, Recent
  <1>7. KeyIsKept
    BY DEF HardeningInit, KeyIsKept
  <1>8. bansFile = banned
    BY DEF HardeningInit
  <1> QED BY <1>1, <1>2, <1>5, <1>6, <1>7, <1>8 DEF HardeningInv

(* The entry a request of a stranger is counted in.                             *)
LEMMA EntryIsKept ==
  ASSUME HardeningInv, NEW c \in Sources \ Trusted
  PROVE  LimitIsKept(LimitOf(c), admitted[c]) /\ LimitOf(c) \in LimitKind /\ LimitOf(c).start # 0
  <1> DEFINE e == limits[c]
             A == admitted[c]
  <1>1. /\ e \in LimitKind /\ tick \in 1..MaxTick /\ LimitIsKept(e, A) /\ A \subseteq Happened
        /\ e.start \in Nat /\ e.start <= MaxTick /\ \A l \in A : l.at \in Nat /\ l.at <= tick /\ l.at > 0
    BY HardeningNats DEF HardeningInv, HardeningTypeOK, LimitKind, Happened
  <1>2. LimitOf(c) = IF e.start = 0 \/ tick - e.start > LimitWindow THEN [NoEntry EXCEPT !.start = tick] ELSE e
    BY DEF LimitOf
  <1> HIDE DEF e, A
  <1>3. CASE ~(e.start = 0 \/ tick - e.start > LimitWindow)
    BY <1>1, <1>2, <1>3 DEF A
  <1>4. CASE e.start = 0 \/ tick - e.start > LimitWindow
    <2> DEFINE n == [NoEntry EXCEPT !.start = tick]
    <2>1. LimitOf(c) = n /\ n.start = tick /\ n.count = 0 /\ tick # 0 /\ tick \in Nat
      BY <1>1, <1>2, <1>4, HardeningNats DEF NoEntry
    <2>2. n \in LimitKind
      <3>1. tick \in 0..MaxTick
        BY <1>1, HardeningNats
      <3> QED BY <3>1, NoEntryIsNone DEF LimitKind
    <2> HIDE DEF n
    <2>3. \A l \in A : l.at < tick /\ l.at <= tick + LimitWindow
      BY <1>1, <1>4, <2>1, HardeningNats DEF LimitIsKept
    <2>4. From(A, tick) = {} /\ Cardinality(From(A, tick)) = 0
      <3>1. From(A, tick) = {}
        BY <1>1, <2>1, <2>3 DEF From
      <3> QED BY <3>1, FS_EmptySet
    <2>5. ASSUME NEW t \in Nat, t + LimitWindow >= tick PROVE Cardinality(Span(A, t, tick)) <= RateLimit
      <3>1. CASE e.start = 0
        <4>1. Span(A, t, tick) = {}
          BY <1>1, <2>1, <2>5, <3>1, HardeningNats DEF LimitIsKept, Span
        <4> QED BY <4>1, FS_EmptySet, HardeningNats
      <3>2. CASE e.start # 0
        <4> DEFINE S == From(A, e.start)
        <4>1. t > e.start
          BY <1>1, <1>4, <2>1, <2>5, <3>2, HardeningNats
        <4>2. Span(A, t, tick) \subseteq S /\ S \subseteq A
          BY <1>1, <4>1 DEF Span, From
        <4>3. IsFiniteSet(S) /\ Cardinality(S) <= RateLimit
          BY <1>1, <3>2, <4>2, FS_Subset DEF LimitIsKept
        <4> HIDE DEF S
        <4>4. Cardinality(Span(A, t, tick)) <= Cardinality(S) /\ Cardinality(S) \in Nat /\ Cardinality(Span(A, t, tick)) \in Nat
          BY <4>2, <4>3, FS_Subset, FS_CardinalityType
        <4> QED BY <4>3, <4>4, HardeningNats
      <3> QED BY <3>1, <3>2
    <2>6. LimitIsKept(n, A)
      <3>1. Cardinality(From(A, n.start)) <= n.count /\ Cardinality(From(A, n.start)) <= RateLimit
        BY <2>1, <2>4, HardeningNats
      <3>2. \A t \in Nat : t + LimitWindow >= n.start => Cardinality(Span(A, t, n.start)) <= RateLimit
        BY <2>1, <2>5
      <3>3. n.start <= tick /\ n.start # 0 /\ \A l \in A : l.at <= n.start + LimitWindow
        BY <2>1, <2>3
      <3>4. IsFiniteSet(A) /\ \A t \in Nat : Cardinality(InWindow(A, t, t + LimitWindow)) <= 2 * RateLimit
        BY <1>1 DEF LimitIsKept
      <3> QED BY <3>1, <3>2, <3>3, <3>4 DEF LimitIsKept
    <2> QED BY <2>1, <2>2, <2>6 DEF A
  <1> QED BY <1>3, <1>4 DEF A

(* A request that is admitted falls in the window of its entry.                 *)
LEMMA AdmittedIsKept ==
  ASSUME NEW e \in LimitKind, NEW A, LimitIsKept(e, A), e.start # 0, e.count + 1 <= RateLimit, tick \in Nat,
         \A l \in A : l.at \in Nat, NEW x, x.at = tick, NEW n \in LimitKind, n.start = e.start, n.count = e.count + 1,
         tick - e.start <= LimitWindow
  PROVE  LimitIsKept(n, A \cup {x})
  <1> DEFINE B == A \cup {x}
             s == e.start
  <1>1. s \in Nat /\ s # 0 /\ s <= tick /\ IsFiniteSet(A) /\ IsFiniteSet(B) /\ e.count \in Nat
    BY HardeningNats, FS_AddElement DEF LimitKind, LimitIsKept
  <1>2. /\ Cardinality(From(A, s)) <= e.count
        /\ Cardinality(From(B, s)) <= e.count + 1 /\ Cardinality(From(B, s)) \in Nat
        /\ IsFiniteSet(From(B, s))
    <2> DEFINE S == From(A, s)
    <2>1. From(B, s) = S \cup {x} /\ S \subseteq A /\ Cardinality(S) <= e.count
      BY <1>1 DEF From, LimitIsKept
    <2> HIDE DEF S
    <2>2. IsFiniteSet(S) /\ Cardinality(S) \in Nat
      BY <1>1, <2>1, FS_Subset, FS_CardinalityType
    <2>3. IsFiniteSet(S \cup {x}) /\ Cardinality(S \cup {x}) <= Cardinality(S) + 1 /\ Cardinality(S \cup {x}) \in Nat
      <3>1. Cardinality(S \cup {x}) = IF x \in S THEN Cardinality(S) ELSE Cardinality(S) + 1
        BY <2>2, FS_AddElement
      <3>2. IsFiniteSet(S \cup {x})
        BY <2>2, FS_AddElement
      <3> QED BY <2>2, <3>1, <3>2
    <2>4. From(A, s) = S
      BY DEF S
    <2>5. Cardinality(S) + 1 <= e.count + 1
      BY <1>1, <2>1, <2>2
    <2> HIDE DEF B, s
    <2> QED BY <1>1, <2>1, <2>2, <2>3, <2>4, <2>5
  <1>3. \A t \in Nat : Span(B, t, s) = Span(A, t, s)
    BY <1>1 DEF Span
  <1>4. ASSUME NEW t \in Nat PROVE Cardinality(InWindow(B, t, t + LimitWindow)) <= 2 * RateLimit
    <2>1. CASE t <= tick /\ tick <= t + LimitWindow
      <3> DEFINE P == Span(A, t, s)
                 S == From(B, s)
                 R == InWindow(B, t, t + LimitWindow)
      <3>1. R \subseteq P \cup S /\ P \subseteq A
        BY <1>1 DEF InWindow, Span, From
      <3>2. Cardinality(P) <= RateLimit
        BY <1>1, <2>1, HardeningNats DEF LimitIsKept
      <3>3. IsFiniteSet(P) /\ IsFiniteSet(S) /\ Cardinality(S) <= RateLimit /\ Cardinality(S) \in Nat
        BY <1>1, <1>2, <3>1, FS_Subset, HardeningNats
      <3> HIDE DEF P, S, R
      <3>4. IsFiniteSet(P \cup S) /\ Cardinality(P) \in Nat
            /\ Cardinality(P \cup S) = Cardinality(P) + Cardinality(S) - Cardinality(P \cap S)
        BY <3>3, FS_Union, FS_CardinalityType
      <3>5. Cardinality(P \cap S) \in Nat
        <4>1. IsFiniteSet(P \cap S)
          BY <3>3, FS_Subset
        <4> QED BY <4>1, FS_CardinalityType
      <3>6. Cardinality(R) <= Cardinality(P \cup S) /\ Cardinality(R) \in Nat
        BY <3>1, <3>4, FS_Subset, FS_CardinalityType
      <3> QED BY <3>2, <3>3, <3>4, <3>5, <3>6, HardeningNats DEF R
    <2>2. CASE ~(t <= tick /\ tick <= t + LimitWindow)
      <3>1. InWindow(B, t, t + LimitWindow) = InWindow(A, t, t + LimitWindow)
        BY <2>2 DEF InWindow
      <3> QED BY <3>1 DEF LimitIsKept
    <2> QED BY <2>1, <2>2
  <1>5. \A l \in B : l.at <= s + LimitWindow
    BY <1>1, HardeningNats DEF LimitIsKept
  <1>6. \A t \in Nat : t + LimitWindow >= s => Cardinality(Span(B, t, s)) <= RateLimit
    BY <1>1, <1>3 DEF LimitIsKept
  <1>7. Cardinality(From(B, s)) <= n.count /\ Cardinality(From(B, s)) <= RateLimit
    BY <1>1, <1>2, HardeningNats
  <1>8. n.start = s
    OBVIOUS
  <1> HIDE DEF B, s
  <1>9. LimitIsKept(n, B)
    BY <1>1, <1>4, <1>5, <1>6, <1>7, <1>8 DEF LimitIsKept
  <1> QED BY <1>9 DEF B

(* What is left alone but for the clock stays within the limit.                 *)
LEMMA TimePasses ==
  ASSUME HardeningInv, NEW c \in Sources \ Trusted, tick' \in Nat, tick <= tick', UNCHANGED <<limits, admitted>>
  PROVE  LimitIsKept(limits[c], admitted[c])'
  <1> DEFINE e == limits[c]
             A == admitted[c]
  <1>1. /\ LimitIsKept(e, A) /\ tick \in Nat /\ e.start \in Nat /\ \A l \in A : l.at \in Nat
        /\ limits'[c] = e /\ admitted'[c] = A
    BY HardeningNats DEF HardeningInv, HardeningTypeOK, Happened
  <1> HIDE DEF e, A
  <1>2. e.start # 0 => e.start <= tick'
    BY <1>1 DEF LimitIsKept
  <1>3. e.start = 0 => \A l \in A : l.at + LimitWindow < tick'
    BY <1>1, HardeningNats DEF LimitIsKept
  <1> QED BY <1>1, <1>2, <1>3 DEF LimitIsKept, InWindow, From, Span

LEMMA CheckKeeps == ASSUME HardeningInv, NEW c \in Sources, CheckRateLimit(c) PROVE HardeningInv'
  <1> DEFINE e == LimitOf(c)
             m == [e EXCEPT !.count = @ + 1]
             b == [e EXCEPT !.count = @ + 1, !.until = tick + LimitWindow]
             x == Now(admitted[c])
  <1>1. /\ Cardinality(admitted[c]) < MaxSeen /\ e.count <= MaxSeen
        /\ UNCHANGED <<logins, failedAt>> /\ UNCHANGED ofNode
        /\ IF c \in Trusted \cup banned THEN UNCHANGED <<admitted, limits>>
           ELSE IF tick < e.until THEN limits' = [limits EXCEPT ![c] = e] /\ UNCHANGED admitted
           ELSE IF e.count + 1 > RateLimit
                THEN limits' = [limits EXCEPT ![c] = b] /\ UNCHANGED admitted
                ELSE limits' = [limits EXCEPT ![c] = m] /\ admitted' = [admitted EXCEPT ![c] = @ \cup {x}]
    BY DEF CheckRateLimit
  <1>2. /\ limits \in [Sources -> LimitKind] /\ admitted \in [Sources -> SUBSET Happened] /\ tick \in 1..MaxTick
        /\ UNCHANGED tick /\ \A l \in admitted[c] : l.at <= tick /\ l.at \in Nat
    BY <1>1, HardeningNats DEF HardeningInv, HardeningTypeOK, LimitKind, ofNode, Happened
  <1>3. CASE c \in Trusted \cup banned
    <2>1. UNCHANGED <<admitted, limits>>
      BY <1>1, <1>3
    <2>2. \A d \in Sources \ Trusted : LimitIsKept(limits[d], admitted[d])'
      BY <1>2, <2>1, TimePasses, HardeningNats
    <2> QED BY <1>1, <2>1, <2>2 DEF HardeningInv, HardeningTypeOK, FailuresAreKept, Recent, KeyIsKept, ofNode
  <1>4. CASE c \notin Trusted \cup banned
    <2>1. LimitIsKept(e, admitted[c]) /\ e \in LimitKind /\ e.start # 0 /\ e.count \in Nat /\ e.start \in Nat
          /\ e.count + 1 \in 0..MaxSeen + 1 /\ tick - e.start <= LimitWindow
      <3>1. LimitIsKept(e, admitted[c]) /\ e \in LimitKind /\ e.start # 0 /\ c \in Sources \ Trusted
        BY <1>4, EntryIsKept
      <3>2. tick - e.start <= LimitWindow
        <4>1. limits[c].start = 0 \/ tick - limits[c].start > LimitWindow \/ tick - limits[c].start <= LimitWindow
          BY <1>2, HardeningNats DEF LimitKind
        <4>2. [NoEntry EXCEPT !.start = tick].start = tick /\ tick - tick <= LimitWindow
          BY <1>2, HardeningNats DEF NoEntry
        <4> QED BY <4>1, <4>2, <1>2, HardeningNats DEF LimitOf, LimitKind
      <3>3. e.count \in Nat /\ e.start \in Nat
        BY <3>1, HardeningNats DEF LimitKind
      <3> HIDE DEF e
      <3> QED BY <1>1, <3>1, <3>2, <3>3, HardeningNats
    <2>2. /\ m \in LimitKind /\ m.start = e.start /\ m.count = e.count + 1
          /\ b \in LimitKind /\ b.start = e.start /\ b.count = e.count + 1
      <3>1. tick + LimitWindow \in 0..MaxTick + LimitWindow
        BY <1>2, HardeningNats
      <3> HIDE DEF e
      <3> QED BY <2>1, <3>1 DEF LimitKind
    <2>3. x \in Happened /\ x.at = tick
      <3>1. IsFiniteSet(admitted[c]) /\ Cardinality(admitted[c]) \in Nat
        BY <2>1, FS_CardinalityType DEF LimitIsKept
      <3>2. Cardinality(admitted[c]) + 1 \in 1..MaxSeen
        BY <1>1, <3>1, HardeningNats
      <3> QED BY <1>2, <3>2 DEF Now, Happened
    <2> HIDE DEF e, m, b, x
    <2>4. PICK n \in LimitKind, S \in SUBSET Happened :
            /\ limits' = [limits EXCEPT ![c] = n] /\ admitted' = [admitted EXCEPT ![c] = S]
            /\ LimitIsKept(n, S) /\ \A l \in S : l.at <= tick
      <3>1. CASE tick < e.until
        <4>1. limits' = [limits EXCEPT ![c] = e] /\ admitted' = [admitted EXCEPT ![c] = admitted[c]]
          BY <1>1, <1>2, <1>4, <3>1
        <4> QED BY <1>2, <2>1, <4>1
      <3>2. CASE ~(tick < e.until) /\ e.count + 1 > RateLimit
        <4>1. limits' = [limits EXCEPT ![c] = b] /\ admitted' = [admitted EXCEPT ![c] = admitted[c]]
          BY <1>1, <1>2, <1>4, <3>2
        <4>2. LimitIsKept(b, admitted[c])
          <5>1. IsFiniteSet(From(admitted[c], e.start)) /\ Cardinality(From(admitted[c], e.start)) \in Nat
            <6>1. From(admitted[c], e.start) \subseteq admitted[c]
              BY DEF From
            <6> QED BY <2>1, <6>1, FS_Subset, FS_CardinalityType DEF LimitIsKept
          <5> QED BY <2>1, <2>2, <5>1 DEF LimitIsKept
        <4> QED BY <1>2, <2>2, <4>1, <4>2
      <3>3. CASE ~(tick < e.until) /\ ~(e.count + 1 > RateLimit)
        <4>1. limits' = [limits EXCEPT ![c] = m] /\ admitted' = [admitted EXCEPT ![c] = admitted[c] \cup {x}]
          BY <1>1, <1>2, <1>4, <3>3
        <4>2. LimitIsKept(m, admitted[c] \cup {x})
          <5>1. e.count + 1 <= RateLimit /\ tick \in Nat
            BY <1>2, <2>1, <3>3, HardeningNats
          <5>2. \A l \in admitted[c] : l.at \in Nat
            BY <1>2
          <5> QED BY <2>1, <2>2, <2>3, <5>1, <5>2, AdmittedIsKept
        <4>3. admitted[c] \cup {x} \in SUBSET Happened /\ \A l \in admitted[c] \cup {x} : l.at <= tick
          BY <1>2, <2>3
        <4> QED BY <2>2, <4>1, <4>2, <4>3
      <3> QED BY <3>1, <3>2, <3>3
    <2>5. /\ limits' \in [Sources -> LimitKind] /\ admitted' \in [Sources -> SUBSET Happened]
          /\ limits'[c] = n /\ admitted'[c] = S
          /\ \A d \in Sources : d # c => limits'[d] = limits[d] /\ admitted'[d] = admitted[d]
      BY <1>2, <2>4
    <2>6. \A d \in Sources \ Trusted : LimitIsKept(limits'[d], admitted'[d])
      BY <2>4, <2>5 DEF HardeningInv
    <2>7. \A d \in Sources \ Trusted : LimitIsKept(limits[d], admitted[d])'
      BY <1>2, <2>6 DEF LimitIsKept, From, Span, InWindow
    <2>8. \A d \in Sources : \A l \in admitted'[d] : l.at <= tick'
      BY <1>2, <2>4, <2>5 DEF HardeningInv
    <2>9. HardeningTypeOK'
      BY <1>1, <2>5 DEF HardeningInv, HardeningTypeOK, LimitKind, ofNode
    <2> QED BY <1>1, <2>7, <2>8, <2>9 DEF HardeningInv, FailuresAreKept, Recent, KeyIsKept, ofNode
  <1> QED BY <1>3, <1>4

LEMMA FailureKeeps == ASSUME HardeningInv, NEW c \in Sources, RecordFailedLogin(c) PROVE HardeningInv'
  <1> DEFINE x == Now(failedAt[c])
  <1>1. /\ Cardinality(failedAt[c]) < MaxSeen - 1
        /\ logins' = [logins EXCEPT ![c] = Recent(@) \cup {x}] /\ failedAt' = [failedAt EXCEPT ![c] = @ \cup {x}]
        /\ UNCHANGED <<limits, admitted>> /\ UNCHANGED ofNode
    BY DEF RecordFailedLogin
  <1>2. /\ logins \in [Sources -> SUBSET Happened] /\ failedAt \in [Sources -> SUBSET Happened] /\ tick \in 1..MaxTick
        /\ UNCHANGED tick
    BY <1>1 DEF HardeningInv, HardeningTypeOK, ofNode
  <1>3. x \in Happened
    <2>1. IsFiniteSet(Happened)
      <3> DEFINE P == (1..MaxSeen) \X (1..MaxTick)
      <3>1. IsFiniteSet(1..MaxSeen) /\ IsFiniteSet(1..MaxTick)
        BY FS_Interval, HardeningNats
      <3>2. IsFiniteSet(P)
        BY <3>1, FS_Product
      <3> DEFINE f == [q \in P |-> [nr |-> q[1], at |-> q[2]]]
      <3>3. f \in Surjection(P, Happened)
        <4>1. f \in [P -> Happened]
          BY DEF Happened
        <4>2. ASSUME NEW y \in Happened PROVE \E q \in P : f[q] = y
          <5> DEFINE q == <<y.nr, y.at>>
          <5>1. q \in P /\ y = [nr |-> y.nr, at |-> y.at]
            BY DEF Happened
          <5>2. f[q] = y
            BY <5>1
          <5> QED BY <5>1, <5>2
        <4> HIDE DEF f, P
        <4> QED BY <4>1, <4>2 DEF Surjection
      <3> HIDE DEF P, f
      <3> QED BY <3>2, <3>3, FS_Surjection
    <2>2. Cardinality(failedAt[c]) \in Nat
      BY <1>2, <2>1, FS_Subset, FS_CardinalityType
    <2>3. Cardinality(failedAt[c]) + 1 \in 1..MaxSeen
      BY <1>1, <2>2, HardeningNats
    <2> QED BY <1>2, <2>3 DEF Now, Happened
  <1> HIDE DEF x
  <1>4. /\ logins'[c] = Recent(logins[c]) \cup {x} /\ failedAt'[c] = failedAt[c] \cup {x}
        /\ \A d \in Sources : d # c => logins'[d] = logins[d] /\ failedAt'[d] = failedAt[d]
        /\ logins' \in [Sources -> SUBSET Happened] /\ failedAt' \in [Sources -> SUBSET Happened]
    BY <1>1, <1>2, <1>3 DEF Recent
  <1>5. FailuresAreKept'
    BY <1>2, <1>4 DEF HardeningInv, FailuresAreKept, Recent
  <1>6. \A d \in Sources \ Trusted : LimitIsKept(limits[d], admitted[d])'
    BY <1>1, <1>2, TimePasses, HardeningNats
  <1>7. HardeningTypeOK'
    BY <1>1, <1>4 DEF HardeningInv, HardeningTypeOK, ofNode
  <1> QED BY <1>1, <1>5, <1>6, <1>7 DEF HardeningInv, KeyIsKept, ofNode

(* What happens at the same instant to neither limits nor logins.               *)
LEMMA BansAndKeysKeep ==
  ASSUME HardeningInv,
         \/ \E c \in Sources, written \in BOOLEAN : BanIP(c, written) \/ UnbanIP(c, written)
         \/ Encrypt \/ UNCHANGED hardeningVars
  PROVE  HardeningInv'
  <1>1. UNCHANGED <<limits, logins, nodeKey, keyFile, tick, admitted, failedAt>>
    BY DEF BanIP, UnbanIP, Bans, Encrypt, hardeningVars
  <1>2. \A d \in Sources \ Trusted : LimitIsKept(limits[d], admitted[d])'
    BY <1>1, TimePasses, HardeningNats DEF HardeningInv, HardeningTypeOK
  <1>3. FailuresAreKept'
    BY <1>1 DEF HardeningInv, FailuresAreKept, Recent
  <1>4. /\ banned' \subseteq Sources /\ bansFile' \subseteq Sources /\ bansSaved' \in BOOLEAN
        /\ bansSaved' => bansFile' = banned'
    <2>1. ASSUME NEW bans \in SUBSET Sources, NEW written \in BOOLEAN, Bans(bans, written)
          PROVE  /\ banned' \subseteq Sources /\ bansFile' \subseteq Sources /\ bansSaved' \in BOOLEAN
                 /\ bansSaved' => bansFile' = banned'
      <3>1. banned' = bans /\ bansSaved' = written /\ bansFile' = IF written THEN bans ELSE bansFile
        BY <2>1 DEF Bans
      <3> QED BY <3>1 DEF HardeningInv, HardeningTypeOK
    <2>2. CASE Encrypt \/ UNCHANGED hardeningVars
      BY <2>2 DEF Encrypt, hardeningVars, HardeningInv, HardeningTypeOK
    <2>3. ASSUME NEW c \in Sources PROVE banned \cup {c} \in SUBSET Sources /\ banned \ {c} \in SUBSET Sources
      BY DEF HardeningInv, HardeningTypeOK
    <2> QED BY <2>1, <2>2, <2>3 DEF BanIP, UnbanIP
  <1>5. KeyIsKept' /\ sealed' \subseteq 1..MaxTick
    <2>1. CASE Encrypt
      <3>1. nodeKey \in 1..MaxTick /\ nodeKey # 0
        BY HardeningNats DEF HardeningInv, HardeningTypeOK
      <3> QED BY <2>1, <3>1 DEF Encrypt, HardeningInv, HardeningTypeOK, KeyIsKept
    <2>2. CASE ~Encrypt
      BY <1>1, <2>2 DEF BanIP, UnbanIP, Bans, hardeningVars, HardeningInv, HardeningTypeOK, KeyIsKept
    <2> QED BY <2>1, <2>2
  <1>6. HardeningTypeOK'
    BY <1>1, <1>4, <1>5 DEF HardeningInv, HardeningTypeOK
  <1> QED BY <1>1, <1>2, <1>3, <1>4, <1>5, <1>6 DEF HardeningInv

LEMMA CleanupKeeps == ASSUME HardeningInv, Cleanup PROVE HardeningInv'
  <1>1. /\ limits' = [c \in Sources |-> IF tick - limits[c].start > 2 * LimitWindow THEN NoEntry ELSE limits[c]]
        /\ logins' = [c \in Sources |-> Recent(logins[c])] /\ UNCHANGED <<admitted, failedAt>> /\ UNCHANGED ofNode
    BY DEF Cleanup
  <1>2. /\ limits \in [Sources -> LimitKind] /\ tick \in 1..MaxTick /\ UNCHANGED tick
        /\ admitted \in [Sources -> SUBSET Happened] /\ logins \in [Sources -> SUBSET Happened]
    BY <1>1 DEF HardeningInv, HardeningTypeOK, ofNode, LimitKind
  <1>3. limits' \in [Sources -> LimitKind] /\ logins' \in [Sources -> SUBSET Happened]
    BY <1>1, <1>2, NoEntryIsNone DEF Recent
  <1>4. ASSUME NEW c \in Sources \ Trusted PROVE LimitIsKept(limits'[c], admitted[c])
    <2> DEFINE e == limits[c]
               A == admitted[c]
    <2>1. LimitIsKept(e, A) /\ e.start \in Nat /\ \A l \in A : l.at \in Nat
      BY <1>2, HardeningNats DEF HardeningInv, LimitKind, Happened
    <2>2. limits'[c] = IF tick - e.start > 2 * LimitWindow THEN NoEntry ELSE e
      BY <1>1
    <2> HIDE DEF e, A
    <2>3. CASE tick - e.start > 2 * LimitWindow
      <3>1. \A l \in A : l.at + LimitWindow < tick
        BY <1>2, <2>1, <2>3, HardeningNats DEF LimitIsKept
      <3>2. LimitIsKept(NoEntry, A)
        BY <2>1, <3>1, NoEntryIsNone DEF LimitIsKept
      <3> QED BY <2>2, <2>3, <3>2 DEF A
    <2>4. CASE ~(tick - e.start > 2 * LimitWindow)
      BY <2>1, <2>2, <2>4 DEF A
    <2> QED BY <2>3, <2>4
  <1>5. \A c \in Sources \ Trusted : LimitIsKept(limits[c], admitted[c])'
    BY <1>1, <1>2, <1>4 DEF LimitIsKept, From, Span, InWindow
  <1>6. FailuresAreKept'
    BY <1>1, <1>2 DEF HardeningInv, FailuresAreKept, Recent
  <1>7. HardeningTypeOK'
    BY <1>1, <1>3 DEF HardeningInv, HardeningTypeOK, ofNode, LimitKind
  <1> QED BY <1>1, <1>5, <1>6, <1>7 DEF HardeningInv, KeyIsKept, ofNode

LEMMA RestartKeeps == ASSUME HardeningInv, NEW written \in BOOLEAN, Restarts(written) PROVE HardeningInv'
  <1>1. /\ limits' = [c \in Sources |-> NoEntry] /\ logins' = [c \in Sources |-> {}]
        /\ admitted' = [c \in Sources |-> {}] /\ failedAt' = [c \in Sources |-> {}]
        /\ banned' = bansFile /\ UNCHANGED <<bansFile, sealed>> /\ bansSaved' = TRUE
    BY DEF Restarts
  <1>2. tick' \in 1..MaxTick /\ tick' # 0
    BY HardeningNats DEF Restarts, HardeningInv, HardeningTypeOK
  <1>3. \A c \in Sources : LimitIsKept(limits'[c], admitted'[c])
    BY <1>1, NothingAdmitted, NoEntryIsNone
  <1>4. \A c \in Sources \ Trusted : LimitIsKept(limits[c], admitted[c])'
    BY <1>1, NothingAdmitted, <1>3, NoEntryIsNone, FS_EmptySet DEF LimitIsKept, From, Span, InWindow
  <1>5. limits' \in [Sources -> LimitKind]
    BY <1>1, NoEntryIsNone
  <1>6. nodeKey' \in 1..MaxTick /\ keyFile' \in 0..MaxTick /\ KeyIsKept'
    BY <1>1, <1>2, HardeningNats DEF Restarts, HardeningInv, HardeningTypeOK, KeyIsKept
  <1>7. HardeningTypeOK'
    BY <1>1, <1>2, <1>5, <1>6 DEF HardeningInv, HardeningTypeOK, LimitKind
  <1> QED BY <1>1, <1>4, <1>6, <1>7 DEF HardeningInv, FailuresAreKept, Recent

LEMMA HardeningTickKeeps == ASSUME HardeningInv, HardeningTick PROVE HardeningInv'
  <1>1. /\ tick' = tick + 1 /\ tick \in Nat /\ tick' \in 1..MaxTick
        /\ UNCHANGED <<limits, logins, banned, bansFile, bansSaved, nodeKey, keyFile, sealed, admitted, failedAt>>
    BY HardeningNats DEF HardeningTick, HardeningInv, HardeningTypeOK
  <1>2. \A c \in Sources \ Trusted : LimitIsKept(limits[c], admitted[c])'
    BY <1>1, TimePasses
  <1>3. HardeningTypeOK'
    BY <1>1 DEF HardeningInv, HardeningTypeOK
  <1>4. FailuresAreKept'
    <2>1. \A c \in Sources : \A l \in failedAt[c] : l.at \in Nat
      BY HardeningNats DEF HardeningInv, HardeningTypeOK, Happened
    <2> QED BY <1>1, <2>1, HardeningNats DEF HardeningInv, FailuresAreKept, Recent
  <1>5. \A c \in Sources : \A l \in admitted'[c] : l.at <= tick'
    <2>1. \A c \in Sources : \A l \in admitted[c] : l.at \in Nat
      BY HardeningNats DEF HardeningInv, HardeningTypeOK, Happened
    <2> QED BY <1>1, <2>1 DEF HardeningInv
  <1> QED BY <1>1, <1>2, <1>3, <1>4, <1>5 DEF HardeningInv, KeyIsKept

LEMMA HardeningKept == HardeningInv /\ [HardeningNext]_hardeningVars => HardeningInv'
  BY CheckKeeps, FailureKeeps, BansAndKeysKeep, CleanupKeeps, RestartKeeps, HardeningTickKeeps DEF HardeningNext

LEMMA HardeningMeans == HardeningInv => StrangersAreBounded
  <1> SUFFICES ASSUME HardeningInv PROVE StrangersAreBounded
    OBVIOUS
  <1>1. ASSUME NEW c \in Sources \ Trusted PROVE Recent(logins[c]) = Recent(failedAt[c])
    BY DEF HardeningInv, FailuresAreKept, Recent
  <1>2. ASSUME NEW c \in Sources \ Trusted, NEW t \in 1..tick
        PROVE  Within(admitted[c], t, t + LimitWindow) <= 2 * RateLimit
    <2>1. t \in Nat
      BY DEF HardeningInv, HardeningTypeOK
    <2> QED BY <2>1 DEF HardeningInv, LimitIsKept, InWindow, Within
  <1>3. sealed \subseteq {nodeKey}
    BY DEF HardeningInv, KeyIsKept
  <1> QED BY <1>1, <1>2, <1>3 DEF StrangersAreBounded, IsLoginBlocked, HardeningInv

-----------------------------------------------------------------------------
(* The event bus (EventBus).                                                    *)
BusInv == BusTypeOK /\ ViewersKept

LEMMA BusNats == MaxLogSize \in Nat /\ SilenceBeats \in Nat /\ MaxEvents \in Nat /\ MaxViews \in Nat
  BY BusAssumption DEF BusAssumption

LEMMA BusStarts == BusInit => BusInv
  <1> SUFFICES ASSUME BusInit PROVE BusInv
    OBVIOUS
  <1>1. 0 \in 0..SilenceBeats + 1 /\ 0 \in 0..MaxViews /\ 0 \in 0..MaxEvents
    BY BusNats
  <1>2. NoView \in [line : Lines, subscriptions : SUBSET (Topics \cup {Everything}), silent : 0..SilenceBeats + 1, views : 0..MaxViews]
    BY <1>1 DEF NoView, Lines
  <1>3. BusTypeOK
    BY <1>1, <1>2 DEF BusInit, BusTypeOK
  <1>4. \A v \in Viewers : viewer[v].line = "down"
    BY DEF BusInit, NoView
  <1>5. Len(eventLog) = 0 /\ DOMAIN eventLog = {} /\ broadcasts = 0
    BY DEF BusInit
  <1>6. 0 = IF 0 < MaxLogSize THEN 0 ELSE MaxLogSize
    BY BusNats
  <1> QED BY <1>3, <1>4, <1>5, <1>6 DEF BusInv, ViewersKept

(* A log is the last events, numbered one after the other.                      *)
LogIsWhole(log, n) ==
    /\ log \in Seq(Event)
    /\ Len(log) = IF n < MaxLogSize THEN n ELSE MaxLogSize
    /\ \A i \in DOMAIN log : log[i].number = n - Len(log) + i

LEMMA LogStaysWhole ==
  ASSUME NEW log, NEW n \in 0..MaxEvents, n < MaxEvents, LogIsWhole(log, n), NEW t \in Topics
  PROVE  LogIsWhole(Logged(log, [number |-> n + 1, topic |-> t]), n + 1)
  <1> DEFINE e == [number |-> n + 1, topic |-> t]
             all == Append(log, e)
  <1>1. e \in Event /\ e.number = n + 1
    BY BusNats DEF Event
  <1> HIDE DEF e
  <1>2. log \in Seq(Event) /\ Len(log) \in Nat /\ DOMAIN log = 1..Len(log)
    BY DEF LogIsWhole
  <1>3. /\ all \in Seq(Event) /\ Len(all) = Len(log) + 1 /\ DOMAIN all = 1..(Len(log) + 1)
        /\ \A i \in 1..Len(log) : all[i] = log[i]
        /\ all[Len(log) + 1] = e
    BY <1>1, <1>2
  <1> HIDE DEF all
  <1>4. \A i \in DOMAIN all : all[i].number = n - Len(log) + i
    <2>1. ASSUME NEW i \in 1..Len(log) PROVE all[i].number = n - Len(log) + i
      BY <1>2, <1>3 DEF LogIsWhole
    <2>2. all[Len(log) + 1].number = n - Len(log) + (Len(log) + 1)
      BY <1>1, <1>2, <1>3
    <2> QED BY <1>2, <1>3, <2>1, <2>2
  <1>5. CASE Len(all) > MaxLogSize
    <2> DEFINE cut == SubSeq(all, Len(all) - MaxLogSize + 1, Len(all))
    <2>1. Len(log) = MaxLogSize /\ n >= MaxLogSize
      BY <1>2, <1>3, <1>5, BusNats DEF LogIsWhole
    <2>2. Len(all) - MaxLogSize + 1 = 2 /\ Len(all) = MaxLogSize + 1
      BY <1>3, <2>1, BusNats
    <2>3. cut = SubSeq(all, 2, MaxLogSize + 1)
      BY <2>2
    <2>4. /\ cut \in Seq(Event) /\ Len(cut) = MaxLogSize /\ DOMAIN cut = 1..MaxLogSize
          /\ \A i \in 1..MaxLogSize : cut[i] = all[i + 1]
      BY <1>3, <2>2, <2>3, BusNats
    <2> HIDE DEF cut
    <2>5. \A i \in DOMAIN cut : cut[i].number = n + 1 - Len(cut) + i
      <3> SUFFICES ASSUME NEW i \in 1..MaxLogSize PROVE cut[i].number = n + 1 - Len(cut) + i
        BY <2>4
      <3>1. i + 1 \in DOMAIN all /\ cut[i] = all[i + 1]
        BY <1>3, <2>1, <2>4, BusNats
      <3>2. all[i + 1].number = n - Len(log) + (i + 1)
        BY <1>4, <3>1
      <3>3. n \in Nat /\ n - MaxLogSize + (i + 1) = n + 1 - MaxLogSize + i
        BY BusNats
      <3> QED BY <2>1, <2>4, <3>1, <3>2, <3>3
    <2>6. Logged(log, e) = cut
      BY <1>5 DEF Logged, cut, all
    <2>7. LogIsWhole(cut, n + 1)
      BY <2>1, <2>4, <2>5, BusNats DEF LogIsWhole
    <2> QED BY <2>6, <2>7 DEF e
  <1>6. CASE ~(Len(all) > MaxLogSize)
    <2>1. Logged(log, e) = all
      BY <1>6 DEF Logged, all
    <2>2. Len(log) = n /\ n < MaxLogSize
      BY <1>2, <1>3, <1>6, BusNats DEF LogIsWhole
    <2>3. \A i \in DOMAIN all : all[i].number = n + 1 - Len(all) + i
      BY <1>3, <1>4, <2>2
    <2>4. LogIsWhole(all, n + 1)
      BY <1>3, <2>2, <2>3, BusNats DEF LogIsWhole
    <2> QED BY <2>1, <2>4 DEF e
  <1> QED BY <1>5, <1>6

LEMMA BusKept == BusInv /\ [BusNext]_busVars => BusInv'
  <1> SUFFICES ASSUME BusInv, [BusNext]_busVars PROVE BusInv'
    OBVIOUS
  <1> DEFINE View == [line : Lines, subscriptions : SUBSET (Topics \cup {Everything}), silent : 0..SilenceBeats + 1, views : 0..MaxViews]
             Seen == viewer \in [Viewers -> View] /\ connected \subseteq Viewers /\ \A v \in Viewers : viewer[v].line # "down" => v \in connected
             Book == /\ broadcasts \in 0..MaxEvents /\ LogIsWhole(eventLog, broadcasts)
  <1>0. BusInv <=> (busUp \in BOOLEAN /\ Seen /\ Book)
    BY DEF BusInv, BusTypeOK, ViewersKept, LogIsWhole
  <1>0p. BusInv' <=> (busUp' \in BOOLEAN /\ Seen' /\ Book')
    BY DEF BusInv, BusTypeOK, ViewersKept, LogIsWhole
  <1>1. Book' /\ busUp' \in BOOLEAN
    <2>1. CASE UNCHANGED <<eventLog, broadcasts>>
      <3>1. Book'
        BY <1>0, <2>1 DEF LogIsWhole
      <3>2. busUp' = busUp \/ busUp' = FALSE
        BY DEF BusNext, busVars, Heartbeat, Destroy, BroadcastEvent, Connects, Closes, ViewerGoes, Subscribes, Unsubscribes, Says
      <3> QED BY <1>0, <3>1, <3>2, Zenon
    <2>2. ASSUME NEW t \in Topics, BroadcastEvent(t) PROVE Book' /\ busUp' \in BOOLEAN
      <3>1. broadcasts < MaxEvents /\ broadcasts' = broadcasts + 1
            /\ eventLog' = Logged(eventLog, [number |-> broadcasts + 1, topic |-> t]) /\ busUp' = busUp
        BY <2>2 DEF BroadcastEvent
      <3>2. broadcasts' \in 0..MaxEvents
        BY <1>0, <3>1, BusNats
      <3>3. LogIsWhole(Logged(eventLog, [number |-> broadcasts + 1, topic |-> t]), broadcasts + 1)
        BY <1>0, <3>1, LogStaysWhole
      <3>4. LogIsWhole(eventLog, broadcasts)'
        BY <3>1, <3>3 DEF LogIsWhole
      <3> QED BY <1>0, <3>1, <3>2, <3>4
    <2>3. UNCHANGED <<eventLog, broadcasts>> \/ \E t \in Topics : BroadcastEvent(t)
      BY DEF BusNext, busVars, Heartbeat, Destroy, Connects, Closes, ViewerGoes, Subscribes, Unsubscribes, Says
    <2> QED BY <2>1, <2>2, <2>3
  <1>2. Seen'
    <2>0. viewer \in [Viewers -> View] /\ connected \subseteq Viewers /\ \A v \in Viewers : viewer[v].line # "down" => v \in connected
      BY <1>0
    <2>1. ASSUME NEW v \in Viewers, Connects(v) PROVE Seen'
      <3> DEFINE new == [NoView EXCEPT !.line = "open", !.subscriptions = {Everything}, !.views = viewer[v].views + 1]
      <3>1. new \in View
        <4>1. viewer[v].views + 1 \in 0..MaxViews /\ 0 \in 0..SilenceBeats + 1
          BY <2>0, <2>1, BusNats DEF Connects
        <4> HIDE DEF View
        <4>2. NoView \in View /\ {Everything} \in SUBSET (Topics \cup {Everything})
          BY <4>1, BusNats DEF NoView, View, Lines
        <4> QED BY <4>1, <4>2 DEF View, Lines
      <3>2. viewer' = [viewer EXCEPT ![v] = new] /\ connected' = connected \cup {v}
        BY <2>1 DEF Connects
      <3> HIDE DEF new, View
      <3> QED BY <2>0, <3>1, <3>2
    <2>2. ASSUME NEW v \in Viewers, NEW how \in {"closing", "silent"}, ViewerGoes(v, how) PROVE Seen'
      BY <2>0, <2>2 DEF ViewerGoes, Lines
    <2>3. ASSUME NEW v \in Viewers, Closes(v) PROVE Seen'
      BY <2>0, <2>3 DEF Closes, Lines
    <2>4. ASSUME NEW v \in Viewers, NEW t \in Topics \cup {Everything}, Subscribes(v, t) \/ Unsubscribes(v, t) PROVE Seen'
      <3>1. PICK topics \in SUBSET (Topics \cup {Everything}) : Says(v, topics)
        BY <2>0, <2>4 DEF Subscribes, Unsubscribes
      <3> QED BY <2>0, <3>1 DEF Says
    <2>5. CASE Heartbeat
      <3>1. PICK late : viewer' = [v \in Viewers |->
                      IF v \in Silent THEN [viewer[v] EXCEPT !.line = "down"]
                      ELSE IF v \notin connected THEN viewer[v]
                      ELSE IF viewer[v].line = "open" THEN [viewer[v] EXCEPT !.silent = IF v \in late THEN 1 ELSE 0]
                      ELSE [viewer[v] EXCEPT !.silent = IF @ > SilenceBeats THEN @ ELSE @ + 1]]
        BY <2>5 DEF Heartbeat
      <3>2. connected' = connected \ Silent
        BY <2>5 DEF Heartbeat
      <3>3. ASSUME NEW v \in Viewers PROVE viewer'[v] \in View /\ (viewer'[v].line = "down" \/ (v \notin Silent /\ viewer'[v].line = viewer[v].line))
        <4>1. viewer[v] \in View /\ 0 \in 0..SilenceBeats + 1 /\ 1 \in 0..SilenceBeats + 1
          BY <2>0, BusNats
        <4>2. ~(viewer[v].silent > SilenceBeats) => viewer[v].silent + 1 \in 0..SilenceBeats + 1
          BY <4>1, BusNats
        <4>3. CASE v \in Silent
          BY <3>1, <4>1, <4>3 DEF Lines
        <4>4. CASE v \notin Silent /\ v \notin connected
          BY <3>1, <4>1, <4>4
        <4>5. CASE v \notin Silent /\ v \in connected /\ viewer[v].line = "open"
          BY <3>1, <4>1, <4>5
        <4>6. CASE v \notin Silent /\ v \in connected /\ viewer[v].line # "open"
          BY <3>1, <4>1, <4>2, <4>6
        <4> QED BY <4>3, <4>4, <4>5, <4>6
      <3>4. viewer' \in [Viewers -> View]
        <4> HIDE DEF View
        <4> QED BY <3>1, <3>3
      <3> QED BY <2>0, <3>2, <3>3, <3>4
    <2>6. CASE Destroy
      <3>1. ASSUME NEW v \in Viewers PROVE viewer'[v] \in View /\ viewer'[v].line = "down"
        BY <2>0, <2>6 DEF Destroy, Lines
      <3> HIDE DEF View
      <3>2. viewer' \in [Viewers -> View] /\ connected' = {}
        BY <2>6, <3>1 DEF Destroy
      <3> QED BY <3>1, <3>2
    <2>7. CASE UNCHANGED <<viewer, connected>>
      BY <2>0, <2>7
    <2> QED BY <2>1, <2>2, <2>3, <2>4, <2>5, <2>6, <2>7 DEF BusNext, BroadcastEvent, busVars
  <1> QED BY <1>0p, <1>1, <1>2

-----------------------------------------------------------------------------
(* Chats (ChatClients).  A question is asked once and waits once, and each of   *)
(* the books leaves room for what still waits.                                  *)
WaitsOf(P, W) == {p \in P : p.by \in W}

WaitingIsFine(P, n) ==
    /\ P \subseteq [by : Sockets \cup Wallets \cup {Http}, q : 1..MaxQuestions]
    /\ IsFiniteSet(P) /\ Cardinality(P) <= ChatSlots
    /\ \A p \in P : p.q <= n
    /\ \A p, r \in P : p.q = r.q => p = r

HistoryIsFine(c, h, P, n) ==
    /\ h \in Seq(Turn)
    /\ Len(h) + Cardinality(WaitsOf(P, {c})) <= ChatHistory + ChatSlots
    /\ \A i \in DOMAIN h : h[i].q <= n
    /\ \A i, j \in DOMAIN h : i < j /\ h[i].q = h[j].q => h[i].role = "user" /\ h[j].role = "assistant"
    /\ \A p \in P : p.by = c => \A i \in DOMAIN h : h[i].q = p.q => h[i].role = "user"

Metrics == [total : 0..MaxQuestions, cache : 0..MaxQuestions, swarm : 0..MaxQuestions, other : 0..MaxQuestions]
MetricsAreFine(m, P, n) ==
    /\ m \in Metrics
    /\ m.cache + m.swarm + m.other + Cardinality(WaitsOf(P, {Http})) <= m.total
    /\ m.total + Cardinality(WaitsOf(P, Sockets)) <= n

SocketsAreFine == /\ socket \in [Sockets -> {"new", "open", "closed"}]
                  /\ Cardinality(Open) <= MaxSockets

KeysAreFine == /\ freeKeys \subseteq Wallets /\ funded \subseteq Wallets /\ wasFunded \subseteq Wallets
               /\ freeStage \in [Wallets -> {"idle", "linked", "hash", "check"}]
               /\ freeKeys \subseteq wasFunded
               /\ \A w \in Wallets : freeStage[w] = "hash" => w \in wasFunded

HistoriesAreFine == /\ history \in [Sockets -> Seq(Turn)]
                    /\ \A c \in Sockets : HistoryIsFine(c, history[c], pending, questions)

ChatInv == /\ WaitingIsFine(pending, questions)
           /\ HistoriesAreFine
           /\ MetricsAreFine(metrics, pending, questions)
           /\ SocketsAreFine /\ KeysAreFine
           /\ questions \in 0..MaxQuestions

LEMMA ChatNats == /\ MaxSockets \in Nat /\ ChatHistory \in Nat /\ ChatSlots \in Nat /\ MaxQuestions \in Nat
                  /\ IsFiniteSet(Sockets) /\ Http \notin Sockets /\ Http \notin Wallets /\ Sockets \cap Wallets = {}
  BY ChatAssumption DEF ChatAssumption

LEMMA WaitsAre == ASSUME NEW P, IsFiniteSet(P), NEW W
                  PROVE  IsFiniteSet(WaitsOf(P, W)) /\ Cardinality(WaitsOf(P, W)) \in Nat /\ Cardinality(WaitsOf(P, W)) <= Cardinality(P)
  <1>1. WaitsOf(P, W) \subseteq P
    BY DEF WaitsOf
  <1>2. IsFiniteSet(WaitsOf(P, W)) /\ Cardinality(WaitsOf(P, W)) <= Cardinality(P)
    BY <1>1, FS_Subset
  <1> QED BY <1>2, FS_CardinalityType

LEMMA ChatsStart == ChatInit => ChatInv
  <1> SUFFICES ASSUME ChatInit PROVE ChatInv
    OBVIOUS
  <1>1. /\ pending = {} /\ questions = 0 /\ freeKeys = {} /\ funded = Wallets /\ wasFunded = {}
        /\ history = [c \in Sockets |-> << >>] /\ socket = [c \in Sockets |-> "new"]
        /\ metrics = [total |-> 0, cache |-> 0, swarm |-> 0, other |-> 0] /\ freeStage = [w \in Wallets |-> "idle"]
    BY DEF ChatInit
  <1>2. IsFiniteSet({}) /\ Cardinality({}) = 0 /\ \A W : WaitsOf(pending, W) = {}
    BY <1>1, FS_EmptySet DEF WaitsOf
  <1>3. 0 \in 0..MaxQuestions /\ ChatHistory + ChatSlots \in Nat
    BY ChatNats
  <1>2a. \A W : Cardinality(WaitsOf(pending, W)) = 0
    BY <1>2
  <1>4. WaitingIsFine(pending, questions)
    BY <1>1, <1>2, ChatNats DEF WaitingIsFine
  <1>5. HistoriesAreFine
    <2>1. \A c \in Sockets : history[c] = << >>
      BY <1>1
    <2>2. history \in [Sockets -> Seq(Turn)]
      BY <1>1
    <2>3. ASSUME NEW c \in Sockets PROVE HistoryIsFine(c, << >>, pending, questions)
      <3>1. Len(<< >>) = 0 /\ DOMAIN << >> = {} /\ << >> \in Seq(Turn)
        OBVIOUS
      <3>2. Len(<< >>) + Cardinality(WaitsOf(pending, {c})) <= ChatHistory + ChatSlots
        BY <1>2a, <1>3, <3>1
      <3> QED BY <1>1, <3>1, <3>2 DEF HistoryIsFine
    <2> QED BY <2>1, <2>2, <2>3 DEF HistoriesAreFine
  <1>6. MetricsAreFine(metrics, pending, questions)
    <2>1. metrics \in Metrics
      BY <1>1, <1>3 DEF Metrics
    <2>2. metrics.cache = 0 /\ metrics.swarm = 0 /\ metrics.other = 0 /\ metrics.total = 0
      BY <1>1
    <2>3. 0 + 0 + 0 + Cardinality(WaitsOf(pending, {Http})) <= 0 /\ 0 + Cardinality(WaitsOf(pending, Sockets)) <= 0
      BY <1>2a
    <2> QED BY <1>1, <2>1, <2>2, <2>3 DEF MetricsAreFine
  <1>7. SocketsAreFine
    <2>1. Open = {}
      BY <1>1 DEF Open
    <2> QED BY <1>1, <1>2, <2>1, ChatNats DEF SocketsAreFine
  <1>8. KeysAreFine
    BY <1>1 DEF KeysAreFine
  <1> QED BY <1>1, <1>3, <1>4, <1>5, <1>6, <1>7, <1>8 DEF ChatInv

LEMMA ChatsMean == ChatInv => ChatTypeOK /\ ChatsWithinLimit
  <1> SUFFICES ASSUME ChatInv PROVE ChatTypeOK /\ ChatsWithinLimit
    OBVIOUS
  <1>1. ChatTypeOK
    BY DEF ChatInv, ChatTypeOK, WaitingIsFine, HistoriesAreFine, MetricsAreFine, Metrics, SocketsAreFine, KeysAreFine
  <1>2. \A c \in Sockets : Flying(c) = Cardinality(WaitsOf(pending, {c}))
    BY DEF Flying, WaitsOf
  <1>3. ASSUME NEW c \in Sockets
        PROVE  /\ Len(history[c]) + Flying(c) <= ChatHistory + ChatSlots
               /\ \A i, j \in DOMAIN history[c] : i < j /\ history[c][i].q = history[c][j].q =>
                      history[c][i].role = "user" /\ history[c][j].role = "assistant"
    <2>1. HistoryIsFine(c, history[c], pending, questions)
      BY DEF ChatInv, HistoriesAreFine
    <2> QED BY <1>2, <2>1 DEF HistoryIsFine
  <1>4. metrics.cache + metrics.swarm + metrics.other <= metrics.total
    <2>1. Cardinality(WaitsOf(pending, {Http})) \in Nat
      BY WaitsAre DEF ChatInv, WaitingIsFine
    <2> QED BY <2>1, ChatNats DEF ChatInv, MetricsAreFine, Metrics
  <1> QED BY <1>1, <1>3, <1>4 DEF ChatInv, SocketsAreFine, KeysAreFine, ChatsWithinLimit

-----------------------------------------------------------------------------
(* One more waits, or one less.                                                 *)
OneMoreOf(P, Q, who) == \A W : Cardinality(WaitsOf(Q, W)) = Cardinality(WaitsOf(P, W)) + IF who \in W THEN 1 ELSE 0

LEMMA OneMoreWaits ==
  ASSUME NEW P, NEW n \in Nat, WaitingIsFine(P, n), n < MaxQuestions, Cardinality(P) < ChatSlots,
         NEW who \in Sockets \cup Wallets \cup {Http}, NEW Q, Q = P \cup {[by |-> who, q |-> n + 1]}
  PROVE  WaitingIsFine(Q, n + 1) /\ OneMoreOf(P, Q, who)
  <1> DEFINE p == [by |-> who, q |-> n + 1]
  <1>1. p.by = who /\ p.q = n + 1 /\ p \in [by : Sockets \cup Wallets \cup {Http}, q : 1..MaxQuestions]
    BY ChatNats
  <1> HIDE DEF p
  <1>2. Q = P \cup {p}
    BY DEF p
  <1>3. \A r \in P : r.q \in Nat /\ r.q <= n
    BY ChatNats DEF WaitingIsFine
  <1>4. p \notin P
    BY <1>1, <1>3
  <1>5. IsFiniteSet(Q) /\ Cardinality(Q) = Cardinality(P) + 1
    BY <1>2, <1>4, FS_AddElement DEF WaitingIsFine
  <1>6. Cardinality(Q) <= ChatSlots
    BY <1>5, ChatNats, FS_CardinalityType DEF WaitingIsFine
  <1>7. WaitingIsFine(Q, n + 1)
    <2>1. \A r \in Q : r.q <= n + 1
      BY <1>1, <1>2, <1>3
    <2>2. \A r, s \in Q : r.q = s.q => r = s
      <3>1. \A r \in P : r.q # p.q
        BY <1>1, <1>3
      <3> QED BY <1>2, <3>1 DEF WaitingIsFine
    <2>3. Q \subseteq [by : Sockets \cup Wallets \cup {Http}, q : 1..MaxQuestions]
      BY <1>1, <1>2 DEF WaitingIsFine
    <2> QED BY <1>5, <1>6, <2>1, <2>2, <2>3 DEF WaitingIsFine
  <1>8. ASSUME NEW W PROVE Cardinality(WaitsOf(Q, W)) = Cardinality(WaitsOf(P, W)) + IF who \in W THEN 1 ELSE 0
    <2>1. IsFiniteSet(WaitsOf(P, W)) /\ Cardinality(WaitsOf(P, W)) \in Nat
      BY WaitsAre DEF WaitingIsFine
    <2>2. CASE who \in W
      <3>1. WaitsOf(Q, W) = WaitsOf(P, W) \cup {p} /\ p \notin WaitsOf(P, W)
        BY <1>1, <1>2, <1>4, <2>2 DEF WaitsOf
      <3> QED BY <2>1, <2>2, <3>1, FS_AddElement
    <2>3. CASE who \notin W
      <3>1. WaitsOf(Q, W) = WaitsOf(P, W)
        BY <1>1, <1>2, <2>3 DEF WaitsOf
      <3> QED BY <2>1, <2>3, <3>1
    <2> QED BY <2>2, <2>3
  <1> QED BY <1>7, <1>8 DEF OneMoreOf

LEMMA OneLessWaits ==
  ASSUME NEW P, NEW n \in Nat, WaitingIsFine(P, n), NEW p \in P, NEW Q, Q = P \ {p}
  PROVE  WaitingIsFine(Q, n) /\ OneMoreOf(Q, P, p.by)
  <1>1. IsFiniteSet(Q) /\ Cardinality(Q) <= Cardinality(P) /\ Q \subseteq P
    BY FS_Subset DEF WaitingIsFine
  <1>2. Cardinality(Q) \in Nat /\ Cardinality(P) \in Nat
    BY <1>1, FS_CardinalityType DEF WaitingIsFine
  <1>3. WaitingIsFine(Q, n)
    BY <1>1, <1>2, ChatNats DEF WaitingIsFine
  <1>4. ASSUME NEW W PROVE Cardinality(WaitsOf(P, W)) = Cardinality(WaitsOf(Q, W)) + IF p.by \in W THEN 1 ELSE 0
    <2>1. IsFiniteSet(WaitsOf(Q, W)) /\ Cardinality(WaitsOf(Q, W)) \in Nat
      BY <1>1, WaitsAre
    <2>2. CASE p.by \in W
      <3>1. WaitsOf(P, W) = WaitsOf(Q, W) \cup {p} /\ p \notin WaitsOf(Q, W)
        BY <2>2 DEF WaitsOf
      <3> QED BY <2>1, <2>2, <3>1, FS_AddElement
    <2>3. CASE p.by \notin W
      <3>1. WaitsOf(P, W) = WaitsOf(Q, W)
        BY <2>3 DEF WaitsOf
      <3> QED BY <2>1, <2>3, <3>1
    <2> QED BY <2>2, <2>3
  <1> QED BY <1>3, <1>4 DEF OneMoreOf

(* A history that stays as it is, while fewer of its answers wait.              *)
LEMMA HistoryStays ==
  ASSUME NEW c \in Sockets, NEW h, NEW P, NEW n \in Nat, HistoryIsFine(c, h, P, n), IsFiniteSet(P), NEW Q, NEW k \in Nat, n <= k,
         IsFiniteSet(Q), Cardinality(WaitsOf(Q, {c})) <= Cardinality(WaitsOf(P, {c})),
         \A p \in Q : p \in P \/ p.q = n + 1 \/ p.by # c
  PROVE  HistoryIsFine(c, h, Q, k)
  <1>1. Cardinality(WaitsOf(Q, {c})) \in Nat /\ Cardinality(WaitsOf(P, {c})) \in Nat
    BY WaitsAre
  <1>2. h \in Seq(Turn) /\ Len(h) \in Nat /\ \A i \in DOMAIN h : h[i].q \in Nat /\ h[i].q <= n
    <2>1. h \in Seq(Turn) /\ \A i \in DOMAIN h : h[i] \in Turn
      BY DEF HistoryIsFine
    <2> QED BY <2>1, ChatNats DEF HistoryIsFine, Turn
  <1>3. Len(h) + Cardinality(WaitsOf(Q, {c})) <= ChatHistory + ChatSlots
    BY <1>1, <1>2, ChatNats DEF HistoryIsFine
  <1>4. \A i \in DOMAIN h : h[i].q <= k
    BY <1>2
  <1>5. \A p \in Q : p.by = c => \A i \in DOMAIN h : h[i].q = p.q => h[i].role = "user"
    <2>1. \A i \in DOMAIN h : h[i].q # n + 1
      BY <1>2
    <2> QED BY <2>1 DEF HistoryIsFine
  <1> QED BY <1>2, <1>3, <1>4, <1>5 DEF HistoryIsFine
(* A question: it takes a slot, or there is none.                               *)
LEMMA AskedIsFine ==
  ASSUME ChatInv, NEW who \in Sockets \cup Wallets \cup {Http}, Asked(who)
  PROVE  /\ questions \in Nat /\ questions < MaxQuestions /\ questions' = questions + 1 /\ questions' \in 0..MaxQuestions
         /\ WaitingIsFine(pending, questions) /\ WaitingIsFine(pending', questions + 1)
         /\ \A W : Cardinality(WaitsOf(pending', W)) = Cardinality(WaitsOf(pending, W))
               \/ (who \in W /\ Cardinality(WaitsOf(pending', W)) = Cardinality(WaitsOf(pending, W)) + 1)
         /\ \A p \in pending' : p \in pending \/ (p.q = questions + 1 /\ p.by = who)
  <1>1. /\ questions \in Nat /\ questions < MaxQuestions /\ questions' = questions + 1 /\ questions' \in 0..MaxQuestions
        /\ WaitingIsFine(pending, questions)
    BY ChatNats DEF ChatInv, Asked
  <1>2. CASE Cardinality(pending) < ChatSlots
    <2>1. pending' = pending \cup {[by |-> who, q |-> questions + 1]}
      BY <1>2 DEF Asked
    <2>2. WaitingIsFine(pending', questions + 1) /\ OneMoreOf(pending, pending', who)
      BY <1>1, <1>2, <2>1, OneMoreWaits
    <2>3. \A W : Cardinality(WaitsOf(pending, W)) \in Nat
      BY <1>1, WaitsAre DEF WaitingIsFine
    <2>4. \A W : Cardinality(WaitsOf(pending', W)) = Cardinality(WaitsOf(pending, W))
               \/ (who \in W /\ Cardinality(WaitsOf(pending', W)) = Cardinality(WaitsOf(pending, W)) + 1)
      BY <2>2, <2>3 DEF OneMoreOf
    <2> QED BY <1>1, <2>1, <2>2, <2>4
  <1>3. CASE ~(Cardinality(pending) < ChatSlots)
    <2>1. pending' = pending
      BY <1>3 DEF Asked
    <2>2. WaitingIsFine(pending, questions + 1)
      BY <1>1, ChatNats DEF WaitingIsFine
    <2> QED BY <1>1, <2>1, <2>2
  <1> QED BY <1>2, <1>3

(* The other histories do not notice.                                           *)
LEMMA OthersDoNotNotice ==
  ASSUME ChatInv, NEW who \in Sockets \cup Wallets \cup {Http}, Asked(who), NEW c \in Sockets, c # who
  PROVE  HistoryIsFine(c, history[c], pending', questions + 1)
  <1>1. HistoryIsFine(c, history[c], pending, questions)
    BY DEF ChatInv, HistoriesAreFine
  <1>2. IsFiniteSet(pending) /\ IsFiniteSet(pending') /\ questions \in Nat
    BY AskedIsFine DEF WaitingIsFine
  <1>3. Cardinality(WaitsOf(pending', {c})) <= Cardinality(WaitsOf(pending, {c}))
    <2>1. who \notin {c}
      OBVIOUS
    <2>2. Cardinality(WaitsOf(pending', {c})) = Cardinality(WaitsOf(pending, {c}))
      BY <2>1, AskedIsFine
    <2>3. Cardinality(WaitsOf(pending, {c})) \in Nat
      BY <1>2, WaitsAre
    <2> QED BY <2>2, <2>3
  <1>4. \A p \in pending' : p \in pending \/ p.q = questions + 1 \/ p.by # c
    BY AskedIsFine
  <1> QED BY <1>1, <1>2, <1>3, <1>4, HistoryStays

(* The metrics after a question: a route counts it at once.                     *)
LEMMA CountedAtOnce ==
  ASSUME ChatInv, NEW who \in Sockets \cup Wallets \cup {Http}, Asked(who),
         metrics' = IF who = Http THEN [metrics EXCEPT !.total = @ + 1] ELSE metrics
  PROVE  MetricsAreFine(metrics', pending', questions + 1)
  <1>1. MetricsAreFine(metrics, pending, questions)
    BY DEF ChatInv
  <1>2. /\ Cardinality(WaitsOf(pending, {Http})) \in Nat /\ Cardinality(WaitsOf(pending, Sockets)) \in Nat
        /\ questions \in Nat /\ questions < MaxQuestions
    BY AskedIsFine, WaitsAre DEF WaitingIsFine
  <1> DEFINE h == Cardinality(WaitsOf(pending, {Http}))
             s == Cardinality(WaitsOf(pending, Sockets))
             hh == Cardinality(WaitsOf(pending', {Http}))
             ss == Cardinality(WaitsOf(pending', Sockets))
  <1>3. /\ hh = h \/ (who = Http /\ hh = h + 1)
        /\ ss = s \/ (who \in Sockets /\ ss = s + 1)
    BY AskedIsFine
  <1>4. h \in Nat /\ s \in Nat
    BY <1>2
  <1>5. /\ metrics \in Metrics /\ metrics.cache + metrics.swarm + metrics.other + h <= metrics.total
        /\ metrics.total + s <= questions
    BY <1>1 DEF MetricsAreFine
  <1> SUFFICES /\ metrics' \in Metrics /\ metrics'.cache + metrics'.swarm + metrics'.other + hh <= metrics'.total
               /\ metrics'.total + ss <= questions + 1
    BY DEF MetricsAreFine
  <1> HIDE DEF h, s, hh, ss
  <1>6. CASE who = Http
    <2>1. ss = s
      BY <1>3, <1>6, ChatNats
    <2>2. metrics.total + 1 \in 0..MaxQuestions
      BY <1>2, <1>4, <1>5, ChatNats DEF Metrics
    <2>3. /\ metrics' \in Metrics /\ metrics'.total = metrics.total + 1
          /\ metrics'.cache = metrics.cache /\ metrics'.swarm = metrics.swarm /\ metrics'.other = metrics.other
      BY <1>5, <1>6, <2>2 DEF Metrics
    <2> QED BY <1>2, <1>3, <1>4, <1>5, <2>1, <2>3, ChatNats DEF Metrics
  <1>7. CASE who # Http
    <2>1. hh = h /\ metrics' = metrics
      BY <1>3, <1>7
    <2> QED BY <1>2, <1>3, <1>4, <1>5, <2>1, ChatNats DEF Metrics
  <1> QED BY <1>6, <1>7

(* Only the metrics and the questions know of this.                             *)
LEMMA AskedElsewhere ==
  ASSUME ChatInv, NEW who \in Wallets \cup {Http}, who \notin Sockets, Asked(who), UNCHANGED <<socket, history>>,
         metrics' = IF who = Http THEN [metrics EXCEPT !.total = @ + 1] ELSE metrics, KeysAreFine'
  PROVE  ChatInv'
  <1>1. WaitingIsFine(pending', questions') /\ questions' \in 0..MaxQuestions /\ MetricsAreFine(metrics', pending', questions')
    BY AskedIsFine, CountedAtOnce
  <1>2. HistoriesAreFine'
    <2>1. \A c \in Sockets : HistoryIsFine(c, history[c], pending', questions')
      BY AskedIsFine, OthersDoNotNotice
    <2> QED BY <2>1 DEF ChatInv, HistoriesAreFine
  <1>3. SocketsAreFine'
    BY DEF ChatInv, SocketsAreFine, Open
  <1> QED BY <1>1, <1>2, <1>3 DEF ChatInv
(* What is said is the last entry of its history.                               *)
LEMMA SaidIsLast ==
  ASSUME ChatInv, NEW c \in Sockets, Say(c)
  PROVE  HistoryIsFine(c, history'[c], pending', questions')
  <1> DEFINE e == [role |-> "user", q |-> questions + 1]
             h == history[c]
             all == Append(h, e)
  <1>1. Asked(c) /\ c \in Sockets \cup Wallets \cup {Http}
    BY DEF Say
  <1>2. /\ questions \in Nat /\ questions < MaxQuestions /\ questions' = questions + 1
        /\ WaitingIsFine(pending', questions + 1) /\ WaitingIsFine(pending, questions)
    BY <1>1, AskedIsFine
  <1>3. e \in Turn /\ e.q = questions + 1 /\ e.role = "user"
    BY <1>2, ChatNats DEF Turn
  <1>4. HistoryIsFine(c, h, pending, questions) /\ history \in [Sockets -> Seq(Turn)]
    BY DEF ChatInv, HistoriesAreFine
  <1>5. history' = [history EXCEPT ![c] = Last(all, ChatHistory)]
    BY DEF Say
  <1> HIDE DEF e
  <1>6. h \in Seq(Turn) /\ Len(h) \in Nat /\ DOMAIN h = 1..Len(h) /\ \A i \in DOMAIN h : h[i].q \in Nat /\ h[i].q <= questions
    <2>1. h \in Seq(Turn) /\ \A i \in DOMAIN h : h[i] \in Turn
      BY <1>4 DEF HistoryIsFine
    <2> QED BY <2>1, <1>4, ChatNats DEF HistoryIsFine, Turn
  <1>7. /\ all \in Seq(Turn) /\ Len(all) = Len(h) + 1
        /\ \A i \in 1..Len(h) : all[i] = h[i]
        /\ all[Len(h) + 1] = e
    BY <1>3, <1>6
  <1> HIDE DEF all
  <1>8. PICK d \in Nat : /\ d <= Len(h) + 1 /\ Len(h) + 1 - d <= ChatHistory
                         /\ Last(all, ChatHistory) = SubSeq(all, d + 1, Len(all))
    <2>1. CASE Len(all) > ChatHistory
      <3>1. Last(all, ChatHistory) = SubSeq(all, (Len(all) - ChatHistory) + 1, Len(all))
        BY <2>1 DEF Last
      <3>2. Len(all) - ChatHistory \in Nat
        BY <1>6, <1>7, <2>1, ChatNats
      <3>3. Len(all) - ChatHistory <= Len(h) + 1 /\ Len(h) + 1 - (Len(all) - ChatHistory) <= ChatHistory
        BY <1>6, <1>7, <2>1, ChatNats
      <3> QED BY <3>1, <3>2, <3>3
    <2>2. CASE ~(Len(all) > ChatHistory)
      <3>1. Last(all, ChatHistory) = SubSeq(all, 1, Len(all))
        BY <2>2 DEF Last
      <3>2. 0 + 1 = 1 /\ 0 <= Len(h) + 1 /\ Len(h) + 1 - 0 <= ChatHistory
        BY <1>6, <1>7, <2>2, ChatNats
      <3> QED BY <3>1, <3>2
    <2> QED BY <2>1, <2>2
  <1> DEFINE g == SubSeq(all, d + 1, Len(all))
  <1>9. /\ g \in Seq(Turn) /\ Len(g) = Len(h) + 1 - d /\ DOMAIN g = 1..Len(g)
        /\ \A i \in DOMAIN g : i \in Nat /\ i + d \in 1..(Len(h) + 1) /\ g[i] = all[i + d]
    <2>1. d + 1 \in 1..(Len(all) + 1) /\ d + 1 \in Nat /\ Len(all) \in Nat
      BY <1>6, <1>7, <1>8
    <2>2. Len(g) = Len(h) + 1 - d /\ DOMAIN g = 1..Len(g) /\ Len(g) \in Nat
      BY <1>6, <1>7, <1>8, <2>1
    <2>3. ASSUME NEW i \in 1..Len(g) PROVE i + d \in 1..(Len(h) + 1) /\ g[i] = all[i + d] /\ all[i + d] \in Turn
      <3>1. i + d \in 1..(Len(h) + 1)
        BY <1>6, <1>8, <2>2
      <3>2. g[i] = all[d + 1 + i - 1] /\ d + 1 + i - 1 = i + d
        BY <1>7, <2>1, <2>2, <1>8, <1>6
      <3>3. all[i + d] \in Turn
        BY <3>1, <1>7, <1>6
      <3> QED BY <3>1, <3>2, <3>3
    <2>4. g \in Seq(Turn)
      BY <1>7, <2>1
    <2> HIDE DEF g
    <2> QED BY <2>2, <2>3, <2>4
  <1> HIDE DEF g, h
  <1>10. history'[c] = g
    BY <1>4, <1>5, <1>8 DEF g
  <1>11. \A i \in 1..(Len(h) + 1) : IF i <= Len(h) THEN all[i] = h[i] /\ i \in DOMAIN h ELSE i = Len(h) + 1 /\ all[i] = e
    BY <1>6, <1>7
  <1>12. \A i \in DOMAIN g : g[i].q <= questions + 1
    BY <1>2, <1>3, <1>6, <1>9, <1>11
  <1>13. ASSUME NEW i \in DOMAIN g, NEW j \in DOMAIN g, i < j, g[i].q = g[j].q PROVE g[i].role = "user" /\ g[j].role = "assistant"
    <2>1. /\ i + d \in 1..(Len(h) + 1) /\ j + d \in 1..(Len(h) + 1) /\ i + d < j + d
          /\ g[i] = all[i + d] /\ g[j] = all[j + d]
      BY <1>8, <1>9, <1>13
    <2>2. i + d <= Len(h) /\ all[i + d] = h[i + d] /\ i + d \in DOMAIN h
      BY <1>6, <1>11, <2>1
    <2>3. j + d <= Len(h)
      <3>1. j + d > Len(h) => g[j].q = questions + 1
        BY <1>3, <1>6, <1>11, <2>1
      <3>2. g[i].q # questions + 1
        BY <1>2, <1>6, <2>1, <2>2
      <3> QED BY <1>13, <3>1, <3>2, <1>6, <2>1
    <2>4. all[j + d] = h[j + d] /\ j + d \in DOMAIN h
      BY <1>11, <2>1, <2>3
    <2> QED BY <1>4, <1>13, <2>1, <2>2, <2>4 DEF HistoryIsFine
  <1>14. ASSUME NEW p \in pending', p.by = c, NEW i \in DOMAIN g, g[i].q = p.q PROVE g[i].role = "user"
    <2>1. i + d \in 1..(Len(h) + 1) /\ g[i] = all[i + d]
      BY <1>9
    <2>2. CASE i + d <= Len(h)
      <3>1. all[i + d] = h[i + d] /\ i + d \in DOMAIN h
        BY <1>11, <2>1, <2>2
      <3>2. p.q # questions + 1
        BY <1>2, <1>6, <1>14, <2>1, <3>1
      <3>3. p \in pending
        BY <1>1, <3>2, AskedIsFine
      <3> QED BY <1>4, <1>14, <2>1, <3>1, <3>3 DEF HistoryIsFine
    <2>3. CASE ~(i + d <= Len(h))
      BY <1>3, <1>11, <2>1, <2>3
    <2> QED BY <2>2, <2>3
  <1>15. Len(g) + Cardinality(WaitsOf(pending', {c})) <= ChatHistory + ChatSlots
    <2>1. Cardinality(WaitsOf(pending', {c})) \in Nat /\ Cardinality(WaitsOf(pending', {c})) <= ChatSlots
      <3>1. IsFiniteSet(pending') /\ Cardinality(pending') <= ChatSlots /\ Cardinality(pending') \in Nat
        BY <1>2, FS_CardinalityType DEF WaitingIsFine
      <3>2. /\ Cardinality(WaitsOf(pending', {c})) \in Nat
            /\ Cardinality(WaitsOf(pending', {c})) <= Cardinality(pending')
        BY <3>1, WaitsAre
      <3> QED BY <3>1, <3>2, ChatNats
    <2>2. Len(g) <= ChatHistory /\ Len(g) \in Nat
      BY <1>6, <1>8, <1>9
    <2> QED BY <2>1, <2>2, ChatNats
  <1> QED BY <1>2, <1>9, <1>10, <1>12, <1>13, <1>14, <1>15 DEF HistoryIsFine

(* What was said counts, its session holds it, and the others do not notice.    *)
LEMMA SaidIsKept ==
  ASSUME ChatInv, NEW c \in Sockets, Say(c)
  PROVE  ChatInv'
  <1>1. Asked(c) /\ UNCHANGED <<socket, metrics, freeKeys, funded, wasFunded, freeStage>>
    BY DEF Say
  <1>2. c # Http
    BY ChatNats
  <1>3. WaitingIsFine(pending', questions') /\ questions' \in 0..MaxQuestions /\ questions' = questions + 1
    BY <1>1, AskedIsFine
  <1>4. MetricsAreFine(metrics', pending', questions')
    BY <1>1, <1>2, <1>3, CountedAtOnce
  <1>5. SocketsAreFine' /\ KeysAreFine'
    BY <1>1 DEF ChatInv, SocketsAreFine, KeysAreFine, Open
  <1>6. HistoryIsFine(c, history'[c], pending', questions')
    BY SaidIsLast
  <1>7. /\ history \in [Sockets -> Seq(Turn)]
        /\ history' = [history EXCEPT ![c] = Last(Append(@, [role |-> "user", q |-> questions + 1]), ChatHistory)]
    BY DEF ChatInv, HistoriesAreFine, Say
  <1>8. history'[c] \in Seq(Turn) /\ \A d \in Sockets : d # c => history'[d] = history[d]
    BY <1>6, <1>7 DEF HistoryIsFine
  <1>9. history' \in [Sockets -> Seq(Turn)]
    BY <1>7, <1>8
  <1>10. \A d \in Sockets : HistoryIsFine(d, history'[d], pending', questions')
    <2>1. ASSUME NEW d \in Sockets, d # c PROVE HistoryIsFine(d, history'[d], pending', questions')
      BY <1>1, <1>3, <1>8, <2>1, OthersDoNotNotice
    <2> QED BY <1>6, <2>1
  <1>11. HistoriesAreFine'
    BY <1>9, <1>10 DEF HistoriesAreFine
  <1> QED BY <1>3, <1>4, <1>5, <1>11 DEF ChatInv

-----------------------------------------------------------------------------
(* An answer no longer waits.                                                   *)
LEMMA AnswerLeaves ==
  ASSUME ChatInv, NEW p \in pending, pending' = pending \ {p}
  PROVE  /\ WaitingIsFine(pending', questions) /\ OneMoreOf(pending', pending, p.by)
         /\ IsFiniteSet(pending) /\ IsFiniteSet(pending') /\ questions \in Nat
         /\ \A r \in pending' : r.q # p.q
         /\ p \in [by : Sockets \cup Wallets \cup {Http}, q : 1..MaxQuestions] /\ p.q \in Nat /\ p.q <= questions
  <1>1. questions \in Nat /\ WaitingIsFine(pending, questions)
    BY ChatNats DEF ChatInv
  <1>2. WaitingIsFine(pending', questions) /\ OneMoreOf(pending', pending, p.by)
    BY <1>1, OneLessWaits
  <1>3. p \in [by : Sockets \cup Wallets \cup {Http}, q : 1..MaxQuestions] /\ p.q <= questions
    BY <1>1 DEF WaitingIsFine
  <1> QED BY <1>1, <1>2, <1>3, ChatNats DEF WaitingIsFine

(* A history that is left alone, when an answer no longer waits.                *)
LEMMA HistoriesStay ==
  ASSUME ChatInv, NEW p \in pending, pending' = pending \ {p}, NEW c \in Sockets
  PROVE  HistoryIsFine(c, history[c], pending', questions)
  <1>1. HistoryIsFine(c, history[c], pending, questions)
    BY DEF ChatInv, HistoriesAreFine
  <1>2. IsFiniteSet(pending) /\ IsFiniteSet(pending') /\ questions \in Nat /\ pending' \subseteq pending
    BY AnswerLeaves
  <1>3. WaitsOf(pending', {c}) \subseteq WaitsOf(pending, {c})
    BY <1>2 DEF WaitsOf
  <1>4. Cardinality(WaitsOf(pending', {c})) <= Cardinality(WaitsOf(pending, {c}))
    BY <1>2, <1>3, WaitsAre, FS_Subset
  <1> QED BY <1>1, <1>2, <1>4, HistoryStays

(* The metrics of an answer that counts as more, or of one that is not counted. *)
LEMMA AnswerCounts ==
  ASSUME ChatInv, NEW p \in pending, pending' = pending \ {p}, NEW more \in {0, 1}, NEW tier \in Tiers,
         Counted(tier, more),
         (more = 1 /\ p.by \in Sockets) \/ (more = 0 /\ p.by = Http)
  PROVE  MetricsAreFine(metrics', pending', questions)
  <1> DEFINE h == Cardinality(WaitsOf(pending, {Http}))
             s == Cardinality(WaitsOf(pending, Sockets))
             hh == Cardinality(WaitsOf(pending', {Http}))
             ss == Cardinality(WaitsOf(pending', Sockets))
  <1>1. h \in Nat /\ s \in Nat /\ hh \in Nat /\ ss \in Nat /\ questions \in 0..MaxQuestions
    BY AnswerLeaves, WaitsAre DEF ChatInv
  <1>2. h = hh + (IF p.by \in {Http} THEN 1 ELSE 0) /\ s = ss + (IF p.by \in Sockets THEN 1 ELSE 0)
    BY AnswerLeaves DEF OneMoreOf
  <1>3. /\ metrics \in Metrics /\ metrics.cache + metrics.swarm + metrics.other + h <= metrics.total
        /\ metrics.total + s <= questions
    BY DEF ChatInv, MetricsAreFine
  <1>4. metrics' = [metrics EXCEPT ![tier] = @ + 1, !.total = @ + more]
    BY DEF Counted
  <1> SUFFICES /\ metrics' \in Metrics /\ metrics'.cache + metrics'.swarm + metrics'.other + hh <= metrics'.total
               /\ metrics'.total + ss <= questions
    BY DEF MetricsAreFine
  <1> HIDE DEF h, s, hh, ss
  <1>5. (more = 1 /\ h = hh /\ s = ss + 1) \/ (more = 0 /\ h = hh + 1 /\ s = ss)
    <2>1. CASE more = 1 /\ p.by \in Sockets
      BY <1>1, <1>2, <2>1, ChatNats
    <2>2. CASE more = 0 /\ p.by = Http
      BY <1>1, <1>2, <2>2, ChatNats
    <2> QED BY <2>1, <2>2
  <1> DEFINE t == metrics.total
             a == metrics.cache
             b == metrics.swarm
             o == metrics.other
  <1>6. t \in Nat /\ a \in Nat /\ b \in Nat /\ o \in Nat
    BY <1>3, ChatNats DEF Metrics
  <1>7. /\ metrics'.total = t + more
        /\ metrics'.cache = IF tier = "cache" THEN a + 1 ELSE a
        /\ metrics'.swarm = IF tier = "swarm" THEN b + 1 ELSE b
        /\ metrics'.other = IF tier = "other" THEN o + 1 ELSE o
    BY <1>3, <1>4 DEF Metrics, Tiers
  <1>8. a + b + o + h <= t /\ t + s <= questions
    BY <1>3
  <1>9. metrics' = [total |-> metrics'.total, cache |-> metrics'.cache, swarm |-> metrics'.swarm, other |-> metrics'.other]
    BY <1>3, <1>4 DEF Metrics, Tiers
  <1> HIDE DEF t, a, b, o
  <1>10. t + more \in 0..MaxQuestions /\ t + more + ss <= questions
    BY <1>1, <1>5, <1>6, <1>8, ChatNats
  <1>11. a + b + o + 1 + hh <= t + more
    BY <1>1, <1>5, <1>6, <1>8
  <1>12. {a, a + 1, b, b + 1, o, o + 1} \subseteq 0..MaxQuestions
    BY <1>1, <1>6, <1>10, <1>11, ChatNats
  <1>13. metrics'.cache + metrics'.swarm + metrics'.other + hh <= metrics'.total
    <2>1. tier = "cache" \/ tier = "swarm" \/ tier = "other"
      BY DEF Tiers
    <2>2. metrics'.cache + metrics'.swarm + metrics'.other = a + b + o + 1
      BY <1>6, <1>7, <2>1
    <2> QED BY <1>7, <1>11, <2>2
  <1>14. metrics' \in Metrics
    <2>1. /\ metrics'.total \in 0..MaxQuestions /\ metrics'.cache \in 0..MaxQuestions
          /\ metrics'.swarm \in 0..MaxQuestions /\ metrics'.other \in 0..MaxQuestions
      BY <1>7, <1>10, <1>12
    <2> QED BY <1>9, <2>1 DEF Metrics
  <1> QED BY <1>7, <1>10, <1>13, <1>14

LEMMA AnswerNotCounted ==
  ASSUME ChatInv, NEW p \in pending, pending' = pending \ {p}, metrics' = metrics
  PROVE  MetricsAreFine(metrics', pending', questions)
  <1>1. /\ IsFiniteSet(pending) /\ IsFiniteSet(pending') /\ questions \in Nat
        /\ WaitsOf(pending', {Http}) \subseteq WaitsOf(pending, {Http}) /\ WaitsOf(pending', Sockets) \subseteq WaitsOf(pending, Sockets)
    BY AnswerLeaves DEF WaitsOf
  <1> DEFINE h == Cardinality(WaitsOf(pending, {Http}))
             s == Cardinality(WaitsOf(pending, Sockets))
             hh == Cardinality(WaitsOf(pending', {Http}))
             ss == Cardinality(WaitsOf(pending', Sockets))
  <1>2. h \in Nat /\ s \in Nat /\ hh \in Nat /\ ss \in Nat /\ hh <= h /\ ss <= s
    BY <1>1, WaitsAre, FS_Subset
  <1>3. /\ metrics \in Metrics /\ metrics.cache + metrics.swarm + metrics.other + h <= metrics.total
        /\ metrics.total + s <= questions
    BY DEF ChatInv, MetricsAreFine
  <1> SUFFICES /\ metrics.cache + metrics.swarm + metrics.other + hh <= metrics.total
               /\ metrics.total + ss <= questions
    BY <1>3 DEF MetricsAreFine
  <1> HIDE DEF h, s, hh, ss
  <1> QED BY <1>1, <1>2, <1>3, ChatNats DEF Metrics

(* An answer that no session holds: a route's or that of a free key.            *)
LEMMA AnsweredElsewhere ==
  ASSUME ChatInv, NEW p \in pending, pending' = pending \ {p}, MetricsAreFine(metrics', pending', questions),
         UNCHANGED <<socket, history, freeKeys, funded, wasFunded, freeStage, questions>>
  PROVE  ChatInv'
  <1>1. WaitingIsFine(pending', questions')
    BY AnswerLeaves
  <1>2. SocketsAreFine' /\ KeysAreFine' /\ questions' \in 0..MaxQuestions
    BY DEF ChatInv, SocketsAreFine, KeysAreFine, Open
  <1>3. \A c \in Sockets : HistoryIsFine(c, history'[c], pending', questions')
    BY HistoriesStay
  <1>4. HistoriesAreFine'
    BY <1>3 DEF ChatInv, HistoriesAreFine
  <1> QED BY <1>1, <1>2, <1>4 DEF ChatInv

(* The answer stands last in the history as it is now.                          *)
LEMMA AnswerIsLast ==
  ASSUME ChatInv, NEW c \in Sockets, NEW p \in pending, p.by = c, pending' = pending \ {p},
         NEW h, h = Append(history[c], [role |-> "assistant", q |-> p.q])
  PROVE  HistoryIsFine(c, h, pending', questions)
  <1> DEFINE e == [role |-> "assistant", q |-> p.q]
             g == history[c]
  <1>1. HistoryIsFine(c, g, pending, questions)
    BY DEF ChatInv, HistoriesAreFine
  <1>2. /\ e \in Turn /\ e.q = p.q /\ e.role = "assistant" /\ p.q <= questions /\ p.q \in Nat /\ questions \in Nat
        /\ \A r \in pending' : r.q # p.q /\ r \in pending
    BY AnswerLeaves DEF Turn
  <1> HIDE DEF e
  <1>3. h = Append(g, e)
    BY DEF e
  <1> HIDE DEF g
  <1>4. g \in Seq(Turn) /\ Len(g) \in Nat /\ DOMAIN g = 1..Len(g)
    BY <1>1 DEF HistoryIsFine
  <1>5. /\ h \in Seq(Turn) /\ Len(h) = Len(g) + 1 /\ DOMAIN h = 1..(Len(g) + 1)
        /\ \A i \in 1..Len(g) : h[i] = g[i]
        /\ h[Len(g) + 1] = e
    <2>1. e \in Turn
      BY <1>2
    <2>2. Append(g, e) \in Seq(Turn) /\ Len(Append(g, e)) = Len(g) + 1
      BY <1>4, <2>1
    <2>3. /\ \A i \in 1..Len(g) : Append(g, e)[i] = g[i]
          /\ Append(g, e)[Len(g) + 1] = e
      BY <1>4, <2>1
    <2>4. DOMAIN Append(g, e) = 1..(Len(g) + 1)
      BY <1>4, <2>1, <2>2
    <2> QED BY <1>3, <2>2, <2>3, <2>4
  <1>6. \A i \in DOMAIN h : (i \in DOMAIN g /\ h[i] = g[i] /\ i < Len(g) + 1) \/ (i = Len(g) + 1 /\ h[i] = e)
    BY <1>4, <1>5
  <1>7. Len(h) + Cardinality(WaitsOf(pending', {c})) <= ChatHistory + ChatSlots
    <2>1. Cardinality(WaitsOf(pending, {c})) = Cardinality(WaitsOf(pending', {c})) + IF p.by \in {c} THEN 1 ELSE 0
      BY AnswerLeaves DEF OneMoreOf
    <2>2. Cardinality(WaitsOf(pending', {c})) \in Nat
      BY AnswerLeaves, WaitsAre
    <2>3. Len(g) + Cardinality(WaitsOf(pending, {c})) <= ChatHistory + ChatSlots
      BY <1>1 DEF HistoryIsFine
    <2>4. Cardinality(WaitsOf(pending, {c})) = Cardinality(WaitsOf(pending', {c})) + 1
      BY <2>1
    <2> QED BY <1>4, <1>5, <2>2, <2>3, <2>4, ChatNats
  <1>8. \A i \in DOMAIN h : h[i].q <= questions
    BY <1>1, <1>2, <1>6 DEF HistoryIsFine
  <1>9. ASSUME NEW i \in DOMAIN h, NEW j \in DOMAIN h, i < j, h[i].q = h[j].q PROVE h[i].role = "user" /\ h[j].role = "assistant"
    <2>1. i \in DOMAIN g /\ h[i] = g[i]
      BY <1>4, <1>5, <1>6, <1>9
    <2>2. CASE j \in DOMAIN g /\ h[j] = g[j]
      BY <1>1, <1>9, <2>1, <2>2 DEF HistoryIsFine
    <2>3. CASE h[j] = e
      BY <1>1, <1>2, <1>9, <2>1, <2>3 DEF HistoryIsFine
    <2> QED BY <1>6, <2>2, <2>3
  <1>10. ASSUME NEW r \in pending', r.by = c, NEW i \in DOMAIN h, h[i].q = r.q PROVE h[i].role = "user"
    BY <1>1, <1>2, <1>6, <1>10 DEF HistoryIsFine
  <1> QED BY <1>5, <1>7, <1>8, <1>9, <1>10 DEF HistoryIsFine

LEMMA AnswerIsKept ==
  ASSUME ChatInv, NEW c \in Sockets, Answered(c)
  PROVE  ChatInv'
  <1>1. PICK p \in pending :
          /\ p.by = c /\ pending' = pending \ {p}
          /\ \/ /\ \E tier \in Tiers : Counted(tier, 1)
                /\ history' = [history EXCEPT ![c] = Append(@, [role |-> "assistant", q |-> p.q])]
             \/ UNCHANGED <<metrics, history>>
          /\ UNCHANGED <<socket, freeKeys, funded, wasFunded, freeStage, questions>>
    BY DEF Answered
  <1>2. CASE UNCHANGED <<metrics, history>>
    <2>1. MetricsAreFine(metrics', pending', questions)
      BY <1>1, <1>2, AnswerNotCounted
    <2> QED BY <1>1, <1>2, <2>1, AnsweredElsewhere
  <1>3. CASE /\ \E tier \in Tiers : Counted(tier, 1)
             /\ history' = [history EXCEPT ![c] = Append(@, [role |-> "assistant", q |-> p.q])]
    <2>1. MetricsAreFine(metrics', pending', questions')
      <3>1. p.by \in Sockets /\ 1 \in {0, 1} /\ questions' = questions
        BY <1>1
      <3>2. PICK tier \in Tiers : Counted(tier, 1)
        BY <1>3
      <3> QED BY <1>1, <3>1, <3>2, AnswerCounts
    <2>2. WaitingIsFine(pending', questions')
      BY <1>1, AnswerLeaves
    <2>3. SocketsAreFine' /\ KeysAreFine' /\ questions' \in 0..MaxQuestions
      BY <1>1 DEF ChatInv, SocketsAreFine, KeysAreFine, Open
    <2>4. history \in [Sockets -> Seq(Turn)]
      BY DEF ChatInv, HistoriesAreFine
    <2>5. history'[c] = Append(history[c], [role |-> "assistant", q |-> p.q]) /\ \A d \in Sockets : d # c => history'[d] = history[d]
      BY <1>3, <2>4
    <2>6. HistoryIsFine(c, history'[c], pending', questions')
      BY <1>1, <2>5, AnswerIsLast
    <2>7. \A d \in Sockets : HistoryIsFine(d, history'[d], pending', questions')
      <3>1. ASSUME NEW d \in Sockets, d # c PROVE HistoryIsFine(d, history'[d], pending', questions')
        BY <1>1, <2>5, <3>1, HistoriesStay
      <3> QED BY <2>6, <3>1
    <2>8. history' \in [Sockets -> Seq(Turn)]
      BY <1>3, <2>4, <2>5, <2>6 DEF HistoryIsFine
    <2>9. HistoriesAreFine'
      BY <2>7, <2>8 DEF HistoriesAreFine
    <2> QED BY <2>1, <2>2, <2>3, <2>9 DEF ChatInv
  <1> QED BY <1>1, <1>2, <1>3

(* A route is answered, counted or not.                                         *)
LEMMA RouteIsAnswered ==
  ASSUME ChatInv, Completed
  PROVE  ChatInv'
  <1>1. PICK p \in pending :
          /\ p.by = Http /\ pending' = pending \ {p}
          /\ UNCHANGED metrics \/ \E tier \in Tiers : Counted(tier, 0)
          /\ UNCHANGED <<socket, history, freeKeys, funded, wasFunded, freeStage, questions>>
    BY DEF Completed
  <1>2. CASE UNCHANGED metrics
    BY <1>1, <1>2, AnswerNotCounted, AnsweredElsewhere
  <1>3. CASE \E tier \in Tiers : Counted(tier, 0)
    <2>1. PICK tier \in Tiers : Counted(tier, 0)
      BY <1>3
    <2>2. 0 \in {0, 1}
      OBVIOUS
    <2>3. MetricsAreFine(metrics', pending', questions)
      BY <1>1, <2>1, <2>2, AnswerCounts
    <2> QED BY <1>1, <2>3, AnsweredElsewhere
  <1> QED BY <1>1, <1>2, <1>3

LEMMA FreeIsAnswered ==
  ASSUME ChatInv, NEW w \in Wallets, FreeAnswered(w)
  PROVE  ChatInv'
  <1>1. PICK p \in pending :
          /\ p.by = w /\ pending' = pending \ {p}
          /\ UNCHANGED <<socket, history, metrics, freeKeys, funded, wasFunded, freeStage, questions>>
    BY DEF FreeAnswered
  <1>2. MetricsAreFine(metrics', pending', questions)
    BY <1>1, AnswerNotCounted
  <1> QED BY <1>1, <1>2, AnsweredElsewhere

-----------------------------------------------------------------------------
(* The keys, and what else nobody waits for.                                    *)
LEMMA KeysAreKept ==
  ASSUME ChatInv, NEW w \in Wallets
  PROVE  /\ AskKey(w) \/ IssueKey(w) \/ AskFree(w) \/ BalanceMoves(w) =>
              KeysAreFine' /\ UNCHANGED <<socket, history, pending, metrics, questions>>
         /\ FreeChecked(w) => KeysAreFine' /\ UNCHANGED <<socket, history, metrics>>
  <1> USE DEF ChatInv, KeysAreFine, FreeTo
  <1>1. ASSUME AskKey(w) PROVE KeysAreFine'
    BY <1>1 DEF AskKey
  <1>2. ASSUME IssueKey(w) PROVE KeysAreFine'
    <2>1. CASE freeStage[w] = "linked" /\ w \in funded
      BY <1>2, <2>1 DEF IssueKey
    <2>2. CASE freeStage[w] = "linked" /\ w \notin funded
      BY <1>2, <2>2 DEF IssueKey
    <2>3. CASE freeStage[w] = "hash"
      BY <1>2, <2>3 DEF IssueKey
    <2> QED BY <1>2, <2>1, <2>2, <2>3 DEF IssueKey
  <1>3. ASSUME AskFree(w) PROVE KeysAreFine'
    BY <1>3 DEF AskFree
  <1>4. ASSUME BalanceMoves(w) PROVE KeysAreFine'
    <2>1. funded' \subseteq Wallets
      BY <1>4 DEF BalanceMoves
    <2> QED BY <1>4, <2>1 DEF BalanceMoves
  <1>5. ASSUME FreeChecked(w) PROVE KeysAreFine'
    BY <1>5 DEF FreeChecked
  <1>6. /\ AskKey(w) \/ IssueKey(w) \/ AskFree(w) \/ BalanceMoves(w) => UNCHANGED <<socket, history, pending, metrics, questions>>
        /\ FreeChecked(w) => UNCHANGED <<socket, history, metrics>>
    BY DEF AskKey, IssueKey, AskFree, BalanceMoves, FreeChecked
  <1> QED BY <1>1, <1>2, <1>3, <1>4, <1>5, <1>6

LEMMA SocketsAreKept ==
  ASSUME ChatInv, NEW c \in Sockets, Join(c) \/ Leave(c)
  PROVE  SocketsAreFine'
  <1>1. /\ socket \in [Sockets -> {"new", "open", "closed"}] /\ IsFiniteSet(Open) /\ Cardinality(Open) \in Nat
        /\ Cardinality(Open) <= MaxSockets
    <2>1. Open \subseteq Sockets
      BY DEF Open
    <2> QED BY <2>1, ChatNats, FS_Subset, FS_CardinalityType DEF ChatInv, SocketsAreFine
  <1>2. CASE Join(c)
    <2>1. Open' = Open \cup {c} /\ c \notin Open /\ Cardinality(Open) < MaxSockets
      BY <1>1, <1>2 DEF Join, Open
    <2>2. Cardinality(Open') = Cardinality(Open) + 1
      BY <1>1, <2>1, FS_AddElement
    <2> QED BY <1>1, <1>2, <2>1, <2>2, ChatNats DEF Join, SocketsAreFine
  <1>3. CASE Leave(c)
    <2>1. Open' \subseteq Open
      BY <1>1, <1>3 DEF Leave, Open
    <2>2. Cardinality(Open') <= Cardinality(Open) /\ Cardinality(Open') \in Nat
      BY <1>1, <2>1, FS_Subset, FS_CardinalityType
    <2> QED BY <1>1, <1>3, <2>2, ChatNats DEF Leave, SocketsAreFine
  <1> QED BY <1>2, <1>3

LEMMA ResetIsKept ==
  ASSUME ChatInv, NEW c \in Sockets, ResetChat(c)
  PROVE  ChatInv'
  <1>1. /\ history' = [history EXCEPT ![c] = << >>]
        /\ UNCHANGED <<socket, pending, metrics, freeKeys, funded, wasFunded, freeStage, questions>>
    BY DEF ResetChat
  <1>2. history \in [Sockets -> Seq(Turn)] /\ \A d \in Sockets : HistoryIsFine(d, history[d], pending, questions)
    BY DEF ChatInv, HistoriesAreFine
  <1>3. HistoryIsFine(c, << >>, pending, questions)
    <2>1. Len(<< >>) = 0 /\ DOMAIN << >> = {} /\ << >> \in Seq(Turn)
      OBVIOUS
    <2>2. /\ Cardinality(WaitsOf(pending, {c})) \in Nat /\ Cardinality(WaitsOf(pending, {c})) <= ChatSlots
      <3>1. IsFiniteSet(pending) /\ Cardinality(pending) <= ChatSlots /\ Cardinality(pending) \in Nat
        BY FS_CardinalityType DEF ChatInv, WaitingIsFine
      <3> QED BY <3>1, WaitsAre, ChatNats
    <2>3. Len(<< >>) + Cardinality(WaitsOf(pending, {c})) <= ChatHistory + ChatSlots
      BY <2>1, <2>2, ChatNats
    <2> QED BY <2>1, <2>3 DEF HistoryIsFine
  <1>4. history' \in [Sockets -> Seq(Turn)] /\ \A d \in Sockets : history'[d] = IF d = c THEN << >> ELSE history[d]
    BY <1>1, <1>2
  <1>5. HistoriesAreFine'
    BY <1>1, <1>2, <1>3, <1>4 DEF HistoriesAreFine
  <1> QED BY <1>1, <1>5 DEF ChatInv, SocketsAreFine, KeysAreFine, Open

LEMMA NobodyWaits ==
  ASSUME ChatInv, UNCHANGED <<history, pending, metrics, questions>>, SocketsAreFine', KeysAreFine'
  PROVE  ChatInv'
  BY DEF ChatInv, HistoriesAreFine

LEMMA ChatsKept == ChatInv /\ [ChatNext]_chatVars => ChatInv'
  <1> SUFFICES ASSUME ChatInv, [ChatNext]_chatVars PROVE ChatInv'
    OBVIOUS
  <1>1. CASE Complete
    <2>1. KeysAreFine'
      BY <1>1 DEF ChatInv, Complete, KeysAreFine
    <2>2. /\ Asked(Http) /\ UNCHANGED <<socket, history>> /\ Http \notin Sockets
          /\ metrics' = IF Http = Http THEN [metrics EXCEPT !.total = @ + 1] ELSE metrics
      BY <1>1, ChatNats DEF Complete
    <2> QED BY <2>1, <2>2, AskedElsewhere
  <1>2. CASE Completed
    BY <1>2, RouteIsAnswered
  <1>3. ASSUME NEW c \in Sockets, Join(c) \/ Leave(c) PROVE ChatInv'
    <2>1. KeysAreFine' /\ UNCHANGED <<history, pending, metrics, questions>>
      BY <1>3 DEF Join, Leave, ChatInv, KeysAreFine
    <2> QED BY <1>3, <2>1, SocketsAreKept, NobodyWaits
  <1>4. ASSUME NEW c \in Sockets, Say(c) \/ Answered(c) \/ ResetChat(c) PROVE ChatInv'
    BY <1>4, SaidIsKept, AnswerIsKept, ResetIsKept
  <1>5. ASSUME NEW w \in Wallets, AskKey(w) \/ IssueKey(w) \/ AskFree(w) \/ BalanceMoves(w) PROVE ChatInv'
    <2>1. KeysAreFine' /\ UNCHANGED <<socket, history, pending, metrics, questions>>
      BY <1>5, KeysAreKept
    <2>2. SocketsAreFine'
      BY <2>1 DEF ChatInv, SocketsAreFine, Open
    <2> QED BY <2>1, <2>2, NobodyWaits
  <1>6. ASSUME NEW w \in Wallets, FreeChecked(w) PROVE ChatInv'
    <2>1. KeysAreFine' /\ UNCHANGED <<socket, history, metrics>>
      BY <1>6, KeysAreKept
    <2>2. CASE w \in funded
      <3>1. Asked(w)
        BY <1>6, <2>2 DEF FreeChecked
      <3>2. w # Http
        BY ChatNats
      <3>3. CASE w \notin Sockets
        BY <2>1, <3>1, <3>2, <3>3, AskedElsewhere
      <3> QED BY <3>3, ChatNats
    <2>3. CASE w \notin funded
      <3>1. UNCHANGED <<pending, questions>>
        BY <1>6, <2>3 DEF FreeChecked
      <3>2. SocketsAreFine'
        BY <2>1 DEF ChatInv, SocketsAreFine, Open
      <3> QED BY <2>1, <3>1, <3>2, NobodyWaits
    <2> QED BY <2>2, <2>3
  <1>7. ASSUME NEW w \in Wallets, FreeAnswered(w) PROVE ChatInv'
    BY <1>7, FreeIsAnswered
  <1>8. CASE UNCHANGED chatVars
    BY <1>8 DEF chatVars, ChatInv, HistoriesAreFine, SocketsAreFine, KeysAreFine, Open
  <1> QED BY <1>1, <1>2, <1>3, <1>4, <1>5, <1>6, <1>7, <1>8 DEF ChatNext

-----------------------------------------------------------------------------
(* Model failover (ModelFailover).  A call divides the models into those that   *)
(* failed it, the one it asks and those that are left.                          *)
HealthKind == [failures : Nat, coolsUntil : Nat, lastSuccess : Nat]
AttemptKind == [preferred : ChainModels, ready : SUBSET ChainModels, left : SUBSET ChainModels, asked : ChainModels,
             tried : SUBSET ChainModels, stage : {"new", "asking", "answered", "failed"}]
UseKind == [model : ChainModels, day : 0..MaxSeconds]

CallInOrder(a) ==
    /\ a.stage \in {"asking", "answered"} => /\ a.asked \notin a.left /\ a.asked \notin a.tried
                                             /\ a.left \cap a.tried = {}
                                             /\ (a.tried \cup {a.asked}) \cup a.left = ChainModels
    /\ a.stage = "failed" => a.tried = ChainModels
UsedOn(log, d) == {i \in DOMAIN log : log[i].day = d}
BookIsTrue(log, counts) ==
    /\ \A d \in 0..MaxSeconds : IsFiniteSet(UsedOn(log, d)) /\ Cardinality(UsedOn(log, d)) <= counts[d]
    /\ (\E d \in 0..MaxSeconds : counts[d] > 0) => log # << >>
Rested(h, moment) == h.coolsUntil <= moment \/ h.lastSuccess = Never \/ moment - h.lastSuccess > SuccessWindow

FailoverInv ==
    /\ health \in [ChainModels -> HealthKind] /\ attempt \in [FailoverCalls -> AttemptKind]
    /\ usage \in Seq(UseKind) /\ daily \in [0..MaxSeconds -> Nat] /\ halfMinute \in 1..MaxSeconds
    /\ \A c \in FailoverCalls : CallInOrder(attempt[c])
    /\ \A m \in ChainModels : Rested(health[m], halfMinute)
    /\ BookIsTrue(usage, daily)

LEMMA FailoverNats == FailThreshold \in Nat \ {0} /\ MaxUsage \in Nat \ {0} /\ Cooldown \in Nat /\ SuccessWindow \in Nat /\ MaxSeconds \in Nat \ {0}
  BY FailoverAssumption DEF FailoverAssumption

(* The chain is a sequence without repetitions.                                 *)
LEMMA TheChain == /\ Len(Chain) \in Nat \ {0} /\ DOMAIN Chain = 1..Len(Chain) /\ Chain[1] \in ChainModels
                  /\ \A m \in ChainModels : Place(m) \in 1..Len(Chain) /\ Chain[Place(m)] = m
  <1>1. Len(Chain) \in Nat \ {0} /\ DOMAIN Chain = 1..Len(Chain)
    BY FailoverAssumption DEF FailoverAssumption
  <1>2. \A m \in ChainModels : Place(m) \in 1..Len(Chain) /\ Chain[Place(m)] = m
    BY <1>1 DEF Place, ChainModels
  <1>3. Chain[1] \in ChainModels
    BY <1>1 DEF ChainModels
  <1> QED BY <1>1, <1>2, <1>3

LEMMA LeastNumber ==
  ASSUME NEW S, S \subseteq Nat, S # {}
  PROVE  \E n \in S : \A k \in S : n <= k
  <1> DEFINE R == OpToRel(<, Nat)
  <1>1. IsWellFoundedOn(R, Nat)
    BY NatLessThanWellFounded
  <1>2. \A j, k \in Nat : <<j, k>> \in R <=> j < k
    BY DEF OpToRel
  <1> HIDE DEF R
  <1>3. PICK n \in S : \A k \in S : ~(<<k, n>> \in R)
    BY <1>1, WFMin
  <1>4. ASSUME NEW k \in S PROVE n <= k
    <2>1. n \in Nat /\ k \in Nat /\ ~(k < n)
      BY <1>2, <1>3
    <2> QED BY <2>1
  <1> QED BY <1>4

LEMMA OrderIsNat ==
  ASSUME NEW m \in ChainModels, NEW preferred, NEW ready
  PROVE  FailoverOrder(m, preferred, ready) \in Nat
  BY TheChain DEF FailoverOrder

(* The first of some models is one of them, and none comes before it.           *)
LEMMA FirstIsFirst ==
  ASSUME NEW models \in SUBSET ChainModels, models # {}, NEW preferred, NEW ready
  PROVE  /\ FirstOf(models, preferred, ready) \in models
         /\ \A k \in models : FailoverOrder(FirstOf(models, preferred, ready), preferred, ready) <= FailoverOrder(k, preferred, ready)
  <1> DEFINE Rank(m) == FailoverOrder(m, preferred, ready)
             S == {Rank(m) : m \in models}
  <1>1. \A m \in models : Rank(m) \in Nat
    BY OrderIsNat
  <1>2. S \subseteq Nat /\ S # {}
    BY <1>1
  <1>3. PICK n \in S : \A k \in S : n <= k
    <2> HIDE DEF S
    <2> QED BY <1>2, LeastNumber
  <1>4. PICK m \in models : n = Rank(m)
    OBVIOUS
  <1>5. \A k \in models : Rank(m) <= Rank(k)
    BY <1>3, <1>4
  <1> HIDE DEF S
  <1> QED BY <1>5 DEF FirstOf

LEMMA BestIsReady ==
  ASSUME NEW m \in ChainModels, \E k \in ChainModels : Available(k)
  PROVE  Available(BestModel(m))
  <1> DEFINE first == FirstOf(ChainModels, m, Ready)
  <1>1. Ready # {} /\ Ready \subseteq ChainModels
    BY DEF Ready
  <1>2. first \in ChainModels /\ \A k \in ChainModels : FailoverOrder(first, m, Ready) <= FailoverOrder(k, m, Ready)
    BY <1>1, FirstIsFirst
  <1>3. PICK k \in Ready : TRUE
    BY <1>1
  <1>4. k \in ChainModels /\ FailoverOrder(k, m, Ready) <= Len(Chain)
    BY <1>1, TheChain DEF FailoverOrder
  <1> HIDE DEF first
  <1>5. first \notin Ready => FailoverOrder(first, m, Ready) = Len(Chain) + Place(first)
    BY DEF FailoverOrder
  <1>6. first \in Ready
    <2> SUFFICES ASSUME first \notin Ready PROVE FALSE
      OBVIOUS
    <2>1. Place(first) >= 1 /\ Place(first) \in Nat /\ Len(Chain) \in Nat
      BY <1>2, TheChain
    <2>2. FailoverOrder(first, m, Ready) <= FailoverOrder(k, m, Ready)
      BY <1>2, <1>4
    <2>3. FailoverOrder(k, m, Ready) \in Nat
      BY <1>4, OrderIsNat
    <2> QED BY <1>4, <1>5, <2>1, <2>2, <2>3
  <1> QED BY <1>1, <1>6 DEF BestModel, Ready, first

LEMMA FailoverStarts == FailoverInit => FailoverInv
  <1> SUFFICES ASSUME FailoverInit PROVE FailoverInv
    OBVIOUS
  <1>1. health \in [ChainModels -> HealthKind] /\ attempt \in [FailoverCalls -> AttemptKind] /\ halfMinute \in 1..MaxSeconds
    BY TheChain, FailoverNats DEF FailoverInit, HealthKind, AttemptKind, Never
  <1>2. usage \in Seq(UseKind) /\ daily \in [0..MaxSeconds -> Nat] /\ \A d \in 0..MaxSeconds : daily[d] = 0
    BY DEF FailoverInit
  <1>3. \A c \in FailoverCalls : CallInOrder(attempt[c])
    BY DEF FailoverInit, CallInOrder
  <1>4. \A m \in ChainModels : Rested(health[m], halfMinute)
    BY DEF FailoverInit, Rested
  <1>5. \A d : UsedOn(usage, d) = {}
    BY DEF FailoverInit, UsedOn
  <1>6. \A d \in 0..MaxSeconds : IsFiniteSet(UsedOn(usage, d)) /\ Cardinality(UsedOn(usage, d)) = 0
    BY <1>5, FS_EmptySet
  <1>7. BookIsTrue(usage, daily)
    BY <1>2, <1>6 DEF BookIsTrue
  <1> QED BY <1>1, <1>2, <1>3, <1>4, <1>7 DEF FailoverInv

LEMMA FailoverMeans == FailoverInv => EveryModelTried
  <1> SUFFICES ASSUME FailoverInv PROVE EveryModelTried
    OBVIOUS
  <1>1. \A c \in FailoverCalls : /\ attempt[c].stage = "failed" => attempt[c].tried = ChainModels
                                 /\ attempt[c].stage = "asking" => attempt[c].asked \notin attempt[c].tried
    BY DEF FailoverInv, CallInOrder
  <1>2. ASSUME NEW m \in ChainModels, health[m].lastSuccess # Never, halfMinute - health[m].lastSuccess <= SuccessWindow PROVE Available(m)
    <2>1. halfMinute \in Nat /\ health[m].lastSuccess \in Nat /\ Rested(health[m], halfMinute)
      BY FailoverNats DEF FailoverInv, HealthKind
    <2> QED BY <1>2, <2>1, FailoverNats DEF Rested, Available
  <1>3. \A m \in ChainModels : (\E k \in ChainModels : Available(k)) => Available(BestModel(m))
    BY BestIsReady
  <1>4. \A d \in 1..MaxSeconds : Cardinality({i \in DOMAIN usage : usage[i].day = d}) <= daily[d]
    BY FailoverNats DEF FailoverInv, BookIsTrue, UsedOn
  <1>5. ASSUME daily[halfMinute] > 0 PROVE \E m \in ChainModels : UsedOf(m) > 0
    <2>1. halfMinute \in 0..MaxSeconds
      BY FailoverNats DEF FailoverInv
    <2>2. usage \in Seq(UseKind) /\ usage # << >>
      BY <1>5, <2>1 DEF FailoverInv, BookIsTrue
    <2>3. Len(usage) \in Nat /\ DOMAIN usage = 1..Len(usage) /\ 1 \in DOMAIN usage /\ usage[1].model \in ChainModels
      <3>1. PICK log : log = usage
        OBVIOUS
      <3>2. log \in Seq(UseKind) /\ log # << >>
        BY <2>2, <3>1
      <3>3. Len(log) \in Nat /\ DOMAIN log = 1..Len(log) /\ Len(log) # 0
        BY <3>2
      <3>4. 1 \in DOMAIN log
        BY <3>3
      <3>5. log[1] \in UseKind
        BY <3>2, <3>4
      <3> QED BY <3>1, <3>3, <3>4, <3>5 DEF UseKind
    <2> DEFINE S == {i \in DOMAIN usage : usage[i].model = usage[1].model}
    <2>4. IsFiniteSet(DOMAIN usage)
      BY <2>3, FS_Interval
    <2>5. IsFiniteSet(S) /\ 1 \in S
      BY <2>3, <2>4, FS_Subset
    <2> HIDE DEF S
    <2>6. Cardinality(S) \in Nat /\ Cardinality(S) # 0
      BY <2>5, FS_EmptySet, FS_CardinalityType
    <2>7. UsedOf(usage[1].model) > 0
      BY <2>6 DEF UsedOf, S
    <2> QED BY <2>3, <2>7
  <1> QED BY <1>1, <1>2, <1>3, <1>4, <1>5 DEF EveryModelTried

(* The last elements of a sequence.                                             *)
LEMMA LastOnes ==
  ASSUME NEW S, NEW s \in Seq(S), NEW from \in Nat, NEW n \in Nat, Len(s) = from + n
  PROVE  /\ SubSeq(s, from + 1, Len(s)) \in Seq(S) /\ Len(SubSeq(s, from + 1, Len(s))) = n
         /\ \A i \in 1..n : SubSeq(s, from + 1, Len(s))[i] = s[i + from]
  <1> DEFINE t == SubSeq(s, from + 1, Len(s))
  <1>1. t = [i \in 1..n |-> s[i + from]]
    <2>1. t = [i \in 1..(1 + Len(s) - (from + 1)) |-> s[i + (from + 1) - 1]]
      OBVIOUS
    <2>2. 1 + Len(s) - (from + 1) = n
      OBVIOUS
    <2>3. \A i \in 1..n : i + (from + 1) - 1 = i + from
      OBVIOUS
    <2> QED BY <2>1, <2>2, <2>3
  <1>2. \A i \in 1..n : s[i + from] \in S
    OBVIOUS
  <1> HIDE DEF t
  <1>3. t \in Seq(S) /\ Len(t) = n
    BY <1>1, <1>2
  <1> QED BY <1>1, <1>3 DEF t

(* A use is booked, and may push the oldest off the record.                     *)
LEMMA UseKeepsBook ==
  ASSUME NEW log \in Seq(UseKind), NEW counts \in [0..MaxSeconds -> Nat], BookIsTrue(log, counts),
         NEW today \in 0..MaxSeconds, NEW m \in ChainModels,
         NEW next, next = LET all == Append(log, [model |-> m, day |-> today]) IN
                          IF Len(all) > MaxUsage THEN SubSeq(all, Len(all) - MaxUsage + 1, Len(all)) ELSE all
  PROVE  next \in Seq(UseKind) /\ BookIsTrue(next, [counts EXCEPT ![today] = @ + 1])
  <1> DEFINE e == [model |-> m, day |-> today]
             all == Append(log, e)
             newCounts == [counts EXCEPT ![today] = @ + 1]
  <1>1. e \in UseKind /\ e.day = today
    BY DEF UseKind
  <1> HIDE DEF e
  <1>2. /\ all \in Seq(UseKind) /\ Len(log) \in Nat /\ Len(all) = Len(log) + 1 /\ DOMAIN all = 1..(Len(log) + 1)
        /\ DOMAIN log = 1..Len(log)
        /\ \A i \in 1..Len(log) : all[i] = log[i]
        /\ all[Len(log) + 1] = e
    BY <1>1
  <1> HIDE DEF all
  <1>3. newCounts \in [0..MaxSeconds -> Nat] /\ \A d \in 0..MaxSeconds : newCounts[d] = IF d = today THEN counts[d] + 1 ELSE counts[d]
    OBVIOUS
  <1>4. ASSUME NEW d \in 0..MaxSeconds PROVE IsFiniteSet(UsedOn(all, d)) /\ Cardinality(UsedOn(all, d)) <= newCounts[d]
    <2>1. IsFiniteSet(UsedOn(log, d)) /\ Cardinality(UsedOn(log, d)) <= counts[d] /\ Cardinality(UsedOn(log, d)) \in Nat /\ counts[d] \in Nat
      BY FS_CardinalityType DEF BookIsTrue
    <2>2. CASE d = today
      <3>1. UsedOn(all, d) = UsedOn(log, d) \cup {Len(log) + 1}
        BY <1>1, <1>2, <2>2 DEF UsedOn
      <3>2. IsFiniteSet(UsedOn(all, d)) /\ Cardinality(UsedOn(all, d)) <= Cardinality(UsedOn(log, d)) + 1
        <4> DEFINE U == UsedOn(log, d)
        <4>1. IsFiniteSet(U) /\ Cardinality(U) \in Nat /\ UsedOn(all, d) = U \cup {Len(log) + 1}
          BY <2>1, <3>1
        <4> HIDE DEF U
        <4>2. IsFiniteSet(U \cup {Len(log) + 1}) /\ Cardinality(U \cup {Len(log) + 1}) = IF (Len(log) + 1) \in U THEN Cardinality(U) ELSE Cardinality(U) + 1
          BY <4>1, FS_AddElement
        <4>3. Cardinality(U \cup {Len(log) + 1}) <= Cardinality(U) + 1
          BY <4>1, <4>2
        <4> QED BY <4>1, <4>2, <4>3 DEF U
      <3>3. Cardinality(UsedOn(all, d)) \in Nat /\ newCounts[d] = counts[d] + 1
        BY <1>3, <2>2, <3>2, FS_CardinalityType
      <3> QED BY <2>1, <3>2, <3>3
    <2>3. CASE d # today
      <3>1. UsedOn(all, d) = UsedOn(log, d)
        BY <1>1, <1>2, <2>3 DEF UsedOn
      <3> QED BY <1>3, <2>1, <2>3, <3>1
    <2> QED BY <2>2, <2>3
  <1>5. CASE Len(all) > MaxUsage
    <2> DEFINE shift == Len(all) - MaxUsage
    <2>1. shift \in Nat /\ MaxUsage \in Nat \ {0} /\ Len(all) = shift + MaxUsage
      BY <1>2, <1>5, FailoverNats
    <2>2. next = SubSeq(all, shift + 1, Len(all))
      BY <1>5 DEF all, e
    <2> HIDE DEF shift
    <2>2a. \A i \in 1..MaxUsage : i + shift \in 1..Len(all)
      BY <2>1
    <2>3. /\ next \in Seq(UseKind) /\ DOMAIN next = 1..MaxUsage /\ next # << >>
          /\ \A i \in 1..MaxUsage : next[i] = all[i + shift] /\ i + shift \in DOMAIN all
      <3>2. next \in Seq(UseKind) /\ Len(next) = MaxUsage /\ \A i \in 1..MaxUsage : next[i] = all[i + shift]
        <4>1. all \in Seq(UseKind) /\ shift \in Nat /\ MaxUsage \in Nat /\ Len(all) = shift + MaxUsage
          BY <1>2, <2>1
        <4>2. /\ SubSeq(all, shift + 1, Len(all)) \in Seq(UseKind) /\ Len(SubSeq(all, shift + 1, Len(all))) = MaxUsage
              /\ \A i \in 1..MaxUsage : SubSeq(all, shift + 1, Len(all))[i] = all[i + shift]
          BY <4>1, LastOnes
        <4> QED BY <2>2, <4>2, Zenon
      <3>3. DOMAIN next = 1..MaxUsage
        BY <2>1, <3>2
      <3>4. \A i \in 1..MaxUsage : next[i] = all[i + shift] /\ i + shift \in DOMAIN all
        BY <1>2, <2>2a, <3>2
      <3> QED BY <2>1, <3>2, <3>3, <3>4
    <2>4. ASSUME NEW d \in 0..MaxSeconds PROVE IsFiniteSet(UsedOn(next, d)) /\ Cardinality(UsedOn(next, d)) <= newCounts[d]
      <3> DEFINE f == [i \in UsedOn(next, d) |-> i + shift]
      <3>1. UsedOn(next, d) \subseteq Nat
        BY <2>3 DEF UsedOn
      <3>2. \A i \in UsedOn(next, d) : i + shift \in UsedOn(all, d)
        BY <2>3 DEF UsedOn
      <3>3. ASSUME NEW i \in UsedOn(next, d), NEW j \in UsedOn(next, d), i + shift = j + shift PROVE i = j
        <4>1. i \in Nat /\ j \in Nat
          BY <3>1
        <4> QED BY <2>1, <3>3, <4>1
      <3>4. f \in Injection(UsedOn(next, d), UsedOn(all, d))
        BY <3>2, <3>3 DEF Injection, IsInjective
      <3> HIDE DEF f
      <3>5. IsFiniteSet(UsedOn(next, d)) /\ Cardinality(UsedOn(next, d)) <= Cardinality(UsedOn(all, d))
        BY <1>4, <3>4, FS_Injection
      <3>6. Cardinality(UsedOn(next, d)) \in Nat /\ Cardinality(UsedOn(all, d)) \in Nat /\ newCounts[d] \in Nat
        BY <1>3, <1>4, <3>5, FS_CardinalityType
      <3> HIDE DEF newCounts
      <3> QED BY <1>4, <3>5, <3>6
    <2> QED BY <2>3, <2>4 DEF BookIsTrue
  <1>6. CASE ~(Len(all) > MaxUsage)
    <2>1. next = all
      BY <1>6 DEF all, e
    <2>2. all # << >>
      BY <1>2
    <2> QED BY <1>2, <1>4, <2>1, <2>2 DEF BookIsTrue
  <1> QED BY <1>5, <1>6

LEMMA AnswerKeepsCalls ==
  ASSUME FailoverInv, NEW c \in FailoverCalls, ModelAnswers(c)
  PROVE  FailoverInv'
  <1> DEFINE m == attempt[c].asked
  <1>1. /\ attempt[c] \in AttemptKind /\ m \in ChainModels /\ attempt[c].stage = "asking" /\ halfMinute \in Nat
        /\ attempt \in [FailoverCalls -> AttemptKind] /\ health \in [ChainModels -> HealthKind] /\ CallInOrder(attempt[c])
    BY FailoverNats DEF FailoverInv, AttemptKind, ModelAnswers
  <1>2. health' = [health EXCEPT ![m] = [health[m] EXCEPT !.lastSuccess = halfMinute, !.coolsUntil = Never]]
    BY <1>1 DEF ModelAnswers, ModelSucceeds
  <1>3. attempt' = [attempt EXCEPT ![c] = [attempt[c] EXCEPT !.stage = "answered"]] /\ UNCHANGED <<usage, daily, halfMinute>>
    BY <1>1 DEF ModelAnswers
  <1>4. attempt' \in [FailoverCalls -> AttemptKind] /\ \A d \in FailoverCalls : CallInOrder(attempt'[d])
    <2> DEFINE new == [attempt[c] EXCEPT !.stage = "answered"]
    <2>1. new \in AttemptKind /\ CallInOrder(new)
      BY <1>1 DEF AttemptKind, CallInOrder
    <2> HIDE DEF new
    <2>2. attempt' = [attempt EXCEPT ![c] = new]
      BY <1>3 DEF new
    <2> QED BY <1>1, <2>1, <2>2 DEF FailoverInv
  <1>5. health' \in [ChainModels -> HealthKind] /\ \A k \in ChainModels : Rested(health'[k], halfMinute)
    <2> DEFINE new == [health[m] EXCEPT !.lastSuccess = halfMinute, !.coolsUntil = Never]
    <2>0. health[m] \in HealthKind
      BY <1>1
    <2>1. new \in HealthKind /\ Rested(new, halfMinute)
      <3> HIDE DEF m
      <3>1. new \in HealthKind /\ new.coolsUntil = 0
        BY <1>1, <2>0 DEF HealthKind, Never
      <3> QED BY <1>1, <3>1 DEF Rested
    <2> HIDE DEF new, m
    <2>2. health' = [health EXCEPT ![m] = new]
      BY <1>2 DEF new
    <2> QED BY <1>1, <2>1, <2>2 DEF FailoverInv
  <1> QED BY <1>3, <1>4, <1>5 DEF FailoverInv

LEMMA FailureKeepsCalls ==
  ASSUME FailoverInv, NEW c \in FailoverCalls, AsksNext(c)
  PROVE  FailoverInv'
  <1> DEFINE a == attempt[c]
             m == attempt[c].asked
             next == FirstOf(a.left, a.preferred, a.ready)
  <1>1. /\ attempt[c] \in AttemptKind /\ m \in ChainModels /\ attempt[c].stage = "asking" /\ halfMinute \in Nat
        /\ attempt \in [FailoverCalls -> AttemptKind] /\ health \in [ChainModels -> HealthKind] /\ CallInOrder(attempt[c])
        /\ a.left \in SUBSET ChainModels /\ a.tried \in SUBSET ChainModels
        /\ m \notin a.left /\ m \notin a.tried /\ a.left \cap a.tried = {} /\ (a.tried \cup {m}) \cup a.left = ChainModels
    BY FailoverNats DEF FailoverInv, AttemptKind, AsksNext, CallInOrder
  <1>2. health' = ModelFails(m) /\ UNCHANGED <<usage, daily, halfMinute>>
    BY DEF AsksNext
  <1>3. attempt' \in [FailoverCalls -> AttemptKind] /\ \A d \in FailoverCalls : CallInOrder(attempt'[d])
    <2> DEFINE new == IF a.left = {} THEN [a EXCEPT !.stage = "failed", !.tried = @ \cup {m}]
                      ELSE [a EXCEPT !.asked = next, !.left = @ \ {next}, !.tried = @ \cup {m}]
    <2>1. attempt' = [attempt EXCEPT ![c] = new]
      BY DEF AsksNext
    <2>2. new \in AttemptKind /\ CallInOrder(new)
      <3>1. CASE a.left = {}
        BY <1>1, <3>1, ZenonT(60) DEF AttemptKind, CallInOrder
      <3>2. CASE a.left # {}
        <4>1. next \in a.left
          BY <1>1, <3>2, FirstIsFirst
        <4> HIDE DEF next
        <4>2. /\ new = [a EXCEPT !.asked = next, !.left = a.left \ {next}, !.tried = a.tried \cup {m}]
          BY <3>2
        <4>3. new \in AttemptKind
          BY <1>1, <4>1, <4>2 DEF AttemptKind
        <4>4. new.asked = next /\ new.left = a.left \ {next} /\ new.tried = a.tried \cup {m} /\ new.stage = "asking"
          BY <1>1, <4>2 DEF AttemptKind
        <4> HIDE DEF new, m, a
        <4>5. next \notin a.tried \cup {m} /\ (a.left \ {next}) \cap (a.tried \cup {m}) = {}
          BY <1>1, <4>1
        <4> QED BY <1>1, <4>1, <4>3, <4>4, <4>5 DEF CallInOrder
      <3> QED BY <3>1, <3>2
    <2> HIDE DEF new
    <2> QED BY <1>1, <2>1, <2>2 DEF FailoverInv
  <1>4. health' \in [ChainModels -> HealthKind] /\ \A k \in ChainModels : Rested(health'[k], halfMinute)
    <2> DEFINE failures == health[m].failures + 1
               cools == (health[m].lastSuccess = Never \/ halfMinute - health[m].lastSuccess > SuccessWindow) /\ failures % FailThreshold = 0
               until == IF cools THEN halfMinute + Cooldown ELSE health[m].coolsUntil
               new == [health[m] EXCEPT !.failures = failures, !.coolsUntil = until]
    <2>1. health' = [health EXCEPT ![m] = new]
      BY <1>1, <1>2 DEF ModelFails
    <2>2. health[m] \in HealthKind /\ Rested(health[m], halfMinute)
      BY <1>1 DEF FailoverInv
    <2>3. failures \in Nat /\ until \in Nat /\ cools \in BOOLEAN
      BY <1>1, <2>2, FailoverNats DEF HealthKind
    <2>4. cools => (health[m].lastSuccess = Never \/ halfMinute - health[m].lastSuccess > SuccessWindow)
      OBVIOUS
    <2>5. ~cools => until = health[m].coolsUntil
      OBVIOUS
    <2> HIDE DEF failures, cools, until, m
    <2>6. new \in HealthKind /\ new.coolsUntil = until /\ new.lastSuccess = health[m].lastSuccess
      BY <2>2, <2>3 DEF HealthKind
    <2> HIDE DEF new
    <2>7. Rested(new, halfMinute)
      BY <2>2, <2>4, <2>5, <2>6 DEF Rested
    <2> QED BY <1>1, <2>1, <2>6, <2>7 DEF FailoverInv
  <1> QED BY <1>2, <1>3, <1>4 DEF FailoverInv

LEMMA BeginKeepsCalls ==
  ASSUME FailoverInv, NEW c \in FailoverCalls, NEW preferred \in ChainModels, Begin(c, preferred)
  PROVE  FailoverInv'
  <1> DEFINE first == FirstOf(ChainModels, preferred, Ready)
             new == [preferred |-> preferred, ready |-> Ready, left |-> ChainModels \ {first}, asked |-> first, tried |-> {}, stage |-> "asking"]
  <1>1. attempt' = [attempt EXCEPT ![c] = new] /\ UNCHANGED <<health, usage, daily, halfMinute>>
    BY DEF Begin
  <1>2. first \in ChainModels /\ Ready \subseteq ChainModels
    BY TheChain, FirstIsFirst DEF Ready
  <1> HIDE DEF first
  <1>3. new \in AttemptKind /\ CallInOrder(new)
    BY <1>2 DEF AttemptKind, CallInOrder
  <1> HIDE DEF new
  <1>4. attempt' \in [FailoverCalls -> AttemptKind] /\ \A d \in FailoverCalls : CallInOrder(attempt'[d])
    BY <1>1, <1>3 DEF FailoverInv
  <1> QED BY <1>1, <1>4 DEF FailoverInv

LEMMA FailoverKept == FailoverInv /\ [FailoverNext]_failoverVars => FailoverInv'
  <1> SUFFICES ASSUME FailoverInv, [FailoverNext]_failoverVars PROVE FailoverInv'
    OBVIOUS
  <1>1. CASE HalfMinutePasses
    <2>1. halfMinute' = halfMinute + 1 /\ halfMinute' \in 1..MaxSeconds /\ halfMinute \in Nat /\ UNCHANGED <<health, attempt, usage, daily>>
      BY <1>1, FailoverNats DEF HalfMinutePasses, FailoverInv
    <2>2. ASSUME NEW m \in ChainModels PROVE Rested(health[m], halfMinute + 1)
      <3>1. health[m].coolsUntil \in Nat /\ health[m].lastSuccess \in Nat /\ Rested(health[m], halfMinute)
        BY DEF FailoverInv, HealthKind
      <3> QED BY <2>1, <3>1, FailoverNats DEF Rested
    <2> QED BY <2>1, <2>2 DEF FailoverInv
  <1>2. ASSUME NEW m \in ChainModels, Used(m) PROVE FailoverInv'
    <2>1. halfMinute \in 0..MaxSeconds
      BY FailoverNats DEF FailoverInv
    <2>2. /\ daily' = [daily EXCEPT ![halfMinute] = @ + 1] /\ UNCHANGED <<health, attempt, halfMinute>>
          /\ usage' = LET all == Append(usage, [model |-> m, day |-> halfMinute]) IN
                      IF Len(all) > MaxUsage THEN SubSeq(all, Len(all) - MaxUsage + 1, Len(all)) ELSE all
      BY <1>2 DEF Used
    <2>3. usage \in Seq(UseKind) /\ daily \in [0..MaxSeconds -> Nat] /\ BookIsTrue(usage, daily)
      BY DEF FailoverInv
    <2>4. PICK next : next = usage'
      OBVIOUS
    <2>5. next \in Seq(UseKind) /\ BookIsTrue(next, [daily EXCEPT ![halfMinute] = @ + 1])
      BY <2>1, <2>2, <2>3, <2>4, UseKeepsBook
    <2>6. daily' \in [0..MaxSeconds -> Nat]
      BY <2>1, <2>2, <2>3
    <2>7. BookIsTrue(usage', daily')
      BY <2>2, <2>4, <2>5
    <2> QED BY <2>2, <2>4, <2>5, <2>6, <2>7 DEF FailoverInv
  <1>3. ASSUME NEW c \in FailoverCalls, ModelAnswers(c) \/ AsksNext(c) \/ \E m \in ChainModels : Begin(c, m) PROVE FailoverInv'
    BY <1>3, AnswerKeepsCalls, FailureKeepsCalls, BeginKeepsCalls
  <1>4. CASE UNCHANGED failoverVars
    BY <1>4 DEF failoverVars, FailoverInv
  <1> QED BY <1>1, <1>2, <1>3, <1>4 DEF FailoverNext

(* A model has failed as many calls as tried it in vain, and nothing of what is *)
(* written down of it lies beyond the clock.                                    *)
FailedBy(m) == {c \in FailoverCalls : m \in attempt[c].tried}
HealthDated(h) == h.coolsUntil <= MaxSeconds + Cooldown /\ h.lastSuccess <= MaxSeconds
HealthInv == /\ \A m \in ChainModels : HealthDated(health[m]) /\ health[m].failures = Cardinality(FailedBy(m))
             /\ \A c \in FailoverCalls : attempt[c].stage = "new" => attempt[c].tried = {}

LEMMA CallsAreFinite ==
  ASSUME NEW S, S \subseteq FailoverCalls
  PROVE  IsFiniteSet(S) /\ Cardinality(S) \in Nat /\ Cardinality(S) <= Cardinality(FailoverCalls) /\ Cardinality(FailoverCalls) \in Nat
  <1>1. IsFiniteSet(FailoverCalls)
    BY FailoverAssumption DEF FailoverAssumption
  <1> QED BY <1>1, FS_Subset, FS_CardinalityType

LEMMA HealthStarts == FailoverInit => HealthInv
  <1> HAVE FailoverInit
  <1>1. \A c \in FailoverCalls : attempt[c].stage = "new" /\ attempt[c].tried = {}
    BY DEF FailoverInit
  <1>2. ASSUME NEW m \in ChainModels PROVE HealthDated(health[m]) /\ health[m].failures = Cardinality(FailedBy(m))
    <2>1. FailedBy(m) = {}
      BY <1>1 DEF FailedBy
    <2>2. Cardinality(FailedBy(m)) = 0
      BY <2>1, FS_EmptySet
    <2>3. health[m].failures = 0 /\ health[m].coolsUntil = 0 /\ health[m].lastSuccess = 0
      BY DEF FailoverInit, Never
    <2> QED BY <2>2, <2>3, FailoverNats DEF HealthDated
  <1> QED BY <1>1, <1>2 DEF HealthInv

(* A step that tries no model in vain.                                          *)
LEMMA NoFailureIsNew ==
  ASSUME HealthInv, \A c \in FailoverCalls : attempt'[c].tried = attempt[c].tried,
         \A c \in FailoverCalls : attempt'[c].stage = "new" => attempt[c].stage = "new",
         \A m \in ChainModels : health'[m].failures = health[m].failures /\ HealthDated(health'[m])
  PROVE  HealthInv'
  <1>1. \A m : FailedBy(m)' = FailedBy(m)
    BY DEF FailedBy
  <1>2. \A m \in ChainModels : HealthDated(health'[m]) /\ health'[m].failures = Cardinality(FailedBy(m)')
    BY <1>1 DEF HealthInv
  <1>3. \A c \in FailoverCalls : attempt'[c].stage = "new" => attempt'[c].tried = {}
    BY DEF HealthInv
  <1>4. \A m \in ChainModels : HealthDated(health[m])' = HealthDated(health'[m])
    BY DEF HealthDated
  <1>5. \A m \in ChainModels : (HealthDated(health[m]) /\ health[m].failures = Cardinality(FailedBy(m)))'
    BY <1>2, <1>4
  <1> QED BY <1>3, <1>5 DEF HealthInv

LEMMA AnswerKeepsHealth ==
  ASSUME FailoverInv, HealthInv, NEW c \in FailoverCalls, ModelAnswers(c)
  PROVE  HealthInv'
  <1> DEFINE m == attempt[c].asked
  <1>1. /\ m \in ChainModels /\ attempt \in [FailoverCalls -> AttemptKind] /\ health \in [ChainModels -> HealthKind]
        /\ halfMinute \in 1..MaxSeconds
    BY DEF FailoverInv, AttemptKind, ModelAnswers
  <1>2. health' = [health EXCEPT ![m] = [health[m] EXCEPT !.lastSuccess = halfMinute, !.coolsUntil = Never]]
    BY <1>1 DEF ModelAnswers, ModelSucceeds
  <1>3. attempt' = [attempt EXCEPT ![c] = [attempt[c] EXCEPT !.stage = "answered"]]
    BY <1>1 DEF ModelAnswers
  <1>4. \A d \in FailoverCalls : attempt'[d].tried = attempt[d].tried /\ (attempt'[d].stage = "new" => attempt[d].stage = "new")
    <2>1. attempt[c] \in AttemptKind
      BY <1>1
    <2> DEFINE new == [attempt[c] EXCEPT !.stage = "answered"]
    <2>2. new.tried = attempt[c].tried /\ new.stage = "answered"
      BY <2>1 DEF AttemptKind
    <2> HIDE DEF new
    <2>3. attempt' = [attempt EXCEPT ![c] = new]
      BY <1>3 DEF new
    <2> QED BY <1>1, <2>2, <2>3
  <1>5. \A k \in ChainModels : health'[k].failures = health[k].failures /\ HealthDated(health'[k])
    <2> DEFINE new == [health[m] EXCEPT !.lastSuccess = halfMinute, !.coolsUntil = Never]
    <2>1. health[m] \in HealthKind
      BY <1>1
    <2> HIDE DEF m
    <2>2. new.failures = health[m].failures /\ new.coolsUntil = 0 /\ new.lastSuccess = halfMinute
      BY <2>1 DEF HealthKind, Never
    <2> HIDE DEF new
    <2>3. HealthDated(new)
      BY <1>1, <2>2, FailoverNats DEF HealthDated
    <2>4. health' = [health EXCEPT ![m] = new]
      BY <1>2 DEF new
    <2> QED BY <1>1, <2>2, <2>3, <2>4 DEF HealthInv
  <1> QED BY <1>4, <1>5, NoFailureIsNew

LEMMA BeginKeepsHealth ==
  ASSUME FailoverInv, HealthInv, NEW c \in FailoverCalls, NEW preferred \in ChainModels, Begin(c, preferred)
  PROVE  HealthInv'
  <1> DEFINE first == FirstOf(ChainModels, preferred, Ready)
             new == [preferred |-> preferred, ready |-> Ready, left |-> ChainModels \ {first}, asked |-> first, tried |-> {}, stage |-> "asking"]
  <1>1. attempt' = [attempt EXCEPT ![c] = new] /\ UNCHANGED health /\ attempt[c].stage = "new"
    BY DEF Begin
  <1>2. new.tried = {} /\ new.stage = "asking"
    OBVIOUS
  <1> HIDE DEF first, new
  <1>3. attempt \in [FailoverCalls -> AttemptKind]
    BY DEF FailoverInv
  <1>4. \A d \in FailoverCalls : attempt'[d].tried = attempt[d].tried /\ (attempt'[d].stage = "new" => attempt[d].stage = "new")
    BY <1>1, <1>2, <1>3 DEF HealthInv
  <1>5. \A k \in ChainModels : health'[k].failures = health[k].failures /\ HealthDated(health'[k])
    BY <1>1 DEF HealthInv
  <1> QED BY <1>4, <1>5, NoFailureIsNew

LEMMA FailureKeepsHealth ==
  ASSUME FailoverInv, HealthInv, NEW c \in FailoverCalls, AsksNext(c)
  PROVE  HealthInv'
  <1>0. PICK m : m = attempt[c].asked
    OBVIOUS
  <1> DEFINE a == attempt[c]
             next == FirstOf(a.left, a.preferred, a.ready)
             failing == IF a.left = {} THEN [a EXCEPT !.stage = "failed", !.tried = @ \cup {m}]
                        ELSE [a EXCEPT !.asked = next, !.left = @ \ {next}, !.tried = @ \cup {m}]
  <1>1. /\ a \in AttemptKind /\ m \in ChainModels /\ a.stage = "asking" /\ m \notin a.tried
        /\ attempt \in [FailoverCalls -> AttemptKind] /\ health \in [ChainModels -> HealthKind]
        /\ halfMinute \in 1..MaxSeconds
    BY <1>0 DEF FailoverInv, AttemptKind, AsksNext, CallInOrder
  <1>2. attempt' = [attempt EXCEPT ![c] = failing]
    BY <1>0 DEF AsksNext
  <1>3. failing.tried = a.tried \cup {m} /\ failing.stage # "new"
    <2> HIDE DEF next
    <2>1. CASE a.left = {}
      BY <1>1, <2>1 DEF AttemptKind
    <2>2. CASE a.left # {}
      BY <1>1, <2>2 DEF AttemptKind
    <2> QED BY <2>1, <2>2
  <1> HIDE DEF failing
  <1>4. /\ \A d \in FailoverCalls : d # c => attempt'[d] = attempt[d]
        /\ attempt'[c].tried = a.tried \cup {m} /\ attempt'[c].stage # "new"
    BY <1>1, <1>2, <1>3
  <1>5. FailedBy(m)' = FailedBy(m) \cup {c} /\ c \notin FailedBy(m)
    BY <1>1, <1>4 DEF FailedBy
  <1>6. \A k \in ChainModels : k # m => FailedBy(k)' = FailedBy(k)
    BY <1>4 DEF FailedBy
  <1>7. Cardinality(FailedBy(m)') = Cardinality(FailedBy(m)) + 1
    <2>1. PICK S : S = FailedBy(m)
      OBVIOUS
    <2>2. IsFiniteSet(S) /\ c \notin S
      BY <1>5, <2>1, CallsAreFinite DEF FailedBy
    <2>3. Cardinality(S \cup {c}) = Cardinality(S) + 1
      BY <2>2, FS_AddElement
    <2> QED BY <1>5, <2>1, <2>3
  <1> DEFINE failures == health[m].failures + 1
             cools == (health[m].lastSuccess = Never \/ halfMinute - health[m].lastSuccess > SuccessWindow) /\ failures % FailThreshold = 0
             until == IF cools THEN halfMinute + Cooldown ELSE health[m].coolsUntil
             new == [health[m] EXCEPT !.failures = failures, !.coolsUntil = until]
  <1>8. health' = [health EXCEPT ![m] = new]
    BY <1>0, <1>1 DEF AsksNext, ModelFails
  <1>9. health[m] \in HealthKind /\ HealthDated(health[m]) /\ health[m].failures = Cardinality(FailedBy(m))
    BY <1>1 DEF HealthInv
  <1>10. until \in {halfMinute + Cooldown, health[m].coolsUntil}
    <2> HIDE DEF cools
    <2> QED OBVIOUS
  <1> HIDE DEF cools, until
  <1>11. new.failures = health[m].failures + 1 /\ new.coolsUntil = until /\ new.lastSuccess = health[m].lastSuccess
    <2> QED BY <1>9 DEF HealthKind
  <1> HIDE DEF new, failures, a
  <1>12. HealthDated(new)
    BY <1>1, <1>9, <1>10, <1>11, FailoverNats DEF HealthDated
  <1>13. new.failures = Cardinality(FailedBy(m)')
    BY <1>7, <1>9, <1>11
  <1>14. \A k \in ChainModels : HealthDated(health'[k]) /\ health'[k].failures = Cardinality(FailedBy(k)')
    <2> TAKE k \in ChainModels
    <2>1. CASE k = m
      BY <2>1, <1>1, <1>8, <1>12, <1>13
    <2>2. CASE k # m
      BY <2>2, <1>1, <1>6, <1>8 DEF HealthInv
    <2> QED BY <2>1, <2>2
  <1>15. \A d \in FailoverCalls : attempt'[d].stage = "new" => attempt'[d].tried = {}
    BY <1>4 DEF HealthInv
  <1>16. \A k \in ChainModels : HealthDated(health[k])' = HealthDated(health'[k])
    BY DEF HealthDated
  <1>17. \A k \in ChainModels : (HealthDated(health[k]) /\ health[k].failures = Cardinality(FailedBy(k)))'
    BY <1>14, <1>16
  <1> QED BY <1>15, <1>17 DEF HealthInv

LEMMA HealthKept == FailoverInv /\ HealthInv /\ [FailoverNext]_failoverVars => HealthInv'
  <1> SUFFICES ASSUME FailoverInv, HealthInv, [FailoverNext]_failoverVars PROVE HealthInv'
    OBVIOUS
  <1>0. ASSUME UNCHANGED <<health, attempt>> PROVE HealthInv'
    BY <1>0 DEF HealthInv, HealthDated, FailedBy
  <1>1. CASE HalfMinutePasses
    BY <1>0, <1>1 DEF HalfMinutePasses
  <1>2. ASSUME NEW m \in ChainModels, Used(m) PROVE HealthInv'
    BY <1>0, <1>2 DEF Used
  <1>3. ASSUME NEW c \in FailoverCalls, ModelAnswers(c) \/ AsksNext(c) \/ \E m \in ChainModels : Begin(c, m) PROVE HealthInv'
    BY <1>3, AnswerKeepsHealth, FailureKeepsHealth, BeginKeepsHealth
  <1>4. CASE UNCHANGED failoverVars
    BY <1>0, <1>4 DEF failoverVars
  <1> QED BY <1>1, <1>2, <1>3, <1>4 DEF FailoverNext

LEMMA FailoverIsTyped == FailoverInv /\ HealthInv => FailoverTypeOK
  <1> SUFFICES ASSUME FailoverInv, HealthInv PROVE FailoverTypeOK
    OBVIOUS
  <1>1. ASSUME NEW m \in ChainModels
        PROVE  health[m] \in [failures : 0..Cardinality(FailoverCalls), coolsUntil : 0..MaxSeconds + Cooldown, lastSuccess : 0..MaxSeconds]
    <2>1. health[m] \in HealthKind /\ HealthDated(health[m]) /\ health[m].failures = Cardinality(FailedBy(m))
      BY DEF FailoverInv, HealthInv
    <2>2. Cardinality(FailedBy(m)) \in Nat /\ Cardinality(FailedBy(m)) <= Cardinality(FailoverCalls) /\ Cardinality(FailoverCalls) \in Nat
      BY CallsAreFinite DEF FailedBy
    <2>3. health[m].failures \in 0..Cardinality(FailoverCalls)
      BY <2>1, <2>2
    <2>4. health[m].coolsUntil \in 0..MaxSeconds + Cooldown /\ health[m].lastSuccess \in 0..MaxSeconds
      BY <2>1, FailoverNats DEF HealthDated, HealthKind
    <2> QED BY <2>1, <2>3, <2>4 DEF HealthKind
  <1>2. health \in [ChainModels -> [failures : 0..Cardinality(FailoverCalls), coolsUntil : 0..MaxSeconds + Cooldown, lastSuccess : 0..MaxSeconds]]
    BY <1>1 DEF FailoverInv
  <1> QED BY <1>2 DEF FailoverInv, FailoverTypeOK, AttemptKind, UseKind
=============================================================================

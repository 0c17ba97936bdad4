----------------------------- MODULE PlatformLink -----------------------------
(* The node's link to the central platform (src/core/platform-link.ts):         *)
(* registration with retries, heartbeats, and the loop that polls for tasks,    *)
(* computes them in a slot and submits the results.  Every await is a state of  *)
(* its operation (registering, beat, poll); between awaits the code runs        *)
(* undisturbed, so the end of an operation and what its caller does next are    *)
(* one action.                                                                  *)
(*                                                                              *)
(* Times are remaining times: a timer counts down to 0 and fires then or later, *)
(* backoff is what is left until taskBackoffUntil.  The intervals of start()    *)
(* (heartbeat and tunnel file) may fire at any time.                            *)
EXTENDS ComputeSlots

CONSTANTS Wakers,     \* the chats that may wake the task loop
          IdlePoll,   \* 30 s in the code
          FastPoll,   \* 5 s in the code: after a task was received
          Backoff,    \* 60, 120, 240, 300 s in the code: after failed polls in a row
          RetryAfter, \* the Retry-After times the platform may ask for, 0 for none
          RetryDelay, \* 1, 2, 4, .. 60 s in the code: between registration attempts
          FailLimit,  \* 5 in the code: failures in a row that end the registration
          MaxRetries, \* bound on retries in flight at once, for TLC
          MaxSyncs,   \* bound on syncRegistration() calls in flight at once, for TLC
          None

ASSUME LinkAssumption ==
    /\ {IdlePoll, FastPoll, FailLimit} \subseteq Nat \ {0}
    /\ {MaxRetries, MaxSyncs} \subseteq Nat
    /\ Backoff \in Seq(Nat \ {0}) /\ Backoff # << >>
    /\ RetryDelay \in Seq(Nat \ {0}) /\ RetryDelay # << >>
    /\ RetryAfter \subseteq Nat /\ 0 \in RetryAfter
    /\ None \notin Nat \cup Wakers

VARIABLES wallet,      \* is a payout address configured?
          registered,
          failCount,   \* failed calls in a row, counted up to FailLimit
          regTimer,    \* remaining time of registrationRetryTimer, or None
          regAttempt,  \* registrationRetryAttempt, counted up to the last delay
          registering, \* [callers -> calls of register() in flight]
          startup,     \* where start() is
          intervals,   \* are heartbeatTimer and tunnelTimer set?
          beat,        \* where the heartbeat in flight is
          enabled,     \* taskLoopEnabled
          taskTimer,   \* remaining time of taskTimer, or None
          nextPoll,    \* nextTaskPollMs
          failures,    \* taskPollFailures, counted up to the last backoff
          backoff,     \* remaining time until taskBackoffUntil
          poll,        \* where the poll in flight is
          waker,       \* the chat that awaits the poll in flight, or None
          stopped,     \* has stop() been called?
          awaited,     \* operations stop() still awaits
          quota,       \* history: remaining time the platform asked to be left alone
          refused      \* history: the calls answered with DEPLOYMENT_DISABLED

regVars == <<wallet, registered, failCount, regTimer, regAttempt, registering, startup>>
beatVars == <<intervals, beat>>
loopVars == <<enabled, taskTimer, nextPoll, failures, backoff, poll, waker, quota>>
stopVars == <<stopped, awaited>>
linkVars == <<regVars, beatVars, loopVars, stopVars, refused>>

Callers == {"start", "retry", "beat", "sync"}
Larger(a, b) == IF a >= b THEN a ELSE b
UpTo(n, limit) == IF n <= limit THEN n ELSE limit

LinkInit ==
    /\ wallet \in BOOLEAN /\ registered = FALSE /\ failCount = 0 /\ regTimer = None /\ regAttempt = 0
    /\ registering = [c \in Callers |-> 0] /\ startup = "no"
    /\ intervals = FALSE /\ beat = "idle"
    /\ enabled = FALSE /\ taskTimer = None /\ nextPoll = IdlePoll /\ failures = 0 /\ backoff = 0
    /\ poll = "idle" /\ waker = None /\ quota = 0
    /\ stopped = FALSE /\ awaited = {} /\ refused = {}
-----------------------------------------------------------------------------
(* register() and its callers.                                                  *)
InFlight(c) == registering[c] > 0

\* What an operation that ended no longer keeps stop() waiting for.
Ended(op) == awaited' = awaited \ {op}

\* Mutant: the delays are a list that may run out.
RegisterFailedFinally(isRegistered) ==
    /\ failCount' = UpTo(failCount + 1, FailLimit)
    /\ IF isRegistered \/ regTimer # None \/ regAttempt = Len(RetryDelay)
       THEN UNCHANGED <<regTimer, regAttempt>>
       ELSE /\ regAttempt' = regAttempt + 1
            /\ regTimer' = RetryDelay[regAttempt']

\* The catch of register(): count and, unless registered, arm the retry timer.
RegisterFailed(isRegistered) ==
    /\ failCount' = UpTo(failCount + 1, FailLimit)
    /\ IF isRegistered \/ regTimer # None
       THEN UNCHANGED <<regTimer, regAttempt>>
       ELSE /\ regAttempt' = UpTo(regAttempt + 1, Len(RetryDelay))
            /\ regTimer' = RetryDelay[regAttempt']

\* What caller c does next when its register() left the link registered or not.
Resumed(c, isRegistered) ==
    /\ startup' = IF c = "start" THEN "done" ELSE startup
    /\ intervals' = (intervals \/ c = "start")
    /\ IF c # "beat"
       THEN UNCHANGED <<beat, awaited>>
       ELSE IF beat # "reregistering" /\ isRegistered
            THEN beat' = "sending" /\ UNCHANGED awaited
            ELSE beat' = "idle" /\ Ended("beat")

Answered(c) == /\ InFlight(c)
               /\ registering' = [registering EXCEPT ![c] = @ - 1]
               /\ UNCHANGED <<wallet, loopVars, stopped, slotVars>>

RegisterSucceeds(c) ==
    /\ Answered(c)
    /\ registered' = TRUE
    /\ failCount' = 0 /\ regTimer' = None /\ regAttempt' = 0
    /\ Resumed(c, TRUE)
    /\ UNCHANGED refused

RegisterFails(c) ==
    /\ Answered(c)
    /\ RegisterFailed(registered)
    /\ Resumed(c, registered)
    /\ UNCHANGED <<registered, refused>>

\* 402 DEPLOYMENT_DISABLED: the node runs on its own, nothing is retried.
RegisterRefused(c) ==
    /\ Answered(c)
    /\ refused' = refused \cup {"register"}
    /\ Resumed(c, registered)
    /\ UNCHANGED <<registered, failCount, regTimer, regAttempt>>

\* start() or a heartbeat calls register(): without a wallet it fails before an await.
Register(c) ==
    IF wallet
    THEN /\ registering' = [registering EXCEPT ![c] = @ + 1]
         /\ startup' = IF c = "start" THEN "registering" ELSE startup
         /\ beat' = IF c = "beat" THEN "registering" ELSE beat
         /\ UNCHANGED <<failCount, regTimer, regAttempt, intervals, awaited>>
    ELSE /\ RegisterFailed(registered)
         /\ Resumed(c, registered)
         /\ UNCHANGED registering

\* start() and startTaskLoop(), one after the other when the server listens.
\* Without a wallet start() waits six seconds for one.
Boot ==
    /\ startup = "no"
    /\ IF wallet THEN Register("start")
       ELSE startup' = "waiting" /\ UNCHANGED <<registering, beat, failCount, regTimer, regAttempt, intervals, awaited>>
    /\ enabled' = TRUE /\ nextPoll' = IdlePoll /\ taskTimer' = IdlePoll
    /\ UNCHANGED <<wallet, registered, failures, backoff, poll, waker, quota, stopped, refused, slotVars>>

StartContinues ==
    /\ startup = "waiting"
    /\ Register("start")
    /\ UNCHANGED <<wallet, registered, loopVars, stopped, refused, slotVars>>

RetryFires ==
    /\ regTimer = 0
    /\ IF wallet
       THEN /\ registering["retry"] < MaxRetries
            /\ registering' = [registering EXCEPT !["retry"] = @ + 1]
            /\ regTimer' = None
            /\ UNCHANGED <<failCount, regAttempt>>
       ELSE /\ failCount' = UpTo(failCount + 1, FailLimit)
            /\ regAttempt' = UpTo(regAttempt + 1, Len(RetryDelay))
            /\ regTimer' = RetryDelay[regAttempt']
            /\ UNCHANGED registering
    /\ UNCHANGED <<wallet, registered, startup, beatVars, loopVars, stopVars, refused, slotVars>>

\* index.ts hands the wallet over once it is loaded.
SetWallet == /\ ~wallet
             /\ wallet' = TRUE
             /\ UNCHANGED <<registered, failCount, regTimer, regAttempt, registering, startup,
                            beatVars, loopVars, stopVars, refused, slotVars>>

\* The operator configures a payout address: it is set and the node registers again.
SyncRegistration ==
    /\ startup # "no"
    /\ registering["sync"] < MaxSyncs
    /\ wallet' = TRUE
    /\ registering' = [registering EXCEPT !["sync"] = @ + 1]
    /\ UNCHANGED <<registered, failCount, regTimer, regAttempt, startup,
                   beatVars, loopVars, stopVars, refused, slotVars>>
-----------------------------------------------------------------------------
(* Heartbeats: runHeartbeat() drops one that comes while another is in flight.  *)
HeartbeatFires ==
    /\ intervals
    /\ beat = "idle"
    /\ IF registered
       THEN /\ beat' = "sending"
            /\ UNCHANGED <<failCount, regTimer, regAttempt, registering, startup, intervals, awaited>>
       ELSE Register("beat")
    /\ UNCHANGED <<wallet, registered, loopVars, stopped, refused, slotVars>>

BeatEnds == beat = "sending" /\ beat' = "idle" /\ Ended("beat")

BeatAnswered ==
    /\ BeatEnds
    /\ failCount' = 0
    /\ UNCHANGED <<wallet, registered, regTimer, regAttempt, registering, startup,
                   intervals, loopVars, stopped, refused, slotVars>>

BeatFails ==
    /\ failCount + 1 < FailLimit
    /\ BeatEnds
    /\ failCount' = failCount + 1
    /\ UNCHANGED <<wallet, registered, regTimer, regAttempt, registering, startup,
                   intervals, loopVars, stopped, refused, slotVars>>

\* One failure too many: the heartbeat goes on to register again.
BeatFailsAgain ==
    /\ failCount + 1 >= FailLimit
    /\ beat = "sending"
    /\ beat' = "reregistering"
    /\ registered' = FALSE
    /\ failCount' = FailLimit
    /\ registering' = [registering EXCEPT !["beat"] = @ + 1]
    /\ UNCHANGED <<wallet, regTimer, regAttempt, startup, intervals, loopVars, stopVars, refused, slotVars>>

\* Mutant: the interval timers are left running.
SuspendPolls == /\ enabled' = FALSE
                /\ taskTimer' = None
                /\ regTimer' = None
                /\ UNCHANGED intervals

\* What stop() does before it waits: every timer it knows of is cleared.
Suspend == /\ enabled' = FALSE
           /\ intervals' = FALSE
           /\ taskTimer' = None
           /\ regTimer' = None

\* Mutant: the heartbeat awaits the stop() that awaits the heartbeat.
BeatRefusedAwaiting ==
    /\ beat = "sending"
    /\ beat' = "stopping" /\ UNCHANGED awaited
    /\ Suspend
    /\ refused' = refused \cup {"heartbeat"}
    /\ UNCHANGED <<wallet, registered, failCount, regAttempt, registering, startup,
                   nextPoll, failures, backoff, poll, waker, quota, stopped, slotVars>>

\* 402 DEPLOYMENT_DISABLED: stop() is called and not awaited, the heartbeat returns.
BeatRefused ==
    /\ BeatEnds
    /\ Suspend
    /\ refused' = refused \cup {"heartbeat"}
    /\ UNCHANGED <<wallet, registered, failCount, regAttempt, registering, startup,
                   nextPoll, failures, backoff, poll, waker, quota, stopped, slotVars>>
-----------------------------------------------------------------------------
(* The task loop.                                                               *)
PollReady == poll = "idle" /\ registered /\ CapacityAvailable

\* Mutant: a stopped loop is scheduled too.
\* scheduleTaskPoll(), with the delay as it is at the end of the step.
ScheduleTaskPoll == taskTimer' = IF enabled THEN nextPoll' ELSE taskTimer

\* runTaskPoll() for a timer (None) or a chat: a poll starts or it returns at once
\* and the next one is scheduled.
RunTaskPoll(c) ==
    /\ IF PollReady
       THEN poll' = "polling" /\ waker' = c /\ taskTimer' = None /\ UNCHANGED nextPoll
       ELSE UNCHANGED <<poll, waker, nextPoll>> /\ ScheduleTaskPoll
    /\ UNCHANGED <<enabled, failures, backoff, quota>>

TimerFires ==
    /\ taskTimer = 0
    /\ RunTaskPoll(None)
    /\ UNCHANGED <<regVars, beatVars, stopVars, refused, slotVars>>

\* Mutant: a chat wakes the loop whatever the platform asked for.
WakeAlways == enabled

WakeAllowed == enabled /\ backoff = 0

\* wakeTaskLoop(), the loop's part.
Wake(c) ==
    /\ IF WakeAllowed THEN RunTaskPoll(c) ELSE UNCHANGED loopVars
    /\ UNCHANGED <<regVars, beatVars, stopVars, refused, slotVars>>

\* Mutant: the next poll is scheduled by timers only.
PollOverUnlessWoken ==
    /\ poll' = "idle"
    /\ waker' = None
    /\ IF waker = None THEN ScheduleTaskPoll ELSE UNCHANGED taskTimer
    /\ Ended("poll")
    /\ UNCHANGED <<enabled, regVars, beatVars, stopped, refused>>

\* pollAndProcess() returns: its caller schedules the next poll.
PollOver == /\ poll' = "idle"
            /\ waker' = None
            /\ ScheduleTaskPoll
            /\ Ended("poll")
            /\ UNCHANGED <<enabled, regVars, beatVars, stopped, refused>>

\* The catch of pollAndProcess() outside inference, after `before` failures in a
\* row and with `base` left of the backoff.
BackOff(before, base) ==
    /\ failures' = UpTo(before + 1, Len(Backoff))
    /\ nextPoll' = Larger(Backoff[failures'], base)
    /\ backoff' = nextPoll'

\* The catch of pollAndProcess() during inference: no backoff.
InferenceFailed == nextPoll' = IdlePoll /\ backoff' = 0

\* An error, a timeout, or a 429 or 5xx that asks to wait r.
PollFails(r) ==
    /\ poll = "polling"
    /\ BackOff(failures, IF r > 0 THEN r ELSE backoff)
    /\ PollOver
    /\ quota' = r
    /\ UNCHANGED slotVars

PollEmpty ==
    /\ poll = "polling"
    /\ failures' = 0 /\ nextPoll' = IdlePoll
    /\ PollOver
    /\ UNCHANGED <<backoff, quota, slotVars>>

\* The task names no usable model or has no prompt.
TaskInvalid ==
    /\ poll = "polling"
    /\ BackOff(0, backoff)
    /\ PollOver
    /\ UNCHANGED <<quota, slotVars>>

TaskStarts ==
    /\ poll = "polling"
    /\ TakeSlot
    /\ poll' = "computing"
    /\ failures' = 0 /\ nextPoll' = FastPoll
    /\ UNCHANGED <<enabled, taskTimer, backoff, waker, quota, regVars, beatVars, stopVars, refused>>

\* The task was claimed but every slot is taken: ComputeCapacityError.
TaskDropped ==
    /\ poll = "polling"
    /\ ~CapacityAvailable
    /\ failures' = 0
    /\ InferenceFailed
    /\ PollOver
    /\ UNCHANGED <<quota, slotVars>>

TaskComputed ==
    /\ poll = "computing"
    /\ FreeSlot
    /\ poll' = "completing"
    /\ UNCHANGED <<enabled, taskTimer, nextPoll, failures, backoff, waker, quota,
                   regVars, beatVars, stopVars, refused>>

\* Mutant: the slot is given back on success only.
TaskFailsHolding ==
    /\ poll = "computing"
    /\ InferenceFailed
    /\ PollOver
    /\ UNCHANGED <<failures, quota, slotVars>>

\* Also: another model answered, or nothing.
TaskFails ==
    /\ poll = "computing"
    /\ FreeSlot
    /\ InferenceFailed
    /\ PollOver
    /\ UNCHANGED <<failures, quota>>

CompletionAccepted ==
    /\ poll = "completing"
    /\ UNCHANGED <<nextPoll, failures, backoff, quota, slotVars>>
    /\ PollOver

CompletionFails ==
    /\ poll = "completing"
    /\ BackOff(failures, backoff)
    /\ PollOver
    /\ UNCHANGED <<quota, slotVars>>
-----------------------------------------------------------------------------
\* stop(), awaited by the shutdown of the gateway, which follows its start.
Stop ==
    /\ startup # "no"
    /\ ~stopped
    /\ stopped' = TRUE
    /\ Suspend
    /\ awaited' = {op \in {"beat", "poll"} :
                      \/ op = "beat" /\ beat # "idle"
                      \/ op = "poll" /\ poll # "idle"}
    /\ UNCHANGED <<wallet, registered, failCount, regAttempt, registering, startup, beat,
                   nextPoll, failures, backoff, poll, waker, quota, refused, slotVars>>

Less(t) == IF t = None \/ t = 0 THEN t ELSE t - 1

Tick ==
    /\ \E t \in {regTimer, taskTimer, backoff, quota} : t # None /\ t # 0
    /\ regTimer' = Less(regTimer) /\ taskTimer' = Less(taskTimer)
    /\ backoff' = Less(backoff) /\ quota' = Less(quota)
    /\ UNCHANGED <<wallet, registered, failCount, regAttempt, registering, startup, beatVars,
                   enabled, nextPoll, failures, poll, waker, stopVars, refused, slotVars>>

\* The platform's answer to the poll in flight, and Ollama's to the task in a slot.
PollAnswered == PollEmpty \/ TaskInvalid \/ TaskStarts \/ TaskDropped \/ \E r \in RetryAfter : PollFails(r)
TaskEnds == TaskComputed \/ TaskFails
CompletionAnswered == CompletionAccepted \/ CompletionFails

RegisterAnswered(c) == RegisterSucceeds(c) \/ RegisterFails(c) \/ RegisterRefused(c)
BeatDone == BeatAnswered \/ BeatFails \/ BeatFailsAgain \/ BeatRefused

LinkNext ==
    \/ Boot \/ StartContinues \/ RetryFires \/ SetWallet \/ SyncRegistration
    \/ \E c \in Callers : RegisterAnswered(c)
    \/ HeartbeatFires \/ BeatDone
    \/ TimerFires \/ PollAnswered \/ TaskEnds \/ CompletionAnswered
    \/ Stop \/ Tick

-----------------------------------------------------------------------------
RegistrationTypeOK ==
    /\ wallet \in BOOLEAN /\ registered \in BOOLEAN /\ failCount \in 0 .. FailLimit
    /\ regTimer \in Nat \cup {None} /\ regAttempt \in 0 .. Len(RetryDelay)
    /\ registering \in [Callers -> Nat]
    /\ startup \in {"no", "waiting", "registering", "done"}
    /\ intervals \in BOOLEAN /\ beat \in {"idle", "registering", "sending", "reregistering"}
    /\ stopped \in BOOLEAN /\ awaited \subseteq {"beat", "poll"}
    /\ refused \subseteq {"register", "heartbeat"}

LoopTypeOK ==
    /\ enabled \in BOOLEAN /\ taskTimer \in Nat \cup {None} /\ nextPoll \in Nat \ {0}
    /\ failures \in 0 .. Len(Backoff) /\ backoff \in Nat /\ quota \in Nat
    /\ poll \in {"idle", "polling", "computing", "completing"} /\ waker \in Wakers \cup {None}

TypeOK == RegistrationTypeOK /\ LoopTypeOK /\ SlotsTypeOK

\* The task loop cannot die: while it is enabled its timer is set or a poll is in
\* flight whose end sets it.  Wake-ups clear the timer, polls end in eight ways.
LoopAlive == enabled => taskTimer # None \/ poll # "idle"

\* While the platform has asked to be left alone (Retry-After) no poll is sent and
\* no timer is due earlier, however often chats wake the loop.
QuotaRespected ==
    quota > 0 => /\ poll # "polling"
                 /\ quota <= backoff
                 /\ taskTimer # None => quota <= taskTimer

\* A link that started, is not registered and was neither stopped nor told to stay
\* away has an attempt in flight or ahead of it.
RegistrationPending ==
    (startup # "no" /\ ~registered /\ ~stopped /\ refused = {}) =>
        \/ regTimer # None
        \/ startup = "waiting"
        \/ \E c \in Callers : InFlight(c)

\* A link has its next step scheduled or in flight as long as it is meant to work:
\* the registration until it succeeds, the task loop from then on.
StaysScheduled == RegistrationPending /\ LoopAlive

Suspended == stopped \/ "heartbeat" \in refused

\* Nothing asks for work any more after stop(), nor after a heartbeat was answered
\* with DEPLOYMENT_DISABLED: no timer, no chat and no end of a poll revives the loop.
NoPollOnceSuspended == [][Suspended /\ poll = "idle" => poll' = "idle"]_poll

\* "heartbeats suspended": after that answer no interval sends another one, until
\* the process restarts.
BeatsSuspended == []["heartbeat" \in refused /\ beat = "idle" => beat' = "idle"]_beat

\* A link that was told to be silent is: no poll and no heartbeat starts again.
SuspendedIsSilent == NoPollOnceSuspended /\ BeatsSuspended

\* stop() returns: it awaits the heartbeat and the poll in flight, which never await
\* it in turn.
StopReturns == stopped ~> awaited = {}
=============================================================================

-------------------------- MODULE ComputeNodeProofs ---------------------------
(* The task loop does not die, respects the platform's quota and ends with      *)
(* stop(), registration is kept up and no slot is lost: for every capacity,     *)
(* number of chats, table of delays and Retry-After.                            *)
EXTENDS ComputeNode, FiniteSetTheorems, TLAPS

\* While a poll is in flight there is no quota, and no timer undercuts it.
Quiet == /\ quota <= backoff
         /\ poll # "idle" => quota = 0
         /\ taskTimer # None => quota <= taskTimer

\* What the task loop keeps to itself.
LoopInv == LoopTypeOK /\ LoopAlive /\ Quiet /\ (~enabled => taskTimer = None)

\* What registration and heartbeats keep to themselves: the calls in flight are those
\* of start() and of the heartbeat, only a link that started beats, and after
\* DEPLOYMENT_DISABLED its intervals are gone.
CallsCounted ==
    /\ registering["beat"] = IF beat \in {"registering", "reregistering"} THEN 1 ELSE 0
    /\ registering["start"] = IF startup = "registering" THEN 1 ELSE 0

BeatsStarted == /\ beat # "idle" \/ intervals => startup = "done"
                /\ "heartbeat" \in refused => startup = "done" /\ ~intervals

RegistrationInv == /\ RegistrationTypeOK
                   /\ RegistrationPending
                   /\ CallsCounted
                   /\ BeatsStarted
                   /\ stopped => startup # "no"

\* A suspended link has left its loop.
LoopLeft == Suspended => ~enabled

\* Before the start nothing is polled.
NotStarted == startup = "no" => ~enabled /\ poll = "idle" /\ quota = 0

LinkInv == RegistrationInv /\ LoopInv /\ LoopLeft /\ NotStarted
-----------------------------------------------------------------------------
LEMMA DelaysTyped ==
  /\ \A n \in Nat : UpTo(n + 1, Len(RetryDelay)) \in 1 .. Len(RetryDelay)
  /\ \A n \in Nat : UpTo(n + 1, Len(Backoff)) \in 1 .. Len(Backoff)
  /\ \A n \in Nat : UpTo(n + 1, FailLimit) \in 0 .. FailLimit
  /\ \A i \in 1 .. Len(RetryDelay) : RetryDelay[i] \in Nat \ {0}
  /\ \A i \in 1 .. Len(Backoff) : Backoff[i] \in Nat \ {0}
  /\ None \notin Nat
  <1>1. Len(RetryDelay) \in Nat \ {0} /\ Len(Backoff) \in Nat \ {0} /\ FailLimit \in Nat \ {0}
    BY LinkAssumption
  <1> QED BY <1>1, LinkAssumption DEF UpTo

\* A step that leaves the variables of the loop alone keeps what it keeps.
LEMMA LoopFrame == ASSUME LoopInv, UNCHANGED loopVars PROVE LoopInv'
  BY DEF LoopInv, LoopTypeOK, LoopAlive, Quiet, loopVars

\* Likewise for registration; fewer operations may be awaited.
LEMMA RegistrationFrame ==
  ASSUME RegistrationInv, UNCHANGED <<regVars, beatVars, stopped, refused>>, awaited' \subseteq awaited
  PROVE  RegistrationInv'
  BY DEF RegistrationInv, RegistrationTypeOK, RegistrationPending, CallsCounted, BeatsStarted, InFlight, regVars, beatVars
-----------------------------------------------------------------------------
(* Registration.                                                                *)

\* A failure leaves the link registered or with a timer.
LEMMA RegisterFailedArms ==
  ASSUME RegistrationTypeOK, NEW isRegistered \in BOOLEAN, RegisterFailed(isRegistered)
  PROVE  /\ failCount' \in 0 .. FailLimit
         /\ regTimer' \in Nat \cup {None} /\ regAttempt' \in 0 .. Len(RetryDelay)
         /\ isRegistered \/ regTimer' # None
  <1>1. failCount \in Nat /\ regAttempt \in Nat /\ Len(RetryDelay) \in Nat
    BY LinkAssumption DEF RegistrationTypeOK
  <1>2. failCount' \in 0 .. FailLimit
    BY <1>1, DelaysTyped DEF RegisterFailed
  <1>3. CASE isRegistered \/ regTimer # None
    BY <1>2, <1>3 DEF RegisterFailed, RegistrationTypeOK
  <1>4. CASE ~(isRegistered \/ regTimer # None)
    <2>1. regAttempt' = UpTo(regAttempt + 1, Len(RetryDelay)) /\ regTimer' = RetryDelay[regAttempt']
      BY <1>4 DEF RegisterFailed
    <2>2. regAttempt' \in 1 .. Len(RetryDelay)
      BY <1>1, <2>1, DelaysTyped
    <2>3. regTimer' \in Nat /\ regTimer' # None
      BY <2>1, <2>2, DelaysTyped
    <2> QED BY <1>1, <1>2, <2>2, <2>3
  <1> QED BY <1>3, <1>4

\* One call less in flight, and its caller has moved on.
LEMMA AnsweredCounted ==
  ASSUME RegistrationInv, NEW c \in Callers, NEW isRegistered \in BOOLEAN,
         Answered(c), Resumed(c, isRegistered), refused \subseteq refused',
         "heartbeat" \in refused' => "heartbeat" \in refused
  PROVE  /\ registering' \in [Callers -> Nat]
         /\ startup' \in {"no", "waiting", "registering", "done"}
         /\ intervals' \in BOOLEAN
         /\ beat' \in {"idle", "registering", "sending", "reregistering"}
         /\ awaited' \subseteq {"beat", "poll"}
         /\ CallsCounted' /\ BeatsStarted'
         /\ stopped' => startup' # "no"
         /\ startup' # "no" => startup # "no"
         /\ startup' = "waiting" <=> startup = "waiting"
         /\ \A d \in Callers \ {c} : registering'[d] = registering[d]
  <1>1. registering[c] - 1 \in Nat
    BY DEF Answered, InFlight, RegistrationInv, RegistrationTypeOK
  <1>2. registering' \in [Callers -> Nat] /\ registering'[c] = registering[c] - 1
    BY <1>1 DEF Answered, RegistrationInv, RegistrationTypeOK
  <1>3. \A d \in Callers \ {c} : registering'[d] = registering[d]
    BY DEF Answered, RegistrationInv, RegistrationTypeOK
  <1>4. c = "start" => startup = "registering"
    BY DEF Answered, InFlight, RegistrationInv, CallsCounted
  <1>5. c = "beat" => beat \in {"registering", "reregistering"}
    BY DEF Answered, InFlight, RegistrationInv, CallsCounted
  <1>6. /\ startup' \in {"no", "waiting", "registering", "done"}
        /\ intervals' \in BOOLEAN
        /\ beat' \in {"idle", "registering", "sending", "reregistering"}
        /\ awaited' \subseteq {"beat", "poll"}
    BY DEF Resumed, RegistrationInv, RegistrationTypeOK, Ended
  <1>7. CallsCounted'
    <2>1. registering'["start"] = IF startup' = "registering" THEN 1 ELSE 0
      BY <1>2, <1>3, <1>4 DEF Resumed, RegistrationInv, CallsCounted, Callers
    <2>2. registering'["beat"] = IF beat' \in {"registering", "reregistering"} THEN 1 ELSE 0
      BY <1>2, <1>3, <1>5 DEF Resumed, RegistrationInv, CallsCounted, Callers
    <2> QED BY <2>1, <2>2 DEF CallsCounted
  <1>8. BeatsStarted'
    BY <1>4, <1>5 DEF Resumed, RegistrationInv, BeatsStarted
  <1>9. (stopped' => startup' # "no") /\ (startup' # "no" => startup # "no")
    BY <1>4 DEF Resumed, RegistrationInv, Answered
  <1>10. startup' = "waiting" <=> startup = "waiting"
    BY <1>4 DEF Resumed
  <1> QED BY <1>2, <1>3, <1>6, <1>7, <1>8, <1>9, <1>10

LEMMA RegisterAnsweredInv ==
  ASSUME RegistrationInv, NEW c \in Callers, RegisterAnswered(c)
  PROVE  RegistrationInv'
  <1>0. Answered(c) /\ wallet' = wallet /\ stopped' = stopped /\ wallet \in BOOLEAN
          /\ refused \subseteq {"register", "heartbeat"} /\ stopped \in BOOLEAN /\ registered \in BOOLEAN
    BY DEF RegisterAnswered, RegisterSucceeds, RegisterFails, RegisterRefused, Answered,
           RegistrationInv, RegistrationTypeOK
  <1>1. CASE RegisterSucceeds(c)
    <2>1. Resumed(c, TRUE) /\ refused' = refused /\ registered' /\ registered' = TRUE
            /\ failCount' = 0 /\ regTimer' = None /\ regAttempt' = 0
      BY <1>1 DEF RegisterSucceeds
    <2>2. FailLimit \in Nat /\ Len(RetryDelay) \in Nat
      BY LinkAssumption
    <2>3. registered' \in BOOLEAN
      BY <2>1
    <2>4. 0 \in 0 .. FailLimit /\ 0 \in 0 .. Len(RetryDelay)
      BY <2>2
    <2>5. Resumed(c, TRUE) /\ TRUE \in BOOLEAN
      BY <2>1
    <2>6. /\ registering' \in [Callers -> Nat]
          /\ startup' \in {"no", "waiting", "registering", "done"}
          /\ intervals' \in BOOLEAN
          /\ beat' \in {"idle", "registering", "sending", "reregistering"}
          /\ awaited' \subseteq {"beat", "poll"}
          /\ CallsCounted' /\ BeatsStarted'
          /\ stopped' => startup' # "no"
      BY <1>0, <2>1, <2>5, AnsweredCounted
    <2>7. RegistrationTypeOK'
      BY <1>0, <2>1, <2>3, <2>4, <2>6 DEF RegistrationInv, RegistrationTypeOK
    <2> QED BY <2>1, <2>6, <2>7 DEF RegistrationInv, RegistrationPending
  <1>2. CASE RegisterFails(c)
    <2>1. Resumed(c, registered) /\ refused' = refused /\ registered' = registered /\ RegisterFailed(registered)
      BY <1>2 DEF RegisterFails
    <2>2. registered' \/ regTimer' # None
      BY <1>0, <2>1, RegisterFailedArms DEF RegistrationInv
    <2>3. RegistrationTypeOK'
      BY <1>0, <2>1, AnsweredCounted, RegisterFailedArms DEF RegistrationInv, RegistrationTypeOK
    <2> QED BY <1>0, <2>1, <2>2, <2>3, AnsweredCounted DEF RegistrationInv, RegistrationPending
  <1>3. CASE RegisterRefused(c)
    <2>1. Resumed(c, registered) /\ refused' = refused \cup {"register"}
            /\ UNCHANGED <<registered, failCount, regTimer, regAttempt>>
      BY <1>3 DEF RegisterRefused
    <2>2. RegistrationTypeOK'
      BY <1>0, <2>1, AnsweredCounted DEF RegistrationInv, RegistrationTypeOK
    <2> QED BY <1>0, <2>1, <2>2, AnsweredCounted DEF RegistrationInv, RegistrationPending
  <1> QED BY <1>1, <1>2, <1>3 DEF RegisterAnswered

\* register() called by start() or by a heartbeat.
LEMMA RegisterCalled ==
  ASSUME RegistrationInv, NEW c \in {"start", "beat"}, Register(c),
         UNCHANGED <<wallet, registered, stopped, refused>>,
         c = "start" => startup \in {"no", "waiting"},
         c = "beat" => beat = "idle" /\ intervals
  PROVE  RegistrationInv'
  <1> USE DEF RegistrationInv
  <1>1. CASE wallet
    <2>1. /\ registering' = [registering EXCEPT ![c] = registering[c] + 1]
          /\ startup' = IF c = "start" THEN "registering" ELSE startup
          /\ beat' = IF c = "beat" THEN "registering" ELSE beat
          /\ UNCHANGED <<failCount, regTimer, regAttempt, intervals, awaited>>
      BY <1>1 DEF Register
    <2>2. /\ registering \in [Callers -> Nat] /\ c \in Callers
          /\ registering["start"] \in Nat /\ registering["beat"] \in Nat
      BY DEF RegistrationTypeOK, Callers
    <2>3. registering' \in [Callers -> Nat] /\ registering'[c] = registering[c] + 1
            /\ \A d \in Callers \ {c} : registering'[d] = registering[d]
      BY <2>1, <2>2
    <2>4. RegistrationTypeOK'
      BY <2>1, <2>3 DEF RegistrationTypeOK
    <2>5. CallsCounted'
      BY <2>1, <2>2, <2>3 DEF CallsCounted, Callers
    <2>6. BeatsStarted'
      BY <2>1 DEF BeatsStarted
    <2>7. RegistrationPending'
      <3>1. registering'[c] > 0
        BY <2>2, <2>3
      <3> QED BY <2>2, <3>1 DEF RegistrationPending, InFlight
    <2> QED BY <2>1, <2>4, <2>5, <2>6, <2>7
  <1>2. CASE ~wallet
    <2>1. RegisterFailed(registered) /\ Resumed(c, registered) /\ UNCHANGED registering
      BY <1>2 DEF Register
    <2>2. registered \in BOOLEAN
      BY DEF RegistrationTypeOK
    <2>3. registered' \/ regTimer' # None
      BY <2>1, <2>2, RegisterFailedArms
    <2>4. RegistrationTypeOK'
      BY <2>1, <2>2, RegisterFailedArms DEF RegistrationTypeOK, Resumed, Ended
    <2>5. CallsCounted'
      BY <2>1 DEF CallsCounted, Resumed
    <2>6. BeatsStarted'
      BY <2>1 DEF BeatsStarted, Resumed
    <2> QED BY <2>1, <2>3, <2>4, <2>5, <2>6 DEF RegistrationPending, Resumed
  <1> QED BY <1>1, <1>2

\* Every step of registration and heartbeat but the refused heartbeat.
RegistrationStep ==
    \/ StartContinues \/ RetryFires \/ SetWallet \/ SyncRegistration
    \/ \E c \in Callers : RegisterAnswered(c)
    \/ HeartbeatFires \/ BeatAnswered \/ BeatFails \/ BeatFailsAgain

LEMMA RegistrationStepInv ==
  ASSUME RegistrationInv, RegistrationStep
  PROVE  RegistrationInv'
  <1> USE DEF RegistrationInv
  <1>0. /\ registering \in [Callers -> Nat] /\ \A c \in Callers : registering[c] \in Nat
        /\ failCount \in Nat /\ FailLimit \in Nat \ {0} /\ None \notin Nat
    BY LinkAssumption DEF RegistrationTypeOK
  <1>1. CASE StartContinues
    BY <1>1, RegisterCalled DEF StartContinues
  <1>2. CASE RetryFires
    <2>1. CASE wallet
      <3>1. registering' = [registering EXCEPT !["retry"] = registering["retry"] + 1] /\ regTimer' = None
              /\ UNCHANGED <<wallet, registered, failCount, regAttempt, startup, beatVars, stopVars, refused>>
        BY <1>2, <2>1 DEF RetryFires
      <3>2. registering' \in [Callers -> Nat] /\ registering'["retry"] > 0
              /\ \A d \in Callers \ {"retry"} : registering'[d] = registering[d]
        BY <1>0, <3>1 DEF Callers
      <3>3. RegistrationTypeOK'
        BY <3>1, <3>2 DEF RegistrationTypeOK, beatVars, stopVars
      <3>4. CallsCounted' /\ BeatsStarted'
        BY <3>1, <3>2 DEF CallsCounted, BeatsStarted, Callers, beatVars
      <3>5. RegistrationPending'
        BY <3>2 DEF RegistrationPending, InFlight, Callers
      <3> QED BY <3>1, <3>3, <3>4, <3>5 DEF stopVars
    <2>2. CASE ~wallet
      <3>1. /\ failCount' = UpTo(failCount + 1, FailLimit)
            /\ regAttempt' = UpTo(regAttempt + 1, Len(RetryDelay))
            /\ regTimer' = RetryDelay[regAttempt']
            /\ UNCHANGED <<registering, wallet, registered, startup, beatVars, stopVars, refused>>
        BY <1>2, <2>2 DEF RetryFires
      <3>2. regAttempt \in Nat
        BY DEF RegistrationTypeOK
      <3>3. /\ failCount' \in 0 .. FailLimit /\ regAttempt' \in 1 .. Len(RetryDelay)
            /\ regTimer' \in Nat /\ regTimer' # None
        BY <1>0, <3>1, <3>2, DelaysTyped
      <3>4. regAttempt' \in 0 .. Len(RetryDelay)
        BY <3>3, LinkAssumption
      <3>5. RegistrationTypeOK'
        BY <3>1, <3>3, <3>4 DEF RegistrationTypeOK, beatVars, stopVars
      <3> QED BY <3>1, <3>3, <3>5 DEF RegistrationPending, CallsCounted, BeatsStarted, beatVars, stopVars
    <2> QED BY <2>1, <2>2
  <1>3. CASE SetWallet
    BY <1>3 DEF SetWallet, RegistrationTypeOK, RegistrationPending, InFlight, CallsCounted, BeatsStarted,
                beatVars, stopVars
  <1>4. CASE SyncRegistration
    <2>1. /\ wallet' = TRUE /\ registering' = [registering EXCEPT !["sync"] = registering["sync"] + 1]
          /\ UNCHANGED <<registered, failCount, regTimer, regAttempt, startup, beatVars, stopVars, refused>>
      BY <1>4 DEF SyncRegistration
    <2>2. registering' \in [Callers -> Nat] /\ registering'["sync"] > 0
            /\ \A d \in Callers \ {"sync"} : registering'[d] = registering[d]
      BY <1>0, <2>1 DEF Callers
    <2>3. RegistrationTypeOK'
      BY <2>1, <2>2 DEF RegistrationTypeOK, beatVars, stopVars
    <2>4. CallsCounted' /\ BeatsStarted'
      BY <2>1, <2>2 DEF CallsCounted, BeatsStarted, Callers, beatVars
    <2>5. RegistrationPending'
      BY <2>2 DEF RegistrationPending, InFlight, Callers
    <2> QED BY <2>1, <2>3, <2>4, <2>5 DEF stopVars
  <1>5. CASE \E c \in Callers : RegisterAnswered(c)
    BY <1>5, RegisterAnsweredInv
  <1>6. CASE HeartbeatFires
    <2>1. CASE registered
      <3>1. intervals /\ beat' = "sending" /\ UNCHANGED <<regVars, intervals, stopVars, refused>>
        BY <1>6, <2>1 DEF HeartbeatFires, regVars, stopVars
      <3>2. RegistrationTypeOK'
        BY <3>1 DEF RegistrationTypeOK, regVars, stopVars
      <3>3. CallsCounted' /\ BeatsStarted'
        BY <1>6, <3>1 DEF HeartbeatFires, CallsCounted, BeatsStarted, regVars
      <3> QED BY <2>1, <3>1, <3>2, <3>3 DEF RegistrationPending, regVars, stopVars
    <2>2. CASE ~registered
      BY <1>6, <2>2, RegisterCalled DEF HeartbeatFires
    <2> QED BY <2>1, <2>2
  <1>7. CASE BeatAnswered \/ BeatFails
    <2>1. /\ beat = "sending" /\ beat' = "idle" /\ awaited' \subseteq awaited
          /\ failCount' \in 0 .. FailLimit
          /\ UNCHANGED <<wallet, registered, regTimer, regAttempt, registering, startup,
                         intervals, stopped, refused>>
      BY <1>0, <1>7 DEF BeatAnswered, BeatFails, BeatEnds, Ended
    <2>2. RegistrationTypeOK'
      BY <2>1 DEF RegistrationTypeOK
    <2>3. CallsCounted' /\ BeatsStarted'
      BY <2>1 DEF CallsCounted, BeatsStarted
    <2> QED BY <2>1, <2>2, <2>3 DEF RegistrationPending, InFlight
  <1>8. CASE BeatFailsAgain
    <2>1. /\ beat = "sending" /\ beat' = "reregistering" /\ registered' = FALSE /\ failCount' = FailLimit
          /\ registering' = [registering EXCEPT !["beat"] = registering["beat"] + 1]
          /\ UNCHANGED <<wallet, regTimer, regAttempt, startup, intervals, stopVars, refused>>
      BY <1>8 DEF BeatFailsAgain
    <2>2. registering' \in [Callers -> Nat] /\ registering'["beat"] = registering["beat"] + 1
            /\ registering["beat"] \in Nat
            /\ \A d \in Callers \ {"beat"} : registering'[d] = registering[d]
      BY <1>0, <2>1 DEF Callers
    <2>0. registered' \in BOOLEAN
      BY <2>1
    <2>7. failCount' \in 0 .. FailLimit
      BY <1>0, <2>1
    <2>3. RegistrationTypeOK'
      <3>1. beat' \in {"idle", "registering", "sending", "reregistering"}
              /\ UNCHANGED <<wallet, regTimer, regAttempt, startup, intervals, stopped, awaited, refused>>
        BY <2>1 DEF stopVars
      <3> QED BY <2>0, <2>2, <2>7, <3>1 DEF RegistrationTypeOK
    <2>4. CallsCounted'
      BY <2>1, <2>2 DEF CallsCounted, Callers
    <2>5. BeatsStarted'
      BY <2>1 DEF BeatsStarted
    <2>6. RegistrationPending'
      <3>1. registering'["beat"] > 0
        BY <2>2
      <3> QED BY <3>1 DEF RegistrationPending, InFlight, Callers
    <2> QED BY <2>1, <2>3, <2>4, <2>5, <2>6 DEF stopVars
  <1> QED BY <1>1, <1>2, <1>3, <1>4, <1>5, <1>6, <1>7, <1>8 DEF RegistrationStep

\* Such a step suspends nothing and does not undo the start.
LEMMA RegistrationStepKeeps ==
  ASSUME RegistrationInv, RegistrationStep
  PROVE  UNCHANGED <<loopVars, stopped>> /\ (Suspended' => Suspended) /\ (startup' = "no" => startup = "no")
  <1>1. UNCHANGED <<loopVars, stopped>>
    <2>1. ASSUME NEW c \in Callers, RegisterAnswered(c) PROVE UNCHANGED <<loopVars, stopped>>
      BY <2>1 DEF RegisterAnswered, RegisterSucceeds, RegisterFails, RegisterRefused, Answered
    <2>2. StartContinues \/ HeartbeatFires => UNCHANGED <<loopVars, stopped>>
      BY DEF StartContinues, HeartbeatFires
    <2>3. RetryFires \/ SetWallet \/ SyncRegistration => UNCHANGED <<loopVars, stopped>>
      BY DEF RetryFires, SetWallet, SyncRegistration, stopVars
    <2>4. BeatAnswered \/ BeatFails \/ BeatFailsAgain => UNCHANGED <<loopVars, stopped>>
      BY DEF BeatAnswered, BeatFails, BeatFailsAgain, stopVars
    <2> QED BY <2>1, <2>2, <2>3, <2>4 DEF RegistrationStep
  <1>2. "heartbeat" \in refused' => "heartbeat" \in refused
    <2>1. \A c \in Callers : RegisterAnswered(c) => refused' \in {refused, refused \cup {"register"}}
      BY DEF RegisterAnswered, RegisterSucceeds, RegisterFails, RegisterRefused
    <2>2. StartContinues \/ HeartbeatFires \/ RetryFires \/ SetWallet \/ SyncRegistration => refused' = refused
      BY DEF StartContinues, HeartbeatFires, RetryFires, SetWallet, SyncRegistration
    <2>3. BeatAnswered \/ BeatFails \/ BeatFailsAgain => refused' = refused
      BY DEF BeatAnswered, BeatFails, BeatFailsAgain
    <2> QED BY <2>1, <2>2, <2>3 DEF RegistrationStep
  <1>3. startup' = "no" => startup = "no"
    <2>1. \A c, r : Resumed(c, r) => startup' \in {startup, "done"}
      BY DEF Resumed
    <2>2. \A c : Register(c) => startup' \in {startup, "done", "registering"}
      BY <2>1 DEF Register
    <2>3. \A c \in Callers : RegisterAnswered(c) => startup' \in {startup, "done"}
      BY <2>1 DEF RegisterAnswered, RegisterSucceeds, RegisterFails, RegisterRefused
    <2>4. StartContinues \/ HeartbeatFires => startup' \in {startup, "done", "registering"}
      BY <2>2 DEF StartContinues, HeartbeatFires
    <2>5. RetryFires \/ SetWallet \/ SyncRegistration \/ BeatAnswered \/ BeatFails \/ BeatFailsAgain
            => startup' = startup
      BY DEF RetryFires, SetWallet, SyncRegistration, BeatAnswered, BeatFails, BeatFailsAgain
    <2> QED BY <2>3, <2>4, <2>5 DEF RegistrationStep
  <1> QED BY <1>1, <1>2, <1>3 DEF Suspended
-----------------------------------------------------------------------------
(* The task loop.                                                               *)

\* A poll that ends without quota schedules the next one.
LEMMA PollOverInv ==
  ASSUME LoopInv, PollOver, quota' \in Nat, quota' <= backoff', quota' <= nextPoll',
         nextPoll' \in Nat \ {0}, backoff' \in Nat, failures' \in 0 .. Len(Backoff)
  PROVE  LoopInv'
  <1>1. /\ poll' = "idle" /\ waker' = None /\ enabled' = enabled
        /\ taskTimer' = IF enabled THEN nextPoll' ELSE taskTimer
    BY DEF PollOver, ScheduleTaskPoll
  <1>2. taskTimer' \in Nat \cup {None} /\ (enabled => taskTimer' # None) /\ (~enabled => taskTimer' = None)
    BY <1>1, DelaysTyped DEF LoopInv
  <1>3. taskTimer' # None => quota' <= taskTimer'
    BY <1>1, <1>2 DEF LoopInv
  <1>4. LoopTypeOK'
    BY <1>1, <1>2 DEF LoopInv, LoopTypeOK
  <1> QED BY <1>1, <1>2, <1>3, <1>4 DEF LoopInv, LoopAlive, Quiet

LEMMA BackOffTyped ==
  ASSUME NEW before \in Nat, NEW base \in Nat, BackOff(before, base)
  PROVE  /\ failures' \in 0 .. Len(Backoff)
         /\ nextPoll' \in Nat \ {0} /\ backoff' = nextPoll' /\ base <= nextPoll'
  <1>1. failures' \in 1 .. Len(Backoff) /\ Len(Backoff) \in Nat
    BY DelaysTyped, LinkAssumption DEF BackOff
  <1>2. Backoff[failures'] \in Nat \ {0}
    BY <1>1, DelaysTyped
  <1> QED BY <1>1, <1>2 DEF BackOff, Larger

\* A timer or a chat that asks for a poll when the platform asked for no quiet.
LEMMA RunTaskPollInv ==
  ASSUME LoopInv, enabled, quota = 0, NEW c \in Wakers \cup {None}, RunTaskPoll(c)
  PROVE  LoopInv'
  <1>0. nextPoll \in Nat \ {0} /\ None \notin Nat /\ UNCHANGED <<enabled, failures, backoff, quota, nextPoll>>
    BY DelaysTyped DEF LoopInv, LoopTypeOK, RunTaskPoll
  <1>1. CASE PollReady
    BY <1>0, <1>1 DEF RunTaskPoll, LoopInv, LoopTypeOK, LoopAlive, Quiet
  <1>2. CASE ~PollReady
    <2>1. taskTimer' = nextPoll /\ UNCHANGED <<poll, waker>>
      BY <1>0, <1>2 DEF RunTaskPoll, ScheduleTaskPoll
    <2> QED BY <1>0, <2>1 DEF LoopInv, LoopTypeOK, LoopAlive, Quiet
  <1> QED BY <1>1, <1>2

LoopStep == \/ TimerFires \/ PollAnswered \/ TaskEnds \/ CompletionAnswered
            \/ \E c \in Wakers : Wake(c)

LEMMA LoopStepInv == ASSUME LoopInv, LoopStep PROVE LoopInv'
  <1>0. /\ quota \in Nat /\ backoff \in Nat /\ failures \in Nat /\ nextPoll \in Nat \ {0}
        /\ {IdlePoll, FastPoll} \subseteq Nat \ {0} /\ RetryAfter \subseteq Nat
        /\ None \notin Nat /\ Len(Backoff) \in Nat /\ failures \in 0 .. Len(Backoff)
        /\ (poll # "idle" => quota = 0)
    BY LinkAssumption DEF LoopInv, LoopTypeOK, Quiet
  <1>1. CASE TimerFires
    <2>1. taskTimer # None /\ quota = 0 /\ enabled
      BY <1>0, <1>1 DEF TimerFires, LoopInv, Quiet, LoopTypeOK
    <2> QED BY <1>1, <2>1, RunTaskPollInv DEF TimerFires
  <1>2. ASSUME NEW c \in Wakers, Wake(c) PROVE LoopInv'
    <2>1. CASE WakeAllowed
      <3>1. enabled /\ quota = 0 /\ RunTaskPoll(c)
        BY <1>0, <1>2, <2>1 DEF Wake, WakeAllowed, LoopInv, Quiet
      <3> QED BY <3>1, RunTaskPollInv
    <2>2. CASE ~WakeAllowed
      BY <1>2, <2>2, LoopFrame DEF Wake
    <2> QED BY <2>1, <2>2
  <1>3. ASSUME NEW r \in RetryAfter, PollFails(r) PROVE LoopInv'
    <2> DEFINE base == IF r > 0 THEN r ELSE backoff
    <2>1. r \in Nat /\ base \in Nat /\ r <= base
      BY <1>0
    <2>2. BackOff(failures, base) /\ PollOver /\ quota' = r
      BY <1>3 DEF PollFails
    <2> HIDE DEF base
    <2>3. /\ failures' \in 0 .. Len(Backoff) /\ nextPoll' \in Nat \ {0}
          /\ backoff' = nextPoll' /\ base <= nextPoll'
      BY <1>0, <2>1, <2>2, BackOffTyped
    <2>4. quota' \in Nat /\ quota' <= backoff' /\ quota' <= nextPoll' /\ backoff' \in Nat
      BY <2>1, <2>2, <2>3
    <2> QED BY <2>2, <2>3, <2>4, PollOverInv
  <1>4. CASE PollEmpty
    <2>1. /\ poll = "polling" /\ PollOver /\ failures' = 0 /\ nextPoll' = IdlePoll
          /\ backoff' = backoff /\ quota' = quota
      BY <1>4 DEF PollEmpty
    <2> QED BY <1>0, <2>1, PollOverInv
  <1>5. ASSUME NEW before \in Nat, BackOff(before, backoff), PollOver, quota' = quota, poll # "idle"
        PROVE  LoopInv'
    <2>1. /\ failures' \in 0 .. Len(Backoff) /\ nextPoll' \in Nat \ {0} /\ backoff' = nextPoll'
      BY <1>0, <1>5, BackOffTyped
    <2> QED BY <1>0, <1>5, <2>1, PollOverInv
  <1>6. CASE TaskInvalid \/ CompletionFails
    BY <1>0, <1>5, <1>6 DEF TaskInvalid, CompletionFails
  <1>7. CASE TaskStarts \/ TaskComputed
    BY <1>0, <1>7 DEF TaskStarts, TaskComputed, LoopInv, LoopTypeOK, LoopAlive, Quiet
  <1>8. CASE TaskDropped \/ TaskFails
    <2>1. /\ poll # "idle" /\ PollOver /\ failures' \in {0, failures} /\ nextPoll' = IdlePoll
          /\ backoff' = 0 /\ quota' = quota
      BY <1>8 DEF TaskDropped, TaskFails, InferenceFailed
    <2> QED BY <1>0, <2>1, PollOverInv
  <1>9. CASE CompletionAccepted
    <2>1. poll # "idle" /\ PollOver /\ UNCHANGED <<nextPoll, failures, backoff, quota>>
      BY <1>9 DEF CompletionAccepted
    <2> QED BY <1>0, <2>1, PollOverInv
  <1> QED BY <1>1, <1>2, <1>3, <1>4, <1>6, <1>7, <1>8, <1>9
          DEF LoopStep, PollAnswered, TaskEnds, CompletionAnswered

\* The loop's steps end in a state the rest of the link agrees with.
LEMMA LoopStepKeeps ==
  ASSUME LinkInv, LoopStep
  PROVE  /\ UNCHANGED <<regVars, beatVars, stopped, refused, enabled>> /\ awaited' \subseteq awaited
         /\ startup = "no" => poll' = "idle" /\ quota' = 0
  <1>1. UNCHANGED <<regVars, beatVars, stopped, refused>> /\ awaited' \subseteq awaited
    <2>1. TimerFires \/ (\E c \in Wakers : Wake(c)) => UNCHANGED <<regVars, beatVars, stopVars, refused>>
      BY DEF TimerFires, Wake
    <2>2. PollOver => UNCHANGED <<regVars, beatVars, stopped, refused>> /\ awaited' \subseteq awaited
      BY DEF PollOver, Ended
    <2>3. TaskStarts \/ TaskComputed => UNCHANGED <<regVars, beatVars, stopVars, refused>>
      BY DEF TaskStarts, TaskComputed
    <2> QED BY <2>1, <2>2, <2>3 DEF LoopStep, PollAnswered, TaskEnds, CompletionAnswered, PollFails, PollEmpty,
                                    TaskInvalid, TaskDropped, TaskFails, CompletionAccepted, CompletionFails, stopVars
  <1>2. enabled' = enabled
    BY DEF LoopStep, PollAnswered, TaskEnds, CompletionAnswered, PollFails, PollEmpty, TaskInvalid, TaskDropped,
           TaskStarts, TaskComputed, TaskFails, CompletionAccepted, CompletionFails, PollOver, TimerFires, Wake,
           RunTaskPoll, loopVars
  <1>3. ASSUME startup = "no" PROVE poll' = "idle" /\ quota' = 0
    <2>1. ~enabled /\ poll = "idle" /\ quota = 0 /\ taskTimer = None /\ None # 0
      BY <1>3, DelaysTyped DEF LinkInv, NotStarted, LoopInv
    <2> QED BY <2>1 DEF LoopStep, PollAnswered, TaskEnds, CompletionAnswered, PollFails, PollEmpty, TaskInvalid,
                        TaskDropped, TaskStarts, TaskComputed, TaskFails, CompletionAccepted, CompletionFails,
                        TimerFires, Wake, WakeAllowed, loopVars
  <1> QED BY <1>1, <1>2, <1>3

\* Time leaves no timer negative and lets none pass the quota.
LEMMA TickInv == ASSUME LinkInv, Tick PROVE LinkInv'
  <1>1. /\ \A t \in Nat \cup {None} : Less(t) \in Nat \cup {None} /\ (Less(t) = None <=> t = None)
        /\ \A t \in Nat : Less(t) \in Nat
        /\ \A t, u \in Nat : t <= u => Less(t) <= Less(u)
        /\ Less(0) = 0
    BY DelaysTyped DEF Less
  <1>2. /\ regTimer' = Less(regTimer) /\ taskTimer' = Less(taskTimer)
        /\ backoff' = Less(backoff) /\ quota' = Less(quota)
        /\ UNCHANGED <<wallet, registered, failCount, regAttempt, registering, startup, beatVars,
                       enabled, nextPoll, failures, poll, waker, stopVars, refused>>
    BY DEF Tick
  <1>3. RegistrationInv'
    BY <1>1, <1>2 DEF LinkInv, RegistrationInv, RegistrationTypeOK, RegistrationPending, InFlight,
                      CallsCounted, BeatsStarted, beatVars, stopVars
  <1>4. LoopTypeOK'
    BY <1>1, <1>2 DEF LinkInv, LoopInv, LoopTypeOK
  <1>5. LoopAlive' /\ Quiet' /\ (~enabled' => taskTimer' = None)
    BY <1>1, <1>2 DEF LinkInv, LoopInv, LoopTypeOK, LoopAlive, Quiet
  <1>6. LoopLeft' /\ NotStarted'
    BY <1>1, <1>2 DEF LinkInv, LoopLeft, NotStarted, Suspended, stopVars
  <1> QED BY <1>3, <1>4, <1>5, <1>6 DEF LinkInv, LoopInv

\* Start, stop, and the heartbeat that was refused.
LEMMA BootInv == ASSUME LinkInv, Boot PROVE LinkInv'
  <1> USE DEF LinkInv
  <1>1. /\ startup = "no" /\ ~Suspended /\ poll = "idle" /\ quota = 0
        /\ UNCHANGED <<wallet, registered, stopped, refused>>
    BY DEF Boot, NotStarted, Suspended, RegistrationInv, BeatsStarted
  <1>2. RegistrationInv' /\ startup' # "no"
    <2>1. CASE wallet
      <3>1. Register("start")
        BY <2>1 DEF Boot
      <3> QED BY <1>1, <2>1, <3>1, RegisterCalled DEF Register
    <2>2. CASE ~wallet
      <3>1. startup' = "waiting" /\ UNCHANGED <<registering, beat, failCount, regTimer, regAttempt, intervals, awaited>>
        BY <2>2 DEF Boot
      <3> QED BY <1>1, <3>1 DEF RegistrationInv, RegistrationTypeOK, RegistrationPending, CallsCounted, BeatsStarted
    <2> QED BY <2>1, <2>2
  <1>3. LoopInv'
    <2>1. /\ enabled' = TRUE /\ nextPoll' = IdlePoll /\ taskTimer' = IdlePoll
          /\ UNCHANGED <<failures, backoff, poll, waker, quota>>
      BY DEF Boot
    <2>2. IdlePoll \in Nat \ {0} /\ None \notin Nat
      BY LinkAssumption
    <2>3. LoopTypeOK'
      BY <2>1, <2>2 DEF LoopInv, LoopTypeOK
    <2> QED BY <1>1, <2>1, <2>2, <2>3 DEF LoopInv, LoopAlive, Quiet
  <1>4. LoopLeft' /\ NotStarted'
    BY <1>1, <1>2 DEF LoopLeft, NotStarted, Suspended
  <1> QED BY <1>2, <1>3, <1>4

LEMMA SuspendInv == ASSUME LinkInv, Stop \/ BeatRefused PROVE LinkInv'
  <1> USE DEF LinkInv
  <1>1. /\ enabled' = FALSE /\ intervals' = FALSE /\ taskTimer' = None /\ regTimer' = None
        /\ UNCHANGED <<wallet, registered, failCount, regAttempt, registering, startup,
                       nextPoll, failures, backoff, poll, waker, quota>>
    BY DEF Stop, BeatRefused, Suspend
  <1>2. /\ startup # "no" /\ ("heartbeat" \in refused' => startup = "done")
        /\ beat' \in {"idle", beat} /\ stopped' \in BOOLEAN /\ awaited' \subseteq {"beat", "poll"}
        /\ (beat = beat' \/ beat = "sending")
        /\ refused' \subseteq {"register", "heartbeat"}
        /\ stopped' \/ refused' # {}
    <2>1. CASE Stop
      BY <2>1 DEF Stop, RegistrationInv, RegistrationTypeOK, BeatsStarted
    <2>2. CASE BeatRefused
      <3>1. beat = "sending" /\ beat' = "idle" /\ awaited' = awaited \ {"beat"}
              /\ stopped' = stopped /\ refused' = refused \cup {"heartbeat"}
        BY <2>2 DEF BeatRefused, BeatEnds, Ended
      <3> QED BY <3>1 DEF RegistrationInv, RegistrationTypeOK, BeatsStarted
    <2> QED BY <2>1, <2>2
  <1>3. RegistrationTypeOK'
    BY <1>1, <1>2 DEF RegistrationInv, RegistrationTypeOK
  <1>4. RegistrationInv'
    BY <1>1, <1>2, <1>3 DEF RegistrationInv, RegistrationPending, CallsCounted, BeatsStarted
  <1>5. LoopInv'
    BY <1>1 DEF LoopInv, LoopTypeOK, LoopAlive, Quiet
  <1>6. LoopLeft' /\ NotStarted'
    BY <1>1, <1>2 DEF LoopLeft, NotStarted
  <1> QED BY <1>4, <1>5, <1>6

\* Every step of the link keeps the invariant of the link.
LEMMA LinkStepInv ==
  ASSUME LinkInv, LinkNext \/ (\E c \in Wakers : Wake(c))
  PROVE  LinkInv'
  <1>1. CASE RegistrationStep
    <2>1. RegistrationInv' /\ LoopInv'
      BY <1>1, RegistrationStepInv, RegistrationStepKeeps, LoopFrame DEF LinkInv
    <2>2. UNCHANGED <<enabled, poll, quota>> /\ (Suspended' => Suspended) /\ (startup' = "no" => startup = "no")
      BY <1>1, RegistrationStepKeeps DEF LinkInv, loopVars
    <2> QED BY <2>1, <2>2 DEF LinkInv, LoopLeft, NotStarted
  <1>2. CASE LoopStep
    <2>1. /\ UNCHANGED <<regVars, beatVars, stopped, refused, enabled>> /\ awaited' \subseteq awaited
          /\ startup = "no" => poll' = "idle" /\ quota' = 0
      BY <1>2, LoopStepKeeps
    <2>2. RegistrationInv' /\ LoopInv'
      BY <1>2, <2>1, LoopStepInv, RegistrationFrame DEF LinkInv
    <2> QED BY <2>1, <2>2 DEF LinkInv, LoopLeft, NotStarted, Suspended, regVars
  <1> QED BY <1>1, <1>2, TickInv, BootInv, SuspendInv
          DEF LinkNext, RegistrationStep, LoopStep, BeatDone
-----------------------------------------------------------------------------
(* Slots.                                                                       *)
Computing == IF poll = "computing" THEN 1 ELSE 0

\* The maintenance lock is held by a removal and by nobody else.
SlotsInv == /\ active \in Nat /\ maintenance \in BOOLEAN
            /\ chat \in [Wakers -> {"idle", "routing", "queued"}]
            /\ gate \in {"free", "pulling", "removing"}
            /\ SlotsExact
            /\ gate = "removing" <=> maintenance
            /\ maintenance => active = 0

LEMMA SlotsFrame ==
  ASSUME SlotsInv, UNCHANGED <<slotVars, nodeVars>>, poll = "computing" <=> poll' = "computing"
  PROVE  SlotsInv'
  BY DEF SlotsInv, SlotsExact, Holding, slotVars, nodeVars

LEMMA HoldingFinite == IsFiniteSet(Holding) /\ Cardinality(Holding) \in Nat
  <1>1. Holding \subseteq Wakers
    BY DEF Holding
  <1> QED BY <1>1, NodeAssumption, FS_Subset, FS_CardinalityType

\* A step of the task loop takes a slot when its task starts and gives it back when
\* the task ends.
LEMMA LinkSlots ==
  ASSUME SlotsInv, LinkNext, UNCHANGED nodeVars
  PROVE  SlotsInv'
  <1>0. Cardinality(Holding) \in Nat /\ Capacity \in Nat \ {0} /\ Holding' = Holding
    BY HoldingFinite, CapacityAssumption DEF Holding, nodeVars
  <1>1. CASE TaskStarts
    <2>1. active' = active + 1 /\ maintenance' = maintenance /\ ~maintenance /\ active < Capacity
            /\ poll = "polling" /\ poll' = "computing"
      BY <1>1 DEF TaskStarts, TakeSlot, CapacityAvailable
    <2> QED BY <1>0, <2>1 DEF SlotsInv, SlotsExact, nodeVars
  <1>2. CASE TaskComputed \/ TaskFails
    <2>1. active' = active - 1 /\ maintenance' = maintenance
            /\ poll = "computing" /\ poll' # "computing"
      BY <1>2 DEF TaskComputed, TaskFails, FreeSlot, PollOver
    <2> QED BY <1>0, <2>1 DEF SlotsInv, SlotsExact, nodeVars
  <1>3. CASE PollEmpty \/ TaskInvalid \/ TaskDropped \/ (\E r \in RetryAfter : PollFails(r)) \/ CompletionAnswered
    <2>1. UNCHANGED slotVars /\ poll \in {"polling", "completing"} /\ poll' = "idle"
      BY <1>3 DEF PollEmpty, TaskInvalid, TaskDropped, PollFails, CompletionAnswered, CompletionAccepted,
                  CompletionFails, PollOver
    <2> QED BY <2>1, SlotsFrame
  <1>4. CASE TimerFires
    <2>1. UNCHANGED slotVars /\ (poll' = poll \/ (poll = "idle" /\ poll' = "polling"))
      BY <1>4 DEF TimerFires, RunTaskPoll, PollReady
    <2> QED BY <2>1, SlotsFrame
  <1>5. CASE Boot \/ Stop \/ Tick \/ BeatRefused
    <2>1. UNCHANGED <<slotVars, poll>>
      BY <1>5 DEF Boot, Stop, Tick, BeatRefused
    <2> QED BY <2>1, SlotsFrame
  <1>6. CASE RegistrationStep
    <2>1. \A c \in Callers : RegisterAnswered(c) => UNCHANGED <<slotVars, poll>>
      BY DEF RegisterAnswered, RegisterSucceeds, RegisterFails, RegisterRefused, Answered, loopVars
    <2>2. StartContinues \/ HeartbeatFires \/ RetryFires => UNCHANGED <<slotVars, poll>>
      BY DEF StartContinues, HeartbeatFires, RetryFires, loopVars
    <2>3. SetWallet \/ SyncRegistration => UNCHANGED <<slotVars, poll>>
      BY DEF SetWallet, SyncRegistration, loopVars
    <2>4. BeatAnswered \/ BeatFails \/ BeatFailsAgain => UNCHANGED <<slotVars, poll>>
      BY DEF BeatAnswered, BeatFails, BeatFailsAgain, loopVars
    <2>5. UNCHANGED <<slotVars, poll>>
      BY <1>6, <2>1, <2>2, <2>3, <2>4 DEF RegistrationStep
    <2> QED BY <2>5, SlotsFrame
  <1> QED BY <1>1, <1>2, <1>3, <1>4, <1>5, <1>6
          DEF LinkNext, PollAnswered, TaskEnds, BeatDone, RegistrationStep

LEMMA ChatSlots ==
  ASSUME SlotsInv, NEW c \in Wakers, ChatArrives(c) \/ ChatSubmits(c) \/ ChatEnds(c)
  PROVE  SlotsInv'
  <1>0. /\ IsFiniteSet(Holding) /\ Cardinality(Holding) \in Nat /\ Capacity \in Nat \ {0}
        /\ chat \in [Wakers -> {"idle", "routing", "queued"}] /\ Computing \in {0, 1}
    BY HoldingFinite, CapacityAssumption DEF SlotsInv, Computing
  <1>1. CASE ChatArrives(c)
    <2>1. /\ chat[c] = "idle" /\ chat' = [chat EXCEPT ![c] = "routing"] /\ UNCHANGED <<gate, poll, maintenance>>
          /\ ~maintenance /\ active < Capacity /\ active' = active + 1
      BY <1>1 DEF ChatArrives, TakeSlot, CapacityAvailable, linkVars, loopVars
    <2>2. Holding' = Holding \cup {c} /\ c \notin Holding
      BY <1>0, <2>1 DEF Holding
    <2>3. Cardinality(Holding') = Cardinality(Holding) + 1
      BY <1>0, <2>2, FS_AddElement
    <2> QED BY <1>0, <2>1, <2>3 DEF SlotsInv, SlotsExact, Computing
  <1>2. CASE ChatSubmits(c)
    <2>1. /\ chat[c] = "routing" /\ chat' = [chat EXCEPT ![c] = "queued"] /\ UNCHANGED <<gate, slotVars>>
          /\ poll' = poll \/ (poll = "idle" /\ poll' = "polling")
      BY <1>2 DEF ChatSubmits, Wake, RunTaskPoll, PollReady, loopVars
    <2>2. Holding' = Holding
      BY <1>0, <2>1 DEF Holding
    <2> QED BY <1>0, <2>1, <2>2 DEF SlotsInv, SlotsExact, slotVars
  <1>3. CASE ChatEnds(c)
    <2>1. /\ chat[c] # "idle" /\ chat' = [chat EXCEPT ![c] = "idle"] /\ UNCHANGED <<gate, poll, maintenance>>
          /\ active' = active - 1
      BY <1>3 DEF ChatEnds, FreeSlot, linkVars, loopVars
    <2>2. Holding' = Holding \ {c} /\ c \in Holding
      BY <1>0, <2>1 DEF Holding
    <2>3. Cardinality(Holding') = Cardinality(Holding) - 1 /\ Cardinality(Holding') \in Nat
      BY <1>0, <2>2, FS_RemoveElement, FS_CardinalityType
    <2> QED BY <1>0, <2>1, <2>3 DEF SlotsInv, SlotsExact, Computing
  <1> QED BY <1>1, <1>2, <1>3

LEMMA ModelSlots == ASSUME SlotsInv, ModelStep PROVE SlotsInv'
  <1>1. UNCHANGED <<chat, active, poll>>
    BY DEF ModelStep, PullBegins, PullEnds, RemovalBegins, RemovalEnds, AcquireMaintenance, ReleaseMaintenance,
           linkVars, loopVars, slotVars
  <1>2. SlotsExact'
    BY <1>1 DEF SlotsInv, SlotsExact, Holding
  <1>3. CASE PullBegins \/ PullEnds
    BY <1>1, <1>2, <1>3 DEF PullBegins, PullEnds, SlotsInv, slotVars
  <1>4. CASE RemovalBegins
    <2>1. gate' = "removing" /\ maintenance' = TRUE /\ active = 0
      BY <1>4 DEF RemovalBegins, AcquireMaintenance
    <2> QED BY <1>1, <1>2, <2>1 DEF SlotsInv
  <1>5. CASE RemovalEnds
    <2>1. gate' = "free" /\ maintenance' = FALSE
      BY <1>5 DEF RemovalEnds, ReleaseMaintenance
    <2> QED BY <1>1, <1>2, <2>1 DEF SlotsInv
  <1> QED BY <1>3, <1>4, <1>5 DEF ModelStep
-----------------------------------------------------------------------------
Inv == LinkInv /\ SlotsInv

LEMMA InitInv == Init => Inv
  <1> SUFFICES ASSUME Init PROVE Inv
    OBVIOUS
  <1>0. /\ IdlePoll \in Nat \ {0} /\ FailLimit \in Nat \ {0} /\ None \notin Nat
        /\ Len(RetryDelay) \in Nat /\ Len(Backoff) \in Nat
    BY LinkAssumption
  <1>1. RegistrationTypeOK
    <2>1. /\ wallet \in BOOLEAN /\ registered \in BOOLEAN /\ intervals \in BOOLEAN /\ stopped \in BOOLEAN
          /\ startup = "no" /\ beat = "idle" /\ awaited = {} /\ refused = {}
      BY DEF Init, LinkInit
    <2>2. /\ failCount \in 0 .. FailLimit /\ regTimer \in Nat \cup {None} /\ regAttempt \in 0 .. Len(RetryDelay)
          /\ registering \in [Callers -> Nat]
      BY <1>0 DEF Init, LinkInit
    <2> QED BY <2>1, <2>2 DEF RegistrationTypeOK
  <1>2. RegistrationInv
    BY <1>1 DEF Init, LinkInit, RegistrationInv, RegistrationPending, CallsCounted, BeatsStarted, Callers
  <1>3. LoopInv
    <2>1. enabled \in BOOLEAN /\ ~enabled /\ poll = "idle" /\ waker = None /\ taskTimer = None
      BY DEF Init, LinkInit
    <2>2. /\ nextPoll \in Nat \ {0} /\ failures \in 0 .. Len(Backoff)
          /\ backoff \in Nat /\ quota \in Nat /\ quota <= backoff
      BY <1>0 DEF Init, LinkInit
    <2>3. LoopTypeOK
      BY <2>1, <2>2 DEF LoopTypeOK
    <2> QED BY <2>1, <2>2, <2>3 DEF Init, LinkInit, LoopInv, LoopAlive, Quiet
  <1>4. LoopLeft /\ NotStarted
    BY DEF Init, LinkInit, LoopLeft, NotStarted, Suspended
  <1>5. SlotsInv
    <2>1. Holding = {}
      BY DEF Init, Holding
    <2>2. Cardinality(Holding) = 0
      BY <2>1, FS_EmptySet
    <2>3. maintenance \in BOOLEAN /\ ~maintenance /\ gate = "free" /\ chat \in [Wakers -> {"idle", "routing", "queued"}]
      BY DEF Init, SlotsInit
    <2>4. SlotsExact /\ active = 0
      BY <2>2, CapacityAssumption DEF Init, SlotsInit, LinkInit, SlotsExact
    <2> QED BY <2>3, <2>4 DEF SlotsInv
  <1> QED BY <1>2, <1>3, <1>4, <1>5 DEF Inv, LinkInv

LEMMA NextInv == Inv /\ [Next]_vars => Inv'
  <1> SUFFICES ASSUME Inv, [Next]_vars PROVE Inv'
    OBVIOUS
  <1> USE DEF Inv
  <1>0. ASSUME UNCHANGED linkVars PROVE LinkInv'
    <2>1. UNCHANGED <<regVars, beatVars, loopVars, stopped, refused, awaited>>
      BY <1>0 DEF linkVars, stopVars
    <2>2. RegistrationInv' /\ LoopInv'
      BY <2>1, RegistrationFrame, LoopFrame DEF LinkInv
    <2> QED BY <2>1, <2>2 DEF LinkInv, LoopLeft, NotStarted, Suspended, regVars, loopVars
  <1>1. CASE LinkNext /\ UNCHANGED nodeVars
    BY <1>1, LinkStepInv, LinkSlots
  <1>2. ASSUME NEW c \in Wakers, ChatArrives(c) \/ ChatSubmits(c) \/ ChatEnds(c) PROVE Inv'
    <2>1. SlotsInv'
      BY <1>2, ChatSlots
    <2>2. LinkInv'
      BY <1>0, <1>2, LinkStepInv DEF ChatArrives, ChatSubmits, ChatEnds
    <2> QED BY <2>1, <2>2
  <1>3. CASE ModelStep
    BY <1>0, <1>3, ModelSlots DEF ModelStep, PullBegins, PullEnds, RemovalBegins, RemovalEnds
  <1>4. CASE UNCHANGED vars
    BY <1>0, <1>4, SlotsFrame DEF vars, linkVars, loopVars
  <1> QED BY <1>1, <1>2, <1>3, <1>4 DEF Next, ChatStep

\* Every variable of the node keeps its type: timers do not go below 0, counters not
\* past the tables they index, active slots stay within the capacity.
THEOREM TypeCorrect == Spec => []NodeTypeOK
  <1>1. Inv => NodeTypeOK
    BY CapacityAssumption DEF Inv, LinkInv, RegistrationInv, LoopInv, SlotsInv, SlotsExact, NodeTypeOK, TypeOK,
                              SlotsTypeOK
  <1> QED BY <1>1, InitInv, NextInv, PTL DEF Spec

\* The enabled task loop has a timer or a poll in flight, for ever.
THEOREM LoopStaysAlive == Spec => []LoopAlive
  <1>1. Inv => LoopAlive
    BY DEF Inv, LinkInv, LoopInv
  <1> QED BY <1>1, InitInv, NextInv, PTL DEF Spec

\* No poll and no timer undercuts the time the platform asked for.
THEOREM QuotaIsRespected == Spec => []QuotaRespected
  <1>1. Inv => QuotaRespected
    BY DEF Inv, LinkInv, LoopInv, LoopTypeOK, Quiet, QuotaRespected
  <1> QED BY <1>1, InitInv, NextInv, PTL DEF Spec

\* An unregistered link keeps trying.
THEOREM RegistrationIsPending == Spec => []RegistrationPending
  <1>1. Inv => RegistrationPending
    BY DEF Inv, LinkInv, RegistrationInv
  <1> QED BY <1>1, InitInv, NextInv, PTL DEF Spec

\* Slots are conserved.
THEOREM SlotsAreExact == Spec => []SlotsExact
  <1>1. Inv => SlotsExact
    BY DEF Inv, SlotsInv
  <1> QED BY <1>1, InitInv, NextInv, PTL DEF Spec

\* A model is removed while nothing computes.
THEOREM RemovalIsAlone == Spec => []RemovalAlone
  <1>1. Inv => RemovalAlone
    BY DEF Inv, SlotsInv, RemovalAlone
  <1> QED BY <1>1, InitInv, NextInv, PTL DEF Spec

\* After stop(), or once the platform refused a heartbeat, no poll starts.
THEOREM SuspendedStaysIdle == Spec => NoPollOnceSuspended
  <1> DEFINE A == Suspended /\ poll = "idle" => poll' = "idle"
  <1>1. Inv /\ [Next]_vars => A
    <2> SUFFICES ASSUME Inv, [Next]_vars, Suspended, poll = "idle" PROVE poll' = "idle"
      OBVIOUS
    <2>0. ~enabled /\ taskTimer = None /\ None # 0 /\ LinkInv
      BY DelaysTyped DEF Inv, LinkInv, LoopLeft, LoopInv
    <2>1. CASE RegistrationStep
      BY <2>0, <2>1, RegistrationStepKeeps DEF LinkInv, loopVars
    <2>2. CASE LoopStep
      BY <2>0, <2>2 DEF LoopStep, PollAnswered, TaskEnds, CompletionAnswered, PollFails, PollEmpty, TaskInvalid,
                        TaskDropped, TaskStarts, TaskComputed, TaskFails, CompletionAccepted, CompletionFails,
                        TimerFires, Wake, WakeAllowed, loopVars
    <2>3. CASE Boot \/ Stop \/ Tick \/ BeatRefused
      BY <2>3 DEF Boot, Stop, Tick, BeatRefused
    <2>4. ASSUME NEW c \in Wakers, ChatArrives(c) \/ ChatEnds(c) PROVE poll' = "idle"
      BY <2>4 DEF ChatArrives, ChatEnds, linkVars, loopVars
    <2>5. ASSUME NEW c \in Wakers, ChatSubmits(c) PROVE poll' = "idle"
      BY <2>0, <2>5 DEF ChatSubmits, Wake, WakeAllowed, loopVars
    <2>6. CASE ModelStep
      BY <2>6 DEF ModelStep, PullBegins, PullEnds, RemovalBegins, RemovalEnds, linkVars, loopVars
    <2>7. CASE UNCHANGED vars
      BY <2>7 DEF vars, linkVars, loopVars
    <2> QED BY <2>1, <2>2, <2>3, <2>4, <2>5, <2>6, <2>7
            DEF Next, LinkNext, ChatStep, RegistrationStep, LoopStep, BeatDone
  <1>2. A => [A]_poll
    OBVIOUS
  <1> QED BY <1>1, <1>2, InitInv, NextInv, PTL DEF Spec, NoPollOnceSuspended

\* Once a heartbeat was refused no interval, retry or late answer starts another one.
THEOREM SuspendedStaysSilent == Spec => BeatsSuspended
  <1> DEFINE A == "heartbeat" \in refused /\ beat = "idle" => beat' = "idle"
  <1>1. Inv /\ [Next]_vars => A
    <2> SUFFICES ASSUME Inv, [Next]_vars, "heartbeat" \in refused, beat = "idle" PROVE beat' = "idle"
      OBVIOUS
    <2>0. /\ startup = "done" /\ ~intervals
          /\ registering["beat"] = 0 /\ registering["start"] = 0
      BY DEF Inv, LinkInv, RegistrationInv, BeatsStarted, CallsCounted
    <2>1. ASSUME NEW c \in Callers, RegisterAnswered(c) PROVE beat' = "idle"
      <3>1. registering[c] > 0
        BY <2>1, Zenon DEF RegisterAnswered, RegisterSucceeds, RegisterFails, RegisterRefused, Answered, InFlight
      <3>2. c # "beat"
        BY <2>0, <3>1
      <3> QED BY <2>1, <3>2, Zenon DEF RegisterAnswered, RegisterSucceeds, RegisterFails, RegisterRefused, Resumed
    <2>2. CASE Boot \/ StartContinues \/ HeartbeatFires \/ BeatDone
      BY <2>0, <2>2 DEF Boot, StartContinues, HeartbeatFires, BeatDone, BeatAnswered, BeatFails, BeatFailsAgain,
                        BeatRefused, BeatEnds
    <2>3. CASE RetryFires \/ SetWallet \/ SyncRegistration \/ Stop \/ Tick
      BY <2>3 DEF RetryFires, SetWallet, SyncRegistration, Stop, Tick, beatVars
    <2>4. CASE TimerFires \/ PollAnswered \/ TaskEnds \/ CompletionAnswered
      BY <2>4 DEF TimerFires, PollAnswered, PollFails, PollEmpty, TaskInvalid, TaskDropped, TaskStarts, TaskEnds,
                  TaskComputed, TaskFails, CompletionAnswered, CompletionAccepted, CompletionFails, PollOver, beatVars
    <2>5. ASSUME NEW c \in Wakers, ChatArrives(c) \/ ChatSubmits(c) \/ ChatEnds(c) PROVE beat' = "idle"
      BY <2>5 DEF ChatArrives, ChatSubmits, ChatEnds, Wake, linkVars, beatVars
    <2>6. CASE ModelStep \/ UNCHANGED vars
      BY <2>6 DEF ModelStep, PullBegins, PullEnds, RemovalBegins, RemovalEnds, vars, linkVars, beatVars
    <2> QED BY <2>1, <2>2, <2>3, <2>4, <2>5, <2>6 DEF Next, LinkNext, ChatStep
  <1>2. A => [A]_beat
    OBVIOUS
  <1> QED BY <1>1, <1>2, InitInv, NextInv, PTL DEF Spec, BeatsSuspended

\* Registration and task loop always have their next step scheduled.
COROLLARY LinkStaysScheduled == Spec => []StaysScheduled
  <1>1. RegistrationPending /\ LoopAlive => StaysScheduled
    BY DEF StaysScheduled
  <1> QED BY <1>1, RegistrationIsPending, LoopStaysAlive, PTL

\* Slots are exact, and none is held during a removal.
COROLLARY SlotsAreRespected == Spec => []SlotsRespected
  <1>1. SlotsExact /\ RemovalAlone => SlotsRespected
    BY DEF SlotsRespected
  <1> QED BY <1>1, SlotsAreExact, RemovalIsAlone, PTL

\* After a stop or a refusal neither polls nor heartbeats start.
COROLLARY SilenceIsKept == Spec => SuspendedIsSilent
  BY SuspendedStaysIdle, SuspendedStaysSilent DEF SuspendedIsSilent
=============================================================================

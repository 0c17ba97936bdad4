---------------------------- MODULE UptimeDaemon ----------------------------
(* How a node stays known to the platform (src/src/naas/uptime_daemon.ts): it    *)
(* registers, then sends a heartbeat per interval, and backs off through the    *)
(* circuit breaker of lib/platform-health.ts that it shares with every other    *)
(* loop of the process.                                                         *)
EXTENDS Naturals, FiniteSets

CONSTANTS PullModels,       \* models an operator may queue at the platform
          MaxBackoff,       \* 5 min in the code, in units of the first backoff
          MaxPlatformFaults \* bound: outages, refusals and lost answers

ASSUME UptimeAssumption == {MaxBackoff, MaxPlatformFaults} \subseteq Nat

VARIABLES central,              \* the platform: is it up, and does it list the node
          breaker,              \* platformHealth: consecutive failures, and how long it waits
          daemon,               \* [timer, registered, inFlight]
          heartbeats,           \* the heartbeats in progress and what each waits for
          elsewhere,            \* calls of the other loops in progress
          pullingModels, pulls, \* the Set, and [model -> processes that run]
          platformFaults

uptimeVars == <<central, breaker, daemon, heartbeats, elsewhere, pullingModels, pulls, platformFaults>>

Waits == {"register", "heartbeat"}
UptimeTypeOK ==
    /\ central \in [state : {"up", "down", "disabled"}, known : BOOLEAN]
    /\ breaker \in [failures : 0..MaxBackoff + 1, wait : 0..MaxBackoff]
    /\ daemon \in [timer : BOOLEAN, registered : BOOLEAN, inFlight : BOOLEAN]
    /\ heartbeats \in [Waits -> 0..2] /\ elsewhere \in 0..1
    /\ pullingModels \subseteq PullModels /\ pulls \in [PullModels -> 0..2]
    /\ platformFaults \in 0..MaxPlatformFaults

UptimeInit == /\ central = [state |-> "up", known |-> FALSE]
              /\ breaker = [failures |-> 0, wait |-> 0]
              /\ daemon = [timer |-> FALSE, registered |-> FALSE, inFlight |-> FALSE]
              /\ heartbeats = [w \in Waits |-> 0] /\ elsewhere = 0
              /\ pullingModels = {} /\ pulls = [m \in PullModels |-> 0]
              /\ platformFaults = 0

PlatformFault == platformFaults < MaxPlatformFaults /\ platformFaults' = platformFaults + 1
NoFault == UNCHANGED platformFaults

(* PlatformHealth; counting failures beyond the longest wait changes nothing.   *)
ShouldAttempt == breaker.wait = 0
RecordSuccess == breaker' = [failures |-> 0, wait |-> 0]
Backoff(n) == IF 2 ^ (n - 1) < MaxBackoff THEN 2 ^ (n - 1) ELSE MaxBackoff
FailedAfter(n) == LET f == IF n < MaxBackoff + 1 THEN n + 1 ELSE n
                  IN  breaker' = [failures |-> f, wait |-> Backoff(f)]
RecordFailure == FailedAfter(breaker.failures)

(* start and stop; what is in flight goes on after a stop.                      *)
StartDaemon == /\ ~daemon.timer /\ daemon' = [daemon EXCEPT !.timer = TRUE]
               /\ UNCHANGED <<central, breaker, heartbeats, elsewhere, pullingModels, pulls, platformFaults>>
StopDaemon == /\ daemon.timer /\ PlatformFault
              /\ daemon' = [daemon EXCEPT !.timer = FALSE]
              /\ UNCHANGED <<central, breaker, heartbeats, elsewhere, pullingModels, pulls>>

(* sendHeartbeat, at the start and at every interval.                           *)
SendHeartbeat ==
    /\ daemon.timer /\ ShouldAttempt /\ ~daemon.inFlight
    /\ daemon' = [daemon EXCEPT !.inFlight = TRUE]
    /\ heartbeats' = [heartbeats EXCEPT ![IF daemon.registered THEN "heartbeat" ELSE "register"] = @ + 1]
    /\ UNCHANGED <<central, breaker, elsewhere, pullingModels, pulls, platformFaults>>

(* The end of one that waited for w, by the finally of sendHeartbeat.           *)
Over(w) == heartbeats[w] > 0 /\ heartbeats' = [heartbeats EXCEPT ![w] = @ - 1]
FlagDown(d) == daemon' = [d EXCEPT !.inFlight = FALSE]
Answering == central.state # "down"

(* registerNode: only an answer of the platform changes the breaker.            *)
Registers ==
    /\ Answering /\ central.state = "up" /\ heartbeats["register"] > 0
    /\ RecordSuccess /\ daemon' = [daemon EXCEPT !.registered = TRUE]
    /\ heartbeats' = [register |-> heartbeats["register"] - 1, heartbeat |-> heartbeats["heartbeat"] + 1]
    /\ UNCHANGED <<central, elsewhere, pullingModels, pulls, platformFaults>>
RegistrationFails ==
    /\ Over("register")
    /\ \/ ~Answering /\ FlagDown([daemon EXCEPT !.registered = FALSE]) /\ NoFault
       \/ central.state = "disabled" /\ FlagDown([daemon EXCEPT !.registered = FALSE, !.timer = FALSE]) /\ NoFault
       \/ PlatformFault /\ FlagDown([daemon EXCEPT !.registered = FALSE])
    /\ UNCHANGED <<central, breaker, elsewhere, pullingModels, pulls>>

(* processPullQueue: one process per model at a time.                           *)
PullQueue(queued) == /\ pullingModels' = pullingModels \cup queued
                     /\ pulls' = [m \in PullModels |-> pulls[m] + IF m \in queued \ pullingModels THEN 1 ELSE 0]

HeartbeatTaken(queued) ==
    /\ Over("heartbeat") /\ central.state = "up"
    /\ central' = [central EXCEPT !.known = TRUE]
    /\ RecordSuccess /\ PullQueue(queued) /\ FlagDown(daemon)
    /\ UNCHANGED <<elsewhere, platformFaults>>

KeepsTheFlag ==    \* mutant: no finally
    /\ Over("heartbeat") /\ ~Answering /\ RecordFailure
    /\ UNCHANGED <<central, daemon, elsewhere, pullingModels, pulls, platformFaults>>

(* doSendHeartbeat: any answer closes the breaker, DEPLOYMENT_DISABLED stops the *)
(* daemon, an answer that does not come or does not parse opens the breaker.    *)
HeartbeatFails ==
    /\ Over("heartbeat")
    /\ \/ ~Answering /\ RecordFailure /\ FlagDown(daemon) /\ NoFault /\ UNCHANGED central
       \/ central.state = "disabled" /\ RecordSuccess /\ FlagDown([daemon EXCEPT !.timer = FALSE]) /\ NoFault /\ UNCHANGED central
       \/ Answering /\ PlatformFault /\ FlagDown(daemon)
          /\ \/ RecordSuccess /\ UNCHANGED central
             \/ central' = [central EXCEPT !.known = (@ \/ central.state = "up")] /\ (RecordFailure \/ FailedAfter(0))
    /\ UNCHANGED <<elsewhere, pullingModels, pulls>>

PullEnds(m) == /\ pulls[m] > 0
               /\ pulls' = [pulls EXCEPT ![m] = @ - 1] /\ pullingModels' = pullingModels \ {m}
               /\ UNCHANGED <<central, breaker, daemon, heartbeats, elsewhere, platformFaults>>

(* A loop of the agent, the vault or the marketplace; what the agent calls      *)
(* critical does not ask the breaker.                                           *)
OtherCall == /\ elsewhere = 0 /\ elsewhere' = 1
             /\ UNCHANGED <<central, breaker, daemon, heartbeats, pullingModels, pulls, platformFaults>>
OtherAnswered == /\ elsewhere = 1 /\ elsewhere' = 0
                 /\ \/ Answering /\ RecordSuccess /\ NoFault
                    \/ Answering /\ RecordFailure /\ PlatformFault
                    \/ ~Answering /\ RecordFailure /\ NoFault
                 /\ UNCHANGED <<central, daemon, heartbeats, pullingModels, pulls>>

BackoffTick == /\ breaker.wait > 0 /\ breaker' = [breaker EXCEPT !.wait = @ - 1]
               /\ UNCHANGED <<central, daemon, heartbeats, elsewhere, pullingModels, pulls, platformFaults>>

(* The platform goes, comes back, and forgets a node whose heartbeats stop.     *)
CentralFails(s) == /\ central.state = "up" /\ PlatformFault
                   /\ central' = [central EXCEPT !.state = s]
                   /\ UNCHANGED <<breaker, daemon, heartbeats, elsewhere, pullingModels, pulls>>
CentralReturns == /\ central.state # "up" /\ central' = [central EXCEPT !.state = "up"]
                  /\ UNCHANGED <<breaker, daemon, heartbeats, elsewhere, pullingModels, pulls, platformFaults>>
CentralForgets == /\ central.known /\ central' = [central EXCEPT !.known = FALSE]
                  /\ UNCHANGED <<breaker, daemon, heartbeats, elsewhere, pullingModels, pulls, platformFaults>>

UptimeNext == \/ StartDaemon \/ StopDaemon \/ SendHeartbeat \/ Registers \/ RegistrationFails \/ HeartbeatFails
              \/ \E queued \in SUBSET PullModels : HeartbeatTaken(queued)
              \/ \E m \in PullModels : PullEnds(m)
              \/ OtherCall \/ OtherAnswered \/ BackoffTick
              \/ \E s \in {"down", "disabled"} : CentralFails(s)
              \/ CentralReturns \/ CentralForgets

(* The interval fires, every request has a deadline, and time passes.           *)
UptimeFairness ==
    /\ WF_uptimeVars(SendHeartbeat) /\ WF_uptimeVars(Registers \/ RegistrationFails)
    /\ WF_uptimeVars(HeartbeatFails \/ \E queued \in SUBSET PullModels : HeartbeatTaken(queued))
    /\ WF_uptimeVars(OtherAnswered) /\ WF_uptimeVars(BackoffTick)
-----------------------------------------------------------------------------
(* Heartbeats slower than the interval, restarts of the daemon and models that  *)
(* are queued again never give two heartbeats or two downloads of a model.      *)
OneAtATime == /\ heartbeats["register"] + heartbeats["heartbeat"] <= 1
              /\ \A m \in PullModels : pulls[m] <= 1

(* A node whose daemon runs is again and again known to a platform that is up:  *)
(* no outage, late failure or open breaker silences it for ever.                *)
NodeStaysKnown == []<>(central.state # "up" \/ ~daemon.timer \/ central.known)
=============================================================================

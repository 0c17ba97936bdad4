------------------------------ MODULE EventBus -------------------------------
(* What a dashboard sees of a node as it happens: class NodeEventBus of         *)
(* src/src/core/event-bus.ts.  Sockets come and go, subscribe, fall silent      *)
(* without closing, and are pinged every 30 s; what is broadcast is logged and  *)
(* sent to those that asked for it.                                             *)
EXTENDS Naturals, Sequences

CONSTANTS Viewers,      \* dashboards, each with one socket
          Topics,
          MaxLogSize,   \* 500
          SilenceBeats, \* 60 s, in heartbeats of 30 s
          MaxEvents,    \* bound: broadcasts
          MaxViews      \* bound: connections of a viewer

ASSUME BusAssumption == {MaxLogSize, SilenceBeats, MaxEvents, MaxViews} \subseteq Nat

VARIABLES viewer,     \* [viewer -> [line, subscriptions, silent, views]]
          connected,  \* the clients the bus knows
          eventLog,   \* the last events
          broadcasts, \* number of events so far
          busUp

busVars == <<viewer, connected, eventLog, broadcasts, busUp>>

Everything == "*"
(* The socket: open at both ends, closing but not yet reported, or silent: the  *)
(* viewer is gone and nothing said so.                                          *)
Lines == {"down", "open", "closing", "silent"}
Event == [number : 1..MaxEvents, topic : Topics]
NoView == [line |-> "down", subscriptions |-> {}, silent |-> 0, views |-> 0]

BusTypeOK ==
    /\ viewer \in [Viewers -> [line : Lines, subscriptions : SUBSET (Topics \cup {Everything}),
                               silent : 0..SilenceBeats + 1, views : 0..MaxViews]]
    /\ connected \subseteq Viewers /\ eventLog \in Seq(Event)
    /\ broadcasts \in 0..MaxEvents /\ busUp \in BOOLEAN

BusInit == /\ viewer = [v \in Viewers |-> NoView] /\ connected = {}
           /\ eventLog = << >> /\ broadcasts = 0 /\ busUp = TRUE

(* attachToServer: on connection, with everything subscribed.                   *)
Connects(v) ==
    /\ busUp /\ viewer[v].line = "down" /\ v \notin connected /\ viewer[v].views < MaxViews
    /\ viewer' = [viewer EXCEPT ![v] = [NoView EXCEPT !.line = "open", !.subscriptions = {Everything},
                                                      !.views = viewer[v].views + 1]]
    /\ connected' = connected \cup {v}
    /\ UNCHANGED <<eventLog, broadcasts, busUp>>
(* The viewer closes, or vanishes.                                              *)
ViewerGoes(v, how) == /\ viewer[v].line = "open"
                      /\ viewer' = [viewer EXCEPT ![v].line = how]
                      /\ UNCHANGED <<connected, eventLog, broadcasts, busUp>>
(* on close.                                                                    *)
Closes(v) == /\ viewer[v].line = "closing"
             /\ viewer' = [viewer EXCEPT ![v].line = "down"] /\ connected' = connected \ {v}
             /\ UNCHANGED <<eventLog, broadcasts, busUp>>

(* handleClientMessage.                                                         *)
Says(v, topics) == /\ viewer[v].line = "open" /\ viewer' = [viewer EXCEPT ![v].subscriptions = topics]
                   /\ UNCHANGED <<connected, eventLog, broadcasts, busUp>>
Subscribes(v, t) == Says(v, viewer[v].subscriptions \cup {t})
Unsubscribes(v, t) == Says(v, viewer[v].subscriptions \ {t})

Logged(log, e) == LET all == Append(log, e) IN
                  IF Len(all) > MaxLogSize THEN SubSeq(all, Len(all) - MaxLogSize + 1, Len(all)) ELSE all
(* broadcast: sent to the open lines that want it, and logged.                  *)
BroadcastEvent(t) ==
    /\ busUp /\ broadcasts < MaxEvents /\ broadcasts' = broadcasts + 1
    /\ eventLog' = Logged(eventLog, [number |-> broadcasts + 1, topic |-> t])
    /\ UNCHANGED <<viewer, connected, busUp>>

Silent == {v \in connected : viewer[v].silent > SilenceBeats}
(* The heartbeat: whoever has not answered for 60 s is terminated and           *)
(* forgotten, the others are pinged.  An open line answers, at the latest after *)
(* the next heartbeat.                                                          *)
Heartbeat ==
    /\ busUp /\ connected # {}
    /\ connected' = connected \ Silent
    /\ \E late \in SUBSET {v \in connected : viewer[v].line = "open" /\ viewer[v].silent = 0} :
         viewer' = [v \in Viewers |->
                      IF v \in Silent THEN [viewer[v] EXCEPT !.line = "down"]
                      ELSE IF v \notin connected THEN viewer[v]
                      ELSE IF viewer[v].line = "open" THEN [viewer[v] EXCEPT !.silent = IF v \in late THEN 1 ELSE 0]
                      ELSE [viewer[v] EXCEPT !.silent = IF @ > SilenceBeats THEN @ ELSE @ + 1]]
    /\ UNCHANGED <<eventLog, broadcasts, busUp>>

Destroy == /\ busUp /\ busUp' = FALSE /\ connected' = {}
           /\ viewer' = [v \in Viewers |-> IF v \in connected THEN [viewer[v] EXCEPT !.line = "down"] ELSE viewer[v]]
           /\ UNCHANGED <<eventLog, broadcasts>>

BusNext == \/ Heartbeat \/ Destroy
           \/ \E t \in Topics : BroadcastEvent(t)
           \/ \E v \in Viewers : \/ Connects(v) \/ Closes(v) \/ \E how \in {"closing", "silent"} : ViewerGoes(v, how)
                                 \/ \E t \in Topics \cup {Everything} : Subscribes(v, t) \/ Unsubscribes(v, t)
BusFairness == WF_busVars(Heartbeat)
-----------------------------------------------------------------------------
(* Whoever comes, goes and answers late: a viewer that is there stays a client  *)
(* of the bus, and the log is the last events, none of them missing.            *)
ViewersKept ==
    /\ \A v \in Viewers : viewer[v].line # "down" => v \in connected
    /\ Len(eventLog) = IF broadcasts < MaxLogSize THEN broadcasts ELSE MaxLogSize
    /\ \A i \in DOMAIN eventLog : eventLog[i].number = broadcasts - Len(eventLog) + i

(* A viewer that has vanished is not counted for ever.                          *)
SilentAreDropped == \A v \in Viewers : viewer[v].line = "silent" ~> v \notin connected \/ viewer[v].line = "open"
=============================================================================

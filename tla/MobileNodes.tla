----------------------------- MODULE MobileNodes -----------------------------
(* Phones that take part through the Telegram Mini App: MobileNodeManager in     *)
(* src/src/channels/miniapp.ts.  A session and the interval that watches it are  *)
(* made together; the interval looks its user's current session up each time it  *)
(* fires, and it may be another one by then.  Rewards and claims are left out.   *)
EXTENDS Naturals, FiniteSets

CONSTANTS Users,
          MaxSessions \* bound: activations of one user

ASSUME MobileAssumption == MaxSessions \in Nat

Sessions == 1..MaxSessions

VARIABLES session,    \* [Users -> the user's session, 0 for none]
          live,       \* [Users -> the sessions whose isActive is true]
          heard,      \* [Users -> whether the session's last heartbeat is at most 2 min old]
          watchers,   \* [Users -> intervals that were not cleared]
          watcher,    \* [Users -> the one heartbeatIntervals knows, 0 for none]
          activating, \* [Users -> activations that await the wallet lookup]
          made        \* [Users -> sessions made so far]

mobileVars == <<session, live, heard, watchers, watcher, activating, made>>

MobileTypeOK == /\ session \in [Users -> 0..MaxSessions] /\ made \in [Users -> 0..MaxSessions]
                /\ live \in [Users -> SUBSET Sessions] /\ watchers \in [Users -> SUBSET Sessions]
                /\ heard \in [Users -> BOOLEAN]
                /\ watcher \in [Users -> 0..MaxSessions]
                /\ activating \in [Users -> 0..MaxSessions]
                /\ \A u \in Users : made[u] + activating[u] <= MaxSessions

MobileInit == /\ session = [u \in Users |-> 0] /\ made = session /\ watcher = session /\ activating = session
              /\ live = [u \in Users |-> {}] /\ watchers = live
              /\ heard = [u \in Users |-> FALSE]

IsActive(u) == session[u] \in live[u]

-----------------------------------------------------------------------------
(* Activation: an active session is kept; otherwise the wallet may be looked up *)
(* first, and the session is made whatever happened meanwhile.                  *)
Activate(u) == /\ ~IsActive(u)
               /\ made[u] + activating[u] < MaxSessions
               /\ activating' = [activating EXCEPT ![u] = @ + 1]
               /\ UNCHANGED <<session, live, heard, watchers, watcher, made>>

SessionMade(u) ==
    LET s == made[u] + 1
    IN  /\ activating[u] > 0
        /\ activating' = [activating EXCEPT ![u] = @ - 1]
        /\ made' = [made EXCEPT ![u] = s] /\ session' = [session EXCEPT ![u] = s]
        /\ live' = [live EXCEPT ![u] = @ \cup {s}]
        /\ heard' = [heard EXCEPT ![u] = TRUE]
        /\ watchers' = [watchers EXCEPT ![u] = @ \cup {s}]
        /\ watcher' = [watcher EXCEPT ![u] = s]

(* The phone's heartbeat, and two minutes without one.                          *)
PhoneBeats(u) == /\ IsActive(u)
                 /\ heard' = [heard EXCEPT ![u] = TRUE]
                 /\ UNCHANGED <<session, live, watchers, watcher, activating, made>>

PhoneSilent(u) == /\ heard[u]
                  /\ heard' = [heard EXCEPT ![u] = FALSE]
                  /\ UNCHANGED <<session, live, watchers, watcher, activating, made>>

(* deactivateNode: the interval heartbeatIntervals knows is cleared.            *)
Deactivate(u) == /\ live' = [live EXCEPT ![u] = @ \ {session[u]}]
                 /\ watchers' = [watchers EXCEPT ![u] = @ \ {watcher[u]}]
                 /\ watcher' = [watcher EXCEPT ![u] = 0]

StopNode(u) == /\ session[u] # 0
               /\ Deactivate(u)
               /\ UNCHANGED <<session, heard, activating, made>>

(* An interval fires, every 5 minutes: it ends itself over an inactive session, *)
(* and stops one whose phone is silent.                                         *)
WatcherFiresForgetful(u, w) ==    \* mutant: a silent phone ends the interval only
    /\ w \in watchers[u]
    /\ ~IsActive(u) \/ ~heard[u]
    /\ watchers' = [watchers EXCEPT ![u] = @ \ {w}]
    /\ UNCHANGED <<session, live, heard, watcher, activating, made>>

WatcherFiresBlind(u, w) ==        \* mutant: the phone is not looked at
    /\ w \in watchers[u]
    /\ ~IsActive(u)
    /\ watchers' = [watchers EXCEPT ![u] = @ \ {w}]
    /\ UNCHANGED <<session, live, heard, watcher, activating, made>>

WatcherFires(u, w) ==
    /\ w \in watchers[u]
    /\ \/ /\ ~IsActive(u)
          /\ watchers' = [watchers EXCEPT ![u] = @ \ {w}]
          /\ UNCHANGED <<live, watcher>>
       \/ IsActive(u) /\ ~heard[u] /\ Deactivate(u)
    /\ UNCHANGED <<session, heard, activating, made>>

MobileNext == \E u \in Users : \/ Activate(u) \/ SessionMade(u) \/ PhoneBeats(u) \/ PhoneSilent(u)
                               \/ StopNode(u) \/ \E w \in watchers[u] : WatcherFires(u, w)

(* An interval that was not cleared fires again.                                *)
MobileFairness == \A u \in Users, w \in Sessions : WF_mobileVars(WatcherFires(u, w))

MobileSpec == MobileInit /\ [][MobileNext]_mobileVars /\ MobileFairness

-----------------------------------------------------------------------------
(* An active session is always watched, although activations overlap, a stop   *)
(* comes between two of them and old intervals look at new sessions.            *)
ActiveIsWatched == \A u \in Users : IsActive(u) => watchers[u] # {}

(* A phone that has gone is eventually not counted among the active nodes.    *)
GoneIsStopped == \A u \in Users : IsActive(u) /\ ~heard[u] ~> heard[u] \/ ~IsActive(u)

(* The intervals that overlapping activations lose track of end with the node.  *)
WatchersEnd == \A u \in Users : ~IsActive(u) ~> watchers[u] = {} \/ IsActive(u)
=============================================================================

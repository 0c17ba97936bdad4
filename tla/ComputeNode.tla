----------------------------- MODULE ComputeNode ------------------------------
(* The inference side of a node: chats served by the gateway, the platform's    *)
(* task loop and model maintenance, which share the compute slots and the       *)
(* download gate (src/gateway/server.ts, src/gateway/router.ts,                 *)
(* src/lib/model-download.ts).                                                  *)
EXTENDS PlatformLink

ASSUME NodeAssumption == IsFiniteSet(Wakers)

VARIABLES chat, \* [Wakers -> where the chat is]
          gate  \* who holds the modelDownloadGate

nodeVars == <<chat, gate>>
vars == <<linkVars, slotVars, nodeVars>>

Init == /\ SlotsInit /\ LinkInit
        /\ chat = [c \in Wakers |-> "idle"]
        /\ gate = "free"
-----------------------------------------------------------------------------
(* A chat holds its slot from infer() to its answer, the wait for a task        *)
(* included.                                                                    *)

\* A request that finds no slot is answered 429 and changes nothing.
ChatArrives(c) ==
    /\ chat[c] = "idle"
    /\ TakeSlot
    /\ chat' = [chat EXCEPT ![c] = "routing"]
    /\ UNCHANGED <<linkVars, gate>>

\* routeViaTaskQueue(): the task is submitted and the local loop woken.
ChatSubmits(c) ==
    /\ chat[c] = "routing"
    /\ chat' = [chat EXCEPT ![c] = "queued"]
    /\ Wake(c)
    /\ UNCHANGED gate

\* Mutant: a chat may end twice, by its answer and by its client's leaving.
ChatEndsAgain(c) ==
    /\ waker # c
    /\ chat' = [chat EXCEPT ![c] = "idle"]
    /\ FreeSlot
    /\ UNCHANGED <<linkVars, gate>>

\* Answered locally, by the task's result, by a peer, or with an error; but not
\* while it awaits the poll it woke.
ChatEnds(c) ==
    /\ chat[c] # "idle"
    /\ waker # c
    /\ chat' = [chat EXCEPT ![c] = "idle"]
    /\ FreeSlot
    /\ UNCHANGED <<linkVars, gate>>
-----------------------------------------------------------------------------
PullBegins == /\ gate = "free"
              /\ gate' = "pulling"
              /\ UNCHANGED <<linkVars, slotVars, chat>>

PullEnds == /\ gate = "pulling"
            /\ gate' = "free"
            /\ UNCHANGED <<linkVars, slotVars, chat>>

\* Mutant: a removal looks at the load but takes no lock.
\* A removal needs the gate and the maintenance lock, or gives both up.
RemovalBegins == /\ gate = "free"
                 /\ gate' = "removing"
                 /\ AcquireMaintenance
                 /\ UNCHANGED <<linkVars, chat>>

RemovalEnds == /\ gate = "removing"
               /\ gate' = "free"
               /\ ReleaseMaintenance
               /\ UNCHANGED <<linkVars, chat>>
-----------------------------------------------------------------------------
ChatStep == \E c \in Wakers : ChatArrives(c) \/ ChatSubmits(c) \/ ChatEnds(c)
ModelStep == PullBegins \/ PullEnds \/ RemovalBegins \/ RemovalEnds

Next == \/ LinkNext /\ UNCHANGED nodeVars
        \/ ChatStep
        \/ ModelStep

Spec == Init /\ [][Next]_vars

\* A step of the link leaves chats and models alone.
Alone(step) == step /\ UNCHANGED nodeVars

\* Every request has a timeout, so it is answered or fails, and every timer fires.
\* The intervals, the chats, the operator and the shutdown owe nothing.
LiveSpec ==
    /\ Spec
    /\ WF_vars(Alone(Tick))
    /\ WF_vars(Alone(TimerFires))
    /\ WF_vars(Alone(PollAnswered))
    /\ WF_vars(Alone(TaskEnds))
    /\ WF_vars(Alone(CompletionAnswered))
    /\ WF_vars(Alone(BeatDone))
    /\ \A c \in Callers : WF_vars(Alone(RegisterAnswered(c)))
-----------------------------------------------------------------------------
NodeTypeOK == TypeOK
    /\ chat \in [Wakers -> {"idle", "routing", "queued"}]
    /\ gate \in {"free", "pulling", "removing"}

Holding == {c \in Wakers : chat[c] # "idle"}

\* Slots are neither lost nor freed twice, whoever fails when: as many are active as
\* chats are open plus the task that computes, never more than Capacity.
SlotsExact ==
    /\ active = Cardinality(Holding) + (IF poll = "computing" THEN 1 ELSE 0)
    /\ active <= Capacity

\* While a model is removed nothing computes: nothing did when the removal began,
\* and neither a chat nor a claimed task gets a slot before it ends.
RemovalAlone == gate = "removing" => maintenance /\ active = 0

\* Every slot is accounted for, and a removal of a model has the runtime to itself.
SlotsRespected == SlotsExact /\ RemovalAlone

\* src/core/platform-link.ts:381 "A real chat request wakes the existing worker": a
\* chat that finds a registered, idle loop the platform did not slow down starts
\* a poll.
ChatWakesWorker ==
    [][\A c \in Wakers : (ChatSubmits(c) /\ WakeAllowed /\ registered /\ poll = "idle") => poll' = "polling"]_vars

\* Chats postpone polls but cannot end them: once chats and removals cease, a
\* registered node that is not suspended polls again and again.
PollsResume == <>[](registered /\ enabled /\ Holding = {} /\ ~maintenance) => []<>(poll = "polling")
=============================================================================

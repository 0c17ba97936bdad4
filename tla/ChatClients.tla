---------------------------- MODULE ChatClients ----------------------------
(* Who the gateway answers (src/src/gateway/server.ts): the operator's chat      *)
(* sockets with their sessions (gateway/sessions.ts), the OpenAI-compatible     *)
(* routes, and the free API whose keys are issued for a funded wallet.  All of  *)
(* them share the compute slots, and each waits for its answer while the socket *)
(* may ask again, be reset or close.                                            *)
EXTENDS Naturals, Sequences, FiniteSets

CONSTANTS Sockets, MaxSockets, \* 64 in the code
          ChatHistory,         \* 40
          ChatSlots,           \* computations admitted at a time
          Wallets,             \* wallets linked to a Telegram account
          MaxQuestions         \* bound: everything asked

VARIABLES socket,    \* [socket -> "new", "open", "closed"]
          history,   \* [socket -> session.history]
          pending,   \* computations: who asked, and which question
          metrics,   \* [total, cache, swarm, other]
          freeKeys,  \* freeApiKeyHashes: the wallets keys were issued for
          funded,    \* the platform: wallets that hold enough
          wasFunded, \* history: wallets found funded
          freeStage, \* [wallet -> the free request's stage]
          questions

Http == "http"      \* a route
ASSUME ChatAssumption ==
    /\ IsFiniteSet(Sockets) /\ Http \notin Sockets \cup Wallets /\ Sockets \cap Wallets = {}
    /\ {MaxSockets, ChatHistory, ChatSlots, MaxQuestions} \subseteq Nat

chatVars == <<socket, history, pending, metrics, freeKeys, funded, wasFunded, freeStage, questions>>

Turn == [role : {"user", "assistant"}, q : 1..MaxQuestions]
Last(s, n) == SubSeq(s, IF Len(s) > n THEN Len(s) - n + 1 ELSE 1, Len(s))

ChatTypeOK ==
    /\ socket \in [Sockets -> {"new", "open", "closed"}]
    /\ history \in [Sockets -> Seq(Turn)]
    /\ pending \subseteq [by : Sockets \cup Wallets \cup {Http}, q : 1..MaxQuestions]
    /\ metrics \in [total : 0..MaxQuestions, cache : 0..MaxQuestions, swarm : 0..MaxQuestions, other : 0..MaxQuestions]
    /\ freeKeys \subseteq Wallets /\ funded \subseteq Wallets /\ wasFunded \subseteq Wallets
    /\ freeStage \in [Wallets -> {"idle", "linked", "hash", "check"}]
    /\ questions \in 0..MaxQuestions

ChatInit == /\ socket = [c \in Sockets |-> "new"] /\ history = [c \in Sockets |-> << >>]
            /\ pending = {} /\ metrics = [total |-> 0, cache |-> 0, swarm |-> 0, other |-> 0]
            /\ freeKeys = {} /\ funded = Wallets /\ wasFunded = {}
            /\ freeStage = [w \in Wallets |-> "idle"] /\ questions = 0

Open == {c \in Sockets : socket[c] = "open"}

(* setupWebSocket: verifyClient and create.                                     *)
Join(c) == /\ socket[c] = "new" /\ Cardinality(Open) < MaxSockets
           /\ socket' = [socket EXCEPT ![c] = "open"]
           /\ UNCHANGED <<history, pending, metrics, freeKeys, funded, wasFunded, freeStage, questions>>

(* The session is dropped; what it waits for is computed all the same.          *)
Leave(c) == /\ socket[c] = "open"
            /\ socket' = [socket EXCEPT ![c] = "closed"]
            /\ UNCHANGED <<history, pending, metrics, freeKeys, funded, wasFunded, freeStage, questions>>

Asked(who) == /\ questions < MaxQuestions
              /\ questions' = questions + 1
              /\ IF Cardinality(pending) < ChatSlots      \* infer, or ComputeCapacityError
                 THEN pending' = pending \cup {[by |-> who, q |-> questions + 1]}
                 ELSE UNCHANGED pending

(* handleWSMessage, chat: the question is kept and the history cut before the   *)
(* answer is awaited.                                                           *)
Say(c) == /\ c \in Open /\ Asked(c)
          /\ history' = [history EXCEPT ![c] = Last(Append(@, [role |-> "user", q |-> questions + 1]), ChatHistory)]
          /\ UNCHANGED <<socket, metrics, freeKeys, funded, wasFunded, freeStage>>

(* updateMetrics                                                                *)
Tiers == {"cache", "swarm", "other"}
Counted(tier, more) == metrics' = [metrics EXCEPT ![tier] = @ + 1, !.total = @ + more]

(* The answer goes into the history as it is now, whatever was asked or reset   *)
(* in the meantime; a failure leaves the question without one.                  *)
Answered(c) == \E p \in pending :
    /\ p.by = c /\ pending' = pending \ {p}
    /\ \/ /\ \E tier \in Tiers : Counted(tier, 1)
          /\ history' = [history EXCEPT ![c] = Append(@, [role |-> "assistant", q |-> p.q])]
       \/ UNCHANGED <<metrics, history>>
    /\ UNCHANGED <<socket, freeKeys, funded, wasFunded, freeStage, questions>>

(* handleCommand: new and reset.                                                *)
ResetChat(c) == /\ c \in Open /\ history' = [history EXCEPT ![c] = << >>]
                /\ UNCHANGED <<socket, pending, metrics, freeKeys, funded, wasFunded, freeStage, questions>>

(* /v1/chat/completions and /api/v1/chat count the request first.               *)
Complete == /\ Asked(Http)
            /\ metrics' = [metrics EXCEPT !.total = @ + 1]
            /\ UNCHANGED <<socket, history, freeKeys, funded, wasFunded, freeStage>>

Completed == \E p \in pending :
    /\ p.by = Http /\ pending' = pending \ {p}
    /\ UNCHANGED metrics \/ \E tier \in Tiers : Counted(tier, 0)
    /\ UNCHANGED <<socket, history, freeKeys, funded, wasFunded, freeStage, questions>>

(* /api/v1/free-api/key: the link, the balance of the linked wallet and the     *)
(* hash of the new key are each awaited.                                        *)
FreeTo(w, stage) == freeStage' = [freeStage EXCEPT ![w] = stage]
AskKey(w) == /\ freeStage[w] = "idle" /\ FreeTo(w, "linked")
             /\ UNCHANGED <<socket, history, pending, metrics, freeKeys, funded, wasFunded, questions>>
IssueKey(w) ==
    /\ \/ /\ freeStage[w] = "linked" /\ UNCHANGED freeKeys
          /\ IF w \in funded THEN FreeTo(w, "hash") /\ wasFunded' = wasFunded \cup {w}
                             ELSE FreeTo(w, "idle") /\ UNCHANGED wasFunded
       \/ /\ freeStage[w] = "hash" /\ FreeTo(w, "idle")
          /\ freeKeys' = freeKeys \cup {w} /\ UNCHANGED wasFunded
    /\ UNCHANGED <<socket, history, pending, metrics, funded, questions>>

(* /api/v1/free-api/chat asks for the balance again, and answers are not        *)
(* counted.                                                                     *)
AskFree(w) == /\ freeStage[w] = "idle" /\ w \in freeKeys /\ FreeTo(w, "check")
              /\ UNCHANGED <<socket, history, pending, metrics, freeKeys, funded, wasFunded, questions>>
FreeChecked(w) ==
    /\ freeStage[w] = "check" /\ FreeTo(w, "idle")
    /\ IF w \in funded THEN Asked(w) ELSE UNCHANGED <<pending, questions>>
    /\ UNCHANGED <<socket, history, metrics, freeKeys, funded, wasFunded>>
FreeAnswered(w) == \E p \in pending :
    /\ p.by = w /\ pending' = pending \ {p}
    /\ UNCHANGED <<socket, history, metrics, freeKeys, funded, wasFunded, freeStage, questions>>

BalanceMoves(w) == /\ funded' = IF w \in funded THEN funded \ {w} ELSE funded \cup {w}
                   /\ UNCHANGED <<socket, history, pending, metrics, freeKeys, wasFunded, freeStage, questions>>

ChatNext == \/ Complete \/ Completed
            \/ \E c \in Sockets : Join(c) \/ Leave(c) \/ Say(c) \/ Answered(c) \/ ResetChat(c)
            \/ \E w \in Wallets : \/ AskKey(w) \/ IssueKey(w) \/ AskFree(w) \/ FreeChecked(w)
                                  \/ FreeAnswered(w) \/ BalanceMoves(w)
-----------------------------------------------------------------------------
(* Overlapping questions, resets and closed sockets: a session's history stays  *)
(* within its limit and the answers that can be in flight, an answer never      *)
(* stands before its question nor twice, and the sovereignty index, a share of  *)
(* the requests, stays a share.                                                 *)
Flying(c) == Cardinality({p \in pending : p.by = c})
ChatsWithinLimit ==
    /\ Cardinality(Open) <= MaxSockets
    /\ \A c \in Sockets :
         /\ Len(history[c]) + Flying(c) <= ChatHistory + ChatSlots
         /\ \A i, j \in DOMAIN history[c] : i < j /\ history[c][i].q = history[c][j].q =>
                history[c][i].role = "user" /\ history[c][j].role = "assistant"
    /\ metrics.cache + metrics.swarm + metrics.other <= metrics.total
    /\ freeKeys \subseteq wasFunded
=============================================================================

---------------------------- MODULE ModelFailover ----------------------------
(* Which model is asked next: class ModelFailover of                            *)
(* src/src/core/model-failover.ts, with calls of executeWithFailover that       *)
(* overlap, and the book of what was used, class UsageTracker of                *)
(* src/src/core/usage-tracker.ts.                                               *)
EXTENDS Naturals, Sequences, FiniteSets, Functions

CONSTANTS Chain,         \* the models, the preferred ones first
          FailoverCalls, \* calls of executeWithFailover
          FailThreshold, \* 3 failures
          Cooldown,      \* 30 s
          SuccessWindow, \* 60 s
          MaxUsage,      \* 10 000 records
          MaxSeconds     \* bound: the clock, in half minutes (a day of the book is one)

ASSUME FailoverAssumption ==
    /\ Chain \in Seq(Range(Chain)) /\ Chain # << >> /\ \A i, j \in DOMAIN Chain : Chain[i] = Chain[j] => i = j
    /\ IsFiniteSet(FailoverCalls)
    /\ {FailThreshold, MaxUsage} \subseteq Nat \ {0} /\ {Cooldown, SuccessWindow} \subseteq Nat /\ MaxSeconds \in Nat \ {0}

ChainModels == {Chain[i] : i \in DOMAIN Chain}
Place(m) == CHOOSE i \in DOMAIN Chain : Chain[i] = m
Never == 0

VARIABLES health,  \* [model -> [failures, coolsUntil, lastSuccess]]
          attempt, \* [call -> [preferred, ready, left, asked, tried, stage]]: its own list, the
                   \* models left of it, and what was available when it was made
          usage,   \* records: [model, day]
          daily,   \* [day -> requests]
          halfMinute

failoverVars == <<health, attempt, usage, daily, halfMinute>>

FailoverTypeOK ==
    /\ health \in [ChainModels -> [failures : 0..Cardinality(FailoverCalls), coolsUntil : 0..MaxSeconds + Cooldown, lastSuccess : 0..MaxSeconds]]
    /\ attempt \in [FailoverCalls -> [preferred : ChainModels, ready : SUBSET ChainModels, left : SUBSET ChainModels, asked : ChainModels,
                                     tried : SUBSET ChainModels, stage : {"new", "asking", "answered", "failed"}]]
    /\ usage \in Seq([model : ChainModels, day : 0..MaxSeconds])
    /\ daily \in [0..MaxSeconds -> Nat] /\ halfMinute \in 1..MaxSeconds

FailoverInit == /\ health = [m \in ChainModels |-> [failures |-> 0, coolsUntil |-> Never, lastSuccess |-> Never]]
                /\ attempt = [c \in FailoverCalls |-> [preferred |-> Chain[1], ready |-> {}, left |-> {}, asked |-> Chain[1], tried |-> {}, stage |-> "new"]]
                /\ usage = << >> /\ daily = [d \in 0..MaxSeconds |-> 0]
                /\ halfMinute = 1

Available(m) == health[m].coolsUntil <= halfMinute
Ready == {m \in ChainModels : Available(m)}
(* getFailoverOrder: the preferred model if it is available, then the chain,    *)
(* those that cool down last.                                                   *)
FailoverOrder(m, preferred, ready) ==
    CASE m \notin ready -> Len(Chain) + Place(m)
      [] m \in ready /\ m # preferred -> Place(m)
      [] OTHER -> 0
FirstOf(models, preferred, ready) ==
    CHOOSE m \in models : \A k \in models : FailoverOrder(m, preferred, ready) <= FailoverOrder(k, preferred, ready)
(* getBestModel.                                                                *)
BestModel(preferred) == IF Ready # {} THEN FirstOf(ChainModels, preferred, Ready) ELSE Chain[1]

Begin(c, preferred) ==
    LET first == FirstOf(ChainModels, preferred, Ready) IN
    /\ attempt[c].stage = "new"
    /\ attempt' = [attempt EXCEPT ![c] = [preferred |-> preferred, ready |-> Ready, left |-> ChainModels \ {first}, asked |-> first,
                                         tried |-> {}, stage |-> "asking"]]
    /\ UNCHANGED <<health, usage, daily, halfMinute>>

(* UsageTracker.record.                                                         *)
Used(m) == LET all == Append(usage, [model |-> m, day |-> halfMinute]) IN
           /\ daily[halfMinute] <= MaxUsage
           /\ usage' = IF Len(all) > MaxUsage THEN SubSeq(all, Len(all) - MaxUsage + 1, Len(all)) ELSE all
           /\ daily' = [daily EXCEPT ![halfMinute] = @ + 1]
           /\ UNCHANGED <<health, attempt, halfMinute>>
(* getSummary: the requests that are still on record.                           *)
UsedOf(m) == Cardinality({i \in DOMAIN usage : usage[i].model = m})

ModelSucceeds(m) == [health EXCEPT ![m].lastSuccess = halfMinute, ![m].coolsUntil = Never]
(* A model that answered in the last minute does not cool down.                 *)
ModelFails(m) ==
    LET failures == health[m].failures + 1
        cools == (health[m].lastSuccess = Never \/ halfMinute - health[m].lastSuccess > SuccessWindow) /\ failures % FailThreshold = 0
    IN  [health EXCEPT ![m].failures = failures, ![m].coolsUntil = IF cools THEN halfMinute + Cooldown ELSE @]

ModelAnswers(c) == /\ attempt[c].stage = "asking"
                   /\ health' = ModelSucceeds(attempt[c].asked)
                   /\ attempt' = [attempt EXCEPT ![c].stage = "answered"]
                   /\ UNCHANGED <<usage, daily, halfMinute>>
(* The next model of the order the call made when it began.                     *)
AsksNext(c) ==
    LET a == attempt[c]
        next == FirstOf(a.left, a.preferred, a.ready)
    IN
    /\ a.stage = "asking"
    /\ health' = ModelFails(a.asked)
    /\ attempt' = [attempt EXCEPT ![c] =
                     IF a.left = {} THEN [a EXCEPT !.stage = "failed", !.tried = @ \cup {a.asked}]
                     ELSE [a EXCEPT !.asked = next, !.left = @ \ {next}, !.tried = @ \cup {a.asked}]]
    /\ UNCHANGED <<usage, daily, halfMinute>>
HalfMinutePasses == halfMinute < MaxSeconds /\ halfMinute' = halfMinute + 1 /\ UNCHANGED <<health, attempt, usage, daily>>

FailoverNext == \/ HalfMinutePasses
                \/ \E m \in ChainModels : Used(m)
                \/ \E c \in FailoverCalls : ModelAnswers(c) \/ AsksNext(c) \/ \E m \in ChainModels : Begin(c, m)
-----------------------------------------------------------------------------
(* However calls overlap: one gives up only when every model has failed it and  *)
(* asks none twice; a model that has just answered somebody is available, a     *)
(* late failure of another call notwithstanding; the best model is available    *)
(* when any is; and the days count every request, also those no longer on       *)
(* record.                                                                      *)
EveryModelTried ==
    /\ \A c \in FailoverCalls : /\ attempt[c].stage = "failed" => attempt[c].tried = ChainModels
                                /\ attempt[c].stage = "asking" => attempt[c].asked \notin attempt[c].tried
    /\ \A m \in ChainModels : health[m].lastSuccess # Never /\ halfMinute - health[m].lastSuccess <= SuccessWindow => Available(m)
    /\ \A m \in ChainModels : (\E k \in ChainModels : Available(k)) => Available(BestModel(m))
    /\ \A d \in 1..MaxSeconds : Cardinality({i \in DOMAIN usage : usage[i].day = d}) <= daily[d]
    /\ daily[halfMinute] > 0 => \E m \in ChainModels : UsedOf(m) > 0
=============================================================================

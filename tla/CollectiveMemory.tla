-------------------------- MODULE CollectiveMemory --------------------------
(* What a node remembers (src/src/memory/collective.ts): answers in the process *)
(* (L1), in Redis (L2) and at the platform (L3).  A recall awaits L2 and then   *)
(* L3 while answers are stored and expire.                                      *)
EXTENDS Naturals, FiniteSets

CONSTANTS Questions, Answers,
          Recalls,      \* calls of recall, each made once
          L1Max,        \* 10 000 in the code
          L1Ttl, L2Ttl, \* 24 h and 7 days
          MaxHours,     \* bound: the clock
          MaxStores     \* bound: answers stored

NotKnown == "none"

(* "none" stands for no answer: what is remembered are texts of their own.      *)
ASSUME MemoryAssumption == /\ {L1Max, L1Ttl, L2Ttl, MaxHours, MaxStores} \subseteq Nat
                           /\ Questions # {} /\ NotKnown \notin Answers /\ IsFiniteSet(Recalls)

VARIABLES l1, l2,   \* [question -> entry]
          l3,       \* the platform: [question -> its answer]
          recall,   \* [recall -> [question, stage]]
          recalled, \* [recall -> the answer it returned]
          sharing,  \* GSTD_SHARE_KNOWLEDGE, and which layers were reached by init
          stored,   \* history: [question -> every answer stored for it here]
          sent,     \* history: answers that left the node
          memoryStats, hours

memoryVars == <<l1, l2, l3, recall, recalled, sharing, stored, sent, memoryStats, hours>>

Absent == [answer |-> NotKnown, until |-> 0, hits |-> 0]
MemoryEntry(a, h) == [answer |-> a, until |-> hours + L1Ttl, hits |-> h]
EntryOf == [answer : Answers \cup {NotKnown}, until : 0..MaxHours + L1Ttl, hits : 0..Cardinality(Recalls) + 1]
InL1 == {q \in Questions : l1[q].answer # NotKnown}

MemoryTypeOK ==
    /\ l1 \in [Questions -> EntryOf]
    /\ l2 \in [Questions -> [entry : EntryOf, kept : 0..MaxHours + L2Ttl]]
    /\ l3 \in [Questions -> Answers \cup {NotKnown}]
    /\ recall \in [Recalls -> [question : Questions, stage : {"new", "l2", "l3", "done"}]]
    /\ recalled \in [Recalls -> Answers \cup {NotKnown}]
    /\ sharing \in [consent : BOOLEAN, redis : BOOLEAN, platform : BOOLEAN]
    /\ stored \in [Questions -> SUBSET Answers]
    /\ sent \subseteq Questions \X Answers
    /\ memoryStats \in [stores : 0..MaxStores, recalls : 0..Cardinality(Recalls), hits : 0..Cardinality(Recalls)]
    /\ hours \in 0..MaxHours

(* init: connectRedis and checkPlatform, each once.                             *)
MemoryInit ==
    /\ l1 = [q \in Questions |-> Absent]
    /\ l2 = [q \in Questions |-> [entry |-> Absent, kept |-> 0]]
    /\ l3 = [q \in Questions |-> NotKnown]
    /\ recall = [r \in Recalls |-> [question |-> CHOOSE q \in Questions : TRUE, stage |-> "new"]]
    /\ recalled = [r \in Recalls |-> NotKnown]
    /\ sharing \in [consent : BOOLEAN, redis : BOOLEAN, platform : BOOLEAN]
    /\ stored = [q \in Questions |-> {}] /\ sent = {}
    /\ memoryStats = [stores |-> 0, recalls |-> 0, hits |-> 0] /\ hours = 0

(* A full L1 loses one of its entries with the fewest hits, also when the       *)
(* question is known already.                                                   *)
Evictable == IF Cardinality(InL1) < L1Max THEN {{}}
             ELSE {{q} : q \in {q \in InL1 : \A p \in InL1 : l1[q].hits <= l1[p].hits}}
Put(q, e, evicted) == l1' = [p \in Questions |-> IF p = q THEN e ELSE IF p \in evicted THEN Absent ELSE l1[p]]

Shared(sure) == sharing.consent /\ sharing.platform /\ sure
(* store; an answer that is not sure enough, or not to be shared, stays here.   *)
Store(q, a, sure) ==
    /\ memoryStats.stores < MaxStores
    /\ \E evicted \in Evictable : Put(q, MemoryEntry(a, 0), evicted)
    /\ \/ UNCHANGED l2          \* no Redis, or it failed
       \/ sharing.redis /\ l2' = [l2 EXCEPT ![q] = [entry |-> MemoryEntry(a, 0), kept |-> hours + L2Ttl]]
    /\ IF Shared(sure) THEN sent' = sent \cup {<<q, a>>} /\ l3' \in {l3, [l3 EXCEPT ![q] = a]}
                       ELSE UNCHANGED <<sent, l3>>
    /\ stored' = [stored EXCEPT ![q] = @ \cup {a}]
    /\ memoryStats' = [memoryStats EXCEPT !.stores = @ + 1]
    /\ UNCHANGED <<recall, recalled, sharing, hours>>

RecallTo(r, stage) == recall' = [recall EXCEPT ![r].stage = stage]
Hit(r, a) == recalled' = [recalled EXCEPT ![r] = a] /\ RecallTo(r, "done")
Miss(r) == RecallTo(r, "done") /\ UNCHANGED recalled

(* The next layer that init reached.                                            *)
After(layer) == IF layer = "l1" /\ sharing.redis THEN "l2" ELSE IF sharing.platform THEN "l3" ELSE "done"

(* recall: L1 unless the entry has expired.                                     *)
Recall(r, q) ==
    LET fresh == l1[q].answer # NotKnown /\ hours <= l1[q].until IN
    /\ recall[r].stage = "new"
    /\ memoryStats' = [memoryStats EXCEPT !.recalls = @ + 1, !.hits = @ + IF fresh THEN 1 ELSE 0]
    /\ recall' = [recall EXCEPT ![r] = [question |-> q, stage |-> IF fresh THEN "done" ELSE After("l1")]]
    /\ IF fresh THEN l1' = [l1 EXCEPT ![q].hits = @ + 1] /\ recalled' = [recalled EXCEPT ![r] = l1[q].answer]
                ELSE UNCHANGED <<recalled, l1>>
    /\ UNCHANGED <<l2, l3, sharing, stored, sent, hours>>

(* What Redis had goes into L1 as it was, whatever was stored in the meantime   *)
(* and whether or not its day is over.                                          *)
AskedRedis(r) ==
    LET q == recall[r].question IN
    /\ recall[r].stage = "l2"
    /\ \/ /\ l2[q].entry.answer # NotKnown /\ hours <= l2[q].kept
          /\ Hit(r, l2[q].entry.answer)
          /\ l1' = [l1 EXCEPT ![q] = [l2[q].entry EXCEPT !.hits = @ + 1]]
          /\ memoryStats' = [memoryStats EXCEPT !.hits = @ + 1]
       \/ /\ RecallTo(r, After("l2"))
          /\ UNCHANGED <<l1, recalled, memoryStats>>
    /\ UNCHANGED <<l2, l3, sharing, stored, sent, hours>>

AskedPlatform(r) ==
    LET q == recall[r].question IN
    /\ recall[r].stage = "l3"
    /\ \/ /\ l3[q] # NotKnown /\ Hit(r, l3[q])
          /\ l1' = [l1 EXCEPT ![q] = MemoryEntry(l3[q], 1)]
          /\ memoryStats' = [memoryStats EXCEPT !.hits = @ + 1]
       \/ Miss(r) /\ UNCHANGED <<l1, memoryStats>>
    /\ UNCHANGED <<l2, l3, sharing, stored, sent, hours>>

(* cleanupL1, every minute.                                                     *)
CleanupL1 == /\ l1' = [q \in Questions |-> IF hours > l1[q].until THEN Absent ELSE l1[q]]
             /\ l1' # l1
             /\ UNCHANGED <<l2, l3, recall, recalled, sharing, stored, sent, memoryStats, hours>>
HourPasses == /\ hours < MaxHours /\ hours' = hours + 1
              /\ UNCHANGED <<l1, l2, l3, recall, recalled, sharing, stored, sent, memoryStats>>
(* Another node reports an answer.                                              *)
PlatformLearns(q, a) == /\ l3[q] = NotKnown /\ l3' = [l3 EXCEPT ![q] = a]
                        /\ UNCHANGED <<l1, l2, recall, recalled, sharing, stored, sent, memoryStats, hours>>

MemoryNext == \/ CleanupL1 \/ HourPasses
              \/ \E q \in Questions, a \in Answers : PlatformLearns(q, a) \/ \E sure \in BOOLEAN : Store(q, a, sure)
              \/ \E r \in Recalls : AskedRedis(r) \/ AskedPlatform(r) \/ \E q \in Questions : Recall(r, q)
-----------------------------------------------------------------------------
(* However recalls overlap what is stored and forgotten: without a platform     *)
(* nobody answers but this node, for the question that was asked; and no answer *)
(* leaves a node that did not agree to share.                                   *)
AnswersStayHome ==
    /\ sent # {} => sharing.consent
    /\ \A r \in Recalls : recalled[r] # NotKnown /\ ~sharing.platform => recalled[r] \in stored[recall[r].question]
    /\ \A q \in Questions : ~sharing.platform /\ l1[q].answer # NotKnown => l1[q].answer \in stored[q]
    /\ memoryStats.hits <= memoryStats.recalls
=============================================================================

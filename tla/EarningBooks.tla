---------------------------- MODULE EarningBooks ----------------------------
(* The books of what is earned: the revenue a node reports, and the validators, *)
(* bounties and rewards its gateway keeps.                                      *)
EXTENDS Naturals, Sequences, FiniteSets, Functions

-----------------------------------------------------------------------------
(* What the node earns and reports: class RevenueEngine of                      *)
(* src/src/revenue/engine.ts. Events wait in a queue; settlements take          *)
(* batches from its head, may overlap, and fail in three ways: the platform     *)
(* refuses the batch, refuses it for good (410), or books it and the reply is   *)
(* lost.                                                                        *)

CONSTANTS Streams,            \* storage, compute, inference, relay, training
          DefaultRate, Rates, \* what a unit of work is worth; 0: rounded to nothing
          MaxWork,            \* bound: units of work of an event
          BatchSize,          \* 50
          MaxEarned,          \* bound: events
          MaxBatches          \* bound: settlements under way at once

ASSUME EngineAssumption == /\ DefaultRate \in Nat /\ Rates \subseteq Nat /\ BatchSize \in Nat \ {0}
                           /\ {MaxWork, MaxEarned, MaxBatches} \subseteq Nat

VARIABLES rate,          \* rates
          events,        \* events: [stream, amount], named by their place
          waiting,       \* pendingSettlement
          batches,       \* settlements under way: sequences of events
          settledEvents, \* events marked as settled
          refused,       \* events of a batch the platform would not have (410)
          pendingSum,    \* stats.totalPending
          settledSum,    \* stats.totalSettled
          booked,        \* [event -> times the platform booked it] (external)
          lost,          \* events whose booking was not told (not in the code)
          hasWallet, engineOn

engineVars == <<rate, events, waiting, batches, settledEvents, refused, pendingSum, settledSum, booked, lost, hasWallet, engineOn>>

EventNumbers == DOMAIN events
Amount(s) == SumFunctionOnSet([i \in DOMAIN s |-> events[s[i]].amount], DOMAIN s)
AmountOf(es) == SumFunctionOnSet([e \in EventNumbers |-> events[e].amount], es)

EngineTypeOK ==
    /\ rate \in Rates \cup {DefaultRate} /\ events \in Seq([stream : Streams, amount : Nat \ {0}])
    /\ waiting \in Seq(EventNumbers) /\ \A b \in batches : b \in Seq(EventNumbers) /\ b # << >>
    /\ settledEvents \cup refused \cup lost \subseteq EventNumbers
    /\ pendingSum \in Nat /\ settledSum \in Nat
    /\ booked \in [1..MaxEarned -> Nat] /\ hasWallet \in BOOLEAN /\ engineOn \in BOOLEAN

EngineInit ==
    /\ rate = DefaultRate /\ events = << >> /\ waiting = << >> /\ batches = {}
    /\ settledEvents = {} /\ refused = {} /\ pendingSum = 0 /\ settledSum = 0
    /\ booked = [e \in 1..MaxEarned |-> 0] /\ lost = {} /\ hasWallet \in BOOLEAN /\ engineOn = TRUE

Ceil(n, m) == IF n < m THEN n ELSE m
(* settlePending up to its request, of the queue q.                             *)
Settle(q) ==
    IF q = << >> \/ ~hasWallet THEN waiting' = q /\ UNCHANGED batches
    ELSE /\ batches' = batches \cup {SubSeq(q, 1, Ceil(BatchSize, Len(q)))}
         /\ waiting' = SubSeq(q, BatchSize + 1, Len(q))

(* earnStorage … earnTraining: nothing is recorded for an amount of 0; a full   *)
(* batch is settled at once.                                                    *)
RecordEvent(s, work) ==
    LET e == Len(events) + 1  q == Append(waiting, e) IN
    /\ Len(events) < MaxEarned /\ Cardinality(batches) < MaxBatches /\ rate > 0
    /\ events' = Append(events, [stream |-> s, amount |-> rate * work])
    /\ pendingSum' = pendingSum + rate * work
    /\ IF Len(q) >= BatchSize THEN Settle(q) ELSE waiting' = q /\ UNCHANGED batches
    /\ UNCHANGED <<rate, settledEvents, refused, settledSum, booked, lost, hasWallet, engineOn>>

(* The timer of five minutes, and the last settlement of stop().                *)
SettlePending == /\ engineOn /\ waiting # << >> /\ Cardinality(batches) < MaxBatches /\ Settle(waiting)
                 /\ UNCHANGED <<rate, events, settledEvents, refused, pendingSum, settledSum, booked, lost, hasWallet, engineOn>>
StopEngine == /\ engineOn /\ engineOn' = FALSE /\ Cardinality(batches) < MaxBatches /\ Settle(waiting)
              /\ UNCHANGED <<rate, events, settledEvents, refused, pendingSum, settledSum, booked, lost, hasWallet>>

Book(b) == [e \in 1..MaxEarned |-> IF e \in Range(b) THEN booked[e] + 1 ELSE booked[e]]
BatchAccepted(b) ==
    /\ booked' = Book(b) /\ batches' = batches \ {b}
    /\ settledEvents' = settledEvents \cup Range(b)
    /\ pendingSum' = pendingSum - Amount(b) /\ settledSum' = settledSum + Amount(b)
    /\ UNCHANGED <<rate, events, waiting, refused, lost, hasWallet, engineOn>>
(* 410: the events are dropped from the queue; what is pending keeps them.      *)
BatchRefused(b) == /\ batches' = batches \ {b} /\ refused' = refused \cup Range(b)
                   /\ UNCHANGED <<rate, events, waiting, settledEvents, pendingSum, settledSum, booked, lost, hasWallet, engineOn>>
PutBack(b) == batches' = batches \ {b} /\ waiting' = b \o waiting
SettlementFails(b) == PutBack(b) /\ UNCHANGED <<rate, events, settledEvents, refused, pendingSum, settledSum, booked, lost, hasWallet, engineOn>>
(* The request times out, or the reply cannot be read, after it was booked.     *)
ReplyIsLost(b) == /\ PutBack(b) /\ \A e \in Range(b) : booked[e] < 2  \* bound
                  /\ booked' = Book(b) /\ lost' = lost \cup Range(b)
                  /\ UNCHANGED <<rate, events, settledEvents, refused, pendingSum, settledSum, hasWallet, engineOn>>

SetWallet == ~hasWallet /\ hasWallet' = TRUE
             /\ UNCHANGED <<rate, events, waiting, batches, settledEvents, refused, pendingSum, settledSum, booked, lost, engineOn>>
(* fetchRates, once at the start: the platform's rates or the default ones.     *)
FetchRates(r) == /\ events = << >> /\ rate = DefaultRate /\ rate' = r
                 /\ UNCHANGED <<events, waiting, batches, settledEvents, refused, pendingSum, settledSum, booked, lost, hasWallet, engineOn>>

EngineNext ==
    \/ \E s \in Streams, work \in 1..MaxWork : RecordEvent(s, work)
    \/ SettlePending \/ StopEngine \/ SetWallet \/ \E r \in Rates : FetchRates(r)
    \/ \E b \in batches : BatchAccepted(b) \/ BatchRefused(b) \/ SettlementFails(b) \/ ReplyIsLost(b)
-----------------------------------------------------------------------------
(* However settlements overlap and fail, every event is in exactly one place:   *)
(* it waits, is in one batch under way, is settled or was refused; the amounts  *)
(* of the statistics are those of these events; and the platform books an event *)
(* twice only if it did not get to tell of the first time.                      *)
EarningsAddUp ==
    /\ \A e \in EventNumbers : Cardinality({i \in DOMAIN waiting : waiting[i] = e}) + Cardinality({b \in batches : e \in Range(b)})
                         + (IF e \in settledEvents THEN 1 ELSE 0) + (IF e \in refused THEN 1 ELSE 0) = 1
    /\ pendingSum = AmountOf(EventNumbers \ settledEvents) /\ settledSum = AmountOf(settledEvents)
    /\ \A e \in EventNumbers : booked[e] > 1 => e \in lost
    /\ \A e \in settledEvents : booked[e] >= 1

-----------------------------------------------------------------------------
(* The books the gateway keeps in memory of validators, their stakers, swarm    *)
(* contracts, bounty tasks and the rewards of nodes: the handlers under         *)
(* /api/validator, /api/enterprise, /api/rewards and /api/tasks of              *)
(* src/src/gateway/server.ts. A request whose signature is wrong changes        *)
(* nothing and is left out; a handler runs to its end.                          *)

CONSTANTS Holders, NodeAddress, \* addresses of wallets, and the one of this node
          Bounties,             \* ids of bounty tasks
          MinStake,             \* 100 GSTD
          PerNode,              \* what a bounty leaves its worker: 95 % of the reward
          MaxStaked, MaxPosts, MaxSubmissions, MaxApprovals \* bounds: stake, contracts, submissions and approvals of a bounty

ASSUME PremiumAssumption == /\ IsFiniteSet(Holders) /\ IsFiniteSet(Bounties) /\ NodeAddress \in Holders
                            /\ {MinStake, PerNode, MaxStaked, MaxPosts, MaxSubmissions, MaxApprovals} \subseteq Nat

VARIABLES walletBalance,       \* of the wallet of this node, as the best tier it reaches (external)
          validatorRegistry,   \* [address -> its record, active once registered]
          enterpriseContracts, \* how many
          nodeRewards,         \* [address -> what it may claim]
          bountyTasks,         \* [id -> its record, "none" until posted; late: past its deadline]
          approvals,           \* [id -> who was rewarded, in turn] (not in the code)
          claimed              \* [address -> what it was given] (not in the code)

premiumVars == <<walletBalance, validatorRegistry, enterpriseContracts, nodeRewards, bountyTasks, approvals, claimed>>
taskBooks == <<nodeRewards, bountyTasks, approvals, claimed>>
stakeBooks == <<walletBalance, validatorRegistry, enterpriseContracts>>

ActiveValidators == {v \in Holders : validatorRegistry[v].active}
Posted == {k \in Bounties : bountyTasks[k].status # "none"}

PremiumTypeOK ==
    /\ walletBalance \in 0..2 /\ enterpriseContracts \in 0..MaxPosts
    /\ validatorRegistry \in [Holders -> [active : BOOLEAN, stakedTotal : 0..MaxStaked, stakers : [Holders -> 0..MaxStaked]]]
    /\ nodeRewards \in [Holders -> Nat] /\ claimed \in [Holders -> Nat]
    /\ approvals \in [Bounties -> Seq(Holders)]
    /\ \A k \in Bounties : /\ bountyTasks[k].creator \in Holders /\ bountyTasks[k].late \in BOOLEAN
                           /\ bountyTasks[k].assignees \in Seq(Holders) /\ bountyTasks[k].submissions \in Seq(Holders)
                           /\ bountyTasks[k].status \in {"none", "open", "in_progress", "completed", "rejected", "expired"}

Unstaked == [a \in Holders |-> 0]
PremiumInit ==
    /\ walletBalance = 0 /\ enterpriseContracts = 0 /\ nodeRewards = Unstaked /\ claimed = Unstaked
    /\ validatorRegistry = [v \in Holders |-> [active |-> FALSE, stakedTotal |-> 0, stakers |-> Unstaked]]
    /\ bountyTasks = [k \in Bounties |-> [status |-> "none", creator |-> NodeAddress, late |-> FALSE, assignees |-> << >>, submissions |-> << >>]]
    /\ approvals = [k \in Bounties |-> << >>]

(* The balance the wallet shows changes; 1 and 2 are the minima of TIERS.       *)
BalanceChanges == walletBalance' \in (0..2) \ {walletBalance} /\ UNCHANGED <<validatorRegistry, enterpriseContracts>> /\ UNCHANGED taskBooks
(* verifyWalletBalance: only the wallet of this node counts.                    *)
VerifyWalletBalance(address) == IF address = NodeAddress THEN walletBalance ELSE 0

(* Registering again starts a record anew, without the stakers of the old one.  *)
RegisterValidator(v) ==
    /\ VerifyWalletBalance(v) >= 1
    /\ validatorRegistry' = [validatorRegistry EXCEPT ![v] = [active |-> TRUE, stakedTotal |-> 0, stakers |-> Unstaked]]
    /\ UNCHANGED <<walletBalance, enterpriseContracts>> /\ UNCHANGED taskBooks
Stake(a, v, amount) ==
    /\ v \in ActiveValidators /\ amount >= MinStake /\ validatorRegistry[v].stakedTotal + amount <= MaxStaked
    /\ validatorRegistry' = [validatorRegistry EXCEPT ![v].stakers[a] = @ + amount, ![v].stakedTotal = @ + amount]
    /\ UNCHANGED <<walletBalance, enterpriseContracts>> /\ UNCHANGED taskBooks
(* At most what it staked; without an amount, all of it. An emptied entry goes. *)
Unstakes(a, v, amount) == LET mine == validatorRegistry[v].stakers[a] IN IF amount = 0 \/ amount > mine THEN mine ELSE amount
Unstake(a, v, amount) ==
    /\ v \in ActiveValidators /\ Unstakes(a, v, amount) > 0
    /\ validatorRegistry' = [validatorRegistry EXCEPT ![v].stakers[a] = IF Unstakes(a, v, amount) > @ THEN 0 ELSE @ - Unstakes(a, v, amount),
                                                      ![v].stakedTotal = @ - Unstakes(a, v, amount)]
    /\ UNCHANGED <<walletBalance, enterpriseContracts>> /\ UNCHANGED taskBooks
Provision(a) == /\ VerifyWalletBalance(a) >= 2 /\ enterpriseContracts < MaxPosts /\ enterpriseContracts' = enterpriseContracts + 1
                /\ UNCHANGED <<walletBalance, validatorRegistry>> /\ UNCHANGED taskBooks

Create(a, k) == /\ k \notin Posted
                /\ bountyTasks' = [bountyTasks EXCEPT ![k] = [@ EXCEPT !.status = "open", !.creator = a]]
                /\ UNCHANGED <<nodeRewards, approvals, claimed>> /\ UNCHANGED stakeBooks
DeadlinePasses(k) == /\ k \in Posted /\ ~bountyTasks[k].late /\ bountyTasks' = [bountyTasks EXCEPT ![k].late = TRUE]
                     /\ UNCHANGED <<nodeRewards, approvals, claimed>> /\ UNCHANGED stakeBooks
(* Listing the tasks closes the open ones of the list that are late.            *)
Expires(task) == task.status = "open" /\ task.late
List(asked) == /\ \E k \in asked : Expires(bountyTasks[k])
               /\ bountyTasks' = [k \in Bounties |-> IF k \in asked /\ Expires(bountyTasks[k]) THEN [bountyTasks[k] EXCEPT !.status = "expired"] ELSE bountyTasks[k]]
               /\ UNCHANGED <<nodeRewards, approvals, claimed>> /\ UNCHANGED stakeBooks
Assign(a, k) == bountyTasks' = [bountyTasks EXCEPT ![k].assignees = Append(@, a), ![k].status = "in_progress"]
ClaimTask(a, k) == /\ bountyTasks[k].status = "open" /\ bountyTasks[k].creator # a /\ a \notin Range(bountyTasks[k].assignees)
                   /\ Assign(a, k) /\ UNCHANGED <<nodeRewards, approvals, claimed>> /\ UNCHANGED stakeBooks
Submit(a, k) == /\ a \in Range(bountyTasks[k].assignees) /\ Len(bountyTasks[k].submissions) < MaxSubmissions
                /\ bountyTasks' = [bountyTasks EXCEPT ![k].submissions = Append(@, a)]
                /\ UNCHANGED <<nodeRewards, approvals, claimed>> /\ UNCHANGED stakeBooks
DistributeTokens(node) == nodeRewards' = [nodeRewards EXCEPT ![node] = @ + PerNode]
(* The creator may approve any submission, whatever the status; with none there *)
(* is nothing to approve.                                                       *)
Approve(k, i) ==
    /\ k \in Posted /\ i \in DOMAIN bountyTasks[k].submissions /\ Len(approvals[k]) < MaxApprovals
    /\ LET node == bountyTasks[k].submissions[i] IN
       /\ DistributeTokens(node)
       /\ approvals' = [approvals EXCEPT ![k] = Append(@, node)]
    /\ bountyTasks' = [bountyTasks EXCEPT ![k].status = "completed"]
    /\ UNCHANGED claimed /\ UNCHANGED stakeBooks
Reject(k, approved) == /\ k \in Posted /\ (approved => bountyTasks[k].submissions = << >>)
                       /\ bountyTasks' = [bountyTasks EXCEPT ![k].status = "rejected"]
                       /\ UNCHANGED <<nodeRewards, approvals, claimed>> /\ UNCHANGED stakeBooks
ClaimRewards(a) == /\ nodeRewards[a] > 0 /\ nodeRewards' = [nodeRewards EXCEPT ![a] = 0] /\ claimed' = [claimed EXCEPT ![a] = @ + nodeRewards[a]]
                   /\ UNCHANGED <<bountyTasks, approvals>> /\ UNCHANGED stakeBooks

PremiumNext ==
    \/ BalanceChanges
    \/ \E v \in Holders : RegisterValidator(v) \/ Provision(v) \/ ClaimRewards(v)
    \/ \E a, v \in Holders, amount \in 0..MaxStaked : Stake(a, v, amount) \/ Unstake(a, v, amount)
    \/ \E a \in Holders, k \in Bounties : Create(a, k) \/ ClaimTask(a, k) \/ Submit(a, k)
    \/ \E asked \in SUBSET Bounties : List(asked)
    \/ \E k \in Bounties : \/ DeadlinePasses(k) \/ \E i \in 1..MaxSubmissions : Approve(k, i)
                           \/ \E approved \in BOOLEAN : Reject(k, approved)
-----------------------------------------------------------------------------
PaidFor(k, a) == Cardinality({i \in DOMAIN approvals[k] : approvals[k][i] = a})
(* The total of a validator is what its stakers hold together; a bounty goes to *)
(* the one node that claimed it, which is not its creator, and what nodes hold  *)
(* and were given is what their approved work earned; a task closed as late was *)
(* nobody's, and a task is completed only by an approval.                       *)
BooksAddUp ==
    /\ \A v \in ActiveValidators : validatorRegistry[v].stakedTotal = SumFunctionOnSet(validatorRegistry[v].stakers, Holders)
    /\ \A a \in Holders : nodeRewards[a] + claimed[a] = PerNode * SumFunctionOnSet([k \in Bounties |-> PaidFor(k, a)], Bounties)
    /\ \A k \in Posted : LET task == bountyTasks[k] IN
         /\ Len(task.assignees) <= 1 /\ task.creator \notin Range(task.assignees)
         /\ Range(task.submissions) \cup Range(approvals[k]) \subseteq Range(task.assignees)
         /\ task.status \in {"open", "expired"} => task.assignees = << >>
         /\ task.status = "completed" => approvals[k] # << >>
=============================================================================

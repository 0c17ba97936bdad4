--------------------------- MODULE ComputeSharing ---------------------------
(* How a node sells what it has: jobs it takes from the marketplace, and        *)
(* requests of other nodes.                                                     *)
EXTENDS Naturals, FiniteSets, Sequences, Functions

-----------------------------------------------------------------------------
(* class ComputeMarketplace (src/src/compute/marketplace.ts): every 15 seconds  *)
(* the platform is asked for a job, within 5 seconds, unless three are active;  *)
(* a job then runs for as long as it takes, and polling goes on beside it.      *)
(* src/src/index.ts keeps the marketplace switched off in the compute profile.  *)

CONSTANTS MarketJobs,    \* ids of the jobs the platform hands out
          MaxActiveJobs, \* 3 in the code
          MarketHistory, \* 100 in the code: completedJobs
          MaxExecutions  \* bound: executions begun

ASSUME MarketAssumption == {MaxActiveJobs, MarketHistory, MaxExecutions} \subseteq Nat

VARIABLES market,     \* off, on (the poll timer runs) or stopped
          asking,     \* a poll waits for the platform's answer
          activeJobs, \* the Map: ids
          runs,       \* executions: [job, phase]
          gauge,      \* stats.activeJobs
          tally,      \* stats.jobsCompleted and jobsFailed
          completedJobs

marketVars == <<market, asking, activeJobs, runs, gauge, tally, completedJobs>>
Phases == {"running", "earned", "failed", "over"}

MarketTypeOK == /\ market \in {"off", "on", "stopped"} /\ asking \in BOOLEAN
                /\ activeJobs \subseteq MarketJobs
                /\ runs \in Seq([job : MarketJobs, phase : Phases])
                /\ gauge \in Nat /\ tally \in [completed : Nat, failed : Nat]
                /\ completedJobs \in Seq(MarketJobs)

MarketInit == /\ market = "off" /\ asking = FALSE
              /\ activeJobs = {} /\ runs = << >> /\ gauge = 0
              /\ tally = [completed |-> 0, failed |-> 0] /\ completedJobs = << >>

(* init: what the machine can do and how fast it is are measured, and announced. *)
StartMarket == /\ market = "off" /\ market' = "on"
               /\ UNCHANGED <<asking, activeJobs, runs, gauge, tally, completedJobs>>

(* The next poll comes after the answer of this one, or its timeout.            *)
PollJobs == /\ market = "on" /\ ~asking
            /\ Cardinality(activeJobs) < MaxActiveJobs
            /\ asking' = TRUE
            /\ UNCHANGED <<market, activeJobs, runs, gauge, tally, completedJobs>>

NoJob == asking /\ asking' = FALSE /\ UNCHANGED <<market, activeJobs, runs, gauge, tally, completedJobs>>

(* processJob up to its first await.  The platform may hand out a job again.    *)
AcceptJob(j) == /\ asking /\ asking' = FALSE
                /\ Len(runs) < MaxExecutions
                /\ activeJobs' = activeJobs \cup {j}
                /\ runs' = Append(runs, [job |-> j, phase |-> "running"])
                /\ gauge' = gauge + 1
                /\ UNCHANGED <<market, tally, completedJobs>>

(* runInferenceJob, runDockerJob or runGenericJob ends; the platform is told.   *)
JobRan(i) == /\ i \in DOMAIN runs /\ runs[i].phase = "running"
             /\ \/ /\ runs' = [runs EXCEPT ![i].phase = "earned"]
                   /\ tally' = [tally EXCEPT !.completed = @ + 1]
                \/ /\ runs' = [runs EXCEPT ![i].phase = "failed"]
                   /\ tally' = [tally EXCEPT !.failed = @ + 1]
             /\ UNCHANGED <<market, asking, activeJobs, gauge, completedJobs>>

Front(s, n) == SubSeq(s, 1, IF Len(s) < n THEN Len(s) ELSE n)

(* The platform has answered, or not: the finally block.                        *)
JobDone(i) == /\ i \in DOMAIN runs /\ runs[i].phase \in {"earned", "failed"}
              /\ runs' = [runs EXCEPT ![i].phase = "over"]
              /\ activeJobs' = activeJobs \ {runs[i].job}
              /\ gauge' = gauge - 1
              /\ completedJobs' = Front(<<runs[i].job>> \o completedJobs, MarketHistory)
              /\ UNCHANGED <<market, asking, tally>>

StopMarket == /\ market = "on" /\ market' = "stopped"
              /\ UNCHANGED <<asking, activeJobs, runs, gauge, tally, completedJobs>>

MarketNext == \/ StartMarket \/ PollJobs \/ NoJob \/ StopMarket
              \/ \E j \in MarketJobs : AcceptJob(j)
              \/ \E i \in 1..MaxExecutions : JobRan(i) \/ JobDone(i)
-----------------------------------------------------------------------------
Leased == {i \in DOMAIN runs : runs[i].phase # "over"}
InPhase(p) == Cardinality({i \in DOMAIN runs : runs[i].phase = p})

(* No more than three jobs are active although polling and running overlap, the *)
(* gauge counts the executions that are not over, an active job has one, and    *)
(* every execution that ended was counted as completed or as failed, once.  As  *)
(* long as no job is handed out twice no more than three executions overlap.    *)
MarketWithinLimit ==
    /\ Cardinality(activeJobs) <= MaxActiveJobs /\ Len(completedJobs) <= MarketHistory
    /\ gauge = Cardinality(Leased)
    /\ activeJobs \subseteq {runs[i].job : i \in Leased}
    /\ tally.completed + tally.failed = InPhase("earned") + InPhase("failed") + InPhase("over")
    /\ (\A i, k \in DOMAIN runs : i # k => runs[i].job # runs[k].job) => Cardinality(Leased) <= MaxActiveJobs

-----------------------------------------------------------------------------
(* Requests of other nodes for this node's resources: class                     *)
(* ResourceSharing of src/src/network/resources.ts. A request for inference     *)
(* waits for Ollama; two requests may carry one id.                             *)

CONSTANTS ShareRequests, RequestId(_), RequestType(_),
          Prices \* of a query

NoRequest == "none"

ASSUME SharingAssumption == IsFiniteSet(ShareRequests) /\ NoRequest \notin ShareRequests /\ Prices \subseteq Nat

VARIABLES request,        \* [request -> "new", "processing", "completed", "failed"]
          activeRequests, \* [id -> request]
          price,          \* pricing.inferenceQuery
          metered,        \* meter: [queries, earned]
          paidFor,        \* requests of the meter, with the price (not in the code)
          publishing,     \* heartbeats under way
          timersOn        \* the timers are set

resourceVars == <<request, activeRequests, price, metered, paidFor, publishing, timersOn>>

Ids == {RequestId(r) : r \in ShareRequests}

ResourceTypeOK ==
    /\ request \in [ShareRequests -> {"new", "processing", "completed", "failed"}]
    /\ activeRequests \in [Ids -> ShareRequests \cup {NoRequest}]
    /\ price \in Prices /\ metered.queries \in 0..Cardinality(ShareRequests) /\ metered.earned \in Nat
    /\ paidFor \in [ShareRequests -> Prices \cup {0}] /\ publishing \in 0..1 /\ timersOn \in BOOLEAN

ResourceInit ==
    /\ request = [r \in ShareRequests |-> "new"] /\ activeRequests = [i \in Ids |-> NoRequest]
    /\ price \in Prices /\ metered = [queries |-> 0, earned |-> 0] /\ paidFor = [r \in ShareRequests |-> 0]
    /\ publishing = 0 /\ timersOn = FALSE

(* publishResources, at the start and every minute; it only reports.            *)
PublishResources == /\ publishing = 0 /\ publishing' = 1 /\ timersOn' = TRUE
                    /\ UNCHANGED <<request, activeRequests, price, metered, paidFor>>
Published == publishing = 1 /\ publishing' = 0 /\ UNCHANGED <<request, activeRequests, price, metered, paidFor, timersOn>>
StopSharing == timersOn /\ timersOn' = FALSE /\ UNCHANGED <<request, activeRequests, price, metered, paidFor, publishing>>
UpdatePricing(p) == price' = p /\ UNCHANGED <<request, activeRequests, metered, paidFor, publishing, timersOn>>

(* handleRequest up to its first await, and after it. Whoever finishes takes    *)
(* the id from the list, also that of another request.                          *)
HandleRequest(r) ==
    /\ request[r] = "new"
    /\ request' = [request EXCEPT ![r] = "processing"]
    /\ activeRequests' = [activeRequests EXCEPT ![RequestId(r)] = r]
    /\ UNCHANGED <<price, metered, paidFor, publishing, timersOn>>
Finish(r, status) ==
    /\ request[r] = "processing" /\ request' = [request EXCEPT ![r] = status]
    /\ activeRequests' = [activeRequests EXCEPT ![RequestId(r)] = NoRequest]
    /\ UNCHANGED <<price, publishing, timersOn>>
CompleteRequest(r) ==
    /\ Finish(r, "completed")
    /\ IF RequestType(r) = "query"
       THEN metered' = [queries |-> metered.queries + 1, earned |-> metered.earned + price] /\ paidFor' = [paidFor EXCEPT ![r] = price]
       ELSE UNCHANGED <<metered, paidFor>>
(* Ollama fails or takes 90 s, or the type is not known.                        *)
RequestFails(r) == Finish(r, "failed") /\ UNCHANGED <<metered, paidFor>>

ResourceNext == \/ PublishResources \/ Published \/ StopSharing \/ \E p \in Prices : UpdatePricing(p)
                \/ \E r \in ShareRequests : HandleRequest(r) \/ CompleteRequest(r) \/ RequestFails(r)
-----------------------------------------------------------------------------
(* The meter counts the queries that were completed and none that failed, at    *)
(* prices that were asked; what is listed as active is being worked on; and a   *)
(* request that is worked on is missing from the list only because of another   *)
(* with its id.                                                                 *)
SharingIsMetered ==
    LET queries == {r \in ShareRequests : RequestType(r) = "query" /\ request[r] = "completed"} IN
    /\ metered.queries = Cardinality(queries)
    /\ metered.earned = SumFunctionOnSet(paidFor, queries)
    /\ \A i \in Ids : activeRequests[i] # NoRequest => request[activeRequests[i]] = "processing" /\ RequestId(activeRequests[i]) = i
    /\ \A r \in ShareRequests : request[r] = "processing" /\ activeRequests[RequestId(r)] = NoRequest =>
          \E other \in ShareRequests \ {r} : RequestId(other) = RequestId(r) /\ request[other] \in {"completed", "failed"}
=============================================================================

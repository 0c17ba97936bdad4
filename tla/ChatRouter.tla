----------------------------- MODULE ChatRouter -----------------------------
(* How a chat finds its answer: NeuralRouter.route in src/src/gateway/router.ts, *)
(* inside the compute slot infer() takes, with the response cache, the remembered *)
(* choice of a model for "auto", and the model management of gateway/server.ts   *)
(* that changes what the runtime holds.                                          *)
EXTENDS ComputeSlots
Lists == INSTANCE SequencesExt

CONSTANTS Chats,     \* chats, each of one request
          Requests,  \* [model, prompt, privacy, cache] records
          AutoOrder, \* local models, the preferred one first, then by size
          MaxCached, \* 500 in the code: cached responses
          CacheTtl,  \* 300_000 ms
          AutoTtl,   \* 30_000 ms
          MaxClock   \* bound on the clock, for TLC

LocalModels == {AutoOrder[i] : i \in DOMAIN AutoOrder}
None == [model |-> "none", until |-> 0]

(* "none" stands for no model at all: the runtime has none of that name.        *)
ASSUME RouterAssumption == /\ {MaxCached, CacheTtl, AutoTtl, MaxClock} \subseteq Nat
                           /\ MaxCached > 0
                           /\ AutoOrder \in Seq(LocalModels) /\ "none" \notin LocalModels
                           /\ \A r \in Requests : r.cache \in BOOLEAN

VARIABLES chat,       \* [Chats -> what it asked for, where it is, its answer]
          cache,      \* ResponseCache: entries in the order of insertion
          autoModel,  \* the remembered choice and until when it holds
          runtimeHas, \* models of the runtime
          gone,       \* history: models whose removal was confirmed
          clock

routerVars == <<slotVars, chat, cache, autoModel, runtimeHas, gone, clock>>

Waiting == {"inventory", "local", "queue", "peer"}
NoAnswer == [model |-> "none", prompt |-> "none", from |-> "nowhere"]
Answer(m, c, place) == [model |-> m, prompt |-> chat[c].ask.prompt, from |-> place]

RouterTypeOK == /\ SlotsTypeOK
                /\ \A c \in Chats : chat[c].ask \in Requests
                                    /\ chat[c].at \in Waiting \cup {"new", "answered", "refused"}
                /\ Len(cache) <= MaxCached
                /\ runtimeHas \subseteq LocalModels /\ gone \subseteq LocalModels
                /\ clock \in 0..MaxClock

RouterInit == /\ SlotsInit
              /\ chat \in [Chats -> {[ask |-> r, at |-> "new", model |-> "none", answer |-> NoAnswer] : r \in Requests}]
              /\ cache = << >>
              /\ autoModel = None
              /\ runtimeHas = LocalModels /\ gone = {}
              /\ clock = 0

-----------------------------------------------------------------------------
(* ResponseCache: the key is the whole request; get() forgets an entry that is  *)
(* too old, set() drops the first one of a full cache, and an entry that is set *)
(* again keeps its place.                                                       *)
Key(r) == r

Found(r) == {i \in DOMAIN cache : Key(cache[i].ask) = Key(r)}
Fresh(r) == {i \in Found(r) : clock - cache[i].ts <= CacheTtl}
CacheGet(r) == IF r.cache /\ Found(r) # Fresh(r) THEN Lists!RemoveAt(cache, CHOOSE i \in Found(r) \ Fresh(r) : TRUE)
               ELSE cache

CacheSet(r, answer) ==
    LET kept == IF Len(cache) >= MaxCached THEN Tail(cache) ELSE cache
        entry == [ask |-> r, answer |-> answer, ts |-> clock]
        own == {i \in DOMAIN kept : Key(kept[i].ask) = Key(r)}
    IN  IF ~r.cache THEN cache
        ELSE IF own = {} THEN Append(kept, entry)
        ELSE [i \in DOMAIN kept |-> IF i \in own THEN entry ELSE kept[i]]

(* The automatic choice among what the runtime lists.                           *)
Choice == CHOOSE m \in runtimeHas : \A k \in runtimeHas :
              \E i, j \in DOMAIN AutoOrder : i <= j /\ AutoOrder[i] = m /\ AutoOrder[j] = k

At(c, where) == [chat EXCEPT ![c].at = where]
AsksFor(c, m, where) == [chat EXCEPT ![c].at = where, ![c].model = m]

(* route() refuses the answer of another model than the one asked for by name.  *)
Conclude(c, answer) ==
    IF chat[c].ask.model \in {"auto", answer.model}
    THEN [chat EXCEPT ![c].at = "answered", ![c].answer = answer]
    ELSE At(c, "refused")

Ends(c, answer) == /\ chat' = Conclude(c, answer)
                   /\ cache' = CacheSet(chat[c].ask, answer)
                   /\ FreeSlot

(* Where a chat goes when the runtime does not answer it.                       *)
Beyond(c) == IF chat[c].ask.privacy = "network"
             THEN chat' = At(c, "queue") /\ UNCHANGED slotVars
             ELSE chat' = At(c, "refused") /\ FreeSlot

-----------------------------------------------------------------------------
ServeCached(c) == /\ chat[c].at = "new"
                  /\ CapacityAvailable
                  /\ chat[c].ask.cache
                  /\ \E i \in Fresh(chat[c].ask) : chat' = Conclude(c, cache[i].answer)
                  /\ UNCHANGED <<slotVars, cache, autoModel, runtimeHas, gone, clock>>

BeginChat(c) ==
    /\ chat[c].at = "new"
    /\ chat[c].ask.cache => Fresh(chat[c].ask) = {}
    /\ TakeSlot
    /\ cache' = CacheGet(chat[c].ask)
    /\ chat' = IF chat[c].ask.model # "auto" THEN AsksFor(c, chat[c].ask.model, "local")
               ELSE IF autoModel.until > clock THEN AsksFor(c, autoModel.model, "local")
               ELSE At(c, "inventory")
    /\ UNCHANGED <<autoModel, runtimeHas, gone, clock>>

ChatBusy(c) == /\ chat[c].at = "new"
               /\ ~CapacityAvailable
               /\ chat' = At(c, "refused")
               /\ UNCHANGED <<slotVars, cache, autoModel, runtimeHas, gone, clock>>

(* GET /api/tags: the choice is remembered.                                     *)
InventoryArrives(c) == /\ chat[c].at = "inventory"
                       /\ runtimeHas # {}
                       /\ autoModel' = [model |-> Choice, until |-> clock + AutoTtl]
                       /\ chat' = AsksFor(c, Choice, "local")
                       /\ UNCHANGED <<slotVars, cache, runtimeHas, gone, clock>>

(* No inventory: the queue is asked for the default model.                      *)
InventoryFails(c) == /\ chat[c].at = "inventory"
                     /\ Beyond(c)
                     /\ UNCHANGED <<cache, autoModel, runtimeHas, gone, clock>>

LocalAnswers(c) == /\ chat[c].at = "local"
                   /\ chat[c].model \in runtimeHas
                   /\ Ends(c, Answer(chat[c].model, c, "here"))
                   /\ UNCHANGED <<autoModel, runtimeHas, gone, clock>>

LocalFails(c) == /\ chat[c].at = "local"
                 /\ Beyond(c)
                 /\ UNCHANGED <<cache, autoModel, runtimeHas, gone, clock>>

(* The node that took the task, or the best peer, names the model it ran.       *)
NetworkAnswers(c, m) == /\ chat[c].at \in {"queue", "peer"}
                        /\ Ends(c, Answer(m, c, "network"))
                        /\ UNCHANGED <<autoModel, runtimeHas, gone, clock>>

(* No worker, no submission, an error, or 90 s without a result.                *)
QueueFails(c) == /\ chat[c].at = "queue"
                 /\ chat' = At(c, "peer")
                 /\ UNCHANGED <<slotVars, cache, autoModel, runtimeHas, gone, clock>>

PeerFails(c) == /\ chat[c].at = "peer"
                /\ chat' = At(c, "refused")
                /\ FreeSlot
                /\ UNCHANGED <<cache, autoModel, runtimeHas, gone, clock>>

-----------------------------------------------------------------------------
(* DELETE /api/ollama/models/:name holds the maintenance lock over its requests. *)
StartRemoval == /\ AcquireMaintenance
                /\ UNCHANGED <<chat, cache, autoModel, runtimeHas, gone, clock>>

RemovalWithoutRefresh(m) == /\ maintenance    \* mutant: the remembered choice is kept
                            /\ runtimeHas' = runtimeHas \ {m} /\ gone' = gone \cup {m}
                            /\ ReleaseMaintenance
                            /\ UNCHANGED <<chat, cache, autoModel, clock>>

RemovalConfirmed(m) == /\ maintenance
                       /\ runtimeHas' = runtimeHas \ {m} /\ gone' = gone \cup {m}
                       /\ autoModel' = None
                       /\ ReleaseMaintenance
                       /\ UNCHANGED <<chat, cache, clock>>

(* A reply that does not come leaves open whether the runtime removed it.       *)
RemovalFails(m) == /\ maintenance
                   /\ runtimeHas' \in {runtimeHas, runtimeHas \ {m}}
                   /\ ReleaseMaintenance
                   /\ UNCHANGED <<chat, cache, autoModel, gone, clock>>

(* A pull that ended.                                                           *)
ModelPulled(m) == /\ runtimeHas' = runtimeHas \cup {m} /\ gone' = gone \ {m}
                  /\ autoModel' = None
                  /\ UNCHANGED <<slotVars, chat, cache, clock>>

(* _refreshOllamaModels, every minute.                                          *)
RefreshModels == /\ autoModel' = None
                 /\ UNCHANGED <<slotVars, chat, cache, runtimeHas, gone, clock>>

RouterTick == /\ clock < MaxClock
              /\ clock' = clock + 1
              /\ UNCHANGED <<slotVars, chat, cache, autoModel, runtimeHas, gone>>

RouterNext == \/ \E c \in Chats : \/ ServeCached(c) \/ BeginChat(c) \/ ChatBusy(c)
                                  \/ InventoryArrives(c) \/ InventoryFails(c)
                                  \/ LocalAnswers(c) \/ LocalFails(c)
                                  \/ QueueFails(c) \/ PeerFails(c)
                                  \/ \E m \in LocalModels : NetworkAnswers(c, m)
              \/ \E m \in LocalModels : RemovalConfirmed(m) \/ RemovalFails(m) \/ ModelPulled(m)
              \/ StartRemoval \/ RefreshModels \/ RouterTick

RouterSpec == RouterInit /\ [][RouterNext]_routerVars

-----------------------------------------------------------------------------
(* A client that names a model gets an answer of that model to its own prompt,  *)
(* and one that asked for privacy gets one computed on this machine, from the   *)
(* runtime or from a cache that network answers of other clients went into too. *)
AnswersAsAsked == \A c \in Chats : chat[c].at = "answered" =>
    /\ chat[c].ask.model \in {"auto", chat[c].answer.model}
    /\ chat[c].answer.prompt = chat[c].ask.prompt
    /\ chat[c].ask.privacy = "local" => chat[c].answer.from = "here"

(* An automatic choice never names a model whose removal was confirmed: neither *)
(* the one remembered nor the one a chat is about to use, although the          *)
(* inventory is awaited, since a removal keeps every chat out.                  *)
RemovedIsForgotten == /\ autoModel.model \notin gone
                      /\ \A c \in Chats : chat[c].at = "local" /\ chat[c].ask.model = "auto" =>
                             chat[c].model \notin gone

(* The two caches of the router are never staler than a client may notice.      *)
ServedAsAsked == AnswersAsAsked /\ RemovedIsForgotten
=============================================================================

------------------------------ MODULE P2PMesh ------------------------------
(* The libp2p mesh: src/src/p2p/node.ts on several nodes.  Time is counted in   *)
(* heartbeats of 60 s.  A stream or a dial ends within the minute in which it   *)
(* began, so what a minute sends is delivered, or lost, as one step.  libp2p    *)
(* itself (connections, discovery) is external.                                 *)
EXTENDS Naturals

CONSTANTS MeshNodes,
          BootstrapOf,  \* [MeshNodes -> the nodes its bootstrap list names]
          MaxMeshFaults \* bound: links, streams and dials lost, and nodes stopped

ASSUME MeshAssumption == BootstrapOf \in [MeshNodes -> SUBSET MeshNodes] /\ MaxMeshFaults \in Nat

TooOld == 2      \* heartbeats after which getLivePeers leaves a peer out: 2 min

VARIABLES started,    \* nodes whose start() returned
          discovered, \* [n -> bootstrap nodes discovery has not reported yet]
          links,      \* connections, as sets of two nodes
          greetings,  \* <<n, m>>: n's timer to send m a heartbeat, 1 s after connecting
          heardOf,    \* [n -> [m -> heartbeats since n heard from m]], TooOld when too long ago
          absent,     \* [m -> heartbeats since m was stopped], at most TooOld
          meshFaults

meshVars == <<started, discovered, links, greetings, heardOf, absent, meshFaults>>

Pairs == {p \in SUBSET MeshNodes : \E a, b \in MeshNodes : a # b /\ p = {a, b}}

MeshTypeOK == /\ started \subseteq MeshNodes
              /\ discovered \in [MeshNodes -> SUBSET MeshNodes]
              /\ links \subseteq Pairs /\ greetings \subseteq MeshNodes \X MeshNodes
              /\ heardOf \in [MeshNodes -> [MeshNodes -> 0..TooOld]]
              /\ absent \in [MeshNodes -> 0..TooOld]
              /\ meshFaults \in 0..MaxMeshFaults

MeshInit == /\ started = {} /\ links = {} /\ greetings = {}
            /\ discovered = [n \in MeshNodes |-> {}]
            /\ heardOf = [n \in MeshNodes |-> [m \in MeshNodes |-> TooOld]]
            /\ absent = [m \in MeshNodes |-> TooOld]
            /\ meshFaults = 0

Linked(n) == {m \in MeshNodes : {n, m} \in links}
LivePeers(n) == {m \in MeshNodes : heardOf[n][m] < TooOld}
Later(age) == IF age < TooOld THEN age + 1 ELSE TooOld

Fault == meshFaults < MaxMeshFaults /\ meshFaults' = meshFaults + 1

Connect(pairs) == /\ links' = links \cup pairs
                  /\ greetings' = greetings \cup {p \in MeshNodes \X MeshNodes : {p[1], p[2]} \in pairs \ links}

-----------------------------------------------------------------------------
(* start(): a new libp2p node, no connections; the record of peers is in memory. *)
StartMesh(n) == /\ n \notin started
                /\ started' = started \cup {n}
                /\ discovered' = [discovered EXCEPT ![n] = BootstrapOf[n] \ {n}]
                /\ heardOf' = [heardOf EXCEPT ![n] = [m \in MeshNodes |-> TooOld]]
                /\ absent' = [absent EXCEPT ![n] = 0]
                /\ UNCHANGED <<links, greetings, meshFaults>>

(* peer:discovery, and the dial that may fail: nobody repeats it.               *)
Discover(n, m) == /\ n \in started /\ m \in discovered[n]
                  /\ discovered' = [discovered EXCEPT ![n] = @ \ {m}]
                  /\ \/ m \in started /\ Connect({{n, m}}) /\ UNCHANGED meshFaults
                     \/ m \notin started /\ UNCHANGED <<links, greetings, meshFaults>>
                     \/ m \in started /\ Fault /\ UNCHANGED <<links, greetings>>
                  /\ UNCHANGED <<started, heardOf, absent>>

(* sendHeartbeatTo, if the connection is still there, and its arrival.          *)
Greet(n, m) == /\ <<n, m>> \in greetings
               /\ greetings' = greetings \ {<<n, m>>}
               /\ heardOf' = IF m \in Linked(n) THEN [heardOf EXCEPT ![m][n] = 0] ELSE heardOf
               /\ UNCHANGED <<started, discovered, links, absent, meshFaults>>

(* What is sent in a minute: broadcastHeartbeat, every minute, and the live     *)
(* peers by syncPeerAddresses, every fifth, to every connection.                *)
Sent(syncing) == {s \in {"heartbeat", "sync"} \X MeshNodes \X MeshNodes :
                     /\ s[3] \in Linked(s[2])
                     /\ s[1] = "sync" => s[2] \in syncing}

(* peer_sync: dial every address it names but one's own.                        *)
OnlyTheSender(arrived) == {{s[2], s[3]} : s \in {x \in arrived : x[1] = "sync"}}   \* mutant
Dialled(arrived) == {p \in Pairs : /\ p \subseteq started
                                   /\ \E s \in arrived, m \in MeshNodes :
                                          s[1] = "sync" /\ m \in LivePeers(s[2]) /\ p = {s[3], m}}

(* Mutant: a peer that is named counts as heard of.                             *)
HeardNamed(n, m, arrived) == \/ <<"heartbeat", m, n>> \in arrived
                             \/ \E h \in MeshNodes : <<"sync", h, n>> \in arrived /\ m \in LivePeers(h)
Heard(n, m, arrived) == <<"heartbeat", m, n>> \in arrived

Minute(syncing) ==
    /\ started # {} /\ greetings = {}
    /\ \E sent \in {Sent(syncing)} : \E arrived \in {sent} \cup {sent \ {s} : s \in sent} :
           /\ IF arrived = sent THEN UNCHANGED meshFaults ELSE Fault
           /\ heardOf' = [n \in MeshNodes |-> [m \in MeshNodes |->
                             IF Heard(n, m, arrived) THEN 0 ELSE Later(heardOf[n][m])]]
           /\ \E dialled \in {Dialled(arrived)} : Connect(dialled)
    /\ absent' = [m \in MeshNodes |-> IF m \in started THEN 0 ELSE Later(absent[m])]
    /\ UNCHANGED <<started, discovered>>

(* peer:disconnect keeps the record of the peer.                                *)
LinkLost(p) == /\ Fault
               /\ links' = links \ {p}
               /\ UNCHANGED <<started, discovered, greetings, heardOf, absent>>

(* stop(), or the end of the process.                                           *)
StopMesh(n) == /\ n \in started /\ Fault
               /\ started' = started \ {n}
               /\ links' = {p \in links : n \notin p}
               /\ greetings' = {p \in greetings : p[1] # n}
               /\ discovered' = [discovered EXCEPT ![n] = {}]
               /\ absent' = [absent EXCEPT ![n] = 0]
               /\ UNCHANGED heardOf

MeshNext == \/ \E n \in MeshNodes : StartMesh(n) \/ StopMesh(n)
            \/ \E n, m \in MeshNodes : Discover(n, m) \/ Greet(n, m)
            \/ \E syncing \in SUBSET started : Minute(syncing)
            \/ \E p \in links : LinkLost(p)

(* Timers fire: the minute, the second before a greeting, and every node's      *)
(* interval of the peer exchange.                                               *)
MeshFairness == /\ WF_meshVars(\E n, m \in MeshNodes : Greet(n, m))
                /\ \A n \in MeshNodes : WF_meshVars(\E syncing \in SUBSET started : n \in syncing /\ Minute(syncing))

-----------------------------------------------------------------------------
(* getLivePeers: peers are told of each other by third nodes, which may go on   *)
(* naming one that has left; yet no node counts it as live, routes to it or     *)
(* names it once it has been gone for the two minutes.                          *)
GoneIsForgotten == \A n, m \in MeshNodes : m \notin started /\ absent[m] = TooOld => m \notin LivePeers(n)

(* The exchange of peers makes a mesh of a star: two nodes that stay connected  *)
(* to a common one get connected to each other, whatever was lost before.       *)
StarBecomesMesh == \A h \in MeshNodes, p \in Pairs :
    (p \subseteq Linked(h) ~> p \in links \/ ~(p \subseteq Linked(h)))
=============================================================================

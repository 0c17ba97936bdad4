---------------------------- MODULE PeerManager ----------------------------
(* The HTTP mesh: src/src/p2p/peers.ts on several nodes, with the route           *)
(* POST /api/peers/heartbeat of src/src/gateway/server.ts that answers them and   *)
(* the bridge of src/src/index.ts that registers what libp2p discovers.  A node   *)
(* has one address.  Time is counted in heartbeat intervals of 30 s, which no     *)
(* request of at most 10 s outlives.                                              *)
EXTENDS Naturals

CONSTANTS PeerNodes,
          SeedsOf,      \* [PeerNodes -> its seeds; itself too, by a name it does not know]
          MeshSees,     \* pairs <<n, m>>: n hears of m over libp2p, with m's HTTP address
          PeerTtl,      \* intervals without contact after which a peer is dead, 10 in the code
          RunningNodes, \* nodes that run; the others have gone for good
          Remembers,    \* pairs <<n, m>>: n's peers.json has m, connected when it was written
          MaxFaults     \* bound: requests and replies lost, and restarts

ASSUME PeerAssumption == /\ SeedsOf \in [PeerNodes -> SUBSET PeerNodes]
                         /\ MeshSees \cup Remembers \subseteq {p \in PeerNodes \X PeerNodes : p[1] # p[2]}
                         /\ RunningNodes \subseteq PeerNodes
                         /\ PeerTtl \in Nat \ {0, 1} /\ MaxFaults \in Nat

(* A seed's entry is kept under its address until the node itself is heard of,  *)
(* which adds another one under the node's id.                                  *)
PeerKeys == PeerNodes \X {"url", "id"}

Unknown == [known |-> FALSE, verified |-> FALSE, age |-> PeerTtl]
Placeholder == [known |-> TRUE, verified |-> FALSE, age |-> PeerTtl]   \* latencyMs 9999, lastSeen 0

VARIABLES peers,     \* [n -> [PeerKeys -> n's entry]]
          peersFile, \* peers.json
          boot,      \* where start() is: "down", "seeds", "all" (the two pingAll), "up"
          beats,     \* heartbeats under way: requests, and replies with the entries they name
          contact,   \* history: pairs <<n, m>> where m answered n or wrote to it
          losses, reboots

peerVars == <<peers, peersFile, boot, beats, contact, losses, reboots>>

Entry == [known : BOOLEAN, verified : BOOLEAN, age : 0..PeerTtl]
Beat == [from : PeerNodes, to : PeerNodes, reply : BOOLEAN, names : SUBSET PeerKeys]

PeerTypeOK == /\ peers \in [PeerNodes -> [PeerKeys -> Entry]]
              /\ peersFile \in [PeerNodes -> [PeerKeys -> Entry]]
              /\ boot \in [PeerNodes -> {"down", "seeds", "all", "up"}]
              /\ beats \subseteq Beat
              /\ contact \subseteq PeerNodes \X PeerNodes
              /\ losses \in 0..MaxFaults /\ reboots \in 0..MaxFaults

JustSeen == [known |-> TRUE, verified |-> TRUE, age |-> 0]

PeerInit == /\ peers = [n \in PeerNodes |-> [k \in PeerKeys |->
                           IF k[2] = "id" /\ <<n, k[1]>> \in Remembers THEN JustSeen ELSE Unknown]]
            /\ peersFile = peers
            /\ boot = [n \in PeerNodes |-> "down"]
            /\ beats = {}
            /\ contact = Remembers
            /\ losses = 0 /\ reboots = 0

IsLive(e) == e.known /\ e.verified /\ e.age < PeerTtl
LiveEntries(table, n) == {k \in PeerKeys : IsLive(table[k]) /\ k[1] # n}
Nodes(keys) == {k[1] : k \in keys}
Live(n) == Nodes(LiveEntries(peers[n], n))

(* sendHeartbeatTo: one request to an address at a time.                        *)
Pings(n, targets) == {[from |-> n, to |-> m, reply |-> FALSE, names |-> {}] :
                          m \in {t \in targets : ~\E b \in beats : b.from = n /\ b.to = t}}
PingsBack(n, m) == IF peers[n][<<m, "id">>].verified THEN {} ELSE Pings(n, {m})

PingAll(n, table) == Pings(n, Nodes({k \in PeerKeys : table[k].known}))

-----------------------------------------------------------------------------
(* start(): seeds become placeholders again and everything in the table is      *)
(* pinged; then, with the registry's nodes if no one answered, once more.  The  *)
(* server answers other nodes meanwhile.                                        *)
BeginStart(n) ==
    LET table == [k \in PeerKeys |-> IF k[2] = "url" /\ k[1] \in SeedsOf[n] THEN Placeholder
                                     ELSE IF k[1] = n THEN Unknown ELSE peers[n][k]]
    IN  /\ boot[n] = "down"
        /\ boot' = [boot EXCEPT ![n] = "seeds"]
        /\ peers' = [peers EXCEPT ![n] = table]
        /\ beats' = beats \cup PingAll(n, table)
        /\ UNCHANGED <<peersFile, contact, losses, reboots>>

NoPingsOf(n) == \A b \in beats : b.from # n

Learn(table, n, keys) == [k \in PeerKeys |-> IF k \in keys /\ k[1] # n /\ ~table[k].known
                                             THEN Placeholder ELSE table[k]]

SeedsPinged(n) ==
    /\ boot[n] = "seeds" /\ NoPingsOf(n)
    /\ boot' = [boot EXCEPT ![n] = "all"]
    /\ \E listed \in {{}, PeerNodes \X {"id"}} :
           /\ listed # {} => Live(n) = {}
           /\ peers' = [peers EXCEPT ![n] = Learn(@, n, listed)]
    /\ beats' = beats \cup PingAll(n, peers'[n])
    /\ UNCHANGED <<peersFile, contact, losses, reboots>>

AllPinged(n) ==
    /\ boot[n] = "all" /\ NoPingsOf(n)
    /\ boot' = [boot EXCEPT ![n] = "up"]
    /\ UNCHANGED <<peers, peersFile, beats, contact, losses, reboots>>

(* receiveHeartbeat: the sender was seen; it is pinged back while it is not     *)
(* verified, and answered with the entries that are live here.  The latency the *)
(* route measures is that of two reads of the clock: 0, unless a millisecond    *)
(* ends between them, and then it stands for a round trip.                      *)
ReceiveHeartbeat(b) ==
    LET n == b.to
        m == b.from
        old == peers[n][<<m, "id">>]
        seen(measured) == [peers[n] EXCEPT ![<<m, "id">>] =
                              [known |-> TRUE, verified |-> old.verified \/ measured, age |-> 0]]
        answer(table) == [b EXCEPT !.reply = TRUE, !.names = LiveEntries(table, n)]
    IN  /\ ~b.reply
        /\ boot[n] # "down"
        /\ IF m = n THEN /\ beats' = (beats \ {b}) \cup {answer(peers[n])}
                         /\ UNCHANGED <<peers, peersFile, contact>>
           ELSE \E measured \in BOOLEAN :
                   /\ peers' = [peers EXCEPT ![n] = seen(measured)]
                   /\ peersFile' = [peersFile EXCEPT ![n] = seen(measured)]
                   /\ beats' = (beats \ {b}) \cup {answer(seen(measured))} \cup PingsBack(n, m)
                   /\ contact' = contact \cup {<<n, m>>}
        /\ UNCHANGED <<boot, losses, reboots>>

(* Mutant: an answer verifies every entry it names.                             *)
HeartbeatAnsweredTrusting(b) ==
    LET n == b.from
        m == b.to
    IN  /\ b.reply
        /\ beats' = beats \ {b}
        /\ peers' = [peers EXCEPT ![n] = [k \in PeerKeys |->
                         IF k[1] # n /\ (k[1] = m \/ k \in b.names) THEN JustSeen
                         ELSE peers[n][k]]]
        /\ contact' = contact \cup {<<n, m>>}
        /\ UNCHANGED <<peersFile, boot, losses, reboots>>

(* The reply: what it names becomes a placeholder, and the peer is verified.    *)
HeartbeatAnswered(b) ==
    LET n == b.from
        m == b.to
        learned == Learn(peers[n], n, b.names)
    IN  /\ b.reply
        /\ beats' = beats \ {b}
        /\ IF m = n THEN UNCHANGED <<peers, contact>>
           ELSE /\ peers' = [peers EXCEPT ![n] = [k \in PeerKeys |->
                                 IF k[1] = m /\ learned[k].known
                                 THEN JustSeen ELSE learned[k]]]
                /\ contact' = contact \cup {<<n, m>>}
        /\ UNCHANGED <<peersFile, boot, losses, reboots>>

(* A request or its reply is lost, or nobody is there.                          *)
HeartbeatLost(b) == /\ \/ ~b.reply /\ boot[b.to] = "down" /\ UNCHANGED losses
                       \/ losses + reboots < MaxFaults /\ losses' = losses + 1
                    /\ beats' = beats \ {b}
                    /\ UNCHANGED <<peers, peersFile, boot, contact, reboots>>

(* registerPeer, from the libp2p bridge: neither seen nor verified by it.       *)
RegisterPeer(n, m) ==
    /\ boot[n] # "down" /\ <<n, m>> \in MeshSees
    /\ peers' = [peers EXCEPT ![n][<<m, "id">>].known = TRUE]
    /\ peersFile' = [peersFile EXCEPT ![n] = peers'[n]]
    /\ UNCHANGED <<boot, beats, contact, losses, reboots>>

OlderForever(e) == [e EXCEPT !.age = @ + 1]   \* mutant: ages are not told apart from dead
Older(e) == [e EXCEPT !.age = IF @ < PeerTtl THEN @ + 1 ELSE @]

(* An interval passes: entries age, and heartbeatAll pings the live peers.      *)
Interval ==
    /\ beats = {}
    /\ \A n \in PeerNodes : boot[n] \in {"down", "up"}
    /\ \E n \in PeerNodes : boot[n] = "up"
    /\ peers' = [n \in PeerNodes |-> [k \in PeerKeys |-> Older(peers[n][k])]]
    /\ peersFile' = [n \in PeerNodes |-> IF boot[n] = "up" THEN peers'[n]
                                         ELSE [k \in PeerKeys |-> Older(peersFile[n][k])]]
    /\ beats' = UNION {Pings(n, Live(n)') : n \in {m \in PeerNodes : boot[m] = "up"}}
    /\ UNCHANGED <<boot, contact, losses, reboots>>

(* A restart forgets what peers.json does not hold.                             *)
Reboot(n) == /\ boot[n] # "down"
             /\ losses + reboots < MaxFaults
             /\ reboots' = reboots + 1
             /\ boot' = [boot EXCEPT ![n] = "down"]
             /\ peers' = [peers EXCEPT ![n] = peersFile[n]]
             /\ beats' = {b \in beats : b.from # n}
             /\ UNCHANGED <<peersFile, contact, losses>>

PeerNext == \/ \E n \in RunningNodes : BeginStart(n) \/ SeedsPinged(n) \/ AllPinged(n) \/ Reboot(n)
            \/ \E b \in beats : ReceiveHeartbeat(b) \/ HeartbeatAnswered(b) \/ HeartbeatLost(b)
            \/ \E n, m \in PeerNodes : RegisterPeer(n, m)
            \/ Interval

(* A request ends within its 10 s, a start that began goes on, and so does the  *)
(* timer of a node that is up.                                                  *)
PeerFairness ==
    /\ \A n \in PeerNodes : WF_peerVars(SeedsPinged(n)) /\ WF_peerVars(AllPinged(n))
    /\ WF_peerVars(\E b \in beats : ReceiveHeartbeat(b) \/ HeartbeatAnswered(b) \/ HeartbeatLost(b))
    /\ WF_peerVars(Interval)

PeerSpec == PeerInit /\ [][PeerNext]_peerVars /\ PeerFairness

-----------------------------------------------------------------------------
(* getBestPeer and getLivePeers (peers.ts:267): nobody is routed to because     *)
(* somebody else named it.  Over gossip, the registry, the file, restarts and   *)
(* the bridge, an entry is verified only if that node itself answered or wrote. *)
VerifiedMadeContact ==
    \A n \in PeerNodes : \A k \in PeerKeys : peers[n][k].verified => <<n, k[1]>> \in contact

(* A node that is among its own seeds under a name it does not know never takes *)
(* itself for a peer.                                                           *)
NotItsOwnPeer == \A n \in PeerNodes, place \in {"url", "id"} : ~peers[n][<<n, place>>].verified

(* A node that starts and pings a seed that is up connects to it, in both       *)
(* directions, although a request or a reply is lost: what one pingAll misses   *)
(* the next one, the next heartbeat or the other node's ping back makes good.   *)
Pinging(n, m) == boot[n] = "seeds" /\ \E b \in beats : b.from = n /\ b.to = m

SeedsConnect ==
    \A n, m \in PeerNodes : n # m /\ m \in SeedsOf[n] =>
        (Pinging(n, m) /\ boot[m] = "up" /\ reboots = 0
            ~> reboots > 0 \/ (m \in Live(n) /\ n \in Live(m)))

(* Heartbeats, their answers and the pings back do not set each other off       *)
(* without end.                                                                 *)
BeatsEnd == beats # {} ~> beats = {}

(* Only a node that was heard itself, and never the node itself, is routed to.  *)
PeersWereHeard == VerifiedMadeContact /\ NotItsOwnPeer
=============================================================================

---------------------------- MODULE SovereignPeers ----------------------------
(* Whom a sovereign node exchanges envelopes with: the peer table of            *)
(* src/src/sovereign/node.ts on several nodes, with peers.json.  A node has one *)
(* URL and is named by it.  A tick pulls from the first peers of the table one  *)
(* after the other, pushes and requests of others come in between, nodes start  *)
(* at different times, restart or leave for good, and requests get lost.  A     *)
(* request ends within 3 s, so it is one step.  What is exchanged beside URLs   *)
(* is in SovereignNet.                                                          *)
EXTENDS Naturals, FiniteSets, Sequences, Functions

CONSTANTS SovereignNodes,
          Gone,           \* nodes that leave
          BootstrapPeers, \* [node -> sequence of nodes], cfg.bootstrap
          MaxPeers,       \* MAX_PEERS, 64
          PullLimit,      \* 20
          FailureDrop,    \* PEER_FAILURE_DROP, 12
          FailureMention, \* 3
          MaxLosses,      \* bound: requests lost on the way
          MaxRestarts,    \* bound
          MaxPushes       \* bound: pushes

VARIABLES peerTable,  \* [node -> sequence of [url, source, failures]]
          savedPeers, \* [node -> such a sequence], peers.json
          pulling,    \* [node -> the URLs its tick has still to pull from]
          ticking,    \* the nodes whose tick is under way
          here,       \* the nodes that run
          left,       \* those that have left for good
          allowance   \* [losses, restarts, pushes]: what the bounds leave

sovereignPeersVars == <<peerTable, savedPeers, pulling, ticking, here, left, allowance>>

SovereignPeersAssumption ==
    /\ Gone \subseteq SovereignNodes /\ MaxPeers \in Nat \ {0} /\ PullLimit \in Nat \ {0}
    /\ FailureDrop \in Nat \ {0} /\ FailureMention \in 1..FailureDrop
    /\ {MaxLosses, MaxRestarts, MaxPushes} \subseteq Nat
    /\ \A n \in SovereignNodes : BootstrapPeers[n] \in Seq(SovereignNodes \ {n})
ASSUME SovereignPeersAssumption

PeerRecord == [url : SovereignNodes, source : {"bootstrap", "gossip", "inbound"}, failures : 0..FailureDrop]
SovereignPeersTypeOK ==
    /\ {peerTable, savedPeers} \subseteq [SovereignNodes -> Seq(PeerRecord)] /\ pulling \in [SovereignNodes -> Seq(SovereignNodes)]
    /\ ticking \subseteq here /\ here \subseteq SovereignNodes \ left /\ left \subseteq Gone
    /\ allowance \in [losses : 0..MaxLosses, restarts : 0..MaxRestarts, pushes : 0..MaxPushes]

UrlsOf(t) == [i \in DOMAIN t |-> t[i].url]
Urls(t) == {t[i].url : i \in DOMAIN t}

(* addPeer(): node n hears of p.  Only a bootstrap peer gets into a full table. *)
Admits(n, t, p, source) == /\ p # n /\ p \notin Urls(t)
                           /\ Len(t) < MaxPeers \/ source = "bootstrap"
AddPeer(n, t, p, source) ==
    IF Admits(n, t, p, source) THEN Append(t, [url |-> p, source |-> source, failures |-> 0]) ELSE t
(* One after the other, those of a list that are told.                          *)
AddPeers(n, t, urls, told, source) ==
    LET added[i \in 0..Len(urls)] == IF i = 0 THEN t
                                     ELSE IF urls[i] \in told THEN AddPeer(n, added[i - 1], urls[i], source)
                                     ELSE added[i - 1]
    IN  added[Len(urls)]

(* savePeers() after addPeer(): what is saved is the whole table of the moment. *)
SavedIfNew(old, new, saved) == IF Urls(new) = Urls(old) THEN saved ELSE new

(* restore(): the file, then the bootstrap peers it lacks.                      *)
Restored(n, saved) == AddPeers(n, saved, BootstrapPeers[n], SovereignNodes, "bootstrap")

SovereignPeersInit ==
    /\ peerTable = [n \in SovereignNodes |-> << >>] /\ savedPeers = peerTable
    /\ pulling = [n \in SovereignNodes |-> << >>] /\ ticking = {} /\ here = {} /\ left = {}
    /\ allowance = [losses |-> MaxLosses, restarts |-> MaxRestarts, pushes |-> MaxPushes]

(* The constructor: addPeer() saves the bootstrap peers the file lacks.         *)
StartsNode(n) ==
    /\ n \notin here \cup left /\ here' = here \cup {n}
    /\ peerTable' = [peerTable EXCEPT ![n] = Restored(n, savedPeers[n])]
    /\ savedPeers' = [savedPeers EXCEPT ![n] = SavedIfNew(@, peerTable'[n], @)]
    /\ UNCHANGED <<pulling, ticking, left, allowance>>

(* stop() or a crash: what is in memory is gone.                                *)
StopsNode(n) ==
    /\ n \in here /\ here' = here \ {n}
    /\ \/ allowance.restarts > 0 /\ allowance' = [allowance EXCEPT !.restarts = @ - 1] /\ UNCHANGED left
       \/ n \in Gone /\ left' = left \cup {n} /\ UNCHANGED allowance
    /\ peerTable' = [peerTable EXCEPT ![n] = << >>]
    /\ pulling' = [pulling EXCEPT ![n] = << >>] /\ ticking' = ticking \ {n}
    /\ UNCHANGED savedPeers

Reached(t, urls) == [i \in DOMAIN t |-> IF t[i].url \in urls THEN [t[i] EXCEPT !.failures = 0] ELSE t[i]]
Missed(t, urls) == [i \in DOMAIN t |-> IF t[i].url \in urls /\ t[i].failures < FailureDrop
                                       THEN [t[i] EXCEPT !.failures = @ + 1] ELSE t[i]]
(* catch in syncPeer(): the only place where a peer is dropped.                 *)
PlaceOf(t, p) == CHOOSE i \in DOMAIN t : t[i].url = p
Dropped(t, p) ==
    IF \E i \in DOMAIN t : t[i].url = p /\ t[i].failures >= FailureDrop /\ t[i].source # "bootstrap"
    THEN [i \in 1..Len(t) - 1 |-> t[IF i < PlaceOf(t, p) THEN i ELSE i + 1]] ELSE t

(* What node p tells of its peers, itself first.                                *)
Mentions(p) == {p} \cup {r.url : r \in {q \in Range(peerTable[p]) : q.failures < FailureMention}}
Gossip(n, t, p) == AddPeers(n, t, <<p>> \o UrlsOf(peerTable[p]), Mentions(p), "gossip")

InFront(t) == SubSeq(t, 1, IF Len(t) < PullLimit THEN Len(t) ELSE PullLimit)
(* tick(): pulls from the first peers there are now.                            *)
BeginTick(n) ==
    /\ n \in here \ ticking /\ ticking' = ticking \cup {n}
    /\ pulling' = [pulling EXCEPT ![n] = UrlsOf(InFront(peerTable[n]))]
    /\ UNCHANGED <<peerTable, savedPeers, here, left, allowance>>

(* syncPeer(): the next of them answers, having taken the caller for a peer.    *)
PullAnswered(n) ==
    /\ n \in ticking \cap here /\ pulling[n] # << >>
    /\ LET p == Head(pulling[n])
           t == Gossip(n, Reached(peerTable[n], {p}), p)
           u == AddPeer(p, peerTable[p], n, "inbound")
       IN /\ p \in here
          /\ peerTable' = [peerTable EXCEPT ![n] = t, ![p] = u]
          /\ savedPeers' = [savedPeers EXCEPT ![n] = SavedIfNew(peerTable[n], t, @),
                                                ![p] = SavedIfNew(peerTable[p], u, @)]
    /\ pulling' = [pulling EXCEPT ![n] = Tail(@)]
    /\ UNCHANGED <<ticking, here, left, allowance>>

(* It has left, or the request is lost on the way.                              *)
PullFails(n) ==
    /\ n \in ticking \cap here /\ pulling[n] # << >>
    /\ LET p == Head(pulling[n])
       IN /\ IF p \in here THEN allowance.losses > 0 /\ allowance' = [allowance EXCEPT !.losses = @ - 1]
                           ELSE UNCHANGED allowance
          /\ peerTable' = [peerTable EXCEPT ![n] = Dropped(Missed(@, {p}), p)]
    /\ pulling' = [pulling EXCEPT ![n] = Tail(@)]
    /\ UNCHANGED <<savedPeers, ticking, here, left>>

(* The end of tick(): savePeers().                                              *)
EndTick(n) == /\ n \in ticking \cap here /\ pulling[n] = << >>
              /\ ticking' = ticking \ {n} /\ savedPeers' = [savedPeers EXCEPT ![n] = peerTable[n]]
              /\ UNCHANGED <<peerTable, pulling, here, left, allowance>>

(* push(): an envelope is sent to every peer at once; those it reaches take the *)
(* sender for a peer, each of the others has failed once more.                  *)
PushTo(n) ==
    /\ n \in here /\ allowance.pushes > 0
    /\ \E lost \in SUBSET (Urls(peerTable[n]) \cap here) :
         LET reached == (Urls(peerTable[n]) \cap here) \ lost
             pushed == [m \in SovereignNodes |->
                          IF m \in reached THEN AddPeer(m, peerTable[m], n, "inbound") ELSE peerTable[m]]
         IN /\ Cardinality(lost) <= allowance.losses
            /\ allowance' = [allowance EXCEPT !.pushes = @ - 1, !.losses = @ - Cardinality(lost)]
            /\ peerTable' = [pushed EXCEPT ![n] = Missed(Reached(@, reached), Urls(@) \ reached)]
            /\ savedPeers' = [m \in SovereignNodes |-> SavedIfNew(peerTable[m], pushed[m], savedPeers[m])]
    /\ UNCHANGED <<pulling, ticking, here, left>>

SovereignPeersNext ==
    \E n \in SovereignNodes : \/ BeginTick(n) \/ PullAnswered(n) \/ PullFails(n) \/ EndTick(n)
                              \/ PushTo(n) \/ StartsNode(n) \/ StopsNode(n)

(* setInterval keeps the ticks coming, and every request ends.                  *)
SovereignPeersFairness ==
    \A n \in SovereignNodes \ Gone :
       WF_sovereignPeersVars(BeginTick(n) \/ PullAnswered(n) \/ PullFails(n) \/ EndTick(n))
-----------------------------------------------------------------------------
(* However peers mention each other, leave, come back from the file or fill the *)
(* table: a peer is listed once, no node lists itself, strangers never take     *)
(* more than MaxPeers places, a bootstrap peer is never given up, and a tick    *)
(* pulls from peers that are still listed.                                      *)
PeersAreBounded ==
    \A n \in here :
       /\ \A i, j \in DOMAIN peerTable[n] : peerTable[n][i].url = peerTable[n][j].url => i = j
       /\ n \notin Urls(peerTable[n])
       /\ Cardinality({i \in DOMAIN peerTable[n] : peerTable[n][i].source # "bootstrap"}) <= MaxPeers
       /\ \A i \in DOMAIN BootstrapPeers[n] :
             \E r \in Range(peerTable[n]) : r.url = BootstrapPeers[n][i] /\ r.source = "bootstrap"
       /\ Range(pulling[n]) \subseteq Urls(peerTable[n])

(* A peer that has left and is among those a tick pulls from makes room.        *)
GoneMakeRoom ==
    \A n \in SovereignNodes \ Gone, p \in Gone :
       p \in left /\ (\E r \in Range(InFront(peerTable[n])) : r.url = p /\ r.source # "bootstrap")
          ~> p \notin Urls(peerTable[n])
=============================================================================

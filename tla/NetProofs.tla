------------------------------- MODULE NetProofs -------------------------------
(* Proofs about a node among others: whom it counts as live in the libp2p mesh  *)
(* (P2PMesh) and in the HTTP mesh (PeerManager), what it is credited for the    *)
(* tasks of the swarm (Swarm), what it answers from the swarm's memory          *)
(* (CollectiveMemory), which friends it lets in (RemoteAccess), how it answers  *)
(* the applications that ask its wallet and which identity it is paid as        *)
(* (Wallet), the jobs it takes on (ComputeSharing), the rounds of gradients and *)
(* the work it keeps while the platform is away (Training), the peers of its    *)
(* sovereign board (SovereignPeers) and whom it routes tasks to (Swarm).        *)
EXTENDS P2PMesh, PeerManager, Swarm, CollectiveMemory, RemoteAccess, Wallet,
        ComputeSharing, Training, SovereignPeers,
        FiniteSetTheorems, WellFoundedInduction, TLAPS

-----------------------------------------------------------------------------
(* The mesh.  Whoever is gone is not connected and greets nobody, so what the   *)
(* others remember of it is at least as old as its absence.                     *)
OnlyStartedTalk == /\ \A p \in links : p \subseteq started
                   /\ \A g \in greetings : g[1] \in started
                   /\ \A n \in MeshNodes : n \notin discovered[n]

SilentSinceGone == \A n, m \in MeshNodes : m \notin started => absent[m] <= heardOf[n][m]

MeshInv == MeshTypeOK /\ OnlyStartedTalk /\ SilentSinceGone

(* An age grows to TooOld and keeps the order of two ages.                      *)
LEMMA LaterAge == /\ \A a \in 0..TooOld : Later(a) \in 0..TooOld
                  /\ \A a, b \in 0..TooOld : a <= b => Later(a) <= Later(b)
BY DEF Later, TooOld

(* Connecting two nodes that started.                                           *)
LEMMA ConnectKeeps ==
    ASSUME MeshInv, NEW pairs, pairs \subseteq Pairs, \A p \in pairs : p \subseteq started,
           Connect(pairs), started' = started
    PROVE  /\ links' \subseteq Pairs /\ greetings' \subseteq MeshNodes \X MeshNodes
           /\ \A p \in links' : p \subseteq started'
           /\ \A g \in greetings' : g[1] \in started'
<1> USE DEF MeshInv, MeshTypeOK, OnlyStartedTalk, Connect
<1>1. links' \subseteq Pairs /\ greetings' \subseteq MeshNodes \X MeshNodes
    OBVIOUS
<1>2. \A p \in links' : p \subseteq started'
    OBVIOUS
<1>3. ASSUME NEW g \in greetings' PROVE g[1] \in started'
    <2>1. CASE g \in greetings
        BY <2>1
    <2>2. CASE {g[1], g[2]} \in pairs
        BY <2>2
    <2> QED BY <2>1, <2>2
<1> QED BY <1>1, <1>2, <1>3

LEMMA MeshBegins == MeshInit => MeshInv
<1> SUFFICES ASSUME MeshInit PROVE MeshInv
    OBVIOUS
<1>1. MeshTypeOK
    BY MeshAssumption DEF MeshInit, MeshTypeOK, TooOld
<1>2. OnlyStartedTalk /\ SilentSinceGone
    BY DEF MeshInit, OnlyStartedTalk, SilentSinceGone, TooOld
<1> QED BY <1>1, <1>2 DEF MeshInv

(* A node starts with an empty record of the others.                            *)
LEMMA StartMeshKeeps == ASSUME MeshInv, NEW n \in MeshNodes, StartMesh(n) PROVE MeshInv'
<1> USE DEF MeshInv, StartMesh
<1>1. MeshTypeOK'
    <2>1. discovered' \in [MeshNodes -> SUBSET MeshNodes]
        BY MeshAssumption DEF MeshTypeOK
    <2>2. heardOf' \in [MeshNodes -> [MeshNodes -> 0..TooOld]] /\ absent' \in [MeshNodes -> 0..TooOld]
        BY DEF MeshTypeOK, TooOld
    <2> QED BY <2>1, <2>2 DEF MeshTypeOK
<1>2. \A k \in MeshNodes : k \notin discovered'[k]
    BY DEF OnlyStartedTalk, MeshTypeOK
<1>3. (\A p \in links' : p \subseteq started') /\ \A g \in greetings' : g[1] \in started'
    BY DEF OnlyStartedTalk
<1>4. OnlyStartedTalk'
    BY <1>2, <1>3 DEF OnlyStartedTalk
<1>5. SilentSinceGone'
    BY DEF SilentSinceGone, MeshTypeOK, TooOld
<1> QED BY <1>1, <1>4, <1>5

LEMMA DiscoverKeeps == ASSUME MeshInv, NEW n \in MeshNodes, NEW m \in MeshNodes, Discover(n, m) PROVE MeshInv'
<1>1. /\ n \in started /\ m \in discovered[n] /\ m # n
      /\ discovered' = [discovered EXCEPT ![n] = @ \ {m}] /\ UNCHANGED <<started, heardOf, absent>>
    BY DEF Discover, MeshInv, OnlyStartedTalk
<1>2. discovered' \in [MeshNodes -> SUBSET MeshNodes] /\ \A k \in MeshNodes : k \notin discovered'[k]
    BY <1>1 DEF MeshInv, MeshTypeOK, OnlyStartedTalk
<1>3. meshFaults' \in 0..MaxMeshFaults
    BY MeshAssumption DEF Discover, Fault, MeshInv, MeshTypeOK
<1>4. SilentSinceGone'
    BY <1>1 DEF MeshInv, SilentSinceGone
<1>5. CASE m \in started /\ Connect({{n, m}})
    <2>1. {{n, m}} \subseteq Pairs /\ \A p \in {{n, m}} : p \subseteq started
        BY <1>1, <1>5 DEF Pairs
    <2>2. /\ links' \subseteq Pairs /\ greetings' \subseteq MeshNodes \X MeshNodes
          /\ \A p \in links' : p \subseteq started'
          /\ \A g \in greetings' : g[1] \in started'
        BY <1>1, <1>5, <2>1, ConnectKeeps
    <2> QED BY <1>1, <1>2, <1>3, <1>4, <2>2 DEF MeshInv, MeshTypeOK, OnlyStartedTalk
<1>6. CASE UNCHANGED <<links, greetings>>
    BY <1>1, <1>2, <1>3, <1>4, <1>6 DEF MeshInv, MeshTypeOK, OnlyStartedTalk
<1> QED BY <1>5, <1>6 DEF Discover

(* Only a node that is there greets.                                            *)
LEMMA GreetKeeps == ASSUME MeshInv, NEW n \in MeshNodes, NEW m \in MeshNodes, Greet(n, m) PROVE MeshInv'
<1> USE DEF MeshInv, Greet
<1>1. n \in started
    BY DEF OnlyStartedTalk
<1>2. heardOf' \in [MeshNodes -> [MeshNodes -> 0..TooOld]]
    BY DEF MeshTypeOK, TooOld
<1>3. MeshTypeOK' /\ OnlyStartedTalk'
    BY <1>2 DEF MeshTypeOK, OnlyStartedTalk
<1>4. SilentSinceGone'
    BY <1>1 DEF SilentSinceGone, MeshTypeOK
<1> QED BY <1>3, <1>4

(* A minute: heartbeats come over connections, so from nodes that are there.    *)
LEMMA MinuteKeeps == ASSUME MeshInv, NEW syncing \in SUBSET started, Minute(syncing) PROVE MeshInv'
<1>1. PICK arrived \in SUBSET Sent(syncing) :
          /\ heardOf' = [n \in MeshNodes |-> [m \in MeshNodes |->
                            IF Heard(n, m, arrived) THEN 0 ELSE Later(heardOf[n][m])]]
          /\ Connect(Dialled(arrived))
          /\ meshFaults' = meshFaults \/ Fault
    BY DEF Minute
<1>2. /\ absent' = [m \in MeshNodes |-> IF m \in started THEN 0 ELSE Later(absent[m])]
      /\ UNCHANGED <<started, discovered>>
    BY DEF Minute
<1>3. ASSUME NEW n \in MeshNodes, NEW m \in MeshNodes, Heard(n, m, arrived) PROVE m \in started
    <2>1. <<"heartbeat", m, n>> \in Sent(syncing)
        BY <1>1, <1>3 DEF Heard
    <2>2. {m, n} \in links
        BY <2>1 DEF Sent, Linked
    <2> QED BY <2>2 DEF MeshInv, OnlyStartedTalk
<1>4. Dialled(arrived) \subseteq Pairs /\ \A p \in Dialled(arrived) : p \subseteq started
    BY DEF Dialled
<1>5. /\ links' \subseteq Pairs /\ greetings' \subseteq MeshNodes \X MeshNodes
      /\ \A p \in links' : p \subseteq started'
      /\ \A g \in greetings' : g[1] \in started'
    BY <1>1, <1>2, <1>4, ConnectKeeps
<1>6. heardOf' \in [MeshNodes -> [MeshNodes -> 0..TooOld]] /\ absent' \in [MeshNodes -> 0..TooOld]
    <2>1. \A n, m \in MeshNodes : heardOf[n][m] \in 0..TooOld
        BY DEF MeshInv, MeshTypeOK
    <2>2. \A n, m \in MeshNodes : (IF Heard(n, m, arrived) THEN 0 ELSE Later(heardOf[n][m])) \in 0..TooOld
        BY <2>1, LaterAge DEF TooOld
    <2>3. \A m \in MeshNodes : (IF m \in started THEN 0 ELSE Later(absent[m])) \in 0..TooOld
        BY LaterAge DEF MeshInv, MeshTypeOK, TooOld
    <2>4. heardOf' \in [MeshNodes -> [MeshNodes -> 0..TooOld]]
        BY <1>1, <2>2
    <2> QED BY <1>2, <2>3, <2>4
<1>7. meshFaults' \in 0..MaxMeshFaults
    BY <1>1, MeshAssumption DEF Fault, MeshInv, MeshTypeOK
<1>8. MeshTypeOK' /\ OnlyStartedTalk'
    BY <1>2, <1>5, <1>6, <1>7 DEF MeshInv, MeshTypeOK, OnlyStartedTalk
<1>9. ASSUME NEW n \in MeshNodes, NEW m \in MeshNodes, m \notin started' PROVE absent'[m] <= heardOf'[n][m]
    <2>1. m \notin started /\ ~Heard(n, m, arrived)
        BY <1>2, <1>3, <1>9
    <2>2. absent'[m] = Later(absent[m]) /\ heardOf'[n][m] = Later(heardOf[n][m])
        BY <1>1, <1>2, <2>1
    <2>3. absent[m] <= heardOf[n][m] /\ absent[m] \in 0..TooOld /\ heardOf[n][m] \in 0..TooOld
        BY <2>1 DEF MeshInv, SilentSinceGone, MeshTypeOK
    <2> QED BY <2>2, <2>3, LaterAge
<1> QED BY <1>8, <1>9 DEF MeshInv, SilentSinceGone

(* A link is lost, or a node stops and takes its links with it.                 *)
LEMMA LossKeepsMesh == ASSUME MeshInv, (\E p \in links : LinkLost(p)) \/ (\E n \in MeshNodes : StopMesh(n))
                       PROVE  MeshInv'
<1> USE MeshAssumption DEF MeshInv, Fault
<1>1. ASSUME NEW p \in links, LinkLost(p) PROVE MeshInv'
    BY <1>1 DEF LinkLost, MeshTypeOK, OnlyStartedTalk, SilentSinceGone
<1>2. ASSUME NEW n \in MeshNodes, StopMesh(n) PROVE MeshInv'
    <2>1. MeshTypeOK'
        BY <1>2 DEF StopMesh, MeshTypeOK, TooOld
    <2>2. OnlyStartedTalk'
        BY <1>2 DEF StopMesh, MeshTypeOK, OnlyStartedTalk
    <2>3. SilentSinceGone'
        BY <1>2 DEF StopMesh, MeshTypeOK, SilentSinceGone
    <2> QED BY <2>1, <2>2, <2>3
<1> QED BY <1>1, <1>2

LEMMA MeshKept == MeshInv /\ [MeshNext]_meshVars => MeshInv'
<1> SUFFICES ASSUME MeshInv, [MeshNext]_meshVars PROVE MeshInv'
    OBVIOUS
<1>1. CASE UNCHANGED meshVars
    BY <1>1 DEF meshVars, MeshInv, MeshTypeOK, OnlyStartedTalk, SilentSinceGone
<1> QED BY <1>1, StartMeshKeeps, DiscoverKeeps, GreetKeeps, MinuteKeeps, LossKeepsMesh DEF MeshNext

(* No node counts one that has been gone for two minutes as live, whoever still *)
(* names it, for every bootstrap list, number of nodes and schedule.            *)
THEOREM TheGoneAreForgotten == MeshInit /\ [][MeshNext]_meshVars => []GoneIsForgotten
<1>1. MeshInv => GoneIsForgotten
    BY DEF MeshInv, MeshTypeOK, SilentSinceGone, GoneIsForgotten, LivePeers, TooOld
<1> QED BY <1>1, MeshBegins, MeshKept, PTL

-----------------------------------------------------------------------------
(* The HTTP mesh.  The tables in memory and on disk hold nobody for verified    *)
(* who did not make contact, and no node makes contact with itself.             *)
WereHeard(table) == \A n \in PeerNodes : \A k \in PeerKeys : table[n][k].verified => <<n, k[1]>> \in contact
NotWithItself == \A n \in PeerNodes : <<n, n>> \notin contact

PeerInv == PeerTypeOK /\ WereHeard(peers) /\ WereHeard(peersFile) /\ NotWithItself

(* What a table may hold.                                                       *)
Tables == [PeerKeys -> Entry]

LEMMA TheEntries == /\ JustSeen \in Entry /\ Unknown \in Entry /\ Placeholder \in Entry
                    /\ ~Unknown.verified /\ ~Placeholder.verified
                    /\ \A n \in PeerNodes : <<n, "id">> \in PeerKeys /\ <<n, "url">> \in PeerKeys
                    /\ \A k \in PeerKeys : k[1] \in PeerNodes
BY PeerAssumption DEF JustSeen, Unknown, Placeholder, Entry, PeerKeys

(* An interval makes entries older and changes nothing else of them.            *)
LEMMA OlderEntry == ASSUME NEW e \in Entry PROVE Older(e) \in Entry /\ Older(e).verified = e.verified
BY PeerAssumption DEF Older, Entry

(* A table learns names, and verifies nobody by that.                           *)
LEMMA LearnVerifiesNobody ==
    ASSUME NEW table \in Tables, NEW n, NEW keys
    PROVE  /\ Learn(table, n, keys) \in Tables
           /\ \A k \in PeerKeys : Learn(table, n, keys)[k].verified => table[k].verified
BY TheEntries DEF Learn, Tables

(* Heartbeats go between nodes, and name entries.                               *)
LEMMA PingsAreBeats == ASSUME NEW n \in PeerNodes, NEW targets \in SUBSET PeerNodes PROVE Pings(n, targets) \subseteq Beat
<1> SUFFICES ASSUME NEW p \in Pings(n, targets) PROVE p \in Beat
    OBVIOUS
<1>1. PICK m \in targets : p = [from |-> n, to |-> m, reply |-> FALSE, names |-> {}]
    BY DEF Pings
<1> QED BY <1>1 DEF Beat

LEMMA PingAllAreBeats == ASSUME NEW n \in PeerNodes, NEW table PROVE PingAll(n, table) \subseteq Beat
BY PingsAreBeats, TheEntries DEF PingAll, Nodes

(* A step that replaces the table of one node keeps what holds of the others.   *)
LEMMA OneTableReplaced ==
    ASSUME PeerInv, NEW n \in PeerNodes, NEW table \in Tables, contact \subseteq contact',
           \A k \in PeerKeys : table[k].verified => <<n, k[1]>> \in contact',
           NEW old \in [PeerNodes -> Tables], NEW new, new = [old EXCEPT ![n] = table],
           \A m \in PeerNodes : \A k \in PeerKeys : old[m][k].verified => <<m, k[1]>> \in contact
    PROVE  /\ new \in [PeerNodes -> Tables]
           /\ \A m \in PeerNodes : \A k \in PeerKeys : new[m][k].verified => <<m, k[1]>> \in contact'
OBVIOUS

LEMMA PeersStart == PeerInit => PeerInv
<1> SUFFICES ASSUME PeerInit PROVE PeerInv
    OBVIOUS
<1>1. \A n \in PeerNodes : peers[n] \in Tables
    BY TheEntries DEF PeerInit, Tables
<1>2. peers \in [PeerNodes -> [PeerKeys -> Entry]] /\ peersFile = peers
    BY <1>1 DEF PeerInit, Tables
<1>3. PeerTypeOK
    BY <1>2, PeerAssumption DEF PeerInit, PeerTypeOK
<1>4. WereHeard(peers)
    BY TheEntries DEF PeerInit, WereHeard
<1>5. NotWithItself
    BY PeerAssumption DEF PeerInit, NotWithItself
<1> QED BY <1>2, <1>3, <1>4, <1>5 DEF PeerInv, WereHeard

(* The start of a node verifies nobody.                                         *)
LEMMA StartKeeps == ASSUME PeerInv, NEW n \in PeerNodes, BeginStart(n) \/ SeedsPinged(n) \/ AllPinged(n) PROVE PeerInv'
<1>1. peers \in [PeerNodes -> Tables] /\ peersFile \in [PeerNodes -> Tables]
    BY DEF PeerInv, PeerTypeOK, Tables
<1>2. UNCHANGED <<peersFile, contact, losses, reboots>> /\ boot' \in [PeerNodes -> {"down", "seeds", "all", "up"}]
    BY DEF BeginStart, SeedsPinged, AllPinged, PeerInv, PeerTypeOK
<1>3. ASSUME NEW table \in Tables, \A k \in PeerKeys : table[k].verified => peers[n][k].verified,
             peers' = [peers EXCEPT ![n] = table]
      PROVE  peers' \in [PeerNodes -> Tables] /\ WereHeard(peers)'
    BY <1>1, <1>2, <1>3 DEF PeerInv, WereHeard
<1>4. CASE BeginStart(n)
    <2> DEFINE table == [k \in PeerKeys |-> IF k[2] = "url" /\ k[1] \in SeedsOf[n] THEN Placeholder
                                            ELSE IF k[1] = n THEN Unknown ELSE peers[n][k]]
    <2>1. table \in Tables /\ \A k \in PeerKeys : table[k].verified => peers[n][k].verified
        BY <1>1, TheEntries DEF Tables
    <2>2. peers' = [peers EXCEPT ![n] = table] /\ beats' = beats \cup PingAll(n, table)
        BY <1>4 DEF BeginStart
    <2>3. beats' \subseteq Beat
        BY <2>2, PingAllAreBeats DEF PeerInv, PeerTypeOK
    <2>4. peers' \in [PeerNodes -> Tables] /\ WereHeard(peers)'
        BY <1>3, <2>1, <2>2
    <2> QED BY <1>2, <2>3, <2>4 DEF PeerInv, PeerTypeOK, WereHeard, NotWithItself, Tables
<1>5. CASE SeedsPinged(n)
    <2>1. PICK listed \in {{}, PeerNodes \X {"id"}} : peers' = [peers EXCEPT ![n] = Learn(peers[n], n, listed)]
        BY <1>5 DEF SeedsPinged
    <2>2. peers' \in [PeerNodes -> Tables] /\ WereHeard(peers)'
        BY <1>1, <1>3, <2>1, LearnVerifiesNobody
    <2>3. beats' \subseteq Beat
        BY <1>5, PingAllAreBeats DEF SeedsPinged, PeerInv, PeerTypeOK
    <2> QED BY <1>2, <2>2, <2>3 DEF PeerInv, PeerTypeOK, WereHeard, NotWithItself, Tables
<1>6. CASE AllPinged(n)
    BY <1>2, <1>6 DEF AllPinged, PeerInv, PeerTypeOK, WereHeard, NotWithItself
<1> QED BY <1>4, <1>5, <1>6

(* Who writes has made contact.                                                 *)
LEMMA ReceiveKeeps == ASSUME PeerInv, NEW b \in beats, ReceiveHeartbeat(b) PROVE PeerInv'
<1> DEFINE n == b.to
           m == b.from
           answer(table) == [b EXCEPT !.reply = TRUE, !.names = LiveEntries(table, n)]
<1>1. n \in PeerNodes /\ m \in PeerNodes /\ b \in Beat
    BY DEF PeerInv, PeerTypeOK, Beat
<1>2. \A table : answer(table) \in Beat
    BY <1>1 DEF Beat, LiveEntries
<1>3. UNCHANGED <<boot, losses, reboots>>
    BY DEF ReceiveHeartbeat
<1>4. CASE m = n
    <2>1. beats' = (beats \ {b}) \cup {answer(peers[n])} /\ UNCHANGED <<peers, peersFile, contact>>
        BY <1>4 DEF ReceiveHeartbeat
    <2>2. beats' \subseteq Beat
        BY <1>2, <2>1 DEF PeerInv, PeerTypeOK
    <2> QED BY <1>3, <2>1, <2>2 DEF PeerInv, PeerTypeOK, WereHeard, NotWithItself
<1>5. CASE m # n
    <2> DEFINE seen(measured) == [peers[n] EXCEPT ![<<m, "id">>] =
                   [known |-> TRUE, verified |-> peers[n][<<m, "id">>].verified \/ measured, age |-> 0]]
    <2>1. PICK measured \in BOOLEAN :
              /\ peers' = [peers EXCEPT ![n] = seen(measured)]
              /\ peersFile' = [peersFile EXCEPT ![n] = seen(measured)]
              /\ beats' = (beats \ {b}) \cup {answer(seen(measured))} \cup PingsBack(n, m)
              /\ contact' = contact \cup {<<n, m>>}
        BY <1>5 DEF ReceiveHeartbeat
    <2>2. PingsBack(n, m) \subseteq Beat
        BY <1>1, PingsAreBeats DEF PingsBack
    <2>3. beats' \subseteq Beat
        BY <1>2, <2>1, <2>2, ZenonT(60) DEF PeerInv, PeerTypeOK
    <2>4. peers \in [PeerNodes -> Tables] /\ peersFile \in [PeerNodes -> Tables]
        BY DEF PeerInv, PeerTypeOK, Tables
    <2>5. [known |-> TRUE, verified |-> peers[n][<<m, "id">>].verified \/ measured, age |-> 0] \in Entry
        BY PeerAssumption DEF Entry
    <2>6. seen(measured) \in Tables
        BY <1>1, <2>4, <2>5, TheEntries DEF Tables
    <2>7. \A k \in PeerKeys : seen(measured)[k].verified => <<n, k[1]>> \in contact'
        <3> SUFFICES ASSUME NEW k \in PeerKeys, seen(measured)[k].verified PROVE <<n, k[1]>> \in contact'
            OBVIOUS
        <3>1. CASE k = <<m, "id">>
            BY <2>1, <3>1
        <3>2. CASE k # <<m, "id">>
            <4>1. peers[n][k].verified
                BY <1>1, <2>4, <3>2 DEF Tables
            <4> QED BY <1>1, <2>1, <4>1 DEF PeerInv, WereHeard
        <3> QED BY <3>1, <3>2
    <2>8. peers' \in [PeerNodes -> Tables] /\ WereHeard(peers)'
        BY <1>1, <2>1, <2>4, <2>6, <2>7, OneTableReplaced DEF PeerInv, WereHeard
    <2>9. peersFile' \in [PeerNodes -> Tables] /\ WereHeard(peersFile)'
        BY <1>1, <2>1, <2>4, <2>6, <2>7, OneTableReplaced DEF PeerInv, WereHeard
    <2>10. contact' \subseteq PeerNodes \X PeerNodes /\ NotWithItself'
        BY <1>1, <1>5, <2>1 DEF PeerInv, PeerTypeOK, NotWithItself
    <2> QED BY <1>3, <2>3, <2>8, <2>9, <2>10 DEF PeerInv, PeerTypeOK, Tables
<1> QED BY <1>4, <1>5

(* Who answers has made contact, and those it names have not.                   *)
LEMMA AnsweredKeeps == ASSUME PeerInv, NEW b \in beats, HeartbeatAnswered(b) PROVE PeerInv'
<1> DEFINE n == b.from
           m == b.to
           learned == Learn(peers[n], n, b.names)
<1>1. n \in PeerNodes /\ m \in PeerNodes
    BY DEF PeerInv, PeerTypeOK, Beat
<1>2. beats' \subseteq Beat /\ UNCHANGED <<peersFile, boot, losses, reboots>>
    BY DEF HeartbeatAnswered, PeerInv, PeerTypeOK
<1>3. CASE m = n
    BY <1>2, <1>3 DEF HeartbeatAnswered, PeerInv, PeerTypeOK, WereHeard, NotWithItself
<1>4. CASE m # n
    <2> DEFINE table == [k \in PeerKeys |-> IF k[1] = m /\ learned[k].known THEN JustSeen ELSE learned[k]]
    <2>1. peers' = [peers EXCEPT ![n] = table] /\ contact' = contact \cup {<<n, m>>}
        BY <1>4 DEF HeartbeatAnswered
    <2>2. peers \in [PeerNodes -> Tables]
        BY DEF PeerInv, PeerTypeOK, Tables
    <2>3. learned \in Tables /\ \A k \in PeerKeys : learned[k].verified => peers[n][k].verified
        BY <1>1, <2>2, LearnVerifiesNobody
    <2>4. table \in Tables
        BY <2>3, TheEntries DEF Tables
    <2>5. \A k \in PeerKeys : table[k].verified => <<n, k[1]>> \in contact'
        BY <1>1, <2>1, <2>3 DEF PeerInv, WereHeard
    <2>6. peers' \in [PeerNodes -> Tables] /\ WereHeard(peers)'
        BY <1>1, <2>1, <2>2, <2>4, <2>5, OneTableReplaced DEF PeerInv, WereHeard
    <2>7. contact' \subseteq PeerNodes \X PeerNodes /\ NotWithItself' /\ WereHeard(peersFile)'
        BY <1>1, <1>2, <1>4, <2>1 DEF PeerInv, PeerTypeOK, NotWithItself, WereHeard
    <2> QED BY <1>2, <2>6, <2>7 DEF PeerInv, PeerTypeOK, Tables
<1> QED BY <1>3, <1>4

(* The bridge of libp2p registers a name.                                       *)
LEMMA RegisterKeeps == ASSUME PeerInv, NEW n \in PeerNodes, NEW m \in PeerNodes, RegisterPeer(n, m) PROVE PeerInv'
<1> DEFINE k0 == <<m, "id">>
           table == [peers[n] EXCEPT ![k0].known = TRUE]
<1>1. peers \in [PeerNodes -> Tables] /\ peersFile \in [PeerNodes -> Tables]
    BY DEF PeerInv, PeerTypeOK, Tables
<1>2. /\ peers' = [peers EXCEPT ![n] = table]
      /\ peersFile' = [peersFile EXCEPT ![n] = peers'[n]]
      /\ UNCHANGED <<boot, beats, contact, losses, reboots>>
    BY DEF RegisterPeer
<1>3. peers'[n] = table
    BY <1>1, <1>2
<1>4. peers[n][k0] \in Entry
    BY <1>1, TheEntries DEF Tables
<1>5. [peers[n][k0] EXCEPT !.known = TRUE] \in Entry
      /\ [peers[n][k0] EXCEPT !.known = TRUE].verified = peers[n][k0].verified
    BY <1>4 DEF Entry
<1>6. table \in Tables /\ \A k \in PeerKeys : table[k].verified => peers[n][k].verified
    BY <1>1, <1>5, TheEntries DEF Tables
<1>7. \A k \in PeerKeys : table[k].verified => <<n, k[1]>> \in contact'
    BY <1>2, <1>6 DEF PeerInv, WereHeard
<1>8. peers' \in [PeerNodes -> Tables] /\ WereHeard(peers)'
    BY <1>1, <1>2, <1>6, <1>7, OneTableReplaced DEF PeerInv, WereHeard
<1>9. peersFile' \in [PeerNodes -> Tables] /\ WereHeard(peersFile)'
    BY <1>1, <1>2, <1>3, <1>6, <1>7, OneTableReplaced, ZenonT(60) DEF PeerInv, WereHeard
<1> QED BY <1>2, <1>8, <1>9 DEF PeerInv, PeerTypeOK, NotWithItself, Tables

(* Time makes entries older.                                                    *)
LEMMA IntervalKeeps == ASSUME PeerInv, Interval PROVE PeerInv'
<1>1. /\ peers' = [n \in PeerNodes |-> [k \in PeerKeys |-> Older(peers[n][k])]]
      /\ peersFile' = [n \in PeerNodes |-> IF boot[n] = "up" THEN peers'[n]
                                           ELSE [k \in PeerKeys |-> Older(peersFile[n][k])]]
      /\ UNCHANGED <<boot, contact, losses, reboots>>
    BY DEF Interval
<1>2. \A n \in PeerNodes : \A k \in PeerKeys : peers[n][k] \in Entry /\ peersFile[n][k] \in Entry
    BY DEF PeerInv, PeerTypeOK
<1>3. \A n \in PeerNodes : \A k \in PeerKeys : Older(peers[n][k]) \in Entry /\ Older(peers[n][k]).verified = peers[n][k].verified
    BY <1>2, OlderEntry
<1>4. \A n \in PeerNodes : \A k \in PeerKeys : Older(peersFile[n][k]) \in Entry /\ Older(peersFile[n][k]).verified = peersFile[n][k].verified
    BY <1>2, OlderEntry
<1>5. peers' \in [PeerNodes -> Tables] /\ WereHeard(peers)'
    BY <1>1, <1>3 DEF PeerInv, WereHeard, Tables
<1>6. \A n \in PeerNodes : peersFile'[n] \in Tables
    BY <1>1, <1>4, <1>5 DEF Tables
<1>7. peersFile' \in [PeerNodes -> Tables]
    BY <1>1, <1>6
<1>8. WereHeard(peersFile)'
    BY <1>1, <1>4, <1>5 DEF PeerInv, WereHeard
<1>9. beats' \subseteq Beat
    <2> SUFFICES ASSUME NEW b \in beats' PROVE b \in Beat
        OBVIOUS
    <2>1. PICK n \in PeerNodes : b \in Pings(n, Live(n)')
        BY DEF Interval
    <2>2. Live(n)' \in SUBSET PeerNodes
        BY TheEntries DEF Live, Nodes, LiveEntries
    <2> QED BY <2>1, <2>2, PingsAreBeats
<1> QED BY <1>1, <1>5, <1>7, <1>8, <1>9 DEF PeerInv, PeerTypeOK, NotWithItself, Tables

(* What is lost, and a restart from the file.                                   *)
LEMMA PeerFaultsKeep == ASSUME PeerInv, (\E b \in beats : HeartbeatLost(b)) \/ (\E n \in PeerNodes : Reboot(n))
                        PROVE  PeerInv'
<1>1. losses' \in 0..MaxFaults /\ reboots' \in 0..MaxFaults /\ beats' \subseteq Beat
    BY PeerAssumption DEF HeartbeatLost, Reboot, PeerInv, PeerTypeOK
<1>2. CASE \E b \in beats : HeartbeatLost(b)
    BY <1>1, <1>2 DEF HeartbeatLost, PeerInv, PeerTypeOK, WereHeard, NotWithItself
<1>3. ASSUME NEW n \in PeerNodes, Reboot(n) PROVE PeerInv'
    <2>1. peers' = [peers EXCEPT ![n] = peersFile[n]] /\ UNCHANGED <<peersFile, contact>>
          /\ boot' = [boot EXCEPT ![n] = "down"]
        BY <1>3 DEF Reboot
    <2>2. peers' \in [PeerNodes -> [PeerKeys -> Entry]] /\ WereHeard(peers)'
        BY <2>1 DEF PeerInv, PeerTypeOK, WereHeard
    <2> QED BY <1>1, <2>1, <2>2 DEF PeerInv, PeerTypeOK, WereHeard, NotWithItself
<1> QED BY <1>2, <1>3

LEMMA PeersKept == PeerInv /\ [PeerNext]_peerVars => PeerInv'
<1> SUFFICES ASSUME PeerInv, [PeerNext]_peerVars PROVE PeerInv'
    OBVIOUS
<1>1. CASE UNCHANGED peerVars
    BY <1>1 DEF peerVars, PeerInv, PeerTypeOK, WereHeard, NotWithItself
<1>2. \A n \in RunningNodes : n \in PeerNodes
    BY PeerAssumption
<1> QED BY <1>1, <1>2, StartKeeps, ReceiveKeeps, AnsweredKeeps, RegisterKeeps, IntervalKeeps, PeerFaultsKeep
        DEF PeerNext

(* Nobody is routed to whom the node has not heard itself, and never itself:    *)
(* not by gossip, the registry, the bridge, or a file that was read back.       *)
THEOREM OnlyHeardPeersAreUsed == PeerSpec => []PeersWereHeard
<1>1. PeerInv => PeersWereHeard
    <2> SUFFICES ASSUME PeerInv PROVE PeersWereHeard
        OBVIOUS
    <2>1. VerifiedMadeContact
        BY DEF PeerInv, WereHeard, VerifiedMadeContact
    <2>2. ASSUME NEW n \in PeerNodes, NEW place \in {"url", "id"} PROVE ~peers[n][<<n, place>>].verified
        <3>1. <<n, place>> \in PeerKeys /\ <<n, place>>[1] = n
            BY TheEntries
        <3> QED BY <3>1 DEF PeerInv, WereHeard, NotWithItself
    <2> QED BY <2>1, <2>2 DEF PeersWereHeard, NotItsOwnPeer
<1> QED BY <1>1, PeersStart, PeersKept, PTL DEF PeerSpec

-----------------------------------------------------------------------------
(* The tasks of the swarm.  What is still to be sent for a task is in a file or *)
(* in a round; a task is credited after its report, and waits for a credit only *)
(* where it has at most one for each restart.                                   *)
Unsent == {"offered", "computing", "proving", "forfeited"}
Unreported == {"offered", "computing", "proving", "settling", "reporting"}

Pending(q) == file[q] \cup round[q].left \cup round[q].kept

UnsentIsNowhere == \A t \in SwarmTasks : work[t] \in Unsent => \A q \in Queues : t \notin received[q] \cup Pending(q)

UnreportedHasNothing ==
    \A t \in SwarmTasks : work[t] \in Unreported => earned[t] = 0 /\ saved[t] = 0 /\ t \notin Pending("reports")

RoundsAreOrderly == \A q \in Queues : /\ round[q].left \cap round[q].kept = {}
                                      /\ ~round[q].on => round[q].left \cup round[q].kept = {}

CreditsAreBounded ==
    \A t \in SwarmTasks :
        /\ saved[t] <= earned[t] /\ earned[t] <= 1 + crashes
        /\ t \in round["reports"].left \cup round["reports"].kept => earned[t] <= crashes
        /\ ~round["reports"].on /\ t \in file["reports"] => earned[t] <= crashes

SwarmInv == /\ SwarmTypeOK /\ GaugeExact /\ CreditsAreReceived
            /\ UnsentIsNowhere /\ UnreportedHasNothing /\ RoundsAreOrderly /\ CreditsAreBounded

(* The gauge counts what is under way: a task that stays under way leaves it    *)
(* alone, one that ends takes itself off, one that begins adds itself.          *)
Busy == {t \in SwarmTasks : work[t] \in InFlight}

LEMMA BusyIsCounted == IsFiniteSet(Busy) /\ Cardinality(Busy) \in Nat
BY SwarmAssumption, FS_Subset, FS_CardinalityType DEF Busy

LEMMA GaugeMoves ==
    ASSUME SwarmInv, NEW t \in SwarmTasks, NEW from \in Stages, NEW to \in Stages, Moves(t, from, to),
           processing' = processing + (IF to \in InFlight THEN 1 ELSE 0) - (IF from \in InFlight THEN 1 ELSE 0)
    PROVE  GaugeExact' /\ processing' \in Nat
<1> DEFINE busy == Busy'
<1>1. processing = Cardinality(Busy) /\ work \in [SwarmTasks -> Stages]
    BY DEF SwarmInv, GaugeExact, Busy, SwarmTypeOK
<1>2. work[t] = from /\ work' = [work EXCEPT ![t] = to]
    BY DEF Moves
<1>3. IsFiniteSet(Busy) /\ Cardinality(Busy) \in Nat /\ IsFiniteSet(busy) /\ Cardinality(busy) \in Nat
    BY BusyIsCounted, SwarmAssumption, FS_Subset, FS_CardinalityType DEF Busy
<1>4. (t \in Busy <=> from \in InFlight) /\ (t \in busy <=> to \in InFlight)
    BY <1>1, <1>2 DEF Busy
<1>5. \A s \in SwarmTasks \ {t} : s \in Busy <=> s \in busy
    BY <1>1, <1>2 DEF Busy
<1>6. Cardinality(busy) = processing'
    <2>1. CASE from \in InFlight /\ to \in InFlight
        <3>1. busy = Busy
            BY <1>4, <1>5, <2>1 DEF Busy
        <3> QED BY <1>1, <1>3, <2>1, <3>1
    <2>2. CASE from \in InFlight /\ to \notin InFlight
        <3>1. busy = Busy \ {t}
            BY <1>4, <1>5, <2>2 DEF Busy
        <3>2. Cardinality(busy) = Cardinality(Busy) - 1
            BY <1>3, <1>4, <2>2, <3>1, FS_RemoveElement
        <3> QED BY <1>1, <1>3, <2>2, <3>2
    <2>3. CASE from \notin InFlight /\ to \in InFlight
        <3>1. busy = Busy \cup {t}
            BY <1>4, <1>5, <2>3 DEF Busy
        <3>2. Cardinality(busy) = Cardinality(Busy) + 1
            BY <1>3, <1>4, <2>3, <3>1, FS_AddElement
        <3> QED BY <1>1, <1>3, <2>3, <3>2
    <2>4. CASE from \notin InFlight /\ to \notin InFlight
        <3>1. busy = Busy
            BY <1>4, <1>5, <2>4 DEF Busy
        <3> QED BY <1>1, <1>3, <2>4, <3>1
    <2> QED BY <2>1, <2>2, <2>3, <2>4
<1> QED BY <1>3, <1>6 DEF GaugeExact, Busy

LEMMA SwarmStarts == SwarmInit => SwarmInv
<1> SUFFICES ASSUME SwarmInit PROVE SwarmInv
    OBVIOUS
<1>1. SwarmTypeOK
    BY SwarmAssumption DEF SwarmInit, SwarmTypeOK, Stages, InFlight, NoRound
<1>2. GaugeExact
    <2>1. Busy = {}
        BY DEF SwarmInit, Busy, InFlight
    <2> QED BY <2>1, FS_EmptySet DEF SwarmInit, GaugeExact, Busy
<1>3. CreditsAreReceived /\ CreditsAreBounded
    BY SwarmAssumption DEF SwarmInit, CreditsAreReceived, CreditsAreBounded, NoRound, Queues
<1>4. UnsentIsNowhere /\ UnreportedHasNothing /\ RoundsAreOrderly
    BY DEF SwarmInit, UnsentIsNowhere, UnreportedHasNothing, RoundsAreOrderly, Pending, NoRound, Queues
<1> QED BY <1>1, <1>2, <1>3, <1>4 DEF SwarmInv

(* Until a task's proof is due nothing is sent or kept for it.                  *)
LEMMA BeforeTheProof == ASSUME SwarmInv, NEW t \in SwarmTasks, PollTask(t) \/ ComputeTask(t) \/ QuorumEnds(t)
                        PROVE  SwarmInv'
<1> USE DEF InFlight, Stages
<1>1. UNCHANGED <<file, round, received, earned, saved, crashes>>
    BY DEF PollTask, ComputeTask, QuorumEnds
<1>2. processing \in Nat /\ work \in [SwarmTasks -> Stages]
    BY DEF SwarmInv, SwarmTypeOK
<1>3. PICK from \in {"offered", "computing", "proving"},
           to \in {"computing", "proving", "reporting", "failed", "settling", "forfeited"} :
          /\ Moves(t, from, to)
          /\ processing' = processing + (IF to \in InFlight THEN 1 ELSE 0) - (IF from \in InFlight THEN 1 ELSE 0)
    <2>1. CASE PollTask(t)
        BY <1>2, <2>1 DEF PollTask
    <2>2. CASE ComputeTask(t)
        BY <1>2, <2>2 DEF ComputeTask, Leaves
    <2>3. CASE QuorumEnds(t)
        BY <1>2, <2>3 DEF QuorumEnds, Leaves
    <2> QED BY <2>1, <2>2, <2>3
<1>4. GaugeExact' /\ processing' \in Nat
    BY <1>3, GaugeMoves
<1>5. work[t] = from /\ work' = [work EXCEPT ![t] = to]
    BY <1>3 DEF Moves
<1>6. SwarmTypeOK'
    BY <1>1, <1>2, <1>4, <1>5 DEF SwarmInv, SwarmTypeOK
<1>7. UnsentIsNowhere' /\ UnreportedHasNothing'
    BY <1>1, <1>2, <1>5 DEF SwarmInv, UnsentIsNowhere, UnreportedHasNothing, Pending, Unsent, Unreported, Queues
<1> QED BY <1>1, <1>4, <1>6, <1>7 DEF SwarmInv, CreditsAreReceived, RoundsAreOrderly, CreditsAreBounded

(* The proof is sent or kept for a round; the report is still to come.          *)
LEMMA ProofSent == ASSUME SwarmInv, NEW t \in SwarmTasks, NEW o \in Outcomes, SubmitProof(t, o) PROVE SwarmInv'
<1> USE DEF InFlight, Stages, Queues
<1>1. /\ work[t] = "settling" /\ work' = [work EXCEPT ![t] = "reporting"] /\ Moves(t, "settling", "reporting")
      /\ UNCHANGED <<processing, round, earned, saved, crashes>>
    BY DEF SubmitProof, Moves
<1>2. /\ received' \in [Queues -> SUBSET SwarmTasks] /\ received'["reports"] = received["reports"]
      /\ \A q \in Queues : \A s \in SwarmTasks \ {t} : s \in received'[q] => s \in received[q]
    BY DEF SubmitProof, ApiCall, SwarmInv, SwarmTypeOK
<1>3. /\ file' \in [Queues -> SUBSET SwarmTasks] /\ file'["reports"] = file["reports"]
      /\ \A q \in Queues : \A s \in SwarmTasks \ {t} : s \in file'[q] => s \in file[q]
    BY DEF SubmitProof, SwarmInv, SwarmTypeOK
<1>4. GaugeExact' /\ processing' \in Nat
    BY <1>1, GaugeMoves DEF SwarmInv, SwarmTypeOK
<1>5. SwarmTypeOK'
    BY <1>1, <1>2, <1>3, <1>4 DEF SwarmInv, SwarmTypeOK
<1>6. UnsentIsNowhere'
    BY <1>1, <1>2, <1>3 DEF SwarmInv, SwarmTypeOK, UnsentIsNowhere, Pending, Unsent
<1>7. UnreportedHasNothing'
    BY <1>1, <1>2, <1>3 DEF SwarmInv, SwarmTypeOK, UnreportedHasNothing, Pending, Unreported
<1>8. CreditsAreReceived' /\ RoundsAreOrderly' /\ CreditsAreBounded'
    BY <1>1, <1>2, <1>3 DEF SwarmInv, CreditsAreReceived, RoundsAreOrderly, CreditsAreBounded
<1> QED BY <1>4, <1>5, <1>6, <1>7, <1>8 DEF SwarmInv

(* The report is answered and credited, or kept for a round.                    *)
LEMMA ReportSent == ASSUME SwarmInv, NEW t \in SwarmTasks, NEW o \in Outcomes, ReportTask(t, o) PROVE SwarmInv'
<1> USE DEF InFlight, Stages, Queues
<1> DEFINE to == IF o = "answered" THEN "confirmed" ELSE "queued"
<1>1. /\ work[t] = "reporting" /\ work' = [work EXCEPT ![t] = to] /\ Moves(t, "reporting", to)
      /\ processing' = processing - 1
      /\ UNCHANGED <<round, saved, crashes>>
    BY DEF ReportTask, Leaves, Moves
<1>2. /\ received' \in [Queues -> SUBSET SwarmTasks] /\ received["reports"] \subseteq received'["reports"]
      /\ o = "answered" => t \in received'["reports"]
      /\ \A q \in Queues : \A s \in SwarmTasks \ {t} : s \in received'[q] => s \in received[q]
    BY DEF ReportTask, ApiCall, Outcomes, SwarmInv, SwarmTypeOK
<1>3. /\ file' \in [Queues -> SUBSET SwarmTasks]
      /\ \A q \in Queues : \A s \in SwarmTasks \ {t} : s \in file'[q] => s \in file[q]
      /\ o = "answered" => file' = file
    BY DEF ReportTask, SwarmInv, SwarmTypeOK
<1>4. /\ earned' \in [SwarmTasks -> Nat]
      /\ \A s \in SwarmTasks \ {t} : earned'[s] = earned[s]
      /\ earned'[t] = IF o = "answered" THEN earned[t] + 1 ELSE earned[t]
    BY DEF ReportTask, SwarmInv, SwarmTypeOK
<1>5. GaugeExact' /\ processing' \in Nat
    BY <1>1, GaugeMoves DEF SwarmInv, SwarmTypeOK
<1>6. SwarmTypeOK'
    BY <1>1, <1>2, <1>3, <1>4, <1>5 DEF SwarmInv, SwarmTypeOK
<1>7. earned[t] = 0 /\ saved[t] = 0 /\ t \notin Pending("reports")
    BY <1>1 DEF SwarmInv, UnreportedHasNothing, Unreported
<1>8. UnsentIsNowhere'
    BY <1>1, <1>2, <1>3 DEF SwarmInv, SwarmTypeOK, UnsentIsNowhere, Pending, Unsent
<1>9. UnreportedHasNothing'
    BY <1>1, <1>3, <1>4 DEF SwarmInv, SwarmTypeOK, UnreportedHasNothing, Pending, Unreported
<1>10. CreditsAreReceived'
    BY <1>1, <1>2, <1>4, <1>7 DEF SwarmInv, CreditsAreReceived
<1>11. CreditsAreBounded'
    <2>1. crashes \in Nat /\ \A s \in SwarmTasks : earned[s] \in Nat /\ saved[s] \in Nat
        BY SwarmAssumption DEF SwarmInv, SwarmTypeOK
    <2> QED BY <1>1, <1>3, <1>4, <1>7, <2>1 DEF SwarmInv, CreditsAreBounded, Pending
<1> QED BY <1>1, <1>5, <1>6, <1>8, <1>9, <1>10, <1>11 DEF SwarmInv, RoundsAreOrderly

(* A round reads its file and later writes over it what is still pending.       *)
LEMMA RoundKeeps == ASSUME SwarmInv, NEW q \in Queues, StartRound(q) \/ EndRound(q) PROVE SwarmInv'
<1> USE DEF Queues
<1>1. UNCHANGED <<work, processing, received, earned, saved, crashes>>
    BY DEF StartRound, EndRound
<1>2. /\ file' \in [Queues -> SUBSET SwarmTasks]
      /\ round' \in [Queues -> [on : BOOLEAN, left : SUBSET SwarmTasks, kept : SUBSET SwarmTasks]]
    <2>1. file \in [Queues -> SUBSET SwarmTasks]
          /\ round \in [Queues -> [on : BOOLEAN, left : SUBSET SwarmTasks, kept : SUBSET SwarmTasks]]
        BY DEF SwarmInv, SwarmTypeOK
    <2>2. CASE StartRound(q)
        <3>1. [on |-> TRUE, left |-> file[q], kept |-> {}] \in [on : BOOLEAN, left : SUBSET SwarmTasks, kept : SUBSET SwarmTasks]
            BY <2>1
        <3> QED BY <2>1, <2>2, <3>1 DEF StartRound
    <2>3. CASE EndRound(q)
        <3>1. round[q].kept \in SUBSET SwarmTasks
            BY <2>1
        <3>2. NoRound \in [on : BOOLEAN, left : SUBSET SwarmTasks, kept : SUBSET SwarmTasks]
            BY DEF NoRound
        <3> QED BY <2>1, <2>3, <3>1, <3>2 DEF EndRound
    <2> QED BY <2>2, <2>3
<1>3. \A p \in Queues : Pending(p)' \subseteq Pending(p)
    BY DEF StartRound, EndRound, NoRound, Pending, SwarmInv, SwarmTypeOK
<1>4. RoundsAreOrderly'
    BY DEF StartRound, EndRound, NoRound, SwarmInv, SwarmTypeOK, RoundsAreOrderly
<1>5. CreditsAreBounded'
    BY <1>1 DEF StartRound, EndRound, NoRound, SwarmInv, SwarmTypeOK, CreditsAreBounded
<1>6. SwarmTypeOK' /\ GaugeExact' /\ CreditsAreReceived'
    BY <1>1, <1>2 DEF SwarmInv, SwarmTypeOK, GaugeExact, CreditsAreReceived
<1>7. UnsentIsNowhere' /\ UnreportedHasNothing'
    BY <1>1, <1>3 DEF SwarmInv, UnsentIsNowhere, UnreportedHasNothing
<1> QED BY <1>4, <1>5, <1>6, <1>7 DEF SwarmInv

(* An entry is sent again; an answered report is credited and leaves the round. *)
LEMMA ResendKeeps == ASSUME SwarmInv, NEW t \in SwarmTasks, NEW o \in Outcomes, NEW q \in Queues, Resend(q, t, o)
                     PROVE  SwarmInv'
<1> USE DEF Queues
<1>1. /\ t \in round[q].left
      /\ UNCHANGED <<work, processing, file, saved, crashes>>
    BY DEF Resend
<1>2. /\ round' \in [Queues -> [on : BOOLEAN, left : SUBSET SwarmTasks, kept : SUBSET SwarmTasks]]
      /\ \A p \in Queues \ {q} : round'[p] = round[p]
      /\ round'[q].on = round[q].on /\ round'[q].left = round[q].left \ {t}
      /\ round'[q].kept = IF o = "answered" THEN round[q].kept ELSE round[q].kept \cup {t}
    BY DEF Resend, SwarmInv, SwarmTypeOK
<1>3. /\ received' \in [Queues -> SUBSET SwarmTasks] /\ \A p \in Queues : received[p] \subseteq received'[p]
      /\ o = "answered" => t \in received'[q]
      /\ \A p \in Queues : \A s \in SwarmTasks \ {t} : s \in received'[p] => s \in received[p]
    BY DEF Resend, ApiCall, Outcomes, SwarmInv, SwarmTypeOK
<1>4. /\ earned' \in [SwarmTasks -> Nat]
      /\ \A s \in SwarmTasks \ {t} : earned'[s] = earned[s]
      /\ earned'[t] = IF q = "reports" /\ o = "answered" THEN earned[t] + 1 ELSE earned[t]
    BY DEF Resend, SwarmInv, SwarmTypeOK
<1>5. work[t] \notin Unsent /\ (q = "reports" => work[t] \notin Unreported)
    BY <1>1 DEF SwarmInv, UnsentIsNowhere, UnreportedHasNothing, Pending
<1>6. \A p \in Queues : Pending(p)' \subseteq Pending(p)
    BY <1>1, <1>2 DEF Pending
<1>7. SwarmTypeOK' /\ GaugeExact'
    BY <1>1, <1>2, <1>3, <1>4 DEF SwarmInv, SwarmTypeOK, GaugeExact
<1>8. CreditsAreReceived'
    BY <1>1, <1>3, <1>4 DEF SwarmInv, SwarmTypeOK, CreditsAreReceived
<1>9. UnsentIsNowhere'
    BY <1>1, <1>3, <1>5, <1>6 DEF SwarmInv, UnsentIsNowhere
<1>10. UnreportedHasNothing'
    BY <1>1, <1>4, <1>5, <1>6 DEF SwarmInv, SwarmTypeOK, UnreportedHasNothing
<1>11. RoundsAreOrderly'
    BY <1>1, <1>2 DEF SwarmInv, RoundsAreOrderly
<1>12. CreditsAreBounded'
    <2>1. crashes \in Nat /\ \A s \in SwarmTasks : earned[s] \in Nat /\ saved[s] \in Nat
        BY SwarmAssumption DEF SwarmInv, SwarmTypeOK
    <2>2. CASE q = "proofs"
        BY <1>1, <1>2, <1>4, <2>1, <2>2 DEF SwarmInv, CreditsAreBounded
    <2>3. CASE q = "reports"
        <3>1. earned[t] <= crashes /\ round["reports"].on /\ t \notin round["reports"].kept
            BY <1>1, <2>3 DEF SwarmInv, CreditsAreBounded, RoundsAreOrderly
        <3>2. ASSUME NEW s \in SwarmTasks
              PROVE  /\ saved'[s] <= earned'[s] /\ earned'[s] <= 1 + crashes'
                     /\ s \in round'["reports"].left \cup round'["reports"].kept => earned'[s] <= crashes'
                     /\ ~round'["reports"].on /\ s \in file'["reports"] => earned'[s] <= crashes'
            <4>1. CASE s = t
                <5>1. saved'[t] \in Nat /\ saved'[t] <= earned[t] /\ round'["reports"].on /\ crashes' = crashes
                    BY <1>1, <1>2, <2>1, <2>3, <3>1 DEF SwarmInv, CreditsAreBounded
                <5>2. CASE o = "answered"
                    <6>1. earned'[t] = earned[t] + 1
                        BY <1>4, <2>3, <5>2
                    <6>2. t \notin round'["reports"].left \cup round'["reports"].kept
                        BY <1>2, <2>3, <3>1, <5>2
                    <6> QED BY <2>1, <3>1, <4>1, <5>1, <6>1, <6>2
                <5>3. CASE o # "answered"
                    <6>1. earned'[t] = earned[t]
                        BY <1>4, <5>3
                    <6> QED BY <2>1, <3>1, <4>1, <5>1, <6>1
                <5> QED BY <5>2, <5>3
            <4>2. CASE s # t
                <5>1. s \in round'["reports"].left \cup round'["reports"].kept
                         => s \in round["reports"].left \cup round["reports"].kept
                    BY <1>2, <2>3, <4>2
                <5> QED BY <1>1, <1>2, <1>4, <2>3, <4>2, <5>1 DEF SwarmInv, CreditsAreBounded
            <4> QED BY <4>1, <4>2
        <3> QED BY <3>2 DEF CreditsAreBounded
    <2> QED BY <2>2, <2>3
<1> QED BY <1>7, <1>8, <1>9, <1>10, <1>11, <1>12 DEF SwarmInv

(* A restart: the files, and what was saved of the earnings.                    *)
LEMMA CrashKeeps == ASSUME SwarmInv, Crash PROVE SwarmInv'
<1> USE DEF Queues
<1>1. /\ work' = [t \in SwarmTasks |-> IF work[t] \in InFlight THEN "lost" ELSE work[t]]
      /\ processing' = 0 /\ round' = [q \in Queues |-> NoRound] /\ earned' = saved
      /\ crashes' = crashes + 1 /\ crashes < MaxCrashes /\ UNCHANGED <<file, received, saved>>
    BY DEF Crash
<1>2. \A t \in SwarmTasks : work'[t] \notin InFlight /\ (work'[t] # "lost" => work'[t] = work[t])
    BY <1>1 DEF InFlight
<1>3. work' \in [SwarmTasks -> Stages]
    BY <1>1 DEF SwarmInv, SwarmTypeOK, Stages
<1>4. SwarmTypeOK'
    BY <1>1, <1>3, SwarmAssumption DEF SwarmInv, SwarmTypeOK, NoRound
<1>5. GaugeExact'
    <2>1. Busy' = {}
        BY <1>2 DEF Busy
    <2> QED BY <1>1, <2>1, FS_EmptySet DEF GaugeExact, Busy
<1>6. \A q \in Queues : Pending(q)' \subseteq Pending(q)
    BY <1>1 DEF Pending, NoRound
<1>7. UnsentIsNowhere' /\ UnreportedHasNothing'
    BY <1>1, <1>2, <1>6 DEF SwarmInv, UnsentIsNowhere, UnreportedHasNothing, Unsent, Unreported
<1>8. CreditsAreReceived' /\ RoundsAreOrderly'
    BY <1>1 DEF SwarmInv, CreditsAreReceived, RoundsAreOrderly, NoRound
<1>9. CreditsAreBounded'
    <2>1. crashes \in Nat /\ \A s \in SwarmTasks : earned[s] \in Nat /\ saved[s] \in Nat
        BY SwarmAssumption DEF SwarmInv, SwarmTypeOK
    <2> QED BY <1>1, <2>1 DEF SwarmInv, CreditsAreBounded, NoRound
<1> QED BY <1>4, <1>5, <1>7, <1>8, <1>9 DEF SwarmInv

LEMMA SwarmKept == SwarmInv /\ [SwarmNext]_swarmVars => SwarmInv'
<1> SUFFICES ASSUME SwarmInv, [SwarmNext]_swarmVars PROVE SwarmInv'
    OBVIOUS
<1>1. CASE SaveEarnings
    BY <1>1 DEF SaveEarnings, SwarmInv, SwarmTypeOK, GaugeExact, CreditsAreReceived, UnsentIsNowhere,
                UnreportedHasNothing, RoundsAreOrderly, CreditsAreBounded, Pending
<1>2. CASE UNCHANGED swarmVars
    BY <1>2 DEF swarmVars, SwarmInv, SwarmTypeOK, GaugeExact, CreditsAreReceived, UnsentIsNowhere,
                UnreportedHasNothing, RoundsAreOrderly, CreditsAreBounded, Pending
<1> QED BY <1>1, <1>2, BeforeTheProof, ProofSent, ReportSent, ResendKeeps, RoundKeeps, CrashKeeps DEF SwarmNext

(* A node shows earnings only for reports the platform has got, each credited   *)
(* once but for restarts; what failed the quorum gate is sent nowhere, and the  *)
(* gauge is what is under way: for any number of tasks and restarts, and every  *)
(* order of lost replies and rounds.                                            *)
THEOREM CreditsAreRight == SwarmSpec => []CreditsRight
<1>1. SwarmInv => CreditsRight
    BY DEF SwarmInv, CreditsRight, CreditedOnce, CreditsAreBounded, ForfeitedNotReported, UnsentIsNowhere,
           Unsent, Pending, Queues
<1> QED BY <1>1, SwarmStarts, SwarmKept, PTL DEF SwarmSpec

-----------------------------------------------------------------------------
(* What a node remembers (CollectiveMemory).  Every answer of L1 and L2 was     *)
(* stored here, if there is no platform; and a recall that still waits is       *)
(* counted and has not hit yet.                                                 *)
Begun == {r \in Recalls : recall[r].stage # "new"}
Searching == {r \in Recalls : recall[r].stage \in {"l2", "l3"}}

RecallsCounted == /\ memoryStats.recalls = Cardinality(Begun)
                  /\ memoryStats.hits + Cardinality(Searching) <= memoryStats.recalls
                  /\ \A q \in Questions : l1[q].hits <= memoryStats.hits /\ l2[q].entry.hits = 0

OwnAnswers == /\ \A q \in Questions : /\ l1[q].answer \in stored[q] \cup {NotKnown}
                                      /\ l2[q].entry.answer \in stored[q] \cup {NotKnown}
              /\ \A r \in Recalls : recalled[r] \in stored[recall[r].question] \cup {NotKnown}

MemoryInv == /\ MemoryTypeOK /\ RecallsCounted
             /\ sent # {} => sharing.consent
             /\ ~sharing.platform => OwnAnswers
             /\ \A r \in Recalls : /\ recall[r].stage = "new" => recalled[r] = NotKnown
                                   /\ recall[r].stage = "l3" => sharing.platform

RecallOf == [question : Questions, stage : {"new", "l2", "l3", "done"}]
StatsOf == [stores : 0..MaxStores, recalls : 0..Cardinality(Recalls), hits : 0..Cardinality(Recalls)]

LEMMA FewRecalls ==
  /\ Cardinality(Recalls) \in Nat
  /\ \A S \in SUBSET Recalls : IsFiniteSet(S) /\ Cardinality(S) \in Nat /\ Cardinality(S) <= Cardinality(Recalls)
  BY MemoryAssumption, FS_CardinalityType, FS_Subset DEF MemoryAssumption

LEMMA MemoryStarts == MemoryInit => MemoryInv
  <1> SUFFICES ASSUME MemoryInit PROVE MemoryInv
    OBVIOUS
  <1> USE DEF MemoryInit
  <1>1. /\ 0 \in 0..MaxHours /\ 0 \in 0..MaxStores /\ 0 \in 0..Cardinality(Recalls) /\ 0 \in 0..MaxHours + L1Ttl
        /\ 0 \in 0..MaxHours + L2Ttl /\ 0 \in 0..Cardinality(Recalls) + 1
    BY FewRecalls, MemoryAssumption DEF MemoryAssumption
  <1>2. Absent \in EntryOf /\ Absent.answer = NotKnown /\ Absent.hits = 0
    BY <1>1 DEF Absent, EntryOf
  <1>3. \A r \in Recalls : recall[r] \in RecallOf /\ recall[r].stage = "new"
    BY MemoryAssumption DEF RecallOf, MemoryAssumption
  <1>4. recall \in [Recalls -> RecallOf]
    BY <1>3
  <1>5. MemoryTypeOK
    BY <1>1, <1>2, <1>4 DEF MemoryTypeOK, RecallOf
  <1>6. Begun = {} /\ Searching = {}
    BY <1>3 DEF Begun, Searching
  <1>7. RecallsCounted
    BY <1>2, <1>6, FS_EmptySet DEF RecallsCounted
  <1>8. OwnAnswers
    BY <1>2 DEF OwnAnswers
  <1> QED BY <1>3, <1>5, <1>7, <1>8 DEF MemoryInv

(* How the counts change when one recall goes on.                               *)
Goes(r) == /\ recall' \in [Recalls -> RecallOf]
           /\ \A s \in Recalls : s # r => recall'[s] = recall[s]

LEMMA RecallGoes ==
  ASSUME MemoryInv, NEW r \in Recalls, NEW x \in RecallOf, recall' = [recall EXCEPT ![r] = x]
  PROVE  Goes(r) /\ recall'[r] = x
  BY DEF MemoryInv, MemoryTypeOK, Goes, RecallOf

LEMMA RecallBegins ==
  ASSUME MemoryInv, NEW r \in Recalls, Goes(r), recall[r].stage = "new", recall'[r].stage \in {"l2", "l3", "done"}
  PROVE  /\ Cardinality(Begun') = Cardinality(Begun) + 1 /\ Cardinality(Begun') \in 0..Cardinality(Recalls)
         /\ Cardinality(Searching') = Cardinality(Searching) + (IF recall'[r].stage = "done" THEN 0 ELSE 1)
  <1> DEFINE B == Begun
             P == Searching
  <1>1. Begun' = B \cup {r} /\ r \notin B /\ IsFiniteSet(B) /\ IsFiniteSet(P) /\ r \notin P
        /\ Searching' = (IF recall'[r].stage = "done" THEN P ELSE P \cup {r})
    BY FewRecalls DEF Begun, Searching, Goes
  <1>2. Begun' \subseteq Recalls
    BY DEF Begun
  <1> HIDE DEF B, P
  <1>3. Cardinality(B \cup {r}) = Cardinality(B) + 1 /\ Cardinality(P \cup {r}) = Cardinality(P) + 1
    BY <1>1, FS_AddElement
  <1>4. Cardinality(Begun') \in Nat /\ Cardinality(Begun') <= Cardinality(Recalls)
    BY <1>2, FewRecalls
  <1>5. Cardinality(P) \in Nat
    BY <1>1, FS_CardinalityType
  <1> QED BY <1>1, <1>3, <1>4, <1>5, FewRecalls DEF B, P

LEMMA RecallEnds ==
  ASSUME MemoryInv, NEW r \in Recalls, Goes(r), recall[r].stage \in {"l2", "l3"}, recall'[r].stage \in {"l3", "done"}
  PROVE  /\ Begun' = Begun /\ Cardinality(Searching) \in Nat
         /\ Cardinality(Searching') = Cardinality(Searching) - (IF recall'[r].stage = "done" THEN 1 ELSE 0)
  <1> DEFINE P == Searching
  <1>1. Begun' = Begun /\ IsFiniteSet(P) /\ r \in P
        /\ Searching' = (IF recall'[r].stage = "done" THEN P \ {r} ELSE P)
    BY FewRecalls DEF Begun, Searching, Goes
  <1> HIDE DEF P
  <1>3. Cardinality(P \ {r}) = Cardinality(P) - 1 /\ Cardinality(P) \in Nat
    BY <1>1, FS_RemoveElement, FS_CardinalityType
  <1> QED BY <1>1, <1>3 DEF P

LEMMA StoreKeeps ==
  ASSUME MemoryInv, NEW q \in Questions, NEW a \in Answers, NEW sure \in BOOLEAN, Store(q, a, sure)
  PROVE  MemoryInv'
  <1> DEFINE e == MemoryEntry(a, 0)
  <1>1. e \in EntryOf /\ e.answer = a /\ e.hits = 0
    BY FewRecalls, MemoryAssumption DEF MemoryEntry, EntryOf, MemoryInv, MemoryTypeOK, MemoryAssumption
  <1> HIDE DEF e
  <1>2. Absent \in EntryOf /\ Absent.answer = NotKnown /\ Absent.hits = 0
    BY FewRecalls, MemoryAssumption DEF Absent, EntryOf, MemoryAssumption
  <1>3. PICK evicted : Put(q, e, evicted)
    BY DEF Store, e
  <1>4. l1' \in [Questions -> EntryOf] /\ \A p \in Questions : (p = q /\ l1'[p] = e) \/ (p # q /\ l1'[p] \in {Absent, l1[p]})
    BY <1>1, <1>2, <1>3 DEF Put, MemoryInv, MemoryTypeOK
  <1>5. /\ l2' \in [Questions -> [entry : EntryOf, kept : 0..MaxHours + L2Ttl]]
        /\ \A p \in Questions : l2'[p].entry = l2[p].entry \/ (p = q /\ l2'[p].entry = e)
    <2>1. CASE l2' = l2
      BY <2>1 DEF MemoryInv, MemoryTypeOK
    <2>2. CASE l2' = [l2 EXCEPT ![q] = [entry |-> e, kept |-> hours + L2Ttl]]
      <3>1. hours + L2Ttl \in 0..MaxHours + L2Ttl
        BY MemoryAssumption DEF MemoryInv, MemoryTypeOK, MemoryAssumption
      <3> QED BY <1>1, <2>2, <3>1 DEF MemoryInv, MemoryTypeOK
    <2> QED BY <2>1, <2>2 DEF Store, e
  <1>6. /\ UNCHANGED <<recall, recalled, sharing, hours>>
        /\ stored' = [stored EXCEPT ![q] = @ \cup {a}]
        /\ memoryStats' = [memoryStats EXCEPT !.stores = @ + 1] /\ memoryStats.stores < MaxStores
    BY DEF Store
  <1>7. /\ memoryStats' \in StatsOf /\ memoryStats'.recalls = memoryStats.recalls /\ memoryStats'.hits = memoryStats.hits
    BY <1>6, MemoryAssumption, SMTT(30) DEF StatsOf, MemoryInv, MemoryTypeOK, MemoryAssumption
  <1>8. /\ sent' \subseteq Questions \X Answers /\ (sent' # {} => sharing.consent)
        /\ l3' \in [Questions -> Answers \cup {NotKnown}]
    <2>1. CASE Shared(sure)
      <3>1. sent' = sent \cup {<<q, a>>} /\ l3' \in {l3, [l3 EXCEPT ![q] = a]} /\ sharing.consent
        BY <2>1 DEF Store, Shared
      <3>2. l3 \in [Questions -> Answers \cup {NotKnown}] /\ sent \subseteq Questions \X Answers
        BY DEF MemoryInv, MemoryTypeOK
      <3> QED BY <3>1, <3>2
    <2>2. CASE ~Shared(sure)
      BY <2>2 DEF Store, MemoryInv, MemoryTypeOK
    <2> QED BY <2>1, <2>2
  <1>9. \A p \in Questions : stored[p] \subseteq stored'[p] /\ stored'[p] \subseteq Answers /\ (p = q => a \in stored'[p])
    BY <1>6 DEF MemoryInv, MemoryTypeOK
  <1>10. MemoryTypeOK'
    BY <1>4, <1>5, <1>6, <1>7, <1>8, <1>9 DEF MemoryInv, MemoryTypeOK, StatsOf
  <1>11. RecallsCounted'
    <2>1. Begun' = Begun /\ Searching' = Searching
      BY <1>6 DEF Begun, Searching
    <2>2. memoryStats.hits \in Nat
      BY FewRecalls DEF MemoryInv, MemoryTypeOK
    <2> QED BY <1>1, <1>2, <1>4, <1>5, <1>7, <2>1, <2>2 DEF MemoryInv, RecallsCounted
  <1>12. ~sharing.platform => OwnAnswers'
    <2> SUFFICES ASSUME ~sharing.platform PROVE OwnAnswers'
      OBVIOUS
    <2>1. OwnAnswers
      BY DEF MemoryInv
    <2>2. \A p \in Questions : l1'[p].answer \in stored'[p] \cup {NotKnown}
      BY <1>1, <1>2, <1>4, <1>9, <2>1 DEF OwnAnswers
    <2>3. \A p \in Questions : l2'[p].entry.answer \in stored'[p] \cup {NotKnown}
      BY <1>1, <1>5, <1>9, <2>1 DEF OwnAnswers
    <2>4. \A r \in Recalls : recalled'[r] \in stored'[recall'[r].question] \cup {NotKnown}
      BY <1>6, <1>9, <2>1 DEF OwnAnswers, MemoryInv, MemoryTypeOK
    <2> QED BY <2>2, <2>3, <2>4 DEF OwnAnswers
  <1> QED BY <1>6, <1>8, <1>10, <1>11, <1>12 DEF MemoryInv

(* What L1 and the statistics are after a recall.                               *)
LEMMA RecallKeepsOthers ==
  ASSUME MemoryInv, NEW r \in Recalls, Goes(r), UNCHANGED <<l2, l3, sharing, stored, sent, hours>>,
         memoryStats' \in StatsOf, l1' \in [Questions -> EntryOf],
         recalled' \in [Recalls -> Answers \cup {NotKnown}],
         \A s \in Recalls : s # r => recalled'[s] = recalled[s]
  PROVE  MemoryTypeOK'
  BY DEF Goes, MemoryInv, MemoryTypeOK, RecallOf, StatsOf

LEMMA RecallKeeps == ASSUME MemoryInv, NEW r \in Recalls, NEW q \in Questions, Recall(r, q) PROVE MemoryInv'
  <1> DEFINE fresh == l1[q].answer # NotKnown /\ hours <= l1[q].until
             stage == IF fresh THEN "done" ELSE After("l1")
             x == [question |-> q, stage |-> stage]
  <1>1. /\ recall[r].stage = "new" /\ recall' = [recall EXCEPT ![r] = x] /\ UNCHANGED <<l2, l3, sharing, stored, sent, hours>>
        /\ memoryStats' = [memoryStats EXCEPT !.recalls = @ + 1, !.hits = @ + IF fresh THEN 1 ELSE 0]
        /\ IF fresh THEN l1' = [l1 EXCEPT ![q].hits = @ + 1] /\ recalled' = [recalled EXCEPT ![r] = l1[q].answer]
                    ELSE UNCHANGED <<recalled, l1>>
    BY DEF Recall
  <1>2. stage \in {"l2", "l3", "done"} /\ (fresh => stage = "done") /\ (stage = "l3" => sharing.platform)
    BY DEF After
  <1>3. x \in RecallOf /\ x.question = q /\ x.stage = stage
    BY <1>2 DEF RecallOf
  <1> HIDE DEF fresh, stage, x
  <1>4. Goes(r) /\ recall'[r] = x
    BY <1>1, <1>3, RecallGoes
  <1>5. /\ Cardinality(Begun') = Cardinality(Begun) + 1 /\ Cardinality(Begun') \in 0..Cardinality(Recalls)
        /\ Cardinality(Searching') = Cardinality(Searching) + (IF stage = "done" THEN 0 ELSE 1)
    BY <1>1, <1>2, <1>3, <1>4, RecallBegins
  <1>6. /\ memoryStats \in StatsOf /\ memoryStats.recalls = Cardinality(Begun) /\ {memoryStats.hits, memoryStats.recalls} \subseteq Nat
        /\ memoryStats.hits + Cardinality(Searching) <= memoryStats.recalls /\ Cardinality(Searching) \in Nat
    <2>1. Searching \subseteq Recalls
      BY DEF Searching
    <2> QED BY <2>1, FewRecalls DEF MemoryInv, MemoryTypeOK, StatsOf, RecallsCounted
  <1>7. /\ memoryStats' \in StatsOf /\ memoryStats'.recalls = Cardinality(Begun')
        /\ memoryStats'.hits + Cardinality(Searching') <= memoryStats'.recalls
        /\ memoryStats'.hits = memoryStats.hits + IF fresh THEN 1 ELSE 0
    <2> DEFINE n == memoryStats.recalls + 1
               k == memoryStats.hits + IF fresh THEN 1 ELSE 0
    <2>1. /\ n = Cardinality(Begun') /\ n \in 0..Cardinality(Recalls) /\ k + Cardinality(Searching') <= n
          /\ k \in Nat /\ Cardinality(Searching') \in Nat
      <3>1. CASE fresh
        BY <1>2, <1>5, <1>6, <3>1
      <3>2. CASE ~fresh
        BY <1>2, <1>5, <1>6, <3>2
      <3> QED BY <3>1, <3>2
    <2>2. k \in 0..Cardinality(Recalls)
      BY <2>1, FewRecalls
    <2>3. memoryStats' = [memoryStats EXCEPT !.recalls = n, !.hits = k]
      BY <1>1
    <2>4. k = memoryStats.hits + IF fresh THEN 1 ELSE 0
      OBVIOUS
    <2> HIDE DEF n, k
    <2>5. memoryStats' \in StatsOf /\ memoryStats'.recalls = n /\ memoryStats'.hits = k
      BY <1>6, <2>1, <2>2, <2>3 DEF StatsOf
    <2> QED BY <2>1, <2>4, <2>5
  <1>8. /\ l1' \in [Questions -> EntryOf]
        /\ \A p \in Questions : l1'[p].answer = l1[p].answer /\ l1'[p].hits <= memoryStats'.hits
        /\ recalled' \in [Recalls -> Answers \cup {NotKnown}]
        /\ \A s \in Recalls : s # r => recalled'[s] = recalled[s]
        /\ recalled'[r] \in {NotKnown, l1[q].answer}
    <2>0. /\ l1 \in [Questions -> EntryOf] /\ recalled \in [Recalls -> Answers \cup {NotKnown}] /\ recalled[r] = NotKnown
          /\ \A p \in Questions : l1[p].hits <= memoryStats.hits
      BY <1>1 DEF MemoryInv, MemoryTypeOK, RecallsCounted
    <2>1. CASE fresh
      <3> DEFINE y == [l1[q] EXCEPT !.hits = @ + 1]
      <3>1. l1' = [l1 EXCEPT ![q] = y] /\ recalled' = [recalled EXCEPT ![r] = l1[q].answer]
        BY <1>1, <2>1
      <3>2. y \in EntryOf /\ y.answer = l1[q].answer /\ y.hits = l1[q].hits + 1
        <4>1. l1[q] \in EntryOf /\ l1[q].hits + 1 \in 0..Cardinality(Recalls) + 1 /\ l1[q].hits \in Nat
          BY <1>6, <2>0, FewRecalls DEF EntryOf, StatsOf
        <4> QED BY <4>1 DEF EntryOf
      <3>3. \A p \in Questions : l1[p].hits \in Nat /\ l1[p].answer \in Answers \cup {NotKnown}
        BY <2>0, FewRecalls DEF EntryOf
      <3>4. memoryStats'.hits = memoryStats.hits + 1
        BY <1>7, <2>1
      <3> HIDE DEF y
      <3> QED BY <1>6, <2>0, <3>1, <3>2, <3>3, <3>4
    <2>2. CASE ~fresh
      BY <1>1, <1>6, <1>7, <2>0, <2>2
    <2> QED BY <2>1, <2>2
  <1>9. MemoryTypeOK'
    BY <1>1, <1>4, <1>7, <1>8, RecallKeepsOthers
  <1>10. RecallsCounted'
    BY <1>1, <1>7, <1>8 DEF RecallsCounted, MemoryInv
  <1>11. ~sharing.platform => OwnAnswers'
    BY <1>1, <1>3, <1>4, <1>8 DEF OwnAnswers, MemoryInv, Goes
  <1> QED BY <1>1, <1>2, <1>3, <1>4, <1>8, <1>9, <1>10, <1>11 DEF MemoryInv, Goes

(* Redis or the platform answers.                                               *)
LEMMA AnswerKeeps ==
  ASSUME MemoryInv, NEW r \in Recalls, recall[r].stage \in {"l2", "l3"}, NEW e \in EntryOf,
         e.answer # NotKnown, e.hits = 1,
         ~sharing.platform => e.answer \in stored[recall[r].question],
         Hit(r, e.answer), l1' = [l1 EXCEPT ![recall[r].question] = e],
         memoryStats' = [memoryStats EXCEPT !.hits = @ + 1], UNCHANGED <<l2, l3, sharing, stored, sent, hours>>
  PROVE  MemoryInv'
  <1> DEFINE q == recall[r].question
             x == [recall[r] EXCEPT !.stage = "done"]
  <1>1. /\ recall[r] \in RecallOf /\ recall \in [Recalls -> RecallOf] /\ q \in Questions /\ l1 \in [Questions -> EntryOf]
        /\ recalled \in [Recalls -> Answers \cup {NotKnown}]
    BY DEF MemoryInv, MemoryTypeOK, RecallOf
  <1>2. x \in RecallOf /\ x.question = q /\ x.stage = "done"
    BY <1>1 DEF RecallOf
  <1>3. recall' = [recall EXCEPT ![r] = x]
    BY <1>1 DEF Hit, RecallTo
  <1>4. l1' = [l1 EXCEPT ![q] = e] /\ recalled' = [recalled EXCEPT ![r] = e.answer]
    BY DEF Hit
  <1>5. ~sharing.platform => e.answer \in stored[q]
    OBVIOUS
  <1>f. recall[r].question = q
    OBVIOUS
  <1> HIDE DEF q, x
  <1>6. Goes(r) /\ recall'[r] = x
    BY <1>2, <1>3, RecallGoes
  <1>7. Begun' = Begun /\ Cardinality(Searching) \in Nat /\ Cardinality(Searching') = Cardinality(Searching) - 1
    BY <1>2, <1>6, RecallEnds
  <1>8. /\ memoryStats' \in StatsOf /\ memoryStats'.recalls = Cardinality(Begun')
        /\ memoryStats'.hits + Cardinality(Searching') <= memoryStats'.recalls
        /\ memoryStats'.hits = memoryStats.hits + 1 /\ memoryStats.hits \in Nat
    <2>1. /\ memoryStats \in StatsOf /\ memoryStats.hits \in Nat /\ memoryStats.recalls \in Nat
          /\ memoryStats.recalls <= Cardinality(Recalls) /\ memoryStats.recalls = Cardinality(Begun)
          /\ memoryStats.hits + Cardinality(Searching) <= memoryStats.recalls
      BY FewRecalls DEF MemoryInv, MemoryTypeOK, StatsOf, RecallsCounted
    <2>2. Cardinality(Searching') \in Nat
      <3>1. Searching' \subseteq Recalls
        BY DEF Searching
      <3> QED BY <3>1, FewRecalls
    <2>3. memoryStats.hits + 1 \in 0..Cardinality(Recalls)
      BY <1>7, <2>1, <2>2, FewRecalls
    <2>4. memoryStats' \in StatsOf /\ memoryStats'.recalls = memoryStats.recalls /\ memoryStats'.hits = memoryStats.hits + 1
      BY <2>1, <2>3 DEF StatsOf
    <2> QED BY <1>7, <2>1, <2>4
  <1>9. /\ l1' \in [Questions -> EntryOf] /\ recalled' \in [Recalls -> Answers \cup {NotKnown}]
        /\ \A s \in Recalls : s # r => recalled'[s] = recalled[s]
        /\ recalled'[r] = e.answer /\ l1'[q] = e /\ \A p \in Questions : p # q => l1'[p] = l1[p]
    <2>1. e.answer \in Answers \cup {NotKnown}
      BY DEF EntryOf
    <2> QED BY <1>1, <1>4, <2>1
  <1>10. MemoryTypeOK'
    BY <1>6, <1>8, <1>9, RecallKeepsOthers
  <1>11. RecallsCounted'
    <2>1. \A p \in Questions : l1[p].hits <= memoryStats.hits /\ l1[p].hits \in Nat /\ l2[p].entry.hits = 0
      BY <1>1, FewRecalls DEF MemoryInv, RecallsCounted, EntryOf
    <2> QED BY <1>8, <1>9, <2>1 DEF RecallsCounted
  <1>12. ~sharing.platform => OwnAnswers'
    BY <1>2, <1>5, <1>6, <1>9 DEF OwnAnswers, MemoryInv, Goes
  <1> QED BY <1>2, <1>6, <1>9, <1>10, <1>11, <1>12 DEF MemoryInv, Goes

(* It goes on to the next layer, or finds nothing.                              *)
LEMMA NoAnswerKeeps ==
  ASSUME MemoryInv, NEW r \in Recalls, recall[r].stage \in {"l2", "l3"}, NEW stage \in {"l3", "done"},
         stage = "l3" => sharing.platform, RecallTo(r, stage),
         UNCHANGED <<l1, recalled, memoryStats, l2, l3, sharing, stored, sent, hours>>
  PROVE  MemoryInv'
  <1> DEFINE x == [recall[r] EXCEPT !.stage = stage]
  <1>1. recall[r] \in RecallOf /\ recall \in [Recalls -> RecallOf]
    BY DEF MemoryInv, MemoryTypeOK, RecallOf
  <1>2. x \in RecallOf /\ x.question = recall[r].question /\ x.stage = stage
    BY <1>1 DEF RecallOf
  <1>3. recall' = [recall EXCEPT ![r] = x]
    BY <1>1 DEF RecallTo
  <1> HIDE DEF x
  <1>4. Goes(r) /\ recall'[r] = x
    BY <1>2, <1>3, RecallGoes
  <1>5. Begun' = Begun /\ Cardinality(Searching) \in Nat /\ Cardinality(Searching') <= Cardinality(Searching)
        /\ Cardinality(Searching') \in Nat
    <2>1. Begun' = Begun /\ Cardinality(Searching) \in Nat
          /\ Cardinality(Searching') = Cardinality(Searching) - (IF stage = "done" THEN 1 ELSE 0)
      BY <1>2, <1>4, RecallEnds
    <2>2. Cardinality(Searching') \in Nat
      <3>1. Searching' \subseteq Recalls
        BY DEF Searching
      <3> QED BY <3>1, FewRecalls
    <2> QED BY <2>1, <2>2
  <1>6. memoryStats \in StatsOf /\ memoryStats.hits \in Nat /\ memoryStats.recalls \in Nat
    BY FewRecalls DEF MemoryInv, MemoryTypeOK, StatsOf
  <1>7. MemoryTypeOK'
    <2>1. l1 \in [Questions -> EntryOf] /\ recalled \in [Recalls -> Answers \cup {NotKnown}]
      BY DEF MemoryInv, MemoryTypeOK
    <2> QED BY <1>4, <1>6, <2>1, RecallKeepsOthers
  <1>8. RecallsCounted'
    BY <1>5, <1>6 DEF MemoryInv, RecallsCounted
  <1>9. ~sharing.platform => OwnAnswers'
    BY <1>2, <1>4 DEF OwnAnswers, MemoryInv, Goes
  <1> QED BY <1>2, <1>4, <1>7, <1>8, <1>9 DEF MemoryInv, Goes

LEMMA LayersKeep == ASSUME MemoryInv, NEW r \in Recalls, AskedRedis(r) \/ AskedPlatform(r) PROVE MemoryInv'
  <1> DEFINE q == recall[r].question
  <1>1. q \in Questions /\ l1 \in [Questions -> EntryOf] /\ l2[q].entry \in EntryOf /\ l2[q].entry.hits = 0
        /\ 1 \in 0..Cardinality(Recalls) + 1 /\ l3[q] \in Answers \cup {NotKnown}
    BY FewRecalls DEF MemoryInv, MemoryTypeOK, RecallsCounted
  <1>2. CASE AskedRedis(r)
    <2>1. CASE RecallTo(r, After("l2")) /\ UNCHANGED <<l1, recalled, memoryStats>>
      <3>1. After("l2") \in {"l3", "done"} /\ (After("l2") = "l3" => sharing.platform)
        BY DEF After
      <3> QED BY <1>2, <2>1, <3>1, NoAnswerKeeps DEF AskedRedis
    <2>2. CASE ~(RecallTo(r, After("l2")) /\ UNCHANGED <<l1, recalled, memoryStats>>)
      <3> DEFINE b == l2[q].entry
                 e == [b EXCEPT !.hits = @ + 1]
      <3>1. /\ b.answer # NotKnown /\ Hit(r, b.answer) /\ l1' = [l1 EXCEPT ![q] = e]
            /\ memoryStats' = [memoryStats EXCEPT !.hits = @ + 1]
        BY <1>2, <2>2 DEF AskedRedis
      <3>2. ~sharing.platform => b.answer \in stored[q]
        BY <1>1, <3>1 DEF MemoryInv, OwnAnswers
      <3>3. b \in EntryOf /\ b.hits = 0
        BY <1>1
      <3> HIDE DEF b
      <3>4. e \in EntryOf /\ e.answer = b.answer /\ e.hits = 1
        BY <1>1, <3>3 DEF EntryOf
      <3> HIDE DEF e
      <3>5. recall[r].stage \in {"l2", "l3"} /\ UNCHANGED <<l2, l3, sharing, stored, sent, hours>>
        BY <1>2 DEF AskedRedis
      <3> QED BY <3>1, <3>2, <3>4, <3>5, AnswerKeeps
    <2> QED BY <2>1, <2>2
  <1>3. CASE AskedPlatform(r)
    <2>1. CASE Miss(r) /\ UNCHANGED <<l1, memoryStats>>
      BY <1>3, <2>1, NoAnswerKeeps DEF AskedPlatform, Miss
    <2>2. CASE ~(Miss(r) /\ UNCHANGED <<l1, memoryStats>>)
      <3> DEFINE e == MemoryEntry(l3[q], 1)
      <3>1. /\ l3[q] # NotKnown /\ Hit(r, l3[q]) /\ l1' = [l1 EXCEPT ![q] = e]
            /\ memoryStats' = [memoryStats EXCEPT !.hits = @ + 1] /\ sharing.platform
            /\ recall[r].stage \in {"l2", "l3"} /\ UNCHANGED <<l2, l3, sharing, stored, sent, hours>>
        BY <1>3, <2>2 DEF AskedPlatform, MemoryInv
      <3>2. e \in EntryOf /\ e.answer = l3[q] /\ e.hits = 1
        BY <1>1, MemoryAssumption DEF MemoryEntry, EntryOf, MemoryInv, MemoryTypeOK, MemoryAssumption
      <3> HIDE DEF e
      <3> QED BY <3>1, <3>2, AnswerKeeps
    <2> QED BY <2>1, <2>2
  <1> QED BY <1>2, <1>3

LEMMA TheRestKeeps ==
  ASSUME MemoryInv,
         CleanupL1 \/ HourPasses \/ UNCHANGED memoryVars \/ \E q \in Questions, a \in Answers : PlatformLearns(q, a)
  PROVE  MemoryInv'
  <1>1. UNCHANGED <<l2, recall, recalled, sharing, stored, sent, memoryStats>>
    BY DEF CleanupL1, HourPasses, memoryVars, PlatformLearns
  <1>2. /\ Absent \in EntryOf /\ Absent.answer = NotKnown /\ Absent.hits = 0
    BY FewRecalls, MemoryAssumption DEF Absent, EntryOf, MemoryAssumption
  <1>3. l1' \in [Questions -> EntryOf] /\ \A q \in Questions : l1'[q] \in {l1[q], Absent}
    <2>1. l1 \in [Questions -> EntryOf]
      BY DEF MemoryInv, MemoryTypeOK
    <2>2. CASE CleanupL1
      BY <1>2, <2>1, <2>2 DEF CleanupL1
    <2>3. CASE UNCHANGED l1
      BY <2>1, <2>3
    <2> QED BY <2>2, <2>3 DEF HourPasses, memoryVars, PlatformLearns
  <1>4. hours' \in 0..MaxHours
    BY MemoryAssumption DEF CleanupL1, HourPasses, memoryVars, PlatformLearns, MemoryInv, MemoryTypeOK, MemoryAssumption
  <1>5. l3' \in [Questions -> Answers \cup {NotKnown}]
    BY DEF CleanupL1, HourPasses, memoryVars, PlatformLearns, MemoryInv, MemoryTypeOK
  <1>6. MemoryTypeOK'
    BY <1>1, <1>3, <1>4, <1>5 DEF MemoryInv, MemoryTypeOK
  <1>7. Begun' = Begun /\ Searching' = Searching
    BY <1>1 DEF Begun, Searching
  <1>8. RecallsCounted'
    <2>1. memoryStats.hits \in Nat
      BY FewRecalls DEF MemoryInv, MemoryTypeOK
    <2> QED BY <1>1, <1>2, <1>3, <1>7, <2>1 DEF MemoryInv, RecallsCounted
  <1>9. ~sharing.platform => OwnAnswers'
    BY <1>1, <1>2, <1>3 DEF MemoryInv, OwnAnswers
  <1> QED BY <1>1, <1>6, <1>8, <1>9 DEF MemoryInv

LEMMA MemoryKept == MemoryInv /\ [MemoryNext]_memoryVars => MemoryInv'
  BY StoreKeeps, RecallKeeps, LayersKeep, TheRestKeeps DEF MemoryNext

LEMMA MemoryMeans == MemoryInv => AnswersStayHome
  <1> SUFFICES ASSUME MemoryInv PROVE AnswersStayHome
    OBVIOUS
  <1>1. Cardinality(Searching) \in Nat
    <2>1. Searching \subseteq Recalls
      BY DEF Searching
    <2> QED BY <2>1, FewRecalls
  <1>2. memoryStats.hits <= memoryStats.recalls
    BY <1>1, FewRecalls DEF MemoryInv, MemoryTypeOK, RecallsCounted
  <1> QED BY <1>2 DEF MemoryInv, AnswersStayHome, OwnAnswers

-----------------------------------------------------------------------------
(* Access from afar (RemoteAccess).  Without a link nothing is let in, and what *)
(* is let in is a token of this process that has not expired.                   *)
RemoteInv == /\ RemoteTypeOK /\ RevokedStayOut
             /\ tokensFile # TornTokens => tokensFile \subseteq generated
             /\ ~remoteOn => tokens = {}

LEMMA RemoteStarts == RemoteInit => RemoteInv
  <1>1. RemoteInit => drops \in 0..MaxDrops
    BY RemoteAssumption DEF RemoteInit, RemoteAssumption
  <1> QED BY <1>1 DEF RemoteInit, RemoteInv, RemoteTypeOK, RevokedStayOut, TornTokens

LEMMA RemoteKept == RemoteInv /\ [RemoteNext]_remoteVars => RemoteInv'
  <1> SUFFICES ASSUME RemoteInv, [RemoteNext]_remoteVars PROVE RemoteInv'
    OBVIOUS
  <1> USE DEF RemoteInv, RevokedStayOut
  <1>1. CASE InitRemote
    <2>1. tokens' \subseteq Tokens
      BY <1>1 DEF InitRemote, LoadTokens, RemoteTypeOK
    <2> QED BY <1>1, <2>1 DEF InitRemote, LoadTokens, SaveTokens, RemoteTypeOK, TornTokens
  <1>2. ASSUME NEW t \in Tokens, GenerateToken(t) PROVE RemoteInv'
    BY <1>2 DEF GenerateToken, SaveTokens, linkVars, RemoteTypeOK
  <1>3. ASSUME NEW t \in Tokens, RevokeToken(t) PROVE RemoteInv'
    BY <1>3 DEF RevokeToken, RevokeInMemory, SaveTokens, linkVars, RemoteTypeOK
  <1>4. ASSUME NEW t \in Tokens, ValidateToken(t) PROVE RemoteInv'
    BY <1>4 DEF ValidateToken, TokenValid, SaveTokens, linkVars, RemoteTypeOK
  <1>5. ASSUME NEW t \in Tokens, Ages(t) PROVE RemoteInv'
    BY <1>5 DEF Ages, linkVars, RemoteTypeOK
  <1>6. CASE RelayOpens \/ RelayCloses \/ Reconnect \/ StopRemote
    <2>1. drops' \in 0..MaxDrops
      BY <1>6, RemoteAssumption DEF RelayOpens, RelayCloses, Reconnect, StopRemote, RemoteTypeOK, RemoteAssumption
    <2>2. /\ relayLink' \in {"none", "opening", "open", "closing"} /\ rearm' \in BOOLEAN /\ told' \in BOOLEAN
      BY <1>6 DEF RelayOpens, RelayCloses, Reconnect, StopRemote, RemoteTypeOK
    <2> QED BY <1>6, <2>1, <2>2 DEF RelayOpens, RelayCloses, Reconnect, StopRemote, tokenVars, RemoteTypeOK
  <1>7. CASE RemoteEnds
    BY <1>7 DEF RemoteEnds, RemoteTypeOK
  <1>8. CASE UNCHANGED remoteVars
    BY <1>8 DEF remoteVars, RemoteTypeOK
  <1> QED BY <1>1, <1>2, <1>3, <1>4, <1>5, <1>6, <1>7, <1>8 DEF RemoteNext

-----------------------------------------------------------------------------
(* What dApps ask of the wallet (Wallet).  A request waits under one name, the  *)
(* one a call about it remembers, and no call about an answered request is      *)
(* under way unless two of its calls overlapped.                                *)
AskKind == [time : 0..MaxInstant, request : DApps, verdict : {"approve", "reject"}]
Replied == approved \cup rejected

TonKinds == /\ waitingAt \in [Names -> DApps \cup {NoDApp}]
            /\ asksKit \in [Approvals -> AskKind \cup {KitIdle}]
            /\ approved \cup rejected \cup overlapped \cup replaced \subseteq DApps
            /\ connectedDApps \in Nat /\ parted \in Nat
            /\ kit \in {"none", "ready", "closed"} /\ hasTonWallet \in BOOLEAN
InstantKind == instant \in 1..MaxInstant

OneName == \A n, m \in Names : waitingAt[n] # NoDApp => /\ n[1] = KindOf(waitingAt[n])
                                                        /\ waitingAt[m] = waitingAt[n] => m = n
CallsKnowTheName == \A a \in Approvals : asksKit[a] # KitIdle =>
    \A n \in Names : waitingAt[n] = asksKit[a].request => asksKit[a].time = n[2]
CallsOverlap == \A a \in Approvals : asksKit[a] # KitIdle =>
    /\ asksKit[a].request \in Replied => asksKit[a].request \in overlapped
    /\ \A b \in Approvals : a # b /\ asksKit[b] # KitIdle /\ asksKit[b].request = asksKit[a].request =>
           asksKit[a].request \in overlapped

AnsweredOnce == /\ \A n \in Names : waitingAt[n] # NoDApp => waitingAt[n] \notin Replied
                /\ approved \cap rejected \subseteq overlapped
ConnectionsCounted == overlapped = {} => connectedDApps + parted = Cardinality(approved \cap Connections)
ClosedIsEmpty == kit = "closed" => \A n \in Names : waitingAt[n] = NoDApp

TonInv == /\ TonKinds /\ InstantKind /\ OneName /\ CallsKnowTheName /\ CallsOverlap
          /\ AnsweredOnce /\ ConnectionsCounted /\ ClosedIsEmpty

LEMMA IdleAsksNothing == KitIdle.request = NoDApp /\ NoDApp \notin DApps /\ \A x \in AskKind : x # KitIdle
  BY TonAssumption DEF KitIdle, TonAssumption, AskKind

LEMMA TonStarts == TonInit => TonInv
  <1> SUFFICES ASSUME TonInit PROVE TonInv
    OBVIOUS
  <1> USE DEF TonInit
  <1>1. connectedDApps = 0 /\ parted = 0 /\ approved = {} /\ instant = 1
    OBVIOUS
  <1>2. InstantKind
    BY <1>1, TonAssumption DEF InstantKind, TonAssumption
  <1>3. ConnectionsCounted
    <2>1. approved \cap Connections = {}
      BY <1>1
    <2>2. Cardinality(approved \cap Connections) = 0
      BY <2>1, FS_EmptySet
    <2> QED BY <1>1, <2>2 DEF ConnectionsCounted
  <1>4. connectedDApps \in Nat /\ parted \in Nat
    BY <1>1
  <1> QED BY <1>2, <1>3, <1>4 DEF TonInv, TonKinds, OneName, CallsKnowTheName, CallsOverlap, AnsweredOnce, ClosedIsEmpty

LEMMA InitKitKeeps == ASSUME TonInv, NEW w \in BOOLEAN, InitKit(w) PROVE TonInv'
  BY DEF InitKit, TonInv, TonKinds, InstantKind, OneName, CallsKnowTheName, CallsOverlap, AnsweredOnce, Replied,
         ConnectionsCounted, ClosedIsEmpty

LEMMA RequestKeeps == ASSUME TonInv, NEW r \in DApps, NEW a \in Approvals, RequestCame(r, a) PROVE TonInv'
  <1>1. /\ kit = "ready" /\ ~Known(r)
        /\ UNCHANGED <<kit, hasTonWallet, approved, rejected, connectedDApps, parted, instant, overlapped>>
    BY DEF RequestCame, AutoApprove, Queue
  <1>2. r \notin Replied \cup replaced /\ (\A b \in Approvals : asksKit[b].request # r) /\ \A n \in Names : waitingAt[n] # r
    BY <1>1 DEF Known, UnderWay, Replied
  <1>3. CASE r \in TrustedDApps /\ hasTonWallet
    <2> DEFINE x == [time |-> 0, request |-> r, verdict |-> "approve"]
    <2>1. asksKit[a] = KitIdle /\ asksKit' = [asksKit EXCEPT ![a] = x] /\ UNCHANGED <<waitingAt, replaced>>
      BY <1>3 DEF RequestCame, AutoApprove
    <2>2. x \in AskKind /\ x.request = r
      BY TonAssumption DEF AskKind, TonAssumption
    <2> HIDE DEF x
    <2>3. TonKinds' /\ asksKit'[a] = x /\ x # KitIdle /\ \A b \in Approvals : b # a => asksKit'[b] = asksKit[b]
      BY <1>1, <2>1, <2>2, IdleAsksNothing DEF TonInv, TonKinds
    <2>4. CallsKnowTheName'
      BY <1>2, <2>1, <2>2, <2>3 DEF TonInv, CallsKnowTheName
    <2>5. CallsOverlap'
      BY <1>1, <1>2, <2>2, <2>3 DEF TonInv, CallsOverlap, Replied
    <2> QED BY <1>1, <2>1, <2>3, <2>4, <2>5 DEF TonInv, InstantKind, OneName, AnsweredOnce, Replied, ConnectionsCounted, ClosedIsEmpty
  <1>4. CASE ~(r \in TrustedDApps /\ hasTonWallet)
    <2> DEFINE n == <<KindOf(r), instant>>
    <2>1. /\ waitingAt' = [waitingAt EXCEPT ![n] = r] /\ UNCHANGED asksKit
          /\ replaced' = replaced \cup ({waitingAt[n]} \ {NoDApp})
      BY <1>4 DEF RequestCame, Queue
    <2>2. n \in Names /\ n[1] = KindOf(r) /\ r # NoDApp
      BY IdleAsksNothing DEF Names, KindOf, TonInv, InstantKind
    <2> HIDE DEF n
    <2>3. TonKinds' /\ waitingAt'[n] = r /\ \A m \in Names : m # n => waitingAt'[m] = waitingAt[m]
      BY <1>1, <2>1, <2>2 DEF TonInv, TonKinds
    <2>4. OneName'
      BY <1>2, <2>2, <2>3 DEF TonInv, OneName
    <2>5. CallsKnowTheName'
      BY <1>2, <2>1, <2>2, <2>3 DEF TonInv, CallsKnowTheName
    <2>6. AnsweredOnce'
      BY <1>1, <1>2, <2>2, <2>3 DEF TonInv, AnsweredOnce, Replied
    <2> QED BY <1>1, <2>1, <2>3, <2>4, <2>5, <2>6 DEF TonInv, InstantKind, CallsOverlap, Replied, ConnectionsCounted, ClosedIsEmpty
  <1> QED BY <1>3, <1>4

LEMMA DecideKeeps ==
  ASSUME TonInv, NEW a \in Approvals, NEW n \in Names, NEW v \in {"approve", "reject"}, Decide(a, n, v)
  PROVE  TonInv'
  <1> DEFINE r == waitingAt[n]
             x == [time |-> n[2], request |-> r, verdict |-> v]
  <1>1. /\ asksKit[a] = KitIdle /\ r # NoDApp /\ kit = "ready" /\ asksKit' = [asksKit EXCEPT ![a] = x]
        /\ overlapped' = IF UnderWay(r) # {} THEN overlapped \cup {r} ELSE overlapped
        /\ UNCHANGED <<kit, hasTonWallet, waitingAt, approved, rejected, connectedDApps, replaced, parted, instant>>
    BY DEF Decide
  <1>2. r \in DApps /\ x \in AskKind /\ x.request = r /\ x.time = n[2] /\ r = waitingAt[n]
    BY <1>1, TonAssumption DEF TonInv, TonKinds, AskKind, Names, TonAssumption
  <1> HIDE DEF r, x
  <1>3. TonKinds' /\ asksKit'[a] = x /\ x # KitIdle /\ \A b \in Approvals : b # a => asksKit'[b] = asksKit[b]
    BY <1>1, <1>2, IdleAsksNothing DEF TonInv, TonKinds
  <1>4. /\ overlapped \subseteq overlapped'
        /\ \A b \in Approvals : asksKit[b] # KitIdle /\ asksKit[b].request = r => r \in overlapped'
    BY <1>1 DEF UnderWay
  <1>5. CallsKnowTheName'
    BY <1>1, <1>2, <1>3 DEF TonInv, CallsKnowTheName, OneName
  <1>6. r \notin Replied
    BY <1>1, <1>2 DEF TonInv, AnsweredOnce
  <1>7. CallsOverlap'
    <2> SUFFICES ASSUME NEW b \in Approvals, asksKit'[b] # KitIdle
                 PROVE  /\ asksKit'[b].request \in Replied => asksKit'[b].request \in overlapped'
                        /\ \A d \in Approvals : b # d /\ asksKit'[d] # KitIdle /\ asksKit'[d].request = asksKit'[b].request =>
                               asksKit'[b].request \in overlapped'
      BY <1>1 DEF CallsOverlap, Replied
    <2>1. CASE b = a
      BY <1>2, <1>3, <1>4, <1>6, <2>1
    <2>2. CASE b # a
      BY <1>2, <1>3, <1>4, <2>2 DEF TonInv, CallsOverlap
    <2> QED BY <2>1, <2>2
  <1> QED BY <1>1, <1>3, <1>4, <1>5, <1>7 DEF TonInv, InstantKind, OneName, AnsweredOnce, Replied, ConnectionsCounted, ClosedIsEmpty

LEMMA TakesKeeps == ASSUME TonInv, NEW a \in Approvals, KitTakes(a) PROVE TonInv'
  <1> DEFINE d == asksKit[a]
             r == d.request
  <1>1. /\ d # KitIdle /\ asksKit' = [asksKit EXCEPT ![a] = KitIdle] /\ waitingAt' = RequestAnswered(a)
        /\ approved' = IF d.verdict = "approve" THEN approved \cup {d.request} ELSE approved
        /\ rejected' = IF d.verdict = "reject" THEN rejected \cup {d.request} ELSE rejected
        /\ connectedDApps' = IF d.verdict = "approve" /\ d.request \in Connections THEN connectedDApps + 1 ELSE connectedDApps
        /\ UNCHANGED <<kit, hasTonWallet, overlapped, replaced, parted, instant>>
    BY DEF KitTakes
  <1>2. d \in AskKind /\ r \in DApps /\ r # NoDApp /\ d.verdict \in {"approve", "reject"}
    BY <1>1, IdleAsksNothing DEF TonInv, TonKinds, AskKind
  <1>3. asksKit'[a] = KitIdle /\ \A b \in Approvals : b # a => asksKit'[b] = asksKit[b]
    BY <1>1 DEF TonInv, TonKinds
  <1>4. /\ waitingAt' \in [Names -> DApps \cup {NoDApp}]
        /\ \A n \in Names : waitingAt'[n] \in {waitingAt[n], NoDApp} /\ waitingAt'[n] # r
    <2>1. waitingAt \in [Names -> DApps \cup {NoDApp}]
      BY DEF TonInv, TonKinds
    <2>2. \A n \in Names : waitingAt[n] = r => n[2] = d.time /\ n[1] = KindOf(r) /\ d.time # 0
      <3> SUFFICES ASSUME NEW n \in Names, waitingAt[n] = r PROVE n[2] = d.time /\ n[1] = KindOf(r) /\ d.time # 0
        OBVIOUS
      <3>1. n[2] = d.time /\ n[1] = KindOf(r)
        BY <1>1, <1>2 DEF TonInv, CallsKnowTheName, OneName
      <3>2. n[2] # 0
        BY TonAssumption DEF Names, TonAssumption
      <3> QED BY <3>1, <3>2
    <2>3. CASE d.time = 0
      <3>1. waitingAt' = waitingAt
        BY <1>1, <2>3 DEF RequestAnswered
      <3> QED BY <2>1, <2>2, <2>3, <3>1
    <2>4. CASE d.time # 0
      <3> DEFINE m == <<KindOf(r), d.time>>
      <3>1. waitingAt' = [waitingAt EXCEPT ![m] = NoDApp]
        BY <1>1, <2>4 DEF RequestAnswered
      <3>2. \A n \in Names : waitingAt[n] = r => n = m
        BY <2>2 DEF Names
      <3> HIDE DEF m
      <3> QED BY <1>2, <2>1, <3>1, <3>2
    <2> QED BY <2>3, <2>4
  <1>5. /\ Replied' = Replied \cup {r}
        /\ (r \in Replied => r \in overlapped)
        /\ \A b \in Approvals : b # a /\ asksKit[b] # KitIdle /\ asksKit[b].request = r => r \in overlapped
    <2>1. Replied' = Replied \cup {r}
      BY <1>1, <1>2 DEF Replied
    <2> QED BY <1>1, <2>1 DEF TonInv, CallsOverlap
  <1>6. /\ approved' \in SUBSET DApps /\ rejected' \in SUBSET DApps /\ connectedDApps' \in Nat
        /\ approved' \cap rejected' \subseteq (approved \cap rejected) \cup {r}
        /\ (r \notin Replied => approved' \cap rejected' = approved \cap rejected)
    <2>1. connectedDApps' \in Nat
      BY <1>1 DEF TonInv, TonKinds
    <2> QED BY <1>1, <1>2, <2>1 DEF TonInv, TonKinds, Replied
  <1>7. ConnectionsCounted'
    <2> SUFFICES ASSUME overlapped' = {} PROVE connectedDApps' + parted' = Cardinality(approved' \cap Connections)
      BY DEF ConnectionsCounted, Connections
    <2> DEFINE S == approved \cap Connections
    <2>1. r \notin Replied /\ connectedDApps + parted = Cardinality(S) /\ connectedDApps \in Nat /\ parted \in Nat /\ parted' = parted
      BY <1>1, <1>5 DEF TonInv, ConnectionsCounted, TonKinds
    <2>2. IsFiniteSet(S) /\ Cardinality(S) \in Nat /\ r \notin S
      <3>1. S \subseteq DApps
        BY DEF TonInv, TonKinds
      <3> QED BY <2>1, <3>1, TonAssumption, FS_Subset, FS_CardinalityType DEF TonAssumption, Replied
    <2>3. CASE d.verdict = "approve" /\ r \in Connections
      <3>1. approved' \cap Connections = S \cup {r} /\ connectedDApps' = connectedDApps + 1
        BY <1>1, <2>3
      <3> HIDE DEF S, d, r
      <3>2. Cardinality(S \cup {r}) = Cardinality(S) + 1
        BY <2>2, FS_AddElement
      <3>3. Cardinality(approved' \cap Connections) = Cardinality(S) + 1
        BY <3>1, <3>2
      <3>4. connectedDApps' + parted' = Cardinality(S) + 1
        BY <2>1, <2>2, <3>1
      <3> QED BY <3>3, <3>4
    <2>4. CASE ~(d.verdict = "approve" /\ r \in Connections)
      <3>1. approved' \cap Connections = S /\ connectedDApps' = connectedDApps
        BY <1>1, <2>4
      <3> QED BY <2>1, <3>1
    <2> QED BY <2>3, <2>4
  <1> HIDE DEF r, d
  <1>8. TonKinds'
    <2>1. asksKit' \in [Approvals -> AskKind \cup {KitIdle}]
      BY <1>1 DEF TonInv, TonKinds
    <2> QED BY <1>1, <1>4, <1>6, <2>1 DEF TonInv, TonKinds
  <1>9. OneName'
    BY <1>4 DEF TonInv, OneName
  <1>10. CallsKnowTheName'
    BY <1>3, <1>4, IdleAsksNothing, <1>8 DEF TonInv, CallsKnowTheName, TonKinds, AskKind
  <1>11. CallsOverlap'
    BY <1>1, <1>3, <1>5 DEF TonInv, CallsOverlap
  <1>12. AnsweredOnce'
    BY <1>1, <1>4, <1>5, <1>6 DEF TonInv, AnsweredOnce, Replied
  <1>13. ClosedIsEmpty'
    BY <1>1, <1>4 DEF TonInv, ClosedIsEmpty
  <1> QED BY <1>1, <1>7, <1>8, <1>9, <1>10, <1>11, <1>12, <1>13 DEF TonInv, InstantKind

LEMMA ThrowsKeeps == ASSUME TonInv, NEW a \in Approvals, KitThrows(a) PROVE TonInv'
  <1>1. /\ asksKit[a] # KitIdle /\ asksKit' = [asksKit EXCEPT ![a] = KitIdle]
        /\ replaced' \in {replaced, replaced \cup {asksKit[a].request}}
        /\ UNCHANGED <<kit, hasTonWallet, waitingAt, approved, rejected, connectedDApps, overlapped, parted, instant>>
    BY DEF KitThrows
  <1>2. asksKit'[a] = KitIdle /\ \A b \in Approvals : b # a => asksKit'[b] = asksKit[b]
    BY <1>1 DEF TonInv, TonKinds
  <1>3. TonKinds'
    BY <1>1 DEF TonInv, TonKinds, AskKind
  <1>4. CallsKnowTheName' /\ CallsOverlap'
    BY <1>1, <1>2 DEF TonInv, CallsKnowTheName, CallsOverlap, Replied
  <1> QED BY <1>1, <1>3, <1>4 DEF TonInv, InstantKind, OneName, AnsweredOnce, Replied, ConnectionsCounted, ClosedIsEmpty

LEMMA KitGoesOn == ASSUME TonInv, DAppParts \/ CloseKit \/ InstantPasses \/ UNCHANGED tonVars PROVE TonInv'
  <1>1. UNCHANGED <<asksKit, approved, rejected, overlapped, replaced>>
    BY DEF DAppParts, CloseKit, InstantPasses, tonVars
  <1>2. /\ waitingAt' \in [Names -> DApps \cup {NoDApp}]
        /\ \A n \in Names : waitingAt'[n] \in {waitingAt[n], NoDApp}
        /\ kit' = "closed" => kit = "closed" \/ \A n \in Names : waitingAt'[n] = NoDApp
    BY DEF DAppParts, CloseKit, InstantPasses, tonVars, TonInv, TonKinds
  <1>3. /\ connectedDApps' \in Nat /\ parted' \in Nat /\ connectedDApps' + parted' = connectedDApps + parted
        /\ InstantKind'
    <2>1. CASE DAppParts
      BY <2>1 DEF DAppParts, TonInv, TonKinds, InstantKind
    <2>2. CASE CloseKit \/ UNCHANGED tonVars
      BY <2>2 DEF CloseKit, tonVars, TonInv, TonKinds, InstantKind
    <2>3. CASE InstantPasses
      BY <2>3, TonAssumption DEF InstantPasses, TonInv, TonKinds, InstantKind, TonAssumption
    <2> QED BY <2>1, <2>2, <2>3
  <1>4. kit' \in {"none", "ready", "closed"} /\ hasTonWallet' \in BOOLEAN
    BY DEF DAppParts, CloseKit, InstantPasses, tonVars, TonInv, TonKinds
  <1>5. TonKinds'
    BY <1>1, <1>2, <1>3, <1>4 DEF TonInv, TonKinds
  <1>6. OneName' /\ AnsweredOnce' /\ ClosedIsEmpty'
    BY <1>1, <1>2 DEF TonInv, OneName, AnsweredOnce, Replied, ClosedIsEmpty
  <1>7. CallsKnowTheName'
    BY <1>1, <1>2, <1>5, IdleAsksNothing DEF TonInv, CallsKnowTheName, TonKinds, AskKind
  <1>8. CallsOverlap' /\ ConnectionsCounted'
    BY <1>1, <1>3 DEF TonInv, CallsOverlap, ConnectionsCounted, Replied
  <1> QED BY <1>3, <1>5, <1>6, <1>7, <1>8 DEF TonInv

LEMMA TonKept == TonInv /\ [TonNext]_tonVars => TonInv'
  BY InitKitKeeps, RequestKeeps, DecideKeeps, TakesKeeps, ThrowsKeeps, KitGoesOn DEF TonNext

LEMMA TonMeans == TonInv => EachAnsweredOnce
  BY DEF TonInv, EachAnsweredOnce, AnsweredOnce, Replied, ConnectionsCounted, ClosedIsEmpty

(* A message, a call and the clock of TON Connect keep their types.             *)
LEMMA TonIsTyped == TonInv => TonTypeOK
  <1> SUFFICES ASSUME TonInv PROVE TonTypeOK
    OBVIOUS
  <1>1. \A a \in Approvals : asksKit[a] = KitIdle \/ asksKit[a].request \in DApps
    <2> TAKE a \in Approvals
    <2>1. asksKit[a] \in AskKind \cup {KitIdle}
      BY DEF TonInv, TonKinds
    <2> QED BY <2>1 DEF AskKind
  <1> QED BY <1>1 DEF TonInv, TonKinds, InstantKind, TonTypeOK

-----------------------------------------------------------------------------
(* The marketplace (ComputeSharing).  A poll leaves room for the job it may     *)
(* bring, and unless a job is handed out twice the active ones are those of the *)
(* executions that are not over.                                                *)
Run == [job : MarketJobs, phase : Phases]
JobsOf(leases) == {runs[i].job : i \in leases}
HandedOutOnce == \A i, k \in DOMAIN runs : i # k => runs[i].job # runs[k].job
OfPhase(s, p) == {i \in DOMAIN s : s[i].phase = p}

RoomIsLeft == /\ IsFiniteSet(activeJobs) /\ Cardinality(activeJobs) <= MaxActiveJobs
              /\ asking => Cardinality(activeJobs) < MaxActiveJobs
ActiveAreLeased == /\ activeJobs \subseteq JobsOf(Leased)
                   /\ HandedOutOnce => activeJobs = JobsOf(Leased)
GaugeIsRight == gauge = Cardinality(Leased)
TallyIsRight == tally.completed + tally.failed = InPhase("earned") + InPhase("failed") + InPhase("over")

MarketInv == MarketTypeOK /\ RoomIsLeft /\ ActiveAreLeased /\ GaugeIsRight /\ TallyIsRight
             /\ Len(completedJobs) <= MarketHistory

LEMMA RunsAreFinite ==
  ASSUME NEW s \in Seq(Run)
  PROVE  /\ IsFiniteSet(DOMAIN s) /\ DOMAIN s = 1..Len(s) /\ Len(s) \in Nat
         /\ \A p : IsFiniteSet(OfPhase(s, p)) /\ Cardinality(OfPhase(s, p)) \in Nat
  <1>1. DOMAIN s = 1..Len(s) /\ Len(s) \in Nat
    OBVIOUS
  <1>2. IsFiniteSet(DOMAIN s)
    BY <1>1, FS_Interval
  <1>3. ASSUME NEW p PROVE IsFiniteSet(OfPhase(s, p)) /\ Cardinality(OfPhase(s, p)) \in Nat
    <2>1. OfPhase(s, p) \subseteq DOMAIN s
      BY DEF OfPhase
    <2> QED BY <1>2, <2>1, FS_Subset, FS_CardinalityType
  <1> QED BY <1>1, <1>2, <1>3

LEMMA MarketStarts == MarketInit => MarketInv
  <1> SUFFICES ASSUME MarketInit PROVE MarketInv
    OBVIOUS
  <1>1. /\ market = "off" /\ asking = FALSE /\ activeJobs = {} /\ runs = << >> /\ gauge = 0
        /\ tally = [completed |-> 0, failed |-> 0] /\ completedJobs = << >>
    BY DEF MarketInit
  <1>2. MarketTypeOK
    <2>1. << >> \in Seq([job : MarketJobs, phase : Phases]) /\ << >> \in Seq(MarketJobs)
      OBVIOUS
    <2>2. tally \in [completed : Nat, failed : Nat] /\ gauge \in Nat
      BY <1>1
    <2>3. market \in {"off", "on", "stopped"} /\ asking \in BOOLEAN /\ activeJobs \subseteq MarketJobs
      BY <1>1
    <2> QED BY <1>1, <2>1, <2>2, <2>3 DEF MarketTypeOK
  <1>3. DOMAIN runs = {}
    BY <1>1
  <1>4. Leased = {} /\ \A p : InPhase(p) = Cardinality({})
    BY <1>3 DEF Leased, InPhase
  <1>5. IsFiniteSet({}) /\ Cardinality({}) = 0
    BY FS_EmptySet
  <1>6. RoomIsLeft
    BY <1>1, <1>5, MarketAssumption DEF RoomIsLeft
  <1>7. ActiveAreLeased
    BY <1>1, <1>4 DEF ActiveAreLeased, JobsOf
  <1>8. GaugeIsRight
    BY <1>1, <1>4, <1>5 DEF GaugeIsRight
  <1>9. TallyIsRight
    <2>1. InPhase("earned") = 0 /\ InPhase("failed") = 0 /\ InPhase("over") = 0
      BY <1>4, <1>5
    <2>2. tally.completed = 0 /\ tally.failed = 0
      BY <1>1
    <2> QED BY <2>1, <2>2 DEF TallyIsRight
  <1>10. Len(completedJobs) <= MarketHistory
    BY <1>1, MarketAssumption
  <1> QED BY <1>2, <1>6, <1>7, <1>8, <1>9, <1>10 DEF MarketInv

LEMMA MarketMeans == MarketInv => MarketTypeOK /\ MarketWithinLimit
  <1> SUFFICES ASSUME MarketInv PROVE MarketWithinLimit
    BY DEF MarketInv
  <1>1. ASSUME HandedOutOnce PROVE Cardinality(Leased) <= MaxActiveJobs
    <2>1. activeJobs = JobsOf(Leased) /\ IsFiniteSet(activeJobs) /\ Cardinality(activeJobs) <= MaxActiveJobs
      BY <1>1 DEF MarketInv, ActiveAreLeased, RoomIsLeft
    <2> DEFINE f == [i \in Leased |-> runs[i].job]
    <2>2. f \in Injection(Leased, activeJobs)
      <3>1. f \in [Leased -> activeJobs]
        BY <2>1 DEF JobsOf
      <3>2. \A i, k \in Leased : f[i] = f[k] => i = k
        BY <1>1 DEF HandedOutOnce, Leased
      <3> QED BY <3>1, <3>2 DEF Injection, IsInjective
    <2>3. Cardinality(Leased) <= Cardinality(activeJobs)
      BY <2>1, <2>2, FS_Injection
    <2>4. Cardinality(Leased) \in Nat /\ Cardinality(activeJobs) \in Nat
      <3>1. IsFiniteSet(Leased)
        <4>1. Leased \subseteq DOMAIN runs /\ runs \in Seq(Run)
          BY DEF Leased, MarketInv, MarketTypeOK, Run
        <4> QED BY <4>1, RunsAreFinite, FS_Subset
      <3> QED BY <2>1, <3>1, FS_CardinalityType
    <2> QED BY <2>1, <2>3, <2>4, MarketAssumption
  <1> QED BY <1>1 DEF MarketInv, RoomIsLeft, ActiveAreLeased, GaugeIsRight, TallyIsRight, MarketWithinLimit, JobsOf, HandedOutOnce

-----------------------------------------------------------------------------
LEMMA JobIsAccepted ==
  ASSUME MarketInv, NEW j \in MarketJobs, AcceptJob(j)
  PROVE  MarketInv'
  <1> DEFINE e == [job |-> j, phase |-> "running"]
  <1>1. /\ asking /\ asking' = FALSE /\ activeJobs' = activeJobs \cup {j} /\ runs' = Append(runs, e)
        /\ gauge' = gauge + 1 /\ UNCHANGED <<market, tally, completedJobs>>
    BY DEF AcceptJob
  <1>2. e \in Run /\ e.job = j /\ e.phase = "running"
    BY DEF Run, Phases
  <1> HIDE DEF e
  <1> DEFINE n == Len(runs) + 1
  <1>3. /\ runs \in Seq(Run) /\ Len(runs) \in Nat /\ DOMAIN runs = 1..Len(runs)
        /\ gauge \in Nat
    BY DEF MarketInv, MarketTypeOK, Run
  <1>4. /\ runs' \in Seq(Run) /\ DOMAIN runs' = DOMAIN runs \cup {n} /\ n \notin DOMAIN runs
        /\ \A i \in DOMAIN runs : runs'[i] = runs[i]
        /\ runs'[n] = e
    <2>1. Append(runs, e) \in Seq(Run) /\ Len(Append(runs, e)) = n
      BY <1>2, <1>3
    <2>2. /\ \A i \in 1..Len(runs) : Append(runs, e)[i] = runs[i]
          /\ Append(runs, e)[n] = e
      BY <1>2, <1>3
    <2>3. DOMAIN Append(runs, e) = 1..n /\ 1..n = (1..Len(runs)) \cup {n} /\ n \notin 1..Len(runs)
      BY <1>2, <1>3, <2>1
    <2> QED BY <1>1, <1>3, <2>1, <2>2, <2>3
  <1> HIDE DEF n
  <1>5. MarketTypeOK'
    <2>1. activeJobs' \subseteq MarketJobs /\ asking' \in BOOLEAN
      BY <1>1 DEF MarketInv, MarketTypeOK
    <2>2. gauge' \in Nat
      BY <1>1, <1>3
    <2> QED BY <1>1, <1>4, <2>1, <2>2 DEF MarketInv, MarketTypeOK, Run
  <1>6. RoomIsLeft'
    <2>1. /\ IsFiniteSet(activeJobs) /\ Cardinality(activeJobs) < MaxActiveJobs /\ Cardinality(activeJobs) \in Nat
      BY <1>1, FS_CardinalityType DEF MarketInv, RoomIsLeft
    <2>2. IsFiniteSet(activeJobs \cup {j}) /\ (Cardinality(activeJobs \cup {j}) = Cardinality(activeJobs)
                                               \/ Cardinality(activeJobs \cup {j}) = Cardinality(activeJobs) + 1)
      BY <2>1, FS_AddElement
    <2>3. Cardinality(activeJobs \cup {j}) <= MaxActiveJobs
      BY <2>1, <2>2, MarketAssumption
    <2> QED BY <1>1, <2>2, <2>3 DEF RoomIsLeft
  <1>7. Leased' = Leased \cup {n} /\ n \notin Leased
    BY <1>2, <1>4 DEF Leased
  <1>8. JobsOf(Leased)' = JobsOf(Leased) \cup {j}
    <2>1. \A i \in Leased : runs'[i] = runs[i]
      BY <1>4 DEF Leased
    <2> QED BY <1>2, <1>4, <1>7, <2>1 DEF JobsOf
  <1>9. HandedOutOnce' => HandedOutOnce
    BY <1>4 DEF HandedOutOnce
  <1>10. ActiveAreLeased'
    BY <1>1, <1>8, <1>9 DEF MarketInv, ActiveAreLeased
  <1>11. GaugeIsRight'
    <2>1. IsFiniteSet(Leased)
      <3>1. Leased \subseteq DOMAIN runs
        BY DEF Leased
      <3> QED BY <1>3, <3>1, RunsAreFinite, FS_Subset
    <2>2. Cardinality(Leased') = Cardinality(Leased) + 1
      BY <1>7, <2>1, FS_AddElement
    <2> QED BY <1>1, <2>2 DEF MarketInv, GaugeIsRight
  <1>12. TallyIsRight'
    <2>1. ASSUME NEW p \in {"earned", "failed", "over"} PROVE InPhase(p)' = InPhase(p)
      <3>1. {i \in DOMAIN runs' : runs'[i].phase = p} = {i \in DOMAIN runs : runs[i].phase = p}
        BY <1>2, <1>4
      <3> QED BY <3>1 DEF InPhase
    <2> QED BY <1>1, <2>1 DEF MarketInv, TallyIsRight
  <1> QED BY <1>1, <1>5, <1>6, <1>10, <1>11, <1>12 DEF MarketInv

(* The phase of one execution moves on.                                         *)
MarketMoved(i, p, q) ==
    /\ runs' \in Seq(Run) /\ DOMAIN runs' = DOMAIN runs
    /\ \A k \in DOMAIN runs : runs'[k].job = runs[k].job /\ runs'[k].phase = IF k = i THEN p ELSE runs[k].phase
    /\ HandedOutOnce' = HandedOutOnce
    /\ InPhase(p)' = InPhase(p) + 1 /\ InPhase(q)' = InPhase(q) - 1
    /\ \A r : r # p /\ r # q => InPhase(r)' = InPhase(r)
    /\ \A r : InPhase(r) \in Nat

LEMMA PhaseMoves ==
  ASSUME MarketInv, NEW i \in DOMAIN runs, NEW p \in Phases, runs' = [runs EXCEPT ![i].phase = p], NEW q, q = runs[i].phase, q # p
  PROVE  MarketMoved(i, p, q)
  <1>1. runs \in Seq(Run) /\ runs[i] \in Run /\ q \in Phases
    <2>1. runs \in Seq(Run)
      BY DEF MarketInv, MarketTypeOK, Run
    <2>2. runs[i] \in Run
      BY <2>1
    <2> QED BY <2>1, <2>2 DEF Run
  <1> DEFINE e == [runs[i] EXCEPT !.phase = p]
  <1>2. e \in Run /\ e.job = runs[i].job /\ e.phase = p
    BY <1>1 DEF Run
  <1> HIDE DEF e
  <1>3. runs' = [runs EXCEPT ![i] = e]
    BY DEF e
  <1>4. runs' \in Seq(Run) /\ DOMAIN runs' = DOMAIN runs
    BY <1>1, <1>2, <1>3
  <1>5. \A k \in DOMAIN runs : runs'[k] = IF k = i THEN e ELSE runs[k]
    BY <1>1, <1>3
  <1>6. \A k \in DOMAIN runs : runs'[k].job = runs[k].job /\ runs'[k].phase = IF k = i THEN p ELSE runs[k].phase
    BY <1>2, <1>5
  <1>7. HandedOutOnce' = HandedOutOnce
    BY <1>4, <1>6 DEF HandedOutOnce
  <1>8. \A r : InPhase(r) = Cardinality(OfPhase(runs, r)) /\ InPhase(r)' = Cardinality(OfPhase(runs', r))
    BY DEF InPhase, OfPhase
  <1>9. \A r : IsFiniteSet(OfPhase(runs, r)) /\ InPhase(r) \in Nat
    BY <1>1, <1>8, RunsAreFinite
  <1>10. InPhase(p)' = InPhase(p) + 1
    <2>1. OfPhase(runs', p) = OfPhase(runs, p) \cup {i} /\ i \notin OfPhase(runs, p)
      BY <1>4, <1>6 DEF OfPhase
    <2> QED BY <1>8, <1>9, <2>1, FS_AddElement
  <1>11. InPhase(q)' = InPhase(q) - 1
    <2>1. OfPhase(runs', q) = OfPhase(runs, q) \ {i} /\ i \in OfPhase(runs, q)
      BY <1>4, <1>6 DEF OfPhase
    <2>2. Cardinality(OfPhase(runs', q)) = Cardinality(OfPhase(runs, q)) - 1
      BY <1>9, <2>1, FS_RemoveElement, ZenonT(60)
    <2> QED BY <1>8, <2>2
  <1>12. \A r : r # p /\ r # q => OfPhase(runs', r) = OfPhase(runs, r)
    BY <1>4, <1>6 DEF OfPhase
  <1> QED BY <1>4, <1>6, <1>7, <1>8, <1>9, <1>10, <1>11, <1>12 DEF MarketMoved

LEMMA JobIsRun ==
  ASSUME MarketInv, NEW i, JobRan(i)
  PROVE  MarketInv'
  <1>1. i \in DOMAIN runs /\ runs[i].phase = "running" /\ UNCHANGED <<market, asking, activeJobs, gauge, completedJobs>>
    BY DEF JobRan
  <1>2. PICK p \in {"earned", "failed"} :
          /\ runs' = [runs EXCEPT ![i].phase = p]
          /\ \/ p = "earned" /\ tally' = [tally EXCEPT !.completed = @ + 1]
             \/ p = "failed" /\ tally' = [tally EXCEPT !.failed = @ + 1]
    BY DEF JobRan
  <1>3. p \in Phases /\ "running" # p
    BY DEF Phases
  <1>4a. MarketMoved(i, p, "running")
    BY <1>1, <1>2, <1>3, PhaseMoves
  <1>4. /\ runs' \in Seq(Run) /\ DOMAIN runs' = DOMAIN runs
        /\ \A k \in DOMAIN runs : runs'[k].job = runs[k].job /\ runs'[k].phase = IF k = i THEN p ELSE runs[k].phase
        /\ HandedOutOnce' = HandedOutOnce
        /\ InPhase(p)' = InPhase(p) + 1
        /\ \A r : r # p /\ r # "running" => InPhase(r)' = InPhase(r)
        /\ \A r : InPhase(r) \in Nat
    BY <1>4a DEF MarketMoved
  <1>5. tally \in [completed : Nat, failed : Nat]
    BY DEF MarketInv, MarketTypeOK
  <1>6. tally' \in [completed : Nat, failed : Nat] /\ tally'.completed + tally'.failed = tally.completed + tally.failed + 1
    <2>1. CASE tally' = [tally EXCEPT !.completed = @ + 1]
      BY <1>5, <2>1
    <2>2. CASE tally' = [tally EXCEPT !.failed = @ + 1]
      BY <1>5, <2>2
    <2> QED BY <1>2, <2>1, <2>2
  <1>7. MarketTypeOK'
    BY <1>1, <1>4, <1>6 DEF MarketInv, MarketTypeOK, Run
  <1>8. Leased' = Leased
    BY <1>1, <1>2, <1>4 DEF Leased
  <1>9. JobsOf(Leased)' = JobsOf(Leased)
    <2>1. \A k \in Leased : runs'[k].job = runs[k].job
      BY <1>4 DEF Leased
    <2> QED BY <1>8, <2>1 DEF JobsOf
  <1>10. ActiveAreLeased'
    BY <1>1, <1>4, <1>9 DEF MarketInv, ActiveAreLeased
  <1>11. GaugeIsRight' /\ RoomIsLeft'
    BY <1>1, <1>8 DEF MarketInv, GaugeIsRight, RoomIsLeft
  <1>12. TallyIsRight'
    <2> DEFINE a == InPhase("earned")
               b == InPhase("failed")
               c == InPhase("over")
               a2 == InPhase("earned")'
               b2 == InPhase("failed")'
               c2 == InPhase("over")'
    <2>1. c2 = c /\ ((a2 = a + 1 /\ b2 = b) \/ (b2 = b + 1 /\ a2 = a))
      BY <1>2, <1>4
    <2>2. a \in Nat /\ b \in Nat /\ c \in Nat
      BY <1>4
    <2>3. tally.completed + tally.failed = a + b + c
      BY DEF MarketInv, TallyIsRight
    <2> SUFFICES tally'.completed + tally'.failed = a2 + b2 + c2
      BY DEF TallyIsRight
    <2> HIDE DEF a, b, c, a2, b2, c2
    <2> QED BY <1>6, <2>1, <2>2, <2>3
  <1> QED BY <1>1, <1>7, <1>10, <1>11, <1>12 DEF MarketInv

LEMMA JobIsDone ==
  ASSUME MarketInv, NEW i, JobDone(i)
  PROVE  MarketInv'
  <1> DEFINE j == runs[i].job
  <1>0. PICK q \in {"earned", "failed"} : q = runs[i].phase
    BY DEF JobDone
  <1>1. /\ i \in DOMAIN runs /\ runs' = [runs EXCEPT ![i].phase = "over"]
        /\ activeJobs' = activeJobs \ {j} /\ gauge' = gauge - 1
        /\ completedJobs' = Front(<<j>> \o completedJobs, MarketHistory)
        /\ UNCHANGED <<market, asking, tally>>
    BY DEF JobDone
  <1>2. "over" \in Phases /\ q # "over"
    BY <1>0 DEF Phases
  <1>3a. MarketMoved(i, "over", q)
    BY <1>0, <1>1, <1>2, PhaseMoves
  <1>3. /\ runs' \in Seq(Run) /\ DOMAIN runs' = DOMAIN runs
        /\ \A k \in DOMAIN runs : runs'[k].job = runs[k].job /\ runs'[k].phase = IF k = i THEN "over" ELSE runs[k].phase
        /\ HandedOutOnce' = HandedOutOnce
        /\ InPhase("over")' = InPhase("over") + 1 /\ InPhase(q)' = InPhase(q) - 1
        /\ \A r : r # "over" /\ r # q => InPhase(r)' = InPhase(r)
        /\ \A r : InPhase(r) \in Nat
    BY <1>3a DEF MarketMoved
  <1>4. j \in MarketJobs
    <2>1. runs \in Seq(Run)
      BY DEF MarketInv, MarketTypeOK, Run
    <2>2. runs[i] \in Run
      BY <1>1, <2>1
    <2> QED BY <2>2 DEF Run
  <1>5. Leased' = Leased \ {i} /\ i \in Leased /\ Leased \subseteq DOMAIN runs
    BY <1>0, <1>1, <1>2, <1>3 DEF Leased
  <1>6. completedJobs' \in Seq(MarketJobs) /\ Len(completedJobs') <= MarketHistory
    <2> DEFINE s == <<j>> \o completedJobs
    <2>1. s \in Seq(MarketJobs) /\ Len(s) \in Nat /\ MarketHistory \in Nat
      BY <1>4, MarketAssumption DEF MarketInv, MarketTypeOK
    <2> HIDE DEF s
    <2>2. CASE Len(s) < MarketHistory
      <3>1. completedJobs' = SubSeq(s, 1, Len(s))
        BY <1>1, <2>2 DEF s, Front
      <3> QED BY <2>1, <2>2, <3>1
    <2>3. CASE ~(Len(s) < MarketHistory)
      <3>1. completedJobs' = SubSeq(s, 1, MarketHistory)
        BY <1>1, <2>3 DEF s, Front
      <3> QED BY <2>1, <2>3, <3>1
    <2> QED BY <2>2, <2>3
  <1>7. GaugeIsRight' /\ gauge' \in Nat
    <2>1. IsFiniteSet(Leased)
      <3>1. runs \in Seq(Run)
        BY DEF MarketInv, MarketTypeOK, Run
      <3> QED BY <1>5, <3>1, RunsAreFinite, FS_Subset
    <2>2. IsFiniteSet(Leased') /\ Cardinality(Leased') = Cardinality(Leased) - 1
      BY <1>5, <2>1, FS_RemoveElement
    <2> QED BY <1>1, <2>2, FS_CardinalityType DEF MarketInv, GaugeIsRight
  <1>8. MarketTypeOK'
    BY <1>1, <1>3, <1>6, <1>7 DEF MarketInv, MarketTypeOK, Run
  <1>9. RoomIsLeft'
    <2>1. /\ IsFiniteSet(activeJobs) /\ Cardinality(activeJobs) \in Nat
      BY FS_CardinalityType DEF MarketInv, RoomIsLeft
    <2>2. IsFiniteSet(activeJobs') /\ Cardinality(activeJobs') <= Cardinality(activeJobs) /\ Cardinality(activeJobs') \in Nat
      BY <1>1, <2>1, FS_Subset, FS_CardinalityType
    <2> QED BY <1>1, <2>1, <2>2, MarketAssumption DEF MarketInv, RoomIsLeft
  <1>10. ActiveAreLeased'
    <2>1. \A k \in Leased : runs'[k].job = runs[k].job
      BY <1>3, <1>5
    <2>2. JobsOf(Leased)' = {runs[k].job : k \in Leased \ {i}}
      BY <1>5, <2>1 DEF JobsOf
    <2>3. activeJobs' \subseteq JobsOf(Leased)'
      BY <1>1, <2>2 DEF MarketInv, ActiveAreLeased, JobsOf
    <2>4. HandedOutOnce => activeJobs' = JobsOf(Leased)'
      BY <1>1, <1>5, <2>2 DEF MarketInv, ActiveAreLeased, JobsOf, HandedOutOnce
    <2> QED BY <1>3, <2>3, <2>4 DEF ActiveAreLeased
  <1>11. TallyIsRight'
    <2> DEFINE a == InPhase("earned")
               b == InPhase("failed")
               c == InPhase("over")
               a2 == InPhase("earned")'
               b2 == InPhase("failed")'
               c2 == InPhase("over")'
    <2>1. c2 = c + 1 /\ ((a2 = a - 1 /\ b2 = b) \/ (b2 = b - 1 /\ a2 = a))
      <3>1. CASE q = "earned"
        BY <1>3, <3>1
      <3>2. CASE q = "failed"
        BY <1>3, <3>2
      <3> QED BY <1>0, <3>1, <3>2
    <2>2. a \in Nat /\ b \in Nat /\ c \in Nat
      BY <1>3
    <2>3. tally.completed + tally.failed = a + b + c /\ tally' = tally
      BY <1>1 DEF MarketInv, TallyIsRight
    <2>4. a2 + b2 + c2 = a + b + c
      <3> HIDE DEF a, b, c, a2, b2, c2
      <3> QED BY <2>1, <2>2
    <2> QED BY <2>3, <2>4 DEF TallyIsRight
  <1> QED BY <1>6, <1>7, <1>8, <1>9, <1>10, <1>11 DEF MarketInv

LEMMA MarketKept == MarketInv /\ [MarketNext]_marketVars => MarketInv'
  <1> SUFFICES ASSUME MarketInv, [MarketNext]_marketVars PROVE MarketInv'
    OBVIOUS
  <1>1. ASSUME UNCHANGED <<activeJobs, runs, gauge, tally, completedJobs>>,
               market' \in {"off", "on", "stopped"}, asking' \in BOOLEAN,
               asking' => asking \/ Cardinality(activeJobs) < MaxActiveJobs
        PROVE  MarketInv'
    <2>1. MarketTypeOK' /\ RoomIsLeft'
      BY <1>1 DEF MarketInv, MarketTypeOK, RoomIsLeft
    <2>2. ActiveAreLeased' /\ GaugeIsRight' /\ TallyIsRight' /\ Len(completedJobs') <= MarketHistory
      BY <1>1 DEF MarketInv, ActiveAreLeased, JobsOf, Leased, HandedOutOnce, GaugeIsRight, TallyIsRight, InPhase
    <2> QED BY <2>1, <2>2 DEF MarketInv
  <1>2. market \in {"off", "on", "stopped"} /\ asking \in BOOLEAN
    BY DEF MarketInv, MarketTypeOK
  <1>3. CASE StartMarket \/ StopMarket
    BY <1>1, <1>2, <1>3 DEF StartMarket, StopMarket
  <1>4. CASE PollJobs
    BY <1>1, <1>2, <1>4 DEF PollJobs
  <1>5. CASE NoJob
    BY <1>1, <1>2, <1>5 DEF NoJob
  <1>6. CASE UNCHANGED marketVars
    BY <1>1, <1>2, <1>6 DEF marketVars
  <1> QED BY <1>3, <1>4, <1>5, <1>6, JobIsAccepted, JobIsRun, JobIsDone DEF MarketNext

-----------------------------------------------------------------------------
(* Work kept while the platform is away.  A task that waits was put in once     *)
(* more than it is worked on, and without the fallback nothing is ever put in.  *)
WorkIsCounted ==
    /\ \A t \in OfflineTasks : workers[t] <= tries[t]
    /\ \A t \in OfflineTasks : task[t] = "pending" => workers[t] < tries[t]
NothingIsLost ==
    /\ PendingResults = finished
    /\ inMemory \/ \A t \in OfflineTasks : task[t] = "absent"
ChecksAgree == /\ lastCheck = "ok" => ~offline
               /\ lastCheck = "threw" => offline

OfflineInv == OfflineTypeOK /\ WorkIsCounted /\ NothingIsLost /\ ChecksAgree

LEMMA OfflineStarts == OfflineInit => OfflineInv
  <1> SUFFICES ASSUME OfflineInit PROVE OfflineInv
    OBVIOUS
  <1>1. 0 \in 0..MaxTries /\ 0 \in 0..2
    BY OfflineAssumption
  <1>2. OfflineTypeOK
    BY <1>1 DEF OfflineInit, OfflineTypeOK
  <1>3. WorkIsCounted /\ NothingIsLost /\ ChecksAgree
    BY DEF OfflineInit, WorkIsCounted, NothingIsLost, ChecksAgree, PendingResults
  <1> QED BY <1>2, <1>3 DEF OfflineInv

LEMMA OfflineMeans == OfflineInv => OfflineTypeOK /\ ResultsAreKept
  <1> SUFFICES ASSUME OfflineInv PROVE ResultsAreKept
    BY DEF OfflineInv
  <1>1. PendingCount \in Nat
    <2>1. IsFiniteSet({t \in OfflineTasks : task[t] = "pending"})
      BY OfflineAssumption, FS_Subset
    <2> QED BY <2>1, FS_CardinalityType DEF PendingCount
  <1>2. Autonomy(TRUE) = 10 <=> lastCheck = "ok" /\ PendingCount > 0
    <2>1. CASE lastCheck = "ok"
      BY <1>1, <2>1 DEF Autonomy
    <2>2. CASE lastCheck # "ok"
      BY <1>1, <2>2 DEF Autonomy
    <2> QED BY <2>1, <2>2
  <1> QED BY <1>2 DEF OfflineInv, WorkIsCounted, NothingIsLost, ChecksAgree, ResultsAreKept

(* The queue: the health checks do not touch it.                                *)
LEMMA QueueIsKept ==
  ASSUME OfflineInv, NEW t \in OfflineTasks, Enqueue(t) \/ Dequeue(t) \/ CompleteTask(t) \/ Fail(t) \/ MarkResultSubmitted(t)
  PROVE  OfflineInv'
  <1>1. UNCHANGED healthVars /\ UNCHANGED inMemory
    BY DEF Enqueue, Dequeue, CompleteTask, Fail, MarkResultSubmitted
  <1>2. ChecksAgree'
    BY <1>1 DEF healthVars, OfflineInv, ChecksAgree
  <1>3. /\ task \in [OfflineTasks -> {"absent", "pending", "running", "done", "failed"}]
        /\ workers \in [OfflineTasks -> 0..MaxTries] /\ tries \in [OfflineTasks -> 0..MaxTries] /\ finished \subseteq OfflineTasks
        /\ MaxTries \in Nat
        /\ \A u \in OfflineTasks : workers[u] \in Nat /\ tries[u] \in Nat /\ workers[u] <= MaxTries /\ tries[u] <= MaxTries
    BY OfflineAssumption DEF OfflineInv, OfflineTypeOK
  <1>4. WorkIsCounted /\ NothingIsLost
    BY DEF OfflineInv
  <1>5. CASE Enqueue(t)
    <2>1. /\ tries[t] < MaxTries /\ tries' = [tries EXCEPT ![t] = @ + 1] /\ finished' = finished \ {t} /\ workers' = workers
          /\ task' = IF inMemory THEN [task EXCEPT ![t] = "pending"] ELSE task
      BY <1>5 DEF Enqueue
    <2>2. tries[t] + 1 \in 0..MaxTries
      BY <1>3, <2>1
    <2>3. OfflineTypeOK'
      BY <1>1, <1>3, <2>1, <2>2 DEF healthVars, OfflineInv, OfflineTypeOK
    <2>4. \A u \in OfflineTasks : tries'[u] = IF u = t THEN tries[u] + 1 ELSE tries[u]
      BY <1>3, <2>1
    <2>5. \A u \in OfflineTasks : workers[u] <= tries'[u] /\ (workers[u] < tries'[u] \/ (u # t /\ tries'[u] = tries[u]))
      BY <1>3, <1>4, <2>4 DEF WorkIsCounted
    <2>6. \A u \in OfflineTasks : u # t => task'[u] = task[u]
      BY <1>3, <2>1
    <2>7. WorkIsCounted'
      BY <1>4, <2>1, <2>5, <2>6 DEF WorkIsCounted
    <2>8. NothingIsLost'
      <3>1. CASE inMemory
        BY <1>1, <1>3, <1>4, <2>1, <3>1 DEF NothingIsLost, PendingResults
      <3>2. CASE ~inMemory
        BY <1>1, <1>3, <1>4, <2>1, <3>2 DEF NothingIsLost, PendingResults
      <3> QED BY <3>1, <3>2
    <2> QED BY <1>2, <2>3, <2>7, <2>8 DEF OfflineInv
  <1>6. CASE Dequeue(t)
    <2>1. /\ task[t] = "pending" /\ workers[t] < MaxTries /\ workers' = [workers EXCEPT ![t] = @ + 1]
          /\ task' = [task EXCEPT ![t] = "running"] /\ tries' = tries /\ finished' = finished
      BY <1>6 DEF Dequeue, Marked
    <2>2. workers[t] + 1 \in 0..MaxTries /\ workers[t] + 1 <= tries[t]
      BY <1>3, <1>4, <2>1 DEF WorkIsCounted
    <2>3. OfflineTypeOK'
      BY <1>1, <1>3, <2>1, <2>2 DEF healthVars, OfflineInv, OfflineTypeOK
    <2>4. WorkIsCounted'
      BY <1>3, <1>4, <2>1, <2>2 DEF WorkIsCounted
    <2>5. NothingIsLost'
      BY <1>1, <1>3, <1>4, <2>1 DEF NothingIsLost, PendingResults
    <2> QED BY <1>2, <2>3, <2>4, <2>5 DEF OfflineInv
  <1>7. CASE CompleteTask(t) \/ Fail(t)
    <2>1. /\ workers[t] > 0 /\ workers' = [workers EXCEPT ![t] = @ - 1] /\ tries' = tries
          /\ \/ SetTaskStatus(t, "done") /\ finished' = IF task'[t] = "done" THEN finished \cup {t} ELSE finished
             \/ SetTaskStatus(t, "failed") /\ finished' = finished \ {t}
      BY <1>7 DEF CompleteTask, Fail
    <2>2. workers[t] - 1 \in 0..MaxTries /\ workers[t] - 1 <= workers[t]
      BY <1>3, <2>1
    <2>3. \/ task' = task
          \/ inMemory /\ task[t] # "absent" /\ \E s \in {"done", "failed"} : task' = [task EXCEPT ![t] = s]
      BY <2>1 DEF SetTaskStatus
    <2>4. OfflineTypeOK'
      BY <1>1, <1>3, <2>1, <2>2, <2>3 DEF healthVars, OfflineInv, OfflineTypeOK
    <2>5. \A u \in OfflineTasks : workers'[u] <= workers[u] /\ (task'[u] = "pending" => task[u] = "pending") /\ workers'[u] \in Nat
      <3>1. \A u \in OfflineTasks : workers'[u] = IF u = t THEN workers[u] - 1 ELSE workers[u]
        BY <1>3, <2>1
      <3>2. \A u \in OfflineTasks : task'[u] = "pending" => task[u] = "pending"
        BY <1>3, <2>3
      <3> QED BY <1>3, <2>1, <3>1, <3>2
    <2>6. WorkIsCounted'
      BY <1>3, <1>4, <2>1, <2>5 DEF WorkIsCounted
    <2>7. NothingIsLost'
      <3>1. CASE inMemory /\ task[t] # "absent"
        <4>1. CASE task' = [task EXCEPT ![t] = "done"] /\ finished' = finished \cup {t}
          BY <1>1, <1>3, <1>4, <3>1, <4>1 DEF NothingIsLost, PendingResults
        <4>2. CASE task' = [task EXCEPT ![t] = "failed"] /\ finished' = finished \ {t}
          BY <1>1, <1>3, <1>4, <3>1, <4>2 DEF NothingIsLost, PendingResults
        <4> QED BY <1>3, <2>1, <3>1, <4>1, <4>2 DEF SetTaskStatus
      <3>2. CASE ~(inMemory /\ task[t] # "absent")
        <4>1. task' = task /\ task[t] = "absent"
          BY <1>4, <2>1, <3>2 DEF SetTaskStatus, NothingIsLost
        <4>2. t \notin finished
          BY <1>4, <4>1 DEF NothingIsLost, PendingResults
        <4>3. finished' = finished
          BY <2>1, <4>1, <4>2
        <4> QED BY <1>1, <1>4, <4>1, <4>3 DEF NothingIsLost, PendingResults
      <3> QED BY <3>1, <3>2
    <2> QED BY <1>2, <2>4, <2>6, <2>7 DEF OfflineInv
  <1>8. CASE MarkResultSubmitted(t)
    <2>1. /\ task[t] = "done" /\ task' = [task EXCEPT ![t] = "absent"] /\ finished' = finished \ {t}
          /\ UNCHANGED <<workers, tries>>
      BY <1>8 DEF MarkResultSubmitted, PendingResults
    <2>2. OfflineTypeOK'
      BY <1>1, <1>3, <2>1 DEF healthVars, OfflineInv, OfflineTypeOK
    <2>3. WorkIsCounted'
      BY <1>3, <1>4, <2>1 DEF WorkIsCounted
    <2>4. NothingIsLost'
      BY <1>1, <1>3, <1>4, <2>1 DEF NothingIsLost, PendingResults
    <2> QED BY <1>2, <2>2, <2>3, <2>4 DEF OfflineInv
  <1> QED BY <1>5, <1>6, <1>7, <1>8

LEMMA OfflineKept == OfflineInv /\ [OfflineNext]_offlineVars => OfflineInv'
  <1> SUFFICES ASSUME OfflineInv, [OfflineNext]_offlineVars PROVE OfflineInv'
    OBVIOUS
  <1>1. ASSUME NEW how \in {"ok", "refused", "threw"}, CheckEnds(how) PROVE OfflineInv'
    <2>1. /\ UNCHANGED <<inMemory, task, workers, tries, finished>>
          /\ checks > 0 /\ checks' = checks - 1 /\ lastCheck' = how
          /\ offline' = IF how = "ok" THEN FALSE ELSE IF how = "threw" THEN TRUE ELSE offline
      BY <1>1 DEF CheckEnds, queueVars
    <2>2. checks' \in 0..2
      BY <2>1 DEF OfflineInv, OfflineTypeOK
    <2>3. ChecksAgree' /\ offline' \in BOOLEAN
      BY <2>1 DEF ChecksAgree, OfflineInv, OfflineTypeOK
    <2> QED BY <2>1, <2>2, <2>3 DEF OfflineInv, OfflineTypeOK, WorkIsCounted, NothingIsLost, PendingResults
  <1>2. CASE Refresh
    <2>1. UNCHANGED <<inMemory, task, workers, tries, finished, offline, lastCheck>> /\ checks < 2 /\ checks' = checks + 1
      BY <1>2 DEF Refresh, queueVars
    <2>2. checks' \in 0..2
      BY <2>1 DEF OfflineInv, OfflineTypeOK
    <2> QED BY <2>1, <2>2 DEF OfflineInv, OfflineTypeOK, WorkIsCounted, NothingIsLost, PendingResults, ChecksAgree
  <1>3. CASE UNCHANGED offlineVars
    BY <1>3 DEF offlineVars, OfflineInv, OfflineTypeOK, WorkIsCounted, NothingIsLost, PendingResults, ChecksAgree
  <1> QED BY <1>1, <1>2, <1>3, QueueIsKept DEF OfflineNext

-----------------------------------------------------------------------------
(* The rounds of gradients (Training).  A round has one or two gradients, which *)
(* are never outliers of each other; and no number is used before it is given.  *)
InRound(j, i) == checkpoints[j][i].in \cup checkpoints[j][i].out
NumbersAreOld(j) ==
    /\ \A i \in DOMAIN submissions[j] : submissions[j][i].number <= sentGradients
    /\ \A i \in DOMAIN checkpoints[j] : \A g \in InRound(j, i) : g <= sentGradients
UsedOnce(j) ==
    /\ \A i, k \in DOMAIN checkpoints[j] : InRound(j, i) \cap InRound(j, k) # {} => i = k
    /\ \A i \in DOMAIN checkpoints[j], k \in DOMAIN submissions[j] : submissions[j][k].number \notin InRound(j, i)
    /\ \A g \in accepted[j] : \/ \E k \in DOMAIN submissions[j] : submissions[j][k].number = g
                              \/ \E i \in DOMAIN checkpoints[j] : g \in InRound(j, i)
RoundsAreWhole(j) ==
    /\ \A i \in DOMAIN checkpoints[j] : checkpoints[j][i].round = i /\ checkpoints[j][i].in # {} /\ checkpoints[j][i].out = {}
    /\ roundCounter[j] = Len(checkpoints[j])
    /\ Len(submissions[j]) < MinSubmissions
JobIsKept(j) == NumbersAreOld(j) /\ UsedOnce(j) /\ RoundsAreWhole(j)

GradientInv == GradientTypeOK /\ \A j \in TrainJobs : JobIsKept(j)

LEMMA GradientNats == Norms \subseteq Nat /\ MaxGradients \in Nat /\ MinSubmissions \in 1..2 /\ Outlier \in Nat \ {0}
  BY GradientAssumption DEF GradientAssumption

LEMMA GradientsTyped ==
  ASSUME NEW s \in Seq(Gradient)
  PROVE  /\ Len(s) \in Nat /\ DOMAIN s = 1..Len(s)
         /\ \A i \in DOMAIN s : s[i].number \in 1..MaxGradients /\ s[i].number \in Nat /\ s[i].norm \in Nat
  <1>1. Len(s) \in Nat /\ DOMAIN s = 1..Len(s) /\ \A i \in DOMAIN s : s[i] \in Gradient
    OBVIOUS
  <1>2. \A g \in Gradient : g.number \in 1..MaxGradients /\ g.number \in Nat /\ g.norm \in Nat
    <2> SUFFICES ASSUME NEW g \in Gradient PROVE g.number \in 1..MaxGradients /\ g.number \in Nat /\ g.norm \in Nat
      OBVIOUS
    <2>1. g.number \in 1..MaxGradients /\ g.norm \in Norms
      BY DEF Gradient
    <2>2. g.norm \in Nat
      BY <2>1, GradientNats
    <2>3. g.number \in Nat
      BY <2>1, GradientNats
    <2> QED BY <2>1, <2>2, <2>3
  <1> QED BY <1>1, <1>2

LEMMA RoundsTyped ==
  ASSUME NEW s \in Seq(Round)
  PROVE  /\ Len(s) \in Nat /\ DOMAIN s = 1..Len(s)
         /\ \A i \in DOMAIN s : \A g \in s[i].in \cup s[i].out : g \in Nat
  <1>1. Len(s) \in Nat /\ DOMAIN s = 1..Len(s) /\ \A i \in DOMAIN s : s[i] \in Round
    OBVIOUS
  <1>2. ASSUME NEW r \in Round PROVE \A g \in r.in \cup r.out : g \in Nat
    <2>1. r.in \subseteq 1..MaxGradients /\ r.out \subseteq 1..MaxGradients
      BY DEF Round
    <2> QED BY <2>1, GradientNats
  <1> QED BY <1>1, <1>2

LEMMA GradientStarts == GradientInit => GradientInv
  <1> SUFFICES ASSUME GradientInit PROVE GradientInv
    OBVIOUS
  <1>1. GradientTypeOK
    BY GradientNats DEF GradientInit, GradientTypeOK
  <1>2. ASSUME NEW j \in TrainJobs PROVE JobIsKept(j)
    <2>1. submissions[j] = << >> /\ checkpoints[j] = << >> /\ accepted[j] = {} /\ roundCounter[j] = 0
      BY DEF GradientInit
    <2>2. Len(submissions[j]) = 0 /\ Len(checkpoints[j]) = 0 /\ DOMAIN submissions[j] = {} /\ DOMAIN checkpoints[j] = {}
      BY <2>1
    <2> QED BY <2>1, <2>2, GradientNats DEF JobIsKept, NumbersAreOld, UsedOnce, RoundsAreWhole
  <1> QED BY <1>1, <1>2 DEF GradientInv

LEMMA GradientMeans == GradientInv => GradientTypeOK /\ RoundsUseEachOnce
  <1> SUFFICES ASSUME GradientInv, NEW j \in TrainJobs
      PROVE  /\ \A g \in accepted[j] : Cardinality({i \in DOMAIN checkpoints[j] : g \in checkpoints[j][i].in \cup checkpoints[j][i].out})
                                       + Cardinality({i \in DOMAIN submissions[j] : submissions[j][i].number = g}) = 1
             /\ \A i \in DOMAIN checkpoints[j] : /\ checkpoints[j][i].round = i /\ checkpoints[j][i].in # {}
                                                 /\ checkpoints[j][i].out = {}
             /\ Len(submissions[j]) < MinSubmissions
    BY DEF GradientInv, RoundsUseEachOnce
  <1>1. UsedOnce(j) /\ RoundsAreWhole(j)
    BY DEF GradientInv, JobIsKept
  <1>2. DOMAIN submissions[j] = 1..Len(submissions[j]) /\ Len(submissions[j]) \in 0..1
    <2>1. submissions[j] \in Seq(Gradient)
      BY DEF GradientInv, GradientTypeOK
    <2>2. Len(submissions[j]) \in Nat /\ DOMAIN submissions[j] = 1..Len(submissions[j])
      BY <2>1, GradientsTyped
    <2>3. Len(submissions[j]) < MinSubmissions /\ MinSubmissions <= 2 /\ MinSubmissions \in Nat
      BY <1>1, GradientNats DEF RoundsAreWhole
    <2>4. PICK k \in Nat : k = Len(submissions[j])
      BY <2>2
    <2>5. PICK m \in Nat : m = MinSubmissions /\ m <= 2
      BY <2>3
    <2>6. k < m
      BY <2>3, <2>4, <2>5
    <2>7. k \in 0..1
      BY <2>5, <2>6
    <2> QED BY <2>2, <2>4, <2>7
  <1>3. ASSUME NEW g \in accepted[j]
        PROVE  Cardinality({i \in DOMAIN checkpoints[j] : g \in checkpoints[j][i].in \cup checkpoints[j][i].out})
               + Cardinality({i \in DOMAIN submissions[j] : submissions[j][i].number = g}) = 1
    <2> DEFINE C == {i \in DOMAIN checkpoints[j] : g \in InRound(j, i)}
               S == {i \in DOMAIN submissions[j] : submissions[j][i].number = g}
    <2>1. CASE \E k \in DOMAIN submissions[j] : submissions[j][k].number = g
      <3>1. C = {}
        BY <1>1, <2>1 DEF UsedOnce
      <3>2. S = {1}
        BY <1>2, <2>1
      <3>3. Cardinality(C) = 0 /\ Cardinality(S) = 1
        BY <3>1, <3>2, FS_EmptySet, FS_Singleton
      <3> QED BY <3>3 DEF InRound
    <2>2. CASE ~ \E k \in DOMAIN submissions[j] : submissions[j][k].number = g
      <3>1. PICK i \in DOMAIN checkpoints[j] : g \in InRound(j, i)
        BY <1>1, <2>2 DEF UsedOnce
      <3>2. C = {i}
        BY <1>1, <3>1 DEF UsedOnce
      <3>3. S = {}
        BY <2>2
      <3>4. Cardinality(C) = 1 /\ Cardinality(S) = 0
        BY <3>2, <3>3, FS_EmptySet, FS_Singleton
      <3> QED BY <3>4 DEF InRound
    <2> QED BY <2>1, <2>2
  <1> QED BY <1>1, <1>3 DEF RoundsAreWhole

LEMMA Multiplied == ASSUME NEW x \in Nat PROVE x <= Outlier * x
  <1>1. PICK k \in Nat : Outlier = k + 1
    <2>1. Outlier - 1 \in Nat /\ Outlier = (Outlier - 1) + 1
      BY GradientNats
    <2> QED BY <2>1
  <1>2. (k + 1) * x = k * x + x /\ k * x \in Nat
    OBVIOUS
  <1> QED BY <1>1, <1>2

(* Of one or two gradients none exceeds the upper median.                       *)
LEMMA FewHaveNoOutlier ==
  ASSUME NEW pending \in Seq(Gradient), Len(pending) \in 1..2
  PROVE  WithinThreshold(pending) = DOMAIN pending
  <1> DEFINE N(i) == pending[i].norm
             Low(x) == {i \in DOMAIN pending : N(i) < x}
             High(x) == {i \in DOMAIN pending : N(i) <= x}
             half == Len(pending) \div 2
             Middle(x) == Cardinality(Low(x)) <= half /\ Cardinality(High(x)) > half
             X == {N(i) : i \in DOMAIN pending}
  <1>1. DOMAIN pending = 1..Len(pending) /\ \A i \in DOMAIN pending : N(i) \in Nat
    BY GradientsTyped
  <1>2. \A x : Low(x) \subseteq DOMAIN pending /\ High(x) \subseteq DOMAIN pending
    OBVIOUS
  <1>3. IsFiniteSet(DOMAIN pending) /\ Cardinality(DOMAIN pending) = Len(pending)
    BY <1>1, FS_Interval
  <1>4. \E x \in X : Middle(x)
    <2>1. CASE Len(pending) = 1
      <3>1. DOMAIN pending = {1} /\ half = 0
        BY <1>1, <2>1
      <3>2. Low(N(1)) = {} /\ High(N(1)) = {1}
        BY <1>1, <3>1
      <3>3. Cardinality(Low(N(1))) = 0 /\ Cardinality(High(N(1))) = 1
        BY <3>2, FS_EmptySet, FS_Singleton
      <3>4. Middle(N(1)) /\ N(1) \in X
        BY <3>1, <3>3
      <3> QED BY <3>4
    <2>2. CASE Len(pending) = 2
      <3>1. DOMAIN pending = {1, 2} /\ half = 1
        BY <1>1, <2>2
      <3>2. PICK k \in {1, 2} : N(1) <= N(k) /\ N(2) <= N(k)
        <4>1. N(1) \in Nat /\ N(2) \in Nat
          BY <1>1, <3>1
        <4> QED BY <4>1
      <3>3. High(N(k)) = DOMAIN pending /\ (Low(N(k)) = {} \/ Low(N(k)) = {3 - k})
        <4>1. High(N(k)) = DOMAIN pending
          BY <3>1, <3>2
        <4>2. k \notin Low(N(k))
          BY <1>1, <3>1
        <4>3. Low(N(k)) \subseteq {3 - k}
          BY <3>1, <4>2
        <4> QED BY <4>1, <4>3
      <3>4. Cardinality(High(N(k))) = 2 /\ Cardinality(Low(N(k))) <= 1
        <4>1. Cardinality({3 - k}) = 1 /\ Cardinality({}) = 0
          BY FS_EmptySet, FS_Singleton
        <4>2. Cardinality(High(N(k))) = 2
          BY <1>3, <2>2, <3>3
        <4>3. CASE Low(N(k)) = {}
          <5> HIDE DEF Low
          <5>1. Cardinality(Low(N(k))) = 0
            BY <4>1, <4>3
          <5> QED BY <4>2, <5>1
        <4>4. CASE Low(N(k)) = {3 - k}
          <5> HIDE DEF Low
          <5>1. Cardinality(Low(N(k))) = 1
            BY <4>1, <4>4
          <5> QED BY <4>2, <5>1
        <4> QED BY <3>3, <4>3, <4>4
      <3>5. N(k) \in X
        BY <3>1
      <3>6. Middle(N(k))
        <4> HIDE DEF Low, High, half, N
        <4> QED BY <3>1, <3>4
      <3> HIDE DEF Middle, X
      <3> QED BY <3>5, <3>6
    <2>3. Len(pending) = 1 \/ Len(pending) = 2
      OBVIOUS
    <2> HIDE DEF X, Middle
    <2> QED BY <2>1, <2>2, <2>3
  <1>5. Median(pending) \in X /\ Middle(Median(pending))
    <2>1. Median(pending) = CHOOSE x \in X : Middle(x)
      BY DEF Median
    <2> HIDE DEF X, Middle
    <2> QED BY <1>4, <2>1
  <1>6. PICK x \in Nat : x = Median(pending)
    BY <1>1, <1>5
  <1>7. High(x) = DOMAIN pending
    <2>1. Cardinality(High(x)) > half /\ IsFiniteSet(High(x)) /\ Cardinality(High(x)) <= Cardinality(DOMAIN pending)
          /\ (Cardinality(High(x)) = Cardinality(DOMAIN pending) => High(x) = DOMAIN pending)
      BY <1>2, <1>3, <1>5, <1>6, FS_Subset
    <2>2. Cardinality(High(x)) \in Nat
      BY <2>1, FS_CardinalityType
    <2> HIDE DEF High
    <2>3. Cardinality(High(x)) = Cardinality(DOMAIN pending)
      BY <1>3, <2>1, <2>2
    <2> QED BY <2>1, <2>3
  <1>8. Threshold(pending) = Outlier * x /\ x <= Outlier * x /\ Outlier * x \in Nat
    BY <1>6, Multiplied, GradientNats DEF Threshold
  <1>9. ASSUME NEW i \in DOMAIN pending PROVE N(i) <= Threshold(pending)
    <2>1. N(i) <= x /\ N(i) \in Nat
      BY <1>1, <1>7
    <2>2. PICK y \in Nat : y = Threshold(pending) /\ x <= y
      BY <1>8
    <2> QED BY <2>1, <2>2
  <1> QED BY <1>9 DEF WithinThreshold

(* An accepted gradient waits, or ends the round of its job.                    *)
LEMMA AcceptedIsUsed ==
  ASSUME GradientInv, NEW j \in TrainJobs, NEW n \in Trainers, NEW norm \in Norms, SubmitGradient(j, n, norm, TRUE)
  PROVE  GradientInv'
  <1> DEFINE e == [number |-> sentGradients + 1, node |-> n, norm |-> norm]
             pending == Append(submissions[j], e)
  <1>1. /\ sentGradients < MaxGradients /\ sentGradients' = sentGradients + 1 /\ trainPeers' = trainPeers
        /\ accepted' = [accepted EXCEPT ![j] = @ \cup {sentGradients + 1}] /\ Aggregate(j, pending)
    BY DEF SubmitGradient
  <1>2. /\ submissions \in [TrainJobs -> Seq(Gradient)] /\ checkpoints \in [TrainJobs -> Seq(Round)]
        /\ roundCounter \in [TrainJobs -> Nat] /\ accepted \in [TrainJobs -> SUBSET (1..MaxGradients)]
        /\ sentGradients \in 0..MaxGradients /\ trainPeers \subseteq Trainers /\ MaxGradients \in Nat
    BY GradientNats DEF GradientInv, GradientTypeOK
  <1>3. sentGradients + 1 \in 1..MaxGradients /\ sentGradients \in Nat
    BY <1>1, <1>2
  <1>4. accepted' \in [TrainJobs -> SUBSET (1..MaxGradients)] /\ sentGradients' \in 0..MaxGradients
    BY <1>1, <1>2, <1>3
  <1>5. e \in Gradient /\ e.number = sentGradients + 1
    BY <1>3 DEF Gradient
  <1>6. PICK old \in Seq(Gradient) : old = submissions[j]
    BY <1>2
  <1>7. PICK rounds \in Seq(Round) : rounds = checkpoints[j]
    BY <1>2
  <1>8. /\ Len(old) < MinSubmissions /\ Len(rounds) = roundCounter[j] /\ Len(rounds) \in Nat /\ DOMAIN rounds = 1..Len(rounds)
        /\ Len(old) \in Nat /\ DOMAIN old = 1..Len(old)
    BY <1>6, <1>7 DEF GradientInv, JobIsKept, RoundsAreWhole
  <1>9. JobIsKept(j)
    BY DEF GradientInv
  <1> HIDE DEF e
  <1>10. /\ pending \in Seq(Gradient) /\ Len(pending) = Len(old) + 1 /\ DOMAIN pending = 1..(Len(old) + 1)
         /\ \A i \in DOMAIN old : pending[i] = old[i]
         /\ pending[Len(old) + 1] = e
    BY <1>5, <1>6, <1>8
  <1>11. Len(pending) \in 1..2
    BY <1>8, <1>10, GradientNats
  <1> HIDE DEF pending
  <1>12. ASSUME submissions' \in [TrainJobs -> Seq(Gradient)], checkpoints' \in [TrainJobs -> Seq(Round)], roundCounter' \in [TrainJobs -> Nat],
                \A k \in TrainJobs \ {j} : UNCHANGED <<submissions[k], checkpoints[k], roundCounter[k]>>, JobIsKept(j)'
         PROVE  GradientInv'
    <2>1. GradientTypeOK'
      BY <1>1, <1>2, <1>4, <1>12 DEF GradientTypeOK
    <2>2. ASSUME NEW k \in TrainJobs \ {j} PROVE JobIsKept(k)'
      <3>1. JobIsKept(k) /\ UNCHANGED <<submissions[k], checkpoints[k], roundCounter[k], accepted[k]>>
        BY <1>1, <1>2, <1>12 DEF GradientInv
      <3>2. \A i : InRound(k, i)' = InRound(k, i)
        BY <3>1 DEF InRound
      <3>3. NumbersAreOld(k)'
        <4>1. submissions[k] \in Seq(Gradient) /\ checkpoints[k] \in Seq(Round)
          BY <1>2
        <4>2. \A i \in DOMAIN submissions[k] : submissions[k][i].number \in Nat
          BY <4>1, GradientsTyped
        <4>3. \A i \in DOMAIN checkpoints[k] : \A g \in InRound(k, i) : g \in Nat
          BY <4>1, RoundsTyped DEF InRound
        <4> QED BY <1>1, <1>3, <3>1, <3>2, <4>2, <4>3 DEF JobIsKept, NumbersAreOld
      <3>4. UsedOnce(k)'
        BY <3>1, <3>2 DEF JobIsKept, UsedOnce
      <3>5. RoundsAreWhole(k)'
        BY <3>1 DEF JobIsKept, RoundsAreWhole
      <3> QED BY <3>3, <3>4, <3>5 DEF JobIsKept
    <2>3. \A k \in TrainJobs : JobIsKept(k)'
      BY <1>12, <2>2
    <2> QED BY <2>1, <2>3 DEF GradientInv
  <1>13. \A i \in DOMAIN old : old[i].number \in Nat /\ old[i].number <= sentGradients
    BY <1>6, <1>9, GradientsTyped DEF JobIsKept, NumbersAreOld
  <1>14. \A i \in DOMAIN rounds : \A g \in rounds[i].in \cup rounds[i].out : g \in Nat /\ g <= sentGradients
    BY <1>7, <1>9, RoundsTyped DEF JobIsKept, NumbersAreOld, InRound
  <1>15. CASE Len(pending) < MinSubmissions
    <2>1. submissions' = [submissions EXCEPT ![j] = pending] /\ UNCHANGED <<checkpoints, roundCounter>>
      BY <1>1, <1>15 DEF Aggregate
    <2>2. /\ submissions' \in [TrainJobs -> Seq(Gradient)] /\ submissions'[j] = pending
          /\ \A k \in TrainJobs \ {j} : submissions'[k] = submissions[k]
      BY <1>2, <1>10, <2>1
    <2>3. JobIsKept(j)'
      <3>1. checkpoints'[j] = rounds /\ (\A i : InRound(j, i)' = InRound(j, i)) /\ \A i : InRound(j, i) = rounds[i].in \cup rounds[i].out
        BY <1>7, <2>1 DEF InRound
      <3>2. \A i \in DOMAIN pending : (i \in DOMAIN old /\ pending[i] = old[i]) \/ pending[i] = e
        BY <1>8, <1>10
      <3>3. NumbersAreOld(j)'
        <4>1. \A i \in DOMAIN pending : pending[i].number <= sentGradients + 1
          BY <1>3, <1>5, <1>13, <3>2
        <4>2. \A i \in DOMAIN rounds : \A g \in rounds[i].in \cup rounds[i].out : g <= sentGradients + 1
          BY <1>3, <1>14
        <4> QED BY <1>1, <2>2, <3>1, <4>1, <4>2 DEF NumbersAreOld
      <3>4. UsedOnce(j)'
        <4>1. \A i \in DOMAIN rounds, k \in DOMAIN pending : pending[k].number \notin rounds[i].in \cup rounds[i].out
          <5>1. \A i \in DOMAIN rounds : sentGradients + 1 \notin rounds[i].in \cup rounds[i].out
            BY <1>3, <1>14
          <5>2. \A i \in DOMAIN rounds, k \in DOMAIN old : old[k].number \notin rounds[i].in \cup rounds[i].out
            BY <1>6, <1>7, <1>9 DEF JobIsKept, UsedOnce, InRound
          <5> QED BY <1>5, <3>2, <5>1, <5>2
        <4>2. accepted'[j] = accepted[j] \cup {sentGradients + 1}
          BY <1>1, <1>2
        <4>3. \A g \in accepted'[j] : \/ \E k \in DOMAIN pending : pending[k].number = g
                                      \/ \E i \in DOMAIN rounds : g \in rounds[i].in \cup rounds[i].out
          <5>1. Len(old) + 1 \in DOMAIN pending /\ \A k \in DOMAIN old : k \in DOMAIN pending
            BY <1>8, <1>10
          <5>2. \A g \in accepted[j] : \/ \E k \in DOMAIN old : old[k].number = g
                                       \/ \E i \in DOMAIN rounds : g \in rounds[i].in \cup rounds[i].out
            BY <1>6, <1>7, <1>9 DEF JobIsKept, UsedOnce, InRound
          <5> QED BY <1>5, <1>10, <4>2, <5>1, <5>2
        <4>4. \A i, k \in DOMAIN rounds : (rounds[i].in \cup rounds[i].out) \cap (rounds[k].in \cup rounds[k].out) # {} => i = k
          BY <1>7, <1>9 DEF JobIsKept, UsedOnce, InRound
        <4>5. submissions'[j] = pending /\ checkpoints'[j] = rounds
          BY <2>2, <3>1
        <4>6. /\ \A i, k \in DOMAIN checkpoints'[j] : InRound(j, i)' \cap InRound(j, k)' # {} => i = k
              /\ \A i \in DOMAIN checkpoints'[j], k \in DOMAIN submissions'[j] : submissions'[j][k].number \notin InRound(j, i)'
              /\ \A g \in accepted'[j] : \/ \E k \in DOMAIN submissions'[j] : submissions'[j][k].number = g
                                         \/ \E i \in DOMAIN checkpoints'[j] : g \in InRound(j, i)'
          BY <3>1, <4>1, <4>3, <4>4, <4>5
        <4> QED BY <4>6 DEF UsedOnce
      <3>5. RoundsAreWhole(j)'
        BY <1>7, <1>9, <1>15, <2>1, <2>2 DEF JobIsKept, RoundsAreWhole
      <3> QED BY <3>3, <3>4, <3>5 DEF JobIsKept
    <2> QED BY <1>2, <1>12, <2>1, <2>2, <2>3
  <1>16. CASE ~(Len(pending) < MinSubmissions)
    <2> DEFINE numbers == NumbersOf(pending, DOMAIN pending)
               r == [round |-> Len(rounds) + 1, in |-> numbers, out |-> {}]
               after == Append(rounds, r)
    <2>1. WithinThreshold(pending) = DOMAIN pending /\ DOMAIN pending # {}
      <3>1. 1 \in DOMAIN pending
        BY <1>8, <1>10
      <3> QED BY <1>10, <1>11, <3>1, FewHaveNoOutlier
    <2>2. NumbersOf(pending, {}) = {}
      BY DEF NumbersOf
    <2>3. /\ submissions' = [submissions EXCEPT ![j] = << >>]
          /\ roundCounter' = [roundCounter EXCEPT ![j] = @ + 1]
          /\ checkpoints' = [checkpoints EXCEPT ![j] = after]
      <3>1. DOMAIN pending \ WithinThreshold(pending) = {}
        BY <2>1
      <3> QED BY <1>1, <1>2, <1>7, <1>8, <1>16, <2>1, <2>2, <3>1 DEF Aggregate, AfterRound
    <2>4. \A g : g \in numbers <=> \E i \in DOMAIN pending : g = pending[i].number
      BY DEF NumbersOf
    <2>5. numbers # {} /\ numbers \subseteq 1..MaxGradients
      <3>1. \A i \in DOMAIN pending : pending[i].number \in 1..MaxGradients
        BY <1>10, GradientsTyped
      <3> QED BY <2>1, <2>4, <3>1
    <2> HIDE DEF numbers
    <2>6. r \in Round
      BY <1>8, <2>5 DEF Round
    <2>7. r.round = Len(rounds) + 1 /\ r.in = numbers /\ r.out = {}
      OBVIOUS
    <2> HIDE DEF r
    <2>8. /\ after \in Seq(Round) /\ Len(after) = Len(rounds) + 1 /\ DOMAIN after = 1..(Len(rounds) + 1)
          /\ \A i \in DOMAIN rounds : after[i] = rounds[i]
          /\ after[Len(rounds) + 1] = r
      BY <1>8, <2>6
    <2> HIDE DEF after
    <2>9. /\ submissions' \in [TrainJobs -> Seq(Gradient)] /\ submissions'[j] = << >>
          /\ checkpoints' \in [TrainJobs -> Seq(Round)] /\ checkpoints'[j] = after
          /\ roundCounter' \in [TrainJobs -> Nat] /\ roundCounter'[j] = Len(rounds) + 1
          /\ \A k \in TrainJobs \ {j} : UNCHANGED <<submissions[k], checkpoints[k], roundCounter[k]>>
      <3>1. submissions' \in [TrainJobs -> Seq(Gradient)] /\ submissions'[j] = << >> /\ \A k \in TrainJobs \ {j} : submissions'[k] = submissions[k]
        BY <1>2, <2>3
      <3>2. checkpoints' \in [TrainJobs -> Seq(Round)] /\ checkpoints'[j] = after /\ \A k \in TrainJobs \ {j} : checkpoints'[k] = checkpoints[k]
        BY <1>2, <2>3, <2>8
      <3>3. roundCounter' \in [TrainJobs -> Nat] /\ roundCounter'[j] = Len(rounds) + 1 /\ \A k \in TrainJobs \ {j} : roundCounter'[k] = roundCounter[k]
        BY <1>2, <1>8, <2>3
      <3> QED BY <3>1, <3>2, <3>3
    <2>10. \A i \in DOMAIN after : (i \in DOMAIN rounds /\ after[i] = rounds[i]) \/ (i = Len(rounds) + 1 /\ after[i] = r)
      BY <1>8, <2>8
    <2>11. \A i : InRound(j, i)' = after[i].in \cup after[i].out
      BY <2>9 DEF InRound
    <2>12. DOMAIN submissions'[j] = {} /\ Len(submissions'[j]) = 0
      BY <2>9
    <2>13. \A i \in DOMAIN pending : (i \in DOMAIN old /\ pending[i] = old[i]) \/ pending[i] = e
      BY <1>8, <1>10
    <2>14. \A g \in numbers : g \in Nat /\ g <= sentGradients + 1
      BY <1>3, <1>5, <1>13, <2>4, <2>13
    <2>15. NumbersAreOld(j)'
      <3>1. \A i \in DOMAIN after : \A g \in after[i].in \cup after[i].out : g <= sentGradients + 1
        BY <1>3, <1>14, <2>7, <2>10, <2>14
      <3> QED BY <1>1, <2>9, <2>11, <2>12, <3>1 DEF NumbersAreOld
    <2>16. UsedOnce(j)'
      <3>1. \A i \in DOMAIN rounds : numbers \cap (rounds[i].in \cup rounds[i].out) = {}
        <4>1. \A i \in DOMAIN rounds : sentGradients + 1 \notin rounds[i].in \cup rounds[i].out
          BY <1>3, <1>14
        <4>2. \A i \in DOMAIN rounds, k \in DOMAIN old : old[k].number \notin rounds[i].in \cup rounds[i].out
          BY <1>6, <1>7, <1>9 DEF JobIsKept, UsedOnce, InRound
        <4> QED BY <1>5, <2>4, <2>13, <4>1, <4>2
      <3>2. \A i, k \in DOMAIN rounds : (rounds[i].in \cup rounds[i].out) \cap (rounds[k].in \cup rounds[k].out) # {} => i = k
        BY <1>7, <1>9 DEF JobIsKept, UsedOnce, InRound
      <3>3. \A i, k \in DOMAIN after : (after[i].in \cup after[i].out) \cap (after[k].in \cup after[k].out) # {} => i = k
        BY <2>7, <2>10, <3>1, <3>2
      <3>4. \A g \in accepted'[j] : \E i \in DOMAIN after : g \in after[i].in \cup after[i].out
        <4>1. accepted'[j] = accepted[j] \cup {sentGradients + 1}
          BY <1>1, <1>2
        <4>2. Len(old) + 1 \in DOMAIN pending /\ (\A k \in DOMAIN old : k \in DOMAIN pending)
              /\ Len(rounds) + 1 \in DOMAIN after /\ \A i \in DOMAIN rounds : i \in DOMAIN after
          BY <1>8, <1>10, <2>8
        <4>3. numbers \subseteq after[Len(rounds) + 1].in \cup after[Len(rounds) + 1].out
          BY <2>7, <2>8
        <4>4. sentGradients + 1 \in numbers
          BY <1>5, <1>10, <2>4, <4>2
        <4>5. \A k \in DOMAIN old : old[k].number \in numbers
          BY <1>10, <2>4, <4>2
        <4>6. \A g \in accepted[j] : \/ \E k \in DOMAIN old : old[k].number = g
                                     \/ \E i \in DOMAIN rounds : g \in rounds[i].in \cup rounds[i].out
          BY <1>6, <1>7, <1>9 DEF JobIsKept, UsedOnce, InRound
        <4> QED BY <2>8, <4>1, <4>2, <4>3, <4>4, <4>5, <4>6, ZenonT(60)
      <3>5. checkpoints'[j] = after /\ DOMAIN submissions'[j] = {}
        BY <2>9, <2>12
      <3>6. /\ \A i, k \in DOMAIN checkpoints'[j] : InRound(j, i)' \cap InRound(j, k)' # {} => i = k
            /\ \A i \in DOMAIN checkpoints'[j], k \in DOMAIN submissions'[j] : submissions'[j][k].number \notin InRound(j, i)'
            /\ \A g \in accepted'[j] : \E i \in DOMAIN checkpoints'[j] : g \in InRound(j, i)'
        BY <2>11, <3>3, <3>4, <3>5
      <3> QED BY <3>6 DEF UsedOnce
    <2>17. RoundsAreWhole(j)'
      <3>1. \A i \in DOMAIN rounds : rounds[i].round = i /\ rounds[i].in # {} /\ rounds[i].out = {}
        BY <1>7, <1>9 DEF JobIsKept, RoundsAreWhole
      <3>2. \A i \in DOMAIN after : after[i].round = i /\ after[i].in # {} /\ after[i].out = {}
        BY <2>5, <2>7, <2>10, <3>1
      <3>3. roundCounter'[j] = Len(checkpoints'[j])
        BY <2>8, <2>9
      <3>4. Len(submissions'[j]) < MinSubmissions
        BY <2>12, GradientNats
      <3>5. \A i \in DOMAIN checkpoints'[j] : checkpoints'[j][i].round = i /\ checkpoints'[j][i].in # {} /\ checkpoints'[j][i].out = {}
        BY <2>9, <3>2
      <3> QED BY <3>3, <3>4, <3>5 DEF RoundsAreWhole
    <2> QED BY <1>12, <2>9, <2>15, <2>16, <2>17 DEF JobIsKept
  <1> QED BY <1>15, <1>16

LEMMA RefusedIsNothing ==
  ASSUME GradientInv, UNCHANGED <<submissions, checkpoints, roundCounter, accepted>>,
         trainPeers' \subseteq Trainers, sentGradients' \in {sentGradients, sentGradients + 1}, sentGradients' \in 0..MaxGradients
  PROVE  GradientInv'
  <1>1. GradientTypeOK'
    BY DEF GradientInv, GradientTypeOK
  <1>2. ASSUME NEW j \in TrainJobs PROVE JobIsKept(j)'
    <2>1. JobIsKept(j) /\ submissions[j] \in Seq(Gradient) /\ checkpoints[j] \in Seq(Round) /\ sentGradients \in Nat /\ sentGradients' \in Nat
          /\ sentGradients <= sentGradients' /\ MaxGradients \in Nat
      BY GradientNats DEF GradientInv, GradientTypeOK
    <2>2. \A i : InRound(j, i)' = InRound(j, i)
      BY DEF InRound
    <2>3. NumbersAreOld(j)'
      <3>1. \A i \in DOMAIN submissions[j] : submissions[j][i].number \in Nat
        BY <2>1, GradientsTyped
      <3>2. \A i \in DOMAIN checkpoints[j] : \A g \in InRound(j, i) : g \in Nat
        BY <2>1, RoundsTyped DEF InRound
      <3> QED BY <2>1, <2>2, <3>1, <3>2 DEF JobIsKept, NumbersAreOld
    <2>4. UsedOnce(j)' /\ RoundsAreWhole(j)'
      <3>1. UsedOnce(j) /\ RoundsAreWhole(j)
        BY <2>1 DEF JobIsKept
      <3>2. /\ \A i, k \in DOMAIN checkpoints'[j] : InRound(j, i)' \cap InRound(j, k)' # {} => i = k
            /\ \A i \in DOMAIN checkpoints'[j], k \in DOMAIN submissions'[j] : submissions'[j][k].number \notin InRound(j, i)'
            /\ \A g \in accepted'[j] : \/ \E k \in DOMAIN submissions'[j] : submissions'[j][k].number = g
                                       \/ \E i \in DOMAIN checkpoints'[j] : g \in InRound(j, i)'
        BY <2>2, <3>1 DEF UsedOnce
      <3>3. /\ \A i \in DOMAIN checkpoints'[j] : checkpoints'[j][i].round = i /\ checkpoints'[j][i].in # {} /\ checkpoints'[j][i].out = {}
            /\ roundCounter'[j] = Len(checkpoints'[j])
            /\ Len(submissions'[j]) < MinSubmissions
        BY <3>1 DEF RoundsAreWhole
      <3> QED BY <3>2, <3>3 DEF UsedOnce, RoundsAreWhole
    <2> QED BY <2>3, <2>4 DEF JobIsKept
  <1> QED BY <1>1, <1>2 DEF GradientInv

LEMMA GradientKept == GradientInv /\ [GradientNext]_gradientVars => GradientInv'
  <1> SUFFICES ASSUME GradientInv, [GradientNext]_gradientVars PROVE GradientInv'
    OBVIOUS
  <1>0. trainPeers \subseteq Trainers /\ sentGradients \in 0..MaxGradients /\ MaxGradients \in Nat
    BY GradientNats DEF GradientInv, GradientTypeOK
  <1>1. ASSUME NEW n \in Trainers, RegisterTrainer(n) PROVE GradientInv'
    BY <1>0, <1>1, RefusedIsNothing DEF RegisterTrainer
  <1>2. ASSUME NEW j \in TrainJobs, NEW n \in Trainers, NEW norm \in Norms, NEW good \in BOOLEAN, SubmitGradient(j, n, norm, good) PROVE GradientInv'
    <2>1. CASE good
      <3>1. SubmitGradient(j, n, norm, TRUE)
        BY <1>2, <2>1
      <3> QED BY <3>1, AcceptedIsUsed
    <2>2. CASE ~good
      BY <1>0, <1>2, <2>2, RefusedIsNothing DEF SubmitGradient
    <2> QED BY <2>1, <2>2
  <1>3. CASE UNCHANGED gradientVars
    BY <1>0, <1>3, RefusedIsNothing DEF gradientVars
  <1> QED BY <1>1, <1>2, <1>3 DEF GradientNext

-----------------------------------------------------------------------------
(* The peers of a sovereign node (SovereignPeers).  A table names nobody twice, *)
(* and not the node itself; a file, unless nothing was saved yet, has all the   *)
(* bootstrap peers; what a tick has still to pull from is listed.               *)
Strangers(t) == {i \in DOMAIN t : t[i].source # "bootstrap"}
TableIsSound(n, t) ==
    /\ t \in Seq(PeerRecord)
    /\ \A i, j \in DOMAIN t : t[i].url = t[j].url => i = j
    /\ n \notin Urls(t)
    /\ Cardinality(Strangers(t)) <= MaxPeers
BootIsListed(n, t) == \A i \in DOMAIN BootstrapPeers[n] :
                         \E j \in DOMAIN t : t[j].url = BootstrapPeers[n][i] /\ t[j].source = "bootstrap"
PullsAreListed(s, t) == /\ \A i, j \in DOMAIN s : s[i] = s[j] => i = j
                        /\ \A i \in DOMAIN s : s[i] \in Urls(t)
NodeIsSound(n, table, onDisk, pulls, up) ==
    /\ TableIsSound(n, table) /\ TableIsSound(n, onDisk)
    /\ IF up THEN BootIsListed(n, table) ELSE pulls = << >>
    /\ onDisk = << >> \/ BootIsListed(n, onDisk)
    /\ pulls \in Seq(SovereignNodes) /\ PullsAreListed(pulls, table)

SovereignPeersInv ==
    /\ peerTable \in [SovereignNodes -> Seq(PeerRecord)] /\ savedPeers \in [SovereignNodes -> Seq(PeerRecord)]
    /\ pulling \in [SovereignNodes -> Seq(SovereignNodes)] /\ here \subseteq SovereignNodes
    /\ \A n \in SovereignNodes : NodeIsSound(n, peerTable[n], savedPeers[n], pulling[n], n \in here)

(* A table that has more entries behind those of another.                       *)
TableGrows(t, u) == u \in Seq(PeerRecord) /\ Len(t) <= Len(u) /\ \A i \in DOMAIN t : i \in DOMAIN u /\ u[i] = t[i]
(* A table whose entries differ in their failures only.                         *)
SameEntries(t, u) == /\ u \in Seq(PeerRecord) /\ DOMAIN u = DOMAIN t
                     /\ \A i \in DOMAIN t : u[i].url = t[i].url /\ u[i].source = t[i].source

LEMMA PeerNats == MaxPeers \in Nat \ {0} /\ PullLimit \in Nat \ {0} /\ FailureDrop \in Nat \ {0}
  BY SovereignPeersAssumption DEF SovereignPeersAssumption

LEMMA BootstrapsOf == ASSUME NEW n \in SovereignNodes
  PROVE  /\ BootstrapPeers[n] \in Seq(SovereignNodes)
         /\ \A i \in DOMAIN BootstrapPeers[n] : BootstrapPeers[n][i] \in SovereignNodes /\ BootstrapPeers[n][i] # n
  <1>1. PICK s : s = BootstrapPeers[n]
    OBVIOUS
  <1>2. s \in Seq(SovereignNodes \ {n})
    BY <1>1, SovereignPeersAssumption DEF SovereignPeersAssumption
  <1>3. s \in Seq(SovereignNodes) /\ \A i \in DOMAIN s : s[i] \in SovereignNodes /\ s[i] # n
    BY <1>2
  <1> QED BY <1>1, <1>3

LEMMA TableTyped == ASSUME NEW t \in Seq(PeerRecord)
  PROVE  /\ Len(t) \in Nat /\ DOMAIN t = 1..Len(t)
         /\ \A i \in DOMAIN t : t[i] \in PeerRecord /\ t[i].url \in SovereignNodes /\ t[i].failures \in 0..FailureDrop
         /\ IsFiniteSet(Strangers(t)) /\ Cardinality(Strangers(t)) \in Nat /\ Cardinality(Strangers(t)) <= Len(t)
         /\ Urls(t) \subseteq SovereignNodes
  <1>1. Len(t) \in Nat /\ DOMAIN t = 1..Len(t) /\ \A i \in DOMAIN t : t[i] \in PeerRecord
    OBVIOUS
  <1>2. \A r \in PeerRecord : r.url \in SovereignNodes /\ r.failures \in 0..FailureDrop
    BY DEF PeerRecord
  <1>3. IsFiniteSet(DOMAIN t) /\ Cardinality(DOMAIN t) = Len(t)
    BY <1>1, FS_Interval
  <1>4. Strangers(t) \subseteq DOMAIN t
    BY DEF Strangers
  <1>5. IsFiniteSet(Strangers(t)) /\ Cardinality(Strangers(t)) <= Len(t)
    BY <1>3, <1>4, FS_Subset
  <1>6. Cardinality(Strangers(t)) \in Nat
    BY <1>5, FS_CardinalityType
  <1>7. Urls(t) \subseteq SovereignNodes
    BY <1>1, <1>2 DEF Urls
  <1> QED BY <1>1, <1>2, <1>5, <1>6, <1>7

LEMMA NobodyIsSound == ASSUME NEW n
  PROVE  TableIsSound(n, << >>) /\ PullsAreListed(<< >>, << >>) /\ Urls(<< >>) = {}
  <1> DEFINE e == << >>
  <1>1. e \in Seq(PeerRecord) /\ DOMAIN e = {}
    OBVIOUS
  <1> HIDE DEF e
  <1>2. Strangers(e) = {} /\ Urls(e) = {}
    BY <1>1 DEF Strangers, Urls
  <1>3. Cardinality(Strangers(e)) <= MaxPeers
    BY <1>2, FS_EmptySet, PeerNats
  <1>4. TableIsSound(n, e) /\ PullsAreListed(e, e)
    BY <1>1, <1>2, <1>3 DEF TableIsSound, PullsAreListed
  <1> QED BY <1>2, <1>4 DEF e

LEMMA GrownIsListed ==
  ASSUME NEW n, NEW t, NEW u, TableGrows(t, u), NEW s
  PROVE  /\ BootIsListed(n, t) => BootIsListed(n, u)
         /\ PullsAreListed(s, t) => PullsAreListed(s, u)
         /\ Urls(t) \subseteq Urls(u)
  <1>1. Urls(t) \subseteq Urls(u)
    BY DEF TableGrows, Urls
  <1>2. BootIsListed(n, t) => BootIsListed(n, u)
    BY DEF TableGrows, BootIsListed
  <1> QED BY <1>1, <1>2 DEF PullsAreListed

LEMMA SameIsSound ==
  ASSUME NEW n, NEW t \in Seq(PeerRecord), NEW u, SameEntries(t, u), NEW s
  PROVE  /\ Urls(u) = Urls(t)
         /\ TableIsSound(n, t) => TableIsSound(n, u)
         /\ BootIsListed(n, t) => BootIsListed(n, u)
         /\ PullsAreListed(s, t) => PullsAreListed(s, u)
  <1>1. Urls(u) = Urls(t) /\ Strangers(u) = Strangers(t)
    BY DEF SameEntries, Urls, Strangers
  <1>2. TableIsSound(n, t) => TableIsSound(n, u)
    BY <1>1 DEF SameEntries, TableIsSound
  <1>3. BootIsListed(n, t) => BootIsListed(n, u)
    BY DEF SameEntries, BootIsListed
  <1> QED BY <1>1, <1>2, <1>3 DEF PullsAreListed

LEMMA FailuresOnly ==
  ASSUME NEW t \in Seq(PeerRecord), NEW urls
  PROVE  SameEntries(t, Reached(t, urls)) /\ SameEntries(t, Missed(t, urls))
  <1>1. Len(t) \in Nat /\ DOMAIN t = 1..Len(t) /\ \A i \in DOMAIN t : t[i] \in PeerRecord
    BY TableTyped
  <1>2. ASSUME NEW r \in PeerRecord
        PROVE  /\ [r EXCEPT !.failures = 0] \in PeerRecord /\ [r EXCEPT !.failures = 0].url = r.url /\ [r EXCEPT !.failures = 0].source = r.source
               /\ r.failures < FailureDrop => [r EXCEPT !.failures = r.failures + 1] \in PeerRecord
               /\ [r EXCEPT !.failures = r.failures + 1].url = r.url /\ [r EXCEPT !.failures = r.failures + 1].source = r.source
    <2>1. 0 \in 0..FailureDrop /\ r.failures \in 0..FailureDrop
      BY PeerNats DEF PeerRecord
    <2>2. r.failures < FailureDrop => r.failures + 1 \in 0..FailureDrop
      BY <2>1, PeerNats
    <2> QED BY <2>1, <2>2 DEF PeerRecord
  <1>3. ASSUME NEW i \in DOMAIN t
        PROVE  Reached(t, urls)[i] \in PeerRecord /\ Reached(t, urls)[i].url = t[i].url /\ Reached(t, urls)[i].source = t[i].source
    <2>1. Reached(t, urls)[i] = IF t[i].url \in urls THEN [t[i] EXCEPT !.failures = 0] ELSE t[i]
      BY DEF Reached
    <2> QED BY <1>1, <1>2, <2>1
  <1>4. ASSUME NEW i \in DOMAIN t
        PROVE  Missed(t, urls)[i] \in PeerRecord /\ Missed(t, urls)[i].url = t[i].url /\ Missed(t, urls)[i].source = t[i].source
    <2>1. Missed(t, urls)[i] = IF t[i].url \in urls /\ t[i].failures < FailureDrop THEN [t[i] EXCEPT !.failures = t[i].failures + 1] ELSE t[i]
      BY DEF Missed
    <2> QED BY <1>1, <1>2, <2>1
  <1>5. DOMAIN Reached(t, urls) = DOMAIN t /\ DOMAIN Missed(t, urls) = DOMAIN t
    BY DEF Reached, Missed
  <1>6. Reached(t, urls) \in [1..Len(t) -> PeerRecord] /\ Missed(t, urls) \in [1..Len(t) -> PeerRecord]
    <2>1. Reached(t, urls) = [i \in 1..Len(t) |-> Reached(t, urls)[i]]
      BY <1>1 DEF Reached
    <2>2. Missed(t, urls) = [i \in 1..Len(t) |-> Missed(t, urls)[i]]
      BY <1>1 DEF Missed
    <2> QED BY <1>1, <1>3, <1>4, <2>1, <2>2
  <1>7. Reached(t, urls) \in Seq(PeerRecord) /\ Missed(t, urls) \in Seq(PeerRecord)
    BY <1>1, <1>6
  <1> QED BY <1>3, <1>4, <1>5, <1>7 DEF SameEntries

(* One peer is added.                                                           *)
LEMMA AddPeerGrows ==
  ASSUME NEW n, NEW t, TableIsSound(n, t), NEW p \in SovereignNodes, NEW source \in {"bootstrap", "gossip", "inbound"}
  PROVE  /\ TableIsSound(n, AddPeer(n, t, p, source)) /\ TableGrows(t, AddPeer(n, t, p, source))
         /\ \A i \in DOMAIN AddPeer(n, t, p, source) \ DOMAIN t : AddPeer(n, t, p, source)[i].source = source
         /\ source = "bootstrap" /\ p # n => p \in Urls(AddPeer(n, t, p, source))
  <1> DEFINE u == AddPeer(n, t, p, source)
             e == [url |-> p, source |-> source, failures |-> 0]
  <1>1. /\ t \in Seq(PeerRecord) /\ Len(t) \in Nat /\ DOMAIN t = 1..Len(t)
        /\ IsFiniteSet(Strangers(t)) /\ Cardinality(Strangers(t)) \in Nat /\ Cardinality(Strangers(t)) <= Len(t)
    BY TableTyped DEF TableIsSound
  <1>2. CASE ~Admits(n, t, p, source)
    <2>1. u = t
      BY <1>2 DEF AddPeer
    <2>2. TableGrows(t, t)
      BY <1>1 DEF TableGrows
    <2>3. source = "bootstrap" /\ p # n => p \in Urls(t)
      BY <1>2 DEF Admits
    <2> HIDE DEF u
    <2>4. TableIsSound(n, u) /\ TableGrows(t, u) /\ (\A i \in DOMAIN u \ DOMAIN t : u[i].source = source)
          /\ (source = "bootstrap" /\ p # n => p \in Urls(u))
      BY <2>1, <2>2, <2>3
    <2> QED BY <2>4 DEF u
  <1>3. CASE Admits(n, t, p, source)
    <2>1. u = Append(t, e)
      BY <1>3 DEF AddPeer
    <2>2. e \in PeerRecord /\ e.url = p /\ e.source = source
      BY PeerNats DEF PeerRecord
    <2>3. p # n /\ p \notin Urls(t) /\ (Len(t) < MaxPeers \/ source = "bootstrap")
      BY <1>3 DEF Admits
    <2> HIDE DEF u, e
    <2>4. /\ u \in Seq(PeerRecord) /\ Len(u) = Len(t) + 1 /\ DOMAIN u = 1..(Len(t) + 1)
          /\ (\A i \in DOMAIN t : i \in DOMAIN u /\ u[i] = t[i]) /\ u[Len(t) + 1] = e
      BY <1>1, <2>1, <2>2
    <2>5. \A i \in DOMAIN u : i \in DOMAIN t \/ i = Len(t) + 1
      BY <1>1, <2>4
    <2>6. Len(t) + 1 \in DOMAIN u /\ Len(t) + 1 \notin DOMAIN t
      BY <1>1, <2>4
    <2>7. Urls(u) = Urls(t) \cup {p}
      BY <2>2, <2>4, <2>5, <2>6 DEF Urls
    <2>8. \A i, j \in DOMAIN u : u[i].url = u[j].url => i = j
      <3>1. \A i \in DOMAIN t : u[i].url = t[i].url /\ u[i].url # p
        BY <2>3, <2>4 DEF Urls
      <3>2. \A i, j \in DOMAIN t : u[i].url = u[j].url => i = j
        BY <3>1 DEF TableIsSound
      <3> QED BY <2>2, <2>4, <2>5, <3>1, <3>2
    <2>9. Cardinality(Strangers(u)) <= MaxPeers
      <3>1. CASE source = "bootstrap"
        <4>1. Strangers(u) = Strangers(t)
          BY <2>2, <2>4, <2>5, <3>1 DEF Strangers
        <4> QED BY <4>1 DEF TableIsSound
      <3>2. CASE source # "bootstrap"
        <4>1. Strangers(u) = Strangers(t) \cup {Len(t) + 1}
          BY <2>2, <2>4, <2>5, <2>6, <3>2 DEF Strangers
        <4>2. Len(t) + 1 \notin Strangers(t)
          BY <2>6 DEF Strangers
        <4>3. Cardinality(Strangers(u)) = Cardinality(Strangers(t)) + 1
          BY <1>1, <4>1, <4>2, FS_AddElement
        <4>4. Len(t) < MaxPeers
          BY <2>3, <3>2
        <4> QED BY <1>1, <4>3, <4>4, PeerNats
      <3> QED BY <3>1, <3>2
    <2>10. TableIsSound(n, u)
      BY <2>3, <2>4, <2>7, <2>8, <2>9 DEF TableIsSound
    <2>11. TableGrows(t, u)
      BY <1>1, <2>4 DEF TableGrows
    <2>12. \A i \in DOMAIN u \ DOMAIN t : u[i].source = source
      BY <2>2, <2>4, <2>5
    <2> QED BY <2>7, <2>10, <2>11, <2>12 DEF u
  <1> QED BY <1>2, <1>3

(* Several are added: the tables in between.                                    *)
AddStages(f, k, n, t, urls, mentioned, source) ==
    f = [i \in 0..k |-> IF i = 0 THEN t ELSE IF urls[i] \in mentioned THEN AddPeer(n, f[i - 1], urls[i], source) ELSE f[i - 1]]

LEMMA LeastOf ==
  ASSUME NEW S, S \subseteq Nat, S # {}
  PROVE  \E n \in S : \A k \in S : n <= k
  <1> DEFINE R == OpToRel(<, Nat)
  <1>1. IsWellFoundedOn(R, Nat)
    BY NatLessThanWellFounded
  <1>2. \A j, k \in Nat : <<j, k>> \in R <=> j < k
    BY DEF OpToRel
  <1> HIDE DEF R
  <1>3. PICK n \in S : \A k \in S : ~(<<k, n>> \in R)
    BY <1>1, WFMin
  <1>4. ASSUME NEW k \in S PROVE n <= k
    <2>1. n \in Nat /\ k \in Nat /\ ~(k < n)
      BY <1>2, <1>3
    <2> QED BY <2>1
  <1> QED BY <1>4

LEMMA StagesExist ==
  ASSUME NEW n, NEW t, NEW urls, NEW mentioned, NEW source, NEW k \in Nat
  PROVE  \E f : AddStages(f, k, n, t, urls, mentioned, source)
  <1> DEFINE Bad == {j \in Nat : ~ \E f : AddStages(f, j, n, t, urls, mentioned, source)}
  <1> SUFFICES ASSUME Bad # {} PROVE FALSE
    OBVIOUS
  <1>1. PICK j \in Bad : \A i \in Bad : j <= i
    <2>1. Bad \subseteq Nat
      OBVIOUS
    <2> HIDE DEF Bad
    <2> QED BY <2>1, LeastOf
  <1>2. CASE j = 0
    <2> DEFINE f == [i \in 0..0 |-> t]
    <2>1. f = [i \in 0..0 |-> IF i = 0 THEN t ELSE IF urls[i] \in mentioned THEN AddPeer(n, f[i - 1], urls[i], source) ELSE f[i - 1]]
      OBVIOUS
    <2>2. AddStages(f, 0, n, t, urls, mentioned, source)
      BY <2>1 DEF AddStages
    <2> QED BY <1>2, <2>2
  <1>3. CASE j # 0
    <2>1. j \in Nat /\ j - 1 \in Nat /\ ~(j <= j - 1)
      BY <1>3
    <2>2. j - 1 \notin Bad
      BY <1>1, <2>1
    <2>3. PICK g : AddStages(g, j - 1, n, t, urls, mentioned, source)
      BY <2>1, <2>2
    <2> DEFINE Then(i) == IF urls[i] \in mentioned THEN AddPeer(n, g[i - 1], urls[i], source) ELSE g[i - 1]
               f == [i \in 0..j |-> IF i = 0 THEN t ELSE Then(i)]
    <2>4. \A i \in 0..(j - 1) : g[i] = IF i = 0 THEN t ELSE Then(i)
      BY <2>3 DEF AddStages
    <2>5. \A i \in 0..(j - 1) : i \in 0..j
      BY <2>1
    <2>6. \A i \in 0..(j - 1) : f[i] = g[i]
      BY <2>4, <2>5
    <2>7. \A i \in 0..j : i # 0 => i - 1 \in 0..(j - 1)
      BY <2>1
    <2>8. \A i \in 0..j : i # 0 => Then(i) = IF urls[i] \in mentioned THEN AddPeer(n, f[i - 1], urls[i], source) ELSE f[i - 1]
      BY <2>6, <2>7
    <2>9. f = [i \in 0..j |-> IF i = 0 THEN t ELSE IF urls[i] \in mentioned THEN AddPeer(n, f[i - 1], urls[i], source) ELSE f[i - 1]]
      <3>1. \A i \in 0..j : f[i] = IF i = 0 THEN t ELSE IF urls[i] \in mentioned THEN AddPeer(n, f[i - 1], urls[i], source) ELSE f[i - 1]
        BY <2>8
      <3>2. f = [i \in 0..j |-> f[i]]
        OBVIOUS
      <3> HIDE DEF f
      <3> QED BY <3>1, <3>2, Zenon
    <2>10. AddStages(f, j, n, t, urls, mentioned, source)
      BY <2>9 DEF AddStages
    <2> QED BY <2>10
  <1> QED BY <1>2, <1>3

(* However many are added, the table stays sound, grows, and gets all of them   *)
(* when they are bootstrap peers.                                               *)
LEMMA AddPeersGrow ==
  ASSUME NEW n, NEW t, TableIsSound(n, t), NEW urls \in Seq(SovereignNodes), NEW mentioned, NEW source \in {"bootstrap", "gossip", "inbound"}
  PROVE  LET u == AddPeers(n, t, urls, mentioned, source) IN
         /\ TableIsSound(n, u) /\ TableGrows(t, u)
         /\ \A i \in DOMAIN u \ DOMAIN t : u[i].source = source
         /\ source = "bootstrap" => \A i \in DOMAIN urls : urls[i] \in mentioned \ {n} => urls[i] \in Urls(u)
  <1> DEFINE f == CHOOSE g : AddStages(g, Len(urls), n, t, urls, mentioned, source)
             Grown(k) == /\ TableIsSound(n, f[k]) /\ TableGrows(t, f[k])
                         /\ \A i \in DOMAIN f[k] \ DOMAIN t : f[k][i].source = source
                         /\ source = "bootstrap" => \A i \in 1..k : urls[i] \in mentioned \ {n} => urls[i] \in Urls(f[k])
             Bad == {k \in 0..Len(urls) : ~Grown(k)}
  <1>1. Len(urls) \in Nat /\ DOMAIN urls = 1..Len(urls) /\ \A i \in 1..Len(urls) : urls[i] \in SovereignNodes
    OBVIOUS
  <1>2. AddPeers(n, t, urls, mentioned, source) = f[Len(urls)]
    BY DEF AddPeers, AddStages
  <1>3. AddStages(f, Len(urls), n, t, urls, mentioned, source)
    BY <1>1, StagesExist
  <1> HIDE DEF f
  <1>4. f[0] = t /\ \A i \in 1..Len(urls) : f[i] = IF urls[i] \in mentioned THEN AddPeer(n, f[i - 1], urls[i], source) ELSE f[i - 1]
    BY <1>1, <1>3 DEF AddStages
  <1>5. t \in Seq(PeerRecord) /\ TableGrows(t, t)
    <2>1. t \in Seq(PeerRecord)
      BY DEF TableIsSound
    <2>2. Len(t) \in Nat
      BY <2>1, TableTyped
    <2> QED BY <2>1, <2>2 DEF TableGrows
  <1>6. Grown(0)
    <2>1. f[0] = t /\ 1..0 = {}
      BY <1>4
    <2> QED BY <1>5, <2>1
  <1>7. ASSUME NEW k \in 1..Len(urls), Grown(k - 1) PROVE Grown(k)
    <2> DEFINE v == f[k - 1]
               w == f[k]
    <2>1. TableIsSound(n, v) /\ TableGrows(t, v) /\ urls[k] \in SovereignNodes /\ v \in Seq(PeerRecord)
      BY <1>1, <1>7 DEF TableIsSound
    <2>2. w = IF urls[k] \in mentioned THEN AddPeer(n, v, urls[k], source) ELSE v
      BY <1>4
    <2>3. k \in Nat /\ \A i \in 1..k : i \in 1..(k - 1) \/ i = k
      BY <1>1
    <2>4. \A i \in DOMAIN v \ DOMAIN t : v[i].source = source
      BY <1>7
    <2>5. source = "bootstrap" => \A i \in 1..(k - 1) : urls[i] \in mentioned \ {n} => urls[i] \in Urls(v)
      BY <1>7
    <2>6. ASSUME urls[k] \in mentioned PROVE Grown(k)
      <3> HIDE DEF v, w
      <3>1. w = AddPeer(n, v, urls[k], source)
        BY <2>2, <2>6
      <3>2. /\ TableIsSound(n, w) /\ TableGrows(v, w) /\ (\A i \in DOMAIN w \ DOMAIN v : w[i].source = source)
            /\ (source = "bootstrap" /\ urls[k] # n => urls[k] \in Urls(w))
        BY <2>1, <3>1, AddPeerGrows
      <3>3. TableGrows(t, w)
        <4>1. Len(t) \in Nat /\ Len(v) \in Nat /\ Len(w) \in Nat
          BY <1>5, <2>1, <3>2, TableTyped DEF TableGrows
        <4>2. \A i \in DOMAIN t : i \in DOMAIN w /\ w[i] = t[i]
          BY <2>1, <3>2 DEF TableGrows
        <4>3. Len(t) <= Len(v) /\ Len(v) <= Len(w) /\ w \in Seq(PeerRecord)
          BY <2>1, <3>2 DEF TableGrows
        <4> QED BY <4>1, <4>2, <4>3 DEF TableGrows
      <3>4. \A i \in DOMAIN w \ DOMAIN t : w[i].source = source
        BY <2>4, <3>2 DEF TableGrows
      <3>5. Urls(v) \subseteq Urls(w)
        BY <3>2, GrownIsListed
      <3>6. source = "bootstrap" => \A i \in 1..k : urls[i] \in mentioned \ {n} => urls[i] \in Urls(w)
        BY <2>3, <2>5, <3>2, <3>5
      <3> QED BY <3>2, <3>3, <3>4, <3>6 DEF w
    <2>7. ASSUME urls[k] \notin mentioned PROVE Grown(k)
      <3>1. w = v
        BY <2>2, <2>7
      <3> HIDE DEF v, w
      <3>2. source = "bootstrap" => \A i \in 1..k : urls[i] \in mentioned \ {n} => urls[i] \in Urls(w)
        BY <2>3, <2>5, <2>7, <3>1
      <3>3. TableIsSound(n, w) /\ TableGrows(t, w) /\ \A i \in DOMAIN w \ DOMAIN t : w[i].source = source
        BY <2>1, <2>4, <3>1
      <3> QED BY <3>2, <3>3 DEF w
    <2> QED BY <2>6, <2>7
  <1>8. Grown(Len(urls))
    <2> HIDE DEF Grown
    <2>1. SUFFICES ASSUME Bad # {} PROVE FALSE
      BY <1>1
    <2>2. PICK k \in Bad : \A i \in Bad : k <= i
      <3>1. Bad \subseteq Nat
        OBVIOUS
      <3> HIDE DEF Bad
      <3> QED BY <2>1, <3>1, LeastOf
    <2>3. k # 0 /\ k \in 0..Len(urls) /\ ~Grown(k)
      BY <1>6, <2>2
    <2>4. k \in 1..Len(urls) /\ k - 1 \in 0..Len(urls) /\ ~(k <= k - 1)
      BY <1>1, <2>3
    <2>5. Grown(k - 1)
      BY <2>2, <2>4
    <2> QED BY <1>7, <2>3, <2>4, <2>5
  <1>9. source = "bootstrap" => \A i \in DOMAIN urls : urls[i] \in mentioned \ {n} => urls[i] \in Urls(f[Len(urls)])
    BY <1>1, <1>8
  <1> QED BY <1>2, <1>8, <1>9

(* A peer that answered no more is dropped.                                     *)
LEMMA DroppedIsSound ==
  ASSUME NEW n, NEW t, TableIsSound(n, t), NEW p, p \in Urls(t)
  PROVE  /\ TableIsSound(n, Dropped(t, p))
         /\ BootIsListed(n, t) => BootIsListed(n, Dropped(t, p))
         /\ Urls(t) \ {p} \subseteq Urls(Dropped(t, p))
  <1> DEFINE gone == \E i \in DOMAIN t : t[i].url = p /\ t[i].failures >= FailureDrop /\ t[i].source # "bootstrap"
             k == PlaceOf(t, p)
             from(i) == IF i < k THEN i ELSE i + 1
             u == [i \in 1..Len(t) - 1 |-> t[from(i)]]
  <1>1. t \in Seq(PeerRecord) /\ Len(t) \in Nat /\ DOMAIN t = 1..Len(t) /\ \A i \in DOMAIN t : t[i] \in PeerRecord
    BY TableTyped DEF TableIsSound
  <1>2. CASE ~gone
    <2>1. Dropped(t, p) = t
      BY <1>2 DEF Dropped
    <2> QED BY <2>1
  <1>3. CASE gone
    <2>1. Dropped(t, p) = u
      BY <1>3 DEF Dropped
    <2>2. k \in DOMAIN t /\ t[k].url = p
      BY DEF PlaceOf, Urls
    <2>3. t[k].source # "bootstrap"
      BY <1>3, <2>2 DEF TableIsSound
    <2> HIDE DEF k
    <2>4. Len(t) - 1 \in Nat /\ k \in 1..Len(t)
      BY <1>1, <2>2
    <2>5. \A i \in 1..Len(t) - 1 : from(i) \in DOMAIN t /\ from(i) # k
      BY <1>1, <2>4
    <2>6. \A i, j \in 1..Len(t) - 1 : from(i) = from(j) => i = j
      BY <2>4
    <2>7. \A j \in DOMAIN t : j # k => \E i \in 1..Len(t) - 1 : from(i) = j
      <3> SUFFICES ASSUME NEW j \in 1..Len(t), j # k PROVE \E i \in 1..Len(t) - 1 : from(i) = j
        BY <1>1
      <3>1. CASE j < k
        <4>1. j \in 1..Len(t) - 1 /\ from(j) = j
          BY <1>1, <2>4, <3>1
        <4> QED BY <4>1
      <3>2. CASE ~(j < k)
        <4>1. j - 1 \in 1..Len(t) - 1 /\ from(j - 1) = j
          BY <1>1, <2>4, <3>2
        <4> QED BY <4>1
      <3> QED BY <3>1, <3>2
    <2> HIDE DEF from
    <2>8. u \in Seq(PeerRecord) /\ DOMAIN u = 1..Len(t) - 1 /\ \A i \in DOMAIN u : u[i] = t[from(i)]
      <3>1. u \in [1..Len(t) - 1 -> PeerRecord]
        BY <1>1, <2>5
      <3> QED BY <2>4, <3>1
    <2> HIDE DEF u
    <2>9. \A i, j \in DOMAIN u : u[i].url = u[j].url => i = j
      BY <2>5, <2>6, <2>8 DEF TableIsSound
    <2>10. n \notin Urls(u)
      BY <2>5, <2>8 DEF TableIsSound, Urls
    <2>11. Cardinality(Strangers(u)) <= MaxPeers
      <3> DEFINE f == [i \in Strangers(u) |-> from(i)]
      <3>1. \A i \in Strangers(u) : i \in 1..Len(t) - 1 /\ from(i) \in Strangers(t)
        BY <2>5, <2>8 DEF Strangers
      <3>2. f \in Injection(Strangers(u), Strangers(t))
        BY <2>6, <3>1 DEF Injection, IsInjective
      <3> HIDE DEF f
      <3>3. IsFiniteSet(Strangers(t)) /\ Cardinality(Strangers(t)) \in Nat /\ Cardinality(Strangers(u)) \in Nat
        BY <1>1, <2>8, TableTyped
      <3>4. Cardinality(Strangers(u)) <= Cardinality(Strangers(t))
        BY <3>2, <3>3, FS_Injection
      <3>5. Cardinality(Strangers(t)) <= MaxPeers
        BY DEF TableIsSound
      <3> QED BY <3>3, <3>4, <3>5, PeerNats
    <2>12. TableIsSound(n, u)
      BY <2>8, <2>9, <2>10, <2>11 DEF TableIsSound
    <2>13. BootIsListed(n, t) => BootIsListed(n, u)
      <3> SUFFICES ASSUME BootIsListed(n, t), NEW b \in DOMAIN BootstrapPeers[n]
          PROVE \E i \in DOMAIN u : u[i].url = BootstrapPeers[n][b] /\ u[i].source = "bootstrap"
        BY DEF BootIsListed
      <3>1. PICK j \in DOMAIN t : t[j].url = BootstrapPeers[n][b] /\ t[j].source = "bootstrap"
        BY DEF BootIsListed
      <3>2. j # k
        BY <2>3, <3>1
      <3>3. PICK i \in 1..Len(t) - 1 : from(i) = j
        BY <2>7, <3>2
      <3> QED BY <2>8, <3>1, <3>3
    <2>14. Urls(t) \ {p} \subseteq Urls(u)
      <3> SUFFICES ASSUME NEW q \in Urls(t), q # p PROVE q \in Urls(u)
        OBVIOUS
      <3>1. PICK j \in DOMAIN t : t[j].url = q
        BY DEF Urls
      <3>2. j # k
        BY <2>2, <3>1
      <3>3. PICK i \in 1..Len(t) - 1 : from(i) = j
        BY <2>7, <3>2
      <3>4. i \in DOMAIN u /\ u[i].url = q
        BY <2>8, <3>1, <3>3
      <3> QED BY <3>4 DEF Urls
    <2> QED BY <2>1, <2>12, <2>13, <2>14
  <1> QED BY <1>2, <1>3

(* What a tick has left to pull from.                                           *)
LEMMA TailIsLeft ==
  ASSUME NEW s \in Seq(SovereignNodes), s # << >>, NEW t, PullsAreListed(s, t)
  PROVE  /\ Head(s) \in SovereignNodes /\ Head(s) \in Urls(t) /\ Tail(s) \in Seq(SovereignNodes) /\ PullsAreListed(Tail(s), t)
         /\ \A i \in DOMAIN Tail(s) : Tail(s)[i] # Head(s)
  <1>1. Len(s) \in Nat /\ Len(s) # 0 /\ DOMAIN s = 1..Len(s) /\ Head(s) = s[1] /\ 1 \in DOMAIN s
    OBVIOUS
  <1>2. Tail(s) \in Seq(SovereignNodes) /\ Len(Tail(s)) = Len(s) - 1 /\ \A i \in 1..(Len(s) - 1) : Tail(s)[i] = s[i + 1]
    OBVIOUS
  <1>3. DOMAIN Tail(s) = 1..(Len(s) - 1)
    BY <1>2
  <1>4. \A i \in DOMAIN Tail(s) : Tail(s)[i] = s[i + 1] /\ i + 1 \in DOMAIN s /\ i + 1 # 1
    BY <1>1, <1>2, <1>3
  <1>5. \A i, j \in DOMAIN Tail(s) : i + 1 = j + 1 => i = j
    BY <1>1, <1>3
  <1>6. PullsAreListed(Tail(s), t)
    BY <1>4, <1>5 DEF PullsAreListed
  <1>7. \A i \in DOMAIN Tail(s) : Tail(s)[i] # Head(s)
    BY <1>1, <1>4 DEF PullsAreListed
  <1>8. Head(s) \in SovereignNodes /\ Head(s) \in Urls(t)
    BY <1>1 DEF PullsAreListed
  <1> QED BY <1>2, <1>6, <1>7, <1>8

LEMMA FrontIsListed ==
  ASSUME NEW n, NEW t, TableIsSound(n, t)
  PROVE  UrlsOf(InFront(t)) \in Seq(SovereignNodes) /\ PullsAreListed(UrlsOf(InFront(t)), t)
  <1> DEFINE m == IF Len(t) < PullLimit THEN Len(t) ELSE PullLimit
             s == InFront(t)
             u == UrlsOf(s)
  <1>1. t \in Seq(PeerRecord) /\ Len(t) \in Nat /\ DOMAIN t = 1..Len(t) /\ \A i \in DOMAIN t : t[i].url \in SovereignNodes
    BY TableTyped DEF TableIsSound
  <1>2. m \in Nat /\ m <= Len(t)
    BY <1>1, PeerNats
  <1>3. s = SubSeq(t, 1, m)
    BY DEF InFront
  <1> HIDE DEF m, s
  <1>4. DOMAIN s = 1..m /\ \A i \in 1..m : s[i] = t[i] /\ i \in DOMAIN t
    <2>1. s = [i \in 1..m |-> t[i]]
      <3>1. s = [i \in 1..(1 + m - 1) |-> t[i + 1 - 1]]
        BY <1>1, <1>2, <1>3
      <3>2. 1 + m - 1 = m /\ \A i \in 1..m : i + 1 - 1 = i
        BY <1>2
      <3> QED BY <3>1, <3>2
    <2>2. \A i \in 1..m : i \in DOMAIN t
      BY <1>1, <1>2
    <2> QED BY <2>1, <2>2
  <1>5. u = [i \in 1..m |-> t[i].url]
    BY <1>4 DEF UrlsOf
  <1> HIDE DEF u
  <1>6. u \in Seq(SovereignNodes) /\ DOMAIN u = 1..m
    <2>1. u \in [1..m -> SovereignNodes]
      BY <1>1, <1>4, <1>5
    <2> QED BY <1>2, <2>1
  <1>7. PullsAreListed(u, t)
    BY <1>4, <1>5, <1>6 DEF PullsAreListed, TableIsSound, Urls
  <1> QED BY <1>6, <1>7 DEF u, s

LEMMA NothingToPull == ASSUME NEW t PROVE << >> \in Seq(SovereignNodes) /\ PullsAreListed(<< >>, t)
  <1>1. PICK s : s = << >>
    OBVIOUS
  <1>2. s \in Seq(SovereignNodes) /\ DOMAIN s = {}
    BY <1>1
  <1>3. PullsAreListed(s, t)
    BY <1>2 DEF PullsAreListed
  <1> QED BY <1>1, <1>2, <1>3

(* A running node whose table grew, and was saved if it did.                    *)
LEMMA GrownNode ==
  ASSUME NEW n, NEW t, NEW onDisk, NEW pulls, NodeIsSound(n, t, onDisk, pulls, TRUE),
         NEW r, SameEntries(t, r), NEW u, TableIsSound(n, u), TableGrows(r, u)
  PROVE  NodeIsSound(n, u, SavedIfNew(t, u, onDisk), pulls, TRUE)
  <1>1. TableIsSound(n, t) /\ TableIsSound(n, onDisk) /\ BootIsListed(n, t) /\ (onDisk = << >> \/ BootIsListed(n, onDisk))
        /\ pulls \in Seq(SovereignNodes) /\ PullsAreListed(pulls, t)
    BY DEF NodeIsSound
  <1>2. t \in Seq(PeerRecord)
    BY <1>1 DEF TableIsSound
  <1>3. BootIsListed(n, r) /\ PullsAreListed(pulls, r)
    BY <1>1, <1>2, SameIsSound
  <1>4. BootIsListed(n, u) /\ PullsAreListed(pulls, u)
    BY <1>3, GrownIsListed
  <1> QED BY <1>1, <1>4 DEF NodeIsSound, SavedIfNew

LEMMA PeersStartSound == SovereignPeersInit => SovereignPeersInv
  <1> SUFFICES ASSUME SovereignPeersInit PROVE SovereignPeersInv
    OBVIOUS
  <1>1. /\ peerTable = [n \in SovereignNodes |-> << >>] /\ savedPeers = [n \in SovereignNodes |-> << >>]
        /\ pulling = [n \in SovereignNodes |-> << >>] /\ here = {}
    BY DEF SovereignPeersInit
  <1>2. << >> \in Seq(PeerRecord) /\ << >> \in Seq(SovereignNodes)
    OBVIOUS
  <1>3. ASSUME NEW n \in SovereignNodes PROVE NodeIsSound(n, peerTable[n], savedPeers[n], pulling[n], n \in here)
    BY <1>1, <1>2, NobodyIsSound DEF NodeIsSound
  <1> QED BY <1>1, <1>2, <1>3 DEF SovereignPeersInv

LEMMA PeersMeanBounded == SovereignPeersInv => PeersAreBounded
  <1> SUFFICES ASSUME SovereignPeersInv, NEW n \in here
      PROVE /\ \A i, j \in DOMAIN peerTable[n] : peerTable[n][i].url = peerTable[n][j].url => i = j
            /\ n \notin Urls(peerTable[n])
            /\ Cardinality({i \in DOMAIN peerTable[n] : peerTable[n][i].source # "bootstrap"}) <= MaxPeers
            /\ \A i \in DOMAIN BootstrapPeers[n] :
                  \E r \in Range(peerTable[n]) : r.url = BootstrapPeers[n][i] /\ r.source = "bootstrap"
            /\ Range(pulling[n]) \subseteq Urls(peerTable[n])
    BY DEF PeersAreBounded
  <1>1. n \in SovereignNodes /\ TableIsSound(n, peerTable[n]) /\ BootIsListed(n, peerTable[n]) /\ PullsAreListed(pulling[n], peerTable[n])
    BY DEF SovereignPeersInv, NodeIsSound
  <1>2. \A i \in DOMAIN BootstrapPeers[n] : \E r \in Range(peerTable[n]) : r.url = BootstrapPeers[n][i] /\ r.source = "bootstrap"
    BY <1>1 DEF BootIsListed, Range
  <1>3. Range(pulling[n]) \subseteq Urls(peerTable[n])
    BY <1>1 DEF PullsAreListed, Range
  <1> QED BY <1>1, <1>2, <1>3 DEF TableIsSound, Strangers

(* One node changes.                                                            *)
LEMMA OneNodeChanges ==
  ASSUME SovereignPeersInv, NEW n \in SovereignNodes, NEW table, NEW onDisk, NEW pulls, NEW up \in BOOLEAN,
         NodeIsSound(n, table, onDisk, pulls, up),
         peerTable' = [peerTable EXCEPT ![n] = table], savedPeers' = [savedPeers EXCEPT ![n] = onDisk],
         pulling' = [pulling EXCEPT ![n] = pulls], here' = IF up THEN here \cup {n} ELSE here \ {n}
  PROVE  SovereignPeersInv'
  <1>1. /\ peerTable \in [SovereignNodes -> Seq(PeerRecord)] /\ savedPeers \in [SovereignNodes -> Seq(PeerRecord)]
        /\ pulling \in [SovereignNodes -> Seq(SovereignNodes)] /\ here \subseteq SovereignNodes
    BY DEF SovereignPeersInv
  <1>2. table \in Seq(PeerRecord) /\ onDisk \in Seq(PeerRecord) /\ pulls \in Seq(SovereignNodes)
    BY DEF NodeIsSound, TableIsSound
  <1>3. /\ peerTable' \in [SovereignNodes -> Seq(PeerRecord)] /\ savedPeers' \in [SovereignNodes -> Seq(PeerRecord)]
        /\ pulling' \in [SovereignNodes -> Seq(SovereignNodes)] /\ here' \subseteq SovereignNodes
    BY <1>1, <1>2
  <1>4. ASSUME NEW m \in SovereignNodes PROVE NodeIsSound(m, peerTable'[m], savedPeers'[m], pulling'[m], m \in here')
    <2>1. CASE m = n
      <3>1. peerTable'[m] = table /\ savedPeers'[m] = onDisk /\ pulling'[m] = pulls
        BY <1>1, <2>1
      <3>2. (m \in here') <=> up
        BY <2>1
      <3> QED BY <2>1, <3>1, <3>2 DEF NodeIsSound
    <2>2. CASE m # n
      <3>1. peerTable'[m] = peerTable[m] /\ savedPeers'[m] = savedPeers[m] /\ pulling'[m] = pulling[m] /\ ((m \in here') <=> (m \in here))
        BY <1>1, <2>2
      <3>2. NodeIsSound(m, peerTable[m], savedPeers[m], pulling[m], m \in here)
        BY DEF SovereignPeersInv
      <3> QED BY <3>1, <3>2 DEF NodeIsSound
    <2> QED BY <2>1, <2>2
  <1> QED BY <1>3, <1>4 DEF SovereignPeersInv

LEMMA StartIsSound ==
  ASSUME SovereignPeersInv, NEW n \in SovereignNodes, StartsNode(n)
  PROVE  SovereignPeersInv'
  <1> DEFINE onDisk == savedPeers[n]
             u == Restored(n, onDisk)
  <1>1. n \notin here /\ NodeIsSound(n, peerTable[n], onDisk, pulling[n], FALSE)
    <2>1. n \notin here
      BY DEF StartsNode
    <2>2. NodeIsSound(n, peerTable[n], savedPeers[n], pulling[n], n \in here)
      BY DEF SovereignPeersInv
    <2> QED BY <2>1, <2>2 DEF NodeIsSound
  <1>2. TableIsSound(n, onDisk) /\ (onDisk = << >> \/ BootIsListed(n, onDisk)) /\ pulling[n] = << >>
    BY <1>1 DEF NodeIsSound
  <1>3. /\ peerTable \in [SovereignNodes -> Seq(PeerRecord)] /\ savedPeers \in [SovereignNodes -> Seq(PeerRecord)]
        /\ pulling \in [SovereignNodes -> Seq(SovereignNodes)] /\ here \subseteq SovereignNodes
    BY DEF SovereignPeersInv
  <1> HIDE DEF onDisk, u
  <1>4. u = AddPeers(n, onDisk, BootstrapPeers[n], SovereignNodes, "bootstrap")
    BY DEF u, Restored
  <1>5. /\ TableIsSound(n, u) /\ TableGrows(onDisk, u) /\ (\A i \in DOMAIN u \ DOMAIN onDisk : u[i].source = "bootstrap")
        /\ \A i \in DOMAIN BootstrapPeers[n] : BootstrapPeers[n][i] \in SovereignNodes \ {n} => BootstrapPeers[n][i] \in Urls(u)
    BY <1>2, <1>4, AddPeersGrow, BootstrapsOf
  <1>6. BootIsListed(n, u)
    <2>1. CASE onDisk = << >>
      <3>1. DOMAIN onDisk = {}
        BY <2>1
      <3>2. \A i \in DOMAIN u : u[i].source = "bootstrap"
        BY <1>5, <3>1
      <3>3. \A i \in DOMAIN BootstrapPeers[n] : BootstrapPeers[n][i] \in Urls(u)
        BY <1>5, BootstrapsOf
      <3> QED BY <3>2, <3>3 DEF BootIsListed, Urls
    <2>2. CASE BootIsListed(n, onDisk)
      BY <1>5, <2>2, GrownIsListed
    <2> QED BY <1>2, <2>1, <2>2
  <1> DEFINE now == SavedIfNew(onDisk, u, onDisk)
  <1>7. NodeIsSound(n, u, now, << >>, TRUE)
    BY <1>2, <1>5, <1>6, NothingToPull DEF NodeIsSound, SavedIfNew
  <1>8. peerTable' = [peerTable EXCEPT ![n] = u] /\ peerTable'[n] = u
    BY <1>3 DEF StartsNode, u, onDisk
  <1>9. savedPeers' = [savedPeers EXCEPT ![n] = now]
    BY <1>3, <1>8 DEF StartsNode, onDisk
  <1>10. here' = here \cup {n} /\ pulling' = pulling
    BY DEF StartsNode
  <1>11. pulling' = [pulling EXCEPT ![n] = << >>]
    BY <1>2, <1>3, <1>10
  <1> HIDE DEF now
  <1>12. here' = IF TRUE THEN here \cup {n} ELSE here \ {n}
    BY <1>10
  <1> QED BY <1>7, <1>8, <1>9, <1>11, <1>12, OneNodeChanges

LEMMA StopIsSound ==
  ASSUME SovereignPeersInv, NEW n \in SovereignNodes, StopsNode(n)
  PROVE  SovereignPeersInv'
  <1>1. NodeIsSound(n, peerTable[n], savedPeers[n], pulling[n], n \in here)
        /\ savedPeers \in [SovereignNodes -> Seq(PeerRecord)]
    BY DEF SovereignPeersInv
  <1>2. NodeIsSound(n, << >>, savedPeers[n], << >>, FALSE)
    BY <1>1, NobodyIsSound, NothingToPull DEF NodeIsSound
  <1>3. /\ peerTable' = [peerTable EXCEPT ![n] = << >>] /\ pulling' = [pulling EXCEPT ![n] = << >>]
        /\ savedPeers' = savedPeers /\ here' = here \ {n}
    BY DEF StopsNode
  <1>4. savedPeers' = [savedPeers EXCEPT ![n] = savedPeers[n]]
    BY <1>1, <1>3
  <1>5. here' = IF FALSE THEN here \cup {n} ELSE here \ {n}
    BY <1>3
  <1> QED BY <1>2, <1>3, <1>4, <1>5, OneNodeChanges

(* A tick begins, misses a peer, or ends.                                       *)
LEMMA TickIsSound ==
  ASSUME SovereignPeersInv, NEW n \in SovereignNodes, BeginTick(n) \/ PullFails(n) \/ EndTick(n)
  PROVE  SovereignPeersInv'
  <1> DEFINE t == peerTable[n]
             q == pulling[n]
  <1>1. /\ peerTable \in [SovereignNodes -> Seq(PeerRecord)] /\ savedPeers \in [SovereignNodes -> Seq(PeerRecord)]
        /\ pulling \in [SovereignNodes -> Seq(SovereignNodes)] /\ here \subseteq SovereignNodes
    BY DEF SovereignPeersInv
  <1>2. n \in here /\ here' = here
    BY DEF BeginTick, PullFails, EndTick
  <1>3. NodeIsSound(n, t, savedPeers[n], q, TRUE)
    BY <1>2 DEF SovereignPeersInv
  <1>4. /\ TableIsSound(n, t) /\ TableIsSound(n, savedPeers[n]) /\ BootIsListed(n, t) /\ t \in Seq(PeerRecord)
        /\ (savedPeers[n] = << >> \/ BootIsListed(n, savedPeers[n])) /\ q \in Seq(SovereignNodes) /\ PullsAreListed(q, t)
    BY <1>3 DEF NodeIsSound, TableIsSound
  <1>5. here' = IF TRUE THEN here \cup {n} ELSE here \ {n}
    BY <1>2
  <1> HIDE DEF t, q
  <1>6. CASE BeginTick(n)
    <2> DEFINE pulls == UrlsOf(InFront(t))
    <2>1. /\ pulling' = [pulling EXCEPT ![n] = pulls] /\ peerTable' = peerTable /\ savedPeers' = savedPeers
      BY <1>6 DEF BeginTick, t
    <2>2. pulls \in Seq(SovereignNodes) /\ PullsAreListed(pulls, t)
      BY <1>4, FrontIsListed
    <2> HIDE DEF pulls
    <2>3. NodeIsSound(n, t, savedPeers[n], pulls, TRUE)
      BY <1>4, <2>2 DEF NodeIsSound
    <2>4. peerTable' = [peerTable EXCEPT ![n] = t] /\ savedPeers' = [savedPeers EXCEPT ![n] = savedPeers[n]]
      BY <1>1, <2>1 DEF t
    <2> QED BY <1>5, <2>1, <2>3, <2>4, OneNodeChanges
  <1>7. CASE PullFails(n)
    <2> DEFINE p == Head(q)
               r == Missed(t, {p})
               u == Dropped(r, p)
               pulls == Tail(q)
    <2>1. /\ peerTable' = [peerTable EXCEPT ![n] = u] /\ pulling' = [pulling EXCEPT ![n] = pulls] /\ savedPeers' = savedPeers
      BY <1>1, <1>7 DEF PullFails, t, q
    <2>2. q # << >>
      BY <1>7 DEF PullFails, q
    <2>3. p \in Urls(t) /\ pulls \in Seq(SovereignNodes) /\ PullsAreListed(pulls, t) /\ \A i \in DOMAIN pulls : pulls[i] # p
      BY <1>4, <2>2, TailIsLeft
    <2> HIDE DEF p, pulls, r, u
    <2>4. SameEntries(t, r)
      BY <1>4, FailuresOnly DEF r
    <2>5. TableIsSound(n, r) /\ BootIsListed(n, r) /\ PullsAreListed(pulls, r) /\ p \in Urls(r)
      BY <1>4, <2>3, <2>4, SameIsSound
    <2>6. TableIsSound(n, u) /\ BootIsListed(n, u) /\ Urls(r) \ {p} \subseteq Urls(u)
      BY <2>5, DroppedIsSound DEF u
    <2>7. PullsAreListed(pulls, u)
      BY <2>3, <2>5, <2>6 DEF PullsAreListed
    <2>8. NodeIsSound(n, u, savedPeers[n], pulls, TRUE)
      BY <1>4, <2>3, <2>6, <2>7 DEF NodeIsSound
    <2>9. savedPeers' = [savedPeers EXCEPT ![n] = savedPeers[n]]
      BY <1>1, <2>1
    <2> QED BY <1>5, <2>1, <2>8, <2>9, OneNodeChanges
  <1>8. CASE EndTick(n)
    <2>1. savedPeers' = [savedPeers EXCEPT ![n] = t] /\ peerTable' = peerTable /\ pulling' = pulling
      BY <1>8 DEF EndTick, t
    <2>2. NodeIsSound(n, t, t, q, TRUE)
      BY <1>4 DEF NodeIsSound
    <2>3. peerTable' = [peerTable EXCEPT ![n] = t] /\ pulling' = [pulling EXCEPT ![n] = q]
      BY <1>1, <2>1 DEF t, q
    <2> QED BY <1>5, <2>1, <2>2, <2>3, OneNodeChanges
  <1> QED BY <1>6, <1>7, <1>8

(* What a node does while others run: nothing, or what leaves it sound.         *)
NodeMoves(m) == \/ peerTable'[m] = peerTable[m] /\ savedPeers'[m] = savedPeers[m] /\ pulling'[m] = pulling[m]
                \/ m \in here /\ NodeIsSound(m, peerTable'[m], savedPeers'[m], pulling'[m], TRUE)

(* Running nodes take another for a peer, and one of them notes its failures.   *)
LEMMA SeveralNodesChange ==
  ASSUME SovereignPeersInv, here' = here,
         peerTable' \in [SovereignNodes -> Seq(PeerRecord)], savedPeers' \in [SovereignNodes -> Seq(PeerRecord)],
         pulling' \in [SovereignNodes -> Seq(SovereignNodes)],
         \A m \in SovereignNodes : NodeMoves(m)
  PROVE  SovereignPeersInv'
  <1>1. ASSUME NEW m \in SovereignNodes PROVE NodeIsSound(m, peerTable'[m], savedPeers'[m], pulling'[m], m \in here')
    <2>1. CASE peerTable'[m] = peerTable[m] /\ savedPeers'[m] = savedPeers[m] /\ pulling'[m] = pulling[m]
      <3>1. NodeIsSound(m, peerTable[m], savedPeers[m], pulling[m], m \in here)
        BY DEF SovereignPeersInv
      <3> QED BY <2>1, <3>1 DEF NodeIsSound
    <2>2. CASE m \in here /\ NodeIsSound(m, peerTable'[m], savedPeers'[m], pulling'[m], TRUE)
      BY <2>2 DEF NodeIsSound
    <2> QED BY <2>1, <2>2 DEF NodeMoves
  <1>2. here' \subseteq SovereignNodes
    BY DEF SovereignPeersInv
  <1> QED BY <1>1, <1>2 DEF SovereignPeersInv

LEMMA MentionsAreNodes ==
  ASSUME NEW p \in SovereignNodes, NEW t \in Seq(PeerRecord)
  PROVE  <<p>> \o UrlsOf(t) \in Seq(SovereignNodes)
  <1>1. Len(t) \in Nat /\ DOMAIN t = 1..Len(t) /\ \A i \in DOMAIN t : t[i].url \in SovereignNodes
    BY TableTyped
  <1>2. UrlsOf(t) \in [1..Len(t) -> SovereignNodes]
    BY <1>1 DEF UrlsOf
  <1>3. UrlsOf(t) \in Seq(SovereignNodes)
    BY <1>1, <1>2
  <1> HIDE DEF UrlsOf
  <1> QED BY <1>3

LEMMA PullIsSound ==
  ASSUME SovereignPeersInv, NEW n \in SovereignNodes, PullAnswered(n)
  PROVE  SovereignPeersInv'
  <1> DEFINE p == Head(pulling[n])
             t == peerTable[n]
             r == Reached(t, {p})
             u == Gossip(n, r, p)
             v == AddPeer(p, peerTable[p], n, "inbound")
             pulls == Tail(pulling[n])
  <1>1. /\ peerTable \in [SovereignNodes -> Seq(PeerRecord)] /\ savedPeers \in [SovereignNodes -> Seq(PeerRecord)]
        /\ pulling \in [SovereignNodes -> Seq(SovereignNodes)] /\ here \subseteq SovereignNodes
    BY DEF SovereignPeersInv
  <1>2. /\ n \in here /\ p \in here /\ here' = here /\ pulling[n] # << >>
        /\ peerTable' = [peerTable EXCEPT ![n] = u, ![p] = v]
        /\ savedPeers' = [savedPeers EXCEPT ![n] = SavedIfNew(t, u, @), ![p] = SavedIfNew(peerTable[p], v, @)]
        /\ pulling' = [pulling EXCEPT ![n] = Tail(@)]
    BY DEF PullAnswered
  <1>3. NodeIsSound(n, t, savedPeers[n], pulling[n], TRUE) /\ NodeIsSound(p, peerTable[p], savedPeers[p], pulling[p], TRUE) /\ p \in SovereignNodes
    BY <1>1, <1>2 DEF SovereignPeersInv
  <1>4. TableIsSound(n, t) /\ t \in Seq(PeerRecord) /\ PullsAreListed(pulling[n], t) /\ pulling[n] \in Seq(SovereignNodes)
        /\ TableIsSound(p, peerTable[p]) /\ peerTable[p] \in Seq(PeerRecord)
    BY <1>3 DEF NodeIsSound, TableIsSound
  <1>5. p \in Urls(t) /\ pulls \in Seq(SovereignNodes) /\ PullsAreListed(pulls, t)
    BY <1>2, <1>4, TailIsLeft
  <1>6. p # n
    BY <1>4, <1>5 DEF TableIsSound
  <1> HIDE DEF p, t, r, u, v, pulls
  <1>7. NodeIsSound(n, t, savedPeers[n], pulls, TRUE)
    BY <1>3, <1>5 DEF NodeIsSound
  <1>8. SameEntries(t, r) /\ TableIsSound(n, r)
    BY <1>4, FailuresOnly, SameIsSound DEF r
  <1>9. TableIsSound(n, u) /\ TableGrows(r, u)
    <2>1. u = AddPeers(n, r, <<p>> \o UrlsOf(peerTable[p]), Mentions(p), "gossip")
      BY DEF u, Gossip
    <2>2. <<p>> \o UrlsOf(peerTable[p]) \in Seq(SovereignNodes)
      BY <1>3, <1>4, MentionsAreNodes
    <2>3. PICK urls, mentioned : urls = <<p>> \o UrlsOf(peerTable[p]) /\ mentioned = Mentions(p)
      OBVIOUS
    <2>4. urls \in Seq(SovereignNodes)
      BY <2>2, <2>3
    <2>5. TableIsSound(n, AddPeers(n, r, urls, mentioned, "gossip")) /\ TableGrows(r, AddPeers(n, r, urls, mentioned, "gossip"))
      BY <1>8, <2>4, AddPeersGrow
    <2> QED BY <2>1, <2>3, <2>5
  <1>10. NodeIsSound(n, u, SavedIfNew(t, u, savedPeers[n]), pulls, TRUE)
    BY <1>7, <1>8, <1>9, GrownNode
  <1>11. TableIsSound(p, v) /\ TableGrows(peerTable[p], v)
    BY <1>4, AddPeerGrows DEF v
  <1>12. SameEntries(peerTable[p], peerTable[p])
    BY <1>4 DEF SameEntries
  <1>13. NodeIsSound(p, v, SavedIfNew(peerTable[p], v, savedPeers[p]), pulling[p], TRUE)
    BY <1>3, <1>11, <1>12, GrownNode
  <1> DEFINE sn == SavedIfNew(t, u, savedPeers[n])
             sp == SavedIfNew(peerTable[p], v, savedPeers[p])
  <1>14. u \in Seq(PeerRecord) /\ v \in Seq(PeerRecord) /\ sn \in Seq(PeerRecord) /\ sp \in Seq(PeerRecord)
    BY <1>9, <1>10, <1>11, <1>13 DEF NodeIsSound, TableIsSound
  <1>15. savedPeers' = [savedPeers EXCEPT ![n] = sn, ![p] = sp]
    BY <1>1, <1>2, <1>6
  <1> HIDE DEF sn, sp
  <1>16. /\ peerTable' \in [SovereignNodes -> Seq(PeerRecord)] /\ peerTable'[n] = u /\ peerTable'[p] = v
         /\ \A m \in SovereignNodes \ {n, p} : peerTable'[m] = peerTable[m]
    BY <1>1, <1>2, <1>3, <1>6, <1>14
  <1>17. /\ savedPeers' \in [SovereignNodes -> Seq(PeerRecord)] /\ savedPeers'[n] = sn /\ savedPeers'[p] = sp
         /\ \A m \in SovereignNodes \ {n, p} : savedPeers'[m] = savedPeers[m]
    BY <1>1, <1>3, <1>6, <1>14, <1>15
  <1>18. /\ pulling' \in [SovereignNodes -> Seq(SovereignNodes)] /\ pulling'[n] = pulls
         /\ \A m \in SovereignNodes \ {n} : pulling'[m] = pulling[m]
    BY <1>1, <1>2, <1>5 DEF pulls
  <1>19. ASSUME NEW m \in SovereignNodes PROVE NodeMoves(m)
    <2>1. CASE m = n
      BY <1>2, <1>10, <1>16, <1>17, <1>18, <2>1 DEF NodeMoves, sn
    <2>2. CASE m = p
      BY <1>2, <1>6, <1>13, <1>16, <1>17, <1>18, <2>2 DEF NodeMoves, sp
    <2>3. CASE m \notin {n, p}
      BY <1>16, <1>17, <1>18, <2>3 DEF NodeMoves
    <2> QED BY <2>1, <2>2, <2>3
  <1> QED BY <1>2, <1>16, <1>17, <1>18, <1>19, SeveralNodesChange

LEMMA PushIsSound ==
  ASSUME SovereignPeersInv, NEW n \in SovereignNodes, PushTo(n)
  PROVE  SovereignPeersInv'
  <1>1. /\ peerTable \in [SovereignNodes -> Seq(PeerRecord)] /\ savedPeers \in [SovereignNodes -> Seq(PeerRecord)]
        /\ pulling \in [SovereignNodes -> Seq(SovereignNodes)] /\ here \subseteq SovereignNodes
    BY DEF SovereignPeersInv
  <1>2. PICK lost \in SUBSET (Urls(peerTable[n]) \cap here) :
          LET reached == (Urls(peerTable[n]) \cap here) \ lost
              pushed == [m \in SovereignNodes |-> IF m \in reached THEN AddPeer(m, peerTable[m], n, "inbound") ELSE peerTable[m]]
          IN  /\ peerTable' = [pushed EXCEPT ![n] = Missed(Reached(@, reached), Urls(@) \ reached)]
              /\ savedPeers' = [m \in SovereignNodes |-> SavedIfNew(peerTable[m], pushed[m], savedPeers[m])]
    BY DEF PushTo
  <1>3. n \in here /\ here' = here /\ pulling' = pulling
    BY DEF PushTo
  <1> DEFINE reached == (Urls(peerTable[n]) \cap here) \ lost
             Pushed(m) == IF m \in reached THEN AddPeer(m, peerTable[m], n, "inbound") ELSE peerTable[m]
             t == peerTable[n]
             u == Missed(Reached(t, reached), Urls(t) \ reached)
             Saved(m) == SavedIfNew(peerTable[m], Pushed(m), savedPeers[m])
  <1>4. \A m \in SovereignNodes : m \in here => NodeIsSound(m, peerTable[m], savedPeers[m], pulling[m], TRUE)
    BY DEF SovereignPeersInv
  <1>5. NodeIsSound(n, t, savedPeers[n], pulling[n], TRUE) /\ TableIsSound(n, t) /\ t \in Seq(PeerRecord)
    BY <1>3, <1>4 DEF NodeIsSound, TableIsSound
  <1>6. n \notin reached /\ reached \subseteq here
    BY <1>5 DEF TableIsSound
  <1>7. Pushed(n) = t
    BY <1>6
  <1>8. peerTable' = [[m \in SovereignNodes |-> Pushed(m)] EXCEPT ![n] = u]
    BY <1>2, <1>7
  <1>9. savedPeers' = [m \in SovereignNodes |-> Saved(m)]
    <2>1. savedPeers' = [m \in SovereignNodes |-> SavedIfNew(peerTable[m], [k \in SovereignNodes |-> Pushed(k)][m], savedPeers[m])]
      BY <1>2
    <2> QED BY <2>1
  <1> HIDE DEF reached
  <1>10. ASSUME NEW m \in SovereignNodes, m \in reached PROVE NodeIsSound(m, Pushed(m), Saved(m), pulling[m], TRUE)
    <2>1. NodeIsSound(m, peerTable[m], savedPeers[m], pulling[m], TRUE) /\ TableIsSound(m, peerTable[m]) /\ peerTable[m] \in Seq(PeerRecord)
      BY <1>4, <1>6, <1>10 DEF NodeIsSound, TableIsSound
    <2>2. SameEntries(peerTable[m], peerTable[m])
      BY <2>1 DEF SameEntries
    <2>3. PICK v : v = AddPeer(m, peerTable[m], n, "inbound")
      OBVIOUS
    <2>4. TableIsSound(m, v) /\ TableGrows(peerTable[m], v)
      BY <2>1, <2>3, AddPeerGrows
    <2>5. NodeIsSound(m, v, SavedIfNew(peerTable[m], v, savedPeers[m]), pulling[m], TRUE)
      BY <2>1, <2>2, <2>4, GrownNode
    <2>6. Pushed(m) = v
      BY <1>10, <2>3
    <2> QED BY <2>5, <2>6
  <1>11. \A m \in SovereignNodes : m \notin reached => Pushed(m) = peerTable[m] /\ Saved(m) = savedPeers[m]
    BY DEF SavedIfNew
  <1>12. NodeIsSound(n, u, savedPeers[n], pulling[n], TRUE)
    <2> DEFINE r == Reached(t, reached)
    <2>1. SameEntries(t, r)
      BY <1>5, FailuresOnly
    <2>2. r \in Seq(PeerRecord)
      BY <2>1 DEF SameEntries
    <2> HIDE DEF r
    <2>3. SameEntries(r, u)
      BY <2>2, FailuresOnly DEF r
    <2> HIDE DEF u, t
    <2>4. TableIsSound(n, t) /\ BootIsListed(n, t) /\ PullsAreListed(pulling[n], t)
      BY <1>5 DEF NodeIsSound
    <2>5. TableIsSound(n, r) /\ BootIsListed(n, r) /\ PullsAreListed(pulling[n], r)
      BY <1>5, <2>1, <2>4, SameIsSound
    <2>6. TableIsSound(n, u) /\ BootIsListed(n, u) /\ PullsAreListed(pulling[n], u)
      BY <2>2, <2>3, <2>5, SameIsSound
    <2> QED BY <1>5, <2>6 DEF NodeIsSound
  <1>13. \A m \in SovereignNodes : Pushed(m) \in Seq(PeerRecord) /\ Saved(m) \in Seq(PeerRecord)
    <2> SUFFICES ASSUME NEW m \in SovereignNodes PROVE Pushed(m) \in Seq(PeerRecord) /\ Saved(m) \in Seq(PeerRecord)
      OBVIOUS
    <2>1. CASE m \in reached
      <3>1. NodeIsSound(m, Pushed(m), Saved(m), pulling[m], TRUE)
        BY <1>10, <2>1
      <3> HIDE DEF Pushed, Saved
      <3> QED BY <3>1 DEF NodeIsSound, TableIsSound
    <2>2. CASE m \notin reached
      <3>1. Pushed(m) = peerTable[m] /\ Saved(m) = savedPeers[m]
        BY <1>11, <2>2
      <3> HIDE DEF Pushed, Saved
      <3> QED BY <1>1, <3>1
    <2> QED BY <2>1, <2>2
  <1>14. u \in Seq(PeerRecord)
    <2> HIDE DEF u
    <2> QED BY <1>12 DEF NodeIsSound, TableIsSound
  <1> HIDE DEF Pushed, Saved, u
  <1>15. /\ peerTable' \in [SovereignNodes -> Seq(PeerRecord)] /\ peerTable'[n] = u
         /\ \A m \in SovereignNodes \ {n} : peerTable'[m] = Pushed(m)
    BY <1>8, <1>13, <1>14
  <1>16. savedPeers' \in [SovereignNodes -> Seq(PeerRecord)] /\ \A m \in SovereignNodes : savedPeers'[m] = Saved(m)
    BY <1>9, <1>13
  <1>17. ASSUME NEW m \in SovereignNodes
         PROVE  NodeMoves(m)
    <2>1. CASE m = n
      <3>1. peerTable'[m] = u /\ savedPeers'[m] = savedPeers[n] /\ pulling'[m] = pulling[n]
        BY <1>3, <1>6, <1>11, <1>15, <1>16, <2>1
      <3> QED BY <1>3, <1>12, <2>1, <3>1 DEF NodeMoves
    <2>2. CASE m # n /\ m \in reached
      <3>1. peerTable'[m] = Pushed(m) /\ savedPeers'[m] = Saved(m) /\ pulling'[m] = pulling[m]
        BY <1>3, <1>15, <1>16, <2>2
      <3> QED BY <1>6, <1>10, <2>2, <3>1 DEF NodeMoves
    <2>3. CASE m # n /\ m \notin reached
      <3>1. peerTable'[m] = Pushed(m) /\ savedPeers'[m] = Saved(m) /\ pulling'[m] = pulling[m]
        BY <1>3, <1>15, <1>16, <2>3
      <3> QED BY <1>11, <2>3, <3>1 DEF NodeMoves
    <2> QED BY <2>1, <2>2, <2>3
  <1>18. pulling' \in [SovereignNodes -> Seq(SovereignNodes)] /\ here' = here
    BY <1>1, <1>3
  <1> QED BY <1>15, <1>16, <1>17, <1>18, SeveralNodesChange

LEMMA SovereignPeersKept == SovereignPeersInv /\ [SovereignPeersNext]_sovereignPeersVars => SovereignPeersInv'
  <1> SUFFICES ASSUME SovereignPeersInv, [SovereignPeersNext]_sovereignPeersVars PROVE SovereignPeersInv'
    OBVIOUS
  <1>1. CASE SovereignPeersNext
    BY <1>1, StartIsSound, StopIsSound, TickIsSound, PullIsSound, PushIsSound DEF SovereignPeersNext
  <1>2. CASE UNCHANGED sovereignPeersVars
    BY <1>2 DEF sovereignPeersVars, SovereignPeersInv
  <1> QED BY <1>1, <1>2

(* Who runs, who ticks and who has left, and what the bounds allow.             *)
AllowanceKind == [losses : 0..MaxLosses, restarts : 0..MaxRestarts, pushes : 0..MaxPushes]
RunningInv == /\ ticking \subseteq here /\ here \subseteq SovereignNodes \ left /\ left \subseteq Gone
              /\ allowance \in AllowanceKind

LEMMA AllowanceNats == MaxLosses \in Nat /\ MaxRestarts \in Nat /\ MaxPushes \in Nat /\ Gone \subseteq SovereignNodes
  BY SovereignPeersAssumption DEF SovereignPeersAssumption

LEMMA RunningStarts == SovereignPeersInit => RunningInv
  BY AllowanceNats DEF SovereignPeersInit, RunningInv, AllowanceKind

LEMMA RunningKept == SovereignPeersInv /\ RunningInv /\ [SovereignPeersNext]_sovereignPeersVars => RunningInv'
  <1> SUFFICES ASSUME SovereignPeersInv, RunningInv, [SovereignPeersNext]_sovereignPeersVars PROVE RunningInv'
    OBVIOUS
  <1>k. /\ allowance \in AllowanceKind
        /\ allowance.losses \in 0..MaxLosses /\ allowance.restarts \in 0..MaxRestarts /\ allowance.pushes \in 0..MaxPushes
    BY DEF RunningInv, AllowanceKind
  <1>1. ASSUME NEW n \in SovereignNodes, BeginTick(n) \/ EndTick(n) PROVE RunningInv'
    BY <1>1 DEF RunningInv, BeginTick, EndTick
  <1>2. ASSUME NEW n \in SovereignNodes, PullAnswered(n) PROVE RunningInv'
    BY <1>2 DEF RunningInv, PullAnswered
  <1>3. ASSUME NEW n \in SovereignNodes, StartsNode(n) PROVE RunningInv'
    BY <1>3 DEF RunningInv, StartsNode
  <1>4. ASSUME NEW n \in SovereignNodes, StopsNode(n) PROVE RunningInv'
    <2>1. n \in here /\ here' = here \ {n} /\ ticking' = ticking \ {n}
      BY <1>4 DEF StopsNode
    <2>2. CASE allowance.restarts > 0 /\ allowance' = [allowance EXCEPT !.restarts = @ - 1] /\ UNCHANGED left
      <3>1. allowance' \in AllowanceKind
        BY <1>k, <2>2, AllowanceNats DEF AllowanceKind
      <3> QED BY <2>1, <2>2, <3>1 DEF RunningInv
    <2>3. CASE n \in Gone /\ left' = left \cup {n} /\ UNCHANGED allowance
      BY <2>1, <2>3 DEF RunningInv
    <2> QED BY <1>4, <2>2, <2>3 DEF StopsNode
  <1>5. ASSUME NEW n \in SovereignNodes, PullFails(n) PROVE RunningInv'
    <2>1. UNCHANGED <<ticking, here, left>>
      BY <1>5 DEF PullFails
    <2>2. allowance' = allowance \/ (allowance.losses > 0 /\ allowance' = [allowance EXCEPT !.losses = @ - 1])
      BY <1>5 DEF PullFails
    <2>3. allowance' \in AllowanceKind
      <3>1. CASE allowance' = allowance
        BY <1>k, <3>1
      <3>2. CASE allowance.losses > 0 /\ allowance' = [allowance EXCEPT !.losses = @ - 1]
        BY <1>k, <3>2, AllowanceNats DEF AllowanceKind
      <3> QED BY <2>2, <3>1, <3>2
    <2> QED BY <2>1, <2>3 DEF RunningInv
  <1>6. ASSUME NEW n \in SovereignNodes, PushTo(n) PROVE RunningInv'
    <2>1. UNCHANGED <<ticking, here, left>>
      BY <1>6 DEF PushTo
    <2>2. PICK lost \in SUBSET (Urls(peerTable[n]) \cap here) :
             /\ allowance.pushes > 0 /\ Cardinality(lost) <= allowance.losses
             /\ allowance' = [allowance EXCEPT !.pushes = @ - 1, !.losses = @ - Cardinality(lost)]
      BY <1>6 DEF PushTo
    <2>3. peerTable[n] \in Seq(PeerRecord)
      BY DEF SovereignPeersInv
    <2>4. IsFiniteSet(Urls(peerTable[n]))
      <3>1. PICK t : t = peerTable[n]
        OBVIOUS
      <3>2. Len(t) \in Nat /\ DOMAIN t = 1..Len(t)
        BY <2>3, <3>1
      <3>3. IsFiniteSet(1..Len(t))
        BY <3>2, FS_Interval
      <3> DEFINE f == [i \in 1..Len(t) |-> t[i].url]
      <3>4. f \in Surjection(1..Len(t), Urls(t))
        BY <3>2 DEF Surjection, Urls
      <3>5. IsFiniteSet(Urls(t))
        BY <3>3, <3>4, FS_Surjection
      <3> QED BY <3>1, <3>5
    <2>5. Cardinality(lost) \in Nat
      BY <2>2, <2>4, FS_Subset, FS_CardinalityType
    <2>6. PICK k \in Nat : k = Cardinality(lost)
      BY <2>5
    <2>7. allowance' = [allowance EXCEPT !.pushes = @ - 1, !.losses = @ - k] /\ k <= allowance.losses /\ allowance.pushes > 0
      BY <2>2, <2>6
    <2>8. allowance' \in AllowanceKind
      <3>1. allowance.pushes - 1 \in 0..MaxPushes /\ allowance.losses - k \in 0..MaxLosses
        BY <1>k, <2>7, AllowanceNats
      <3>2. PICK p, l : p = allowance.pushes - 1 /\ l = allowance.losses - k
        OBVIOUS
      <3>3. allowance' = [allowance EXCEPT !.pushes = p, !.losses = l]
        BY <2>7, <3>2
      <3>4. p \in 0..MaxPushes /\ l \in 0..MaxLosses
        BY <3>1, <3>2
      <3> QED BY <1>k, <3>3, <3>4 DEF AllowanceKind
    <2> QED BY <2>1, <2>8 DEF RunningInv
  <1>7. CASE UNCHANGED sovereignPeersVars
    BY <1>7 DEF sovereignPeersVars, RunningInv
  <1> QED BY <1>1, <1>2, <1>3, <1>4, <1>5, <1>6, <1>7 DEF SovereignPeersNext

LEMMA PeersAreTyped == SovereignPeersInv /\ RunningInv => SovereignPeersTypeOK
  BY DEF SovereignPeersInv, RunningInv, AllowanceKind, SovereignPeersTypeOK

-----------------------------------------------------------------------------
(* The wallet of the node (wallet/manager.ts and its routes).  A process that   *)
(* runs has the identity of the last good file, also when the file is damaged;  *)
(* it is the only one that was registered.  A request that waits has an         *)
(* identity to wait for, and a claim that was paid is entered once.             *)
SameIdentity == /\ IF held.up THEN held.id = backup.id ELSE held = NotHeld
                /\ walletFile.id \in {backup.id, Broken}
                /\ registeredAs \subseteq {backup.id}
RewardsAccepted == /\ {held.reward, backup.reward, walletFile.reward} \subseteq boundTo \cup {Nobody}
                   /\ \A c \in WalletCalls : wcall[c].stage = "bound" => wcall[c].address \in boundTo
OpenStages == {"register", "bind", "bound"}
CallsHaveIdentity == \A c \in WalletCalls :
    /\ wcall[c].stage \in OpenStages => held.id # Nobody /\ wcall[c].address \in Addresses
    /\ wcall[c].stage \in OpenStages \cup {"claim", "paid"} => held.up
PaidCalls == {c \in WalletCalls : wcall[c].stage = "paid"}
PastCalls == {c \in WalletCalls : wcall[c].stage \notin {"free", "register", "bind"}}
ClaimsCounted == /\ ledger + Cardinality(PaidCalls) <= paidClaims /\ savedLedger <= paidClaims
                 /\ payout.revision <= Cardinality(PastCalls)
WalletInv == WalletTypeOK /\ SameIdentity /\ RewardsAccepted /\ CallsHaveIdentity /\ ClaimsCounted

FileCard == [id : Anyone \cup {Broken}, reward : Anyone]
GoodCard == [id : Anyone, reward : Anyone]
Holder == [up : BOOLEAN, id : Anyone, reward : Anyone]
WalletCall == [stage : CallStages, address : Anyone, revision : 0..Cardinality(WalletCalls)]
Payout == [address : Anyone, revision : 0..Cardinality(WalletCalls)]

LEMMA CallSets == ASSUME NEW S \in SUBSET WalletCalls
                  PROVE  IsFiniteSet(S) /\ Cardinality(S) \in Nat /\ Cardinality(S) <= Cardinality(WalletCalls) /\ Cardinality(WalletCalls) \in Nat
  BY WalletAssumption, FS_Subset, FS_CardinalityType

LEMMA WalletMeans == WalletInv => WalletTypeOK /\ OneIdentity
  <1> SUFFICES ASSUME WalletInv PROVE WalletTypeOK /\ OneIdentity
    OBVIOUS
  <1>1. IsFiniteSet(registeredAs) /\ Cardinality(registeredAs) <= 1
    <2>1. IsFiniteSet({backup.id}) /\ Cardinality({backup.id}) = 1
      BY FS_Singleton
    <2>2. registeredAs \subseteq {backup.id}
      BY DEF WalletInv, SameIdentity
    <2> QED BY <2>1, <2>2, FS_Subset
  <1>2. ledger <= paidClaims /\ savedLedger <= paidClaims
    <2>1. Cardinality(PaidCalls) \in Nat
      BY CallSets DEF PaidCalls
    <2>2. ledger \in Nat /\ paidClaims \in Nat
      BY WalletAssumption DEF WalletInv, WalletTypeOK
    <2> QED BY <2>1, <2>2 DEF WalletInv, ClaimsCounted
  <1> QED BY <1>1, <1>2 DEF WalletInv, RewardsAccepted, OneIdentity

LEMMA WalletBegins == WalletInit => WalletInv
  <1> SUFFICES ASSUME WalletInit PROVE WalletInv
    OBVIOUS
  <1>1. PaidCalls = {} /\ PastCalls = {}
    BY DEF WalletInit, PaidCalls, PastCalls, FreshCall
  <1>2. Cardinality({}) = 0 /\ Cardinality(WalletCalls) \in Nat /\ MaxClaims \in Nat /\ MaxWalletFaults \in Nat
    BY FS_EmptySet, CallSets, WalletAssumption
  <1>3. WalletTypeOK
    <2>1. walletFile \in FileCard /\ backup \in GoodCard /\ held \in Holder /\ wcall \in [WalletCalls -> WalletCall]
      BY <1>2 DEF WalletInit, NoWallet, Card, NotHeld, FreshCall, Anyone, FileCard, GoodCard, Holder, WalletCall, CallStages
    <2>2. payout \in Payout /\ paidClaims \in 0..MaxClaims /\ ledger \in 0..MaxClaims /\ savedLedger \in 0..MaxClaims /\ walletFaults \in 0..MaxWalletFaults
      BY <1>2 DEF WalletInit, Anyone, Payout
    <2> QED BY <2>1, <2>2 DEF WalletInit, WalletTypeOK, FileCard, GoodCard, Holder, WalletCall, Payout
  <1>4. SameIdentity /\ RewardsAccepted
    BY DEF WalletInit, NoWallet, Card, NotHeld, FreshCall, SameIdentity, RewardsAccepted
  <1>5. CallsHaveIdentity /\ ClaimsCounted
    BY <1>1, <1>2 DEF WalletInit, FreshCall, CallsHaveIdentity, ClaimsCounted, OpenStages
  <1> QED BY <1>3, <1>4, <1>5 DEF WalletInv

LEMMA WalletKinds ==
  ASSUME WalletTypeOK
  PROVE  /\ walletFile \in FileCard /\ backup \in GoodCard /\ held \in Holder /\ wcall \in [WalletCalls -> WalletCall]
         /\ payout \in Payout /\ paidClaims \in 0..MaxClaims /\ ledger \in 0..MaxClaims /\ savedLedger \in 0..MaxClaims
         /\ walletFaults \in 0..MaxWalletFaults /\ MaxClaims \in Nat /\ MaxWalletFaults \in Nat
         /\ registeredAs \subseteq Addresses /\ boundTo \subseteq Addresses
         /\ Nobody \notin Addresses /\ Broken \notin Addresses /\ Nobody # Broken /\ Cardinality(WalletCalls) \in Nat
  BY WalletAssumption, CallSets DEF WalletTypeOK, FileCard, GoodCard, Holder, WalletCall, Payout, Nobody, Broken

LEMMA FaultCounted == ASSUME WalletTypeOK, WalletFault PROVE walletFaults' \in 0..MaxWalletFaults
  BY WalletKinds DEF WalletFault

(* The file: written with its backup, or not and perhaps truncated.             *)
LEMMA FileWrittenOrNot ==
  ASSUME WalletInv, NEW id \in Anyone, NEW reward \in Anyone, Written(Card(id, reward)) \/ WriteFails
  PROVE  /\ walletFile' \in FileCard /\ backup' \in GoodCard /\ walletFaults' \in 0..MaxWalletFaults
         /\ walletFile'.id \in {backup'.id, Broken}
         /\ Written(Card(id, reward)) => backup'.id = id /\ backup'.reward = reward /\ walletFile'.reward = reward
         /\ WriteFails => backup' = backup /\ walletFile'.reward \in {walletFile.reward, Nobody}
  <1>1. WalletTypeOK /\ walletFile.id \in {backup.id, Broken}
    BY DEF WalletInv, SameIdentity
  <1>2. CASE Written(Card(id, reward))
    <2>1. [id |-> id, reward |-> reward] \in FileCard /\ [id |-> id, reward |-> reward] \in GoodCard
      BY DEF FileCard, GoodCard
    <2>2. walletFile' = [id |-> id, reward |-> reward] /\ backup' = [id |-> id, reward |-> reward] /\ walletFaults' = walletFaults
      BY <1>2 DEF Written, Card
    <2>3. WriteFails => FALSE
      BY <1>1, <2>2, WalletKinds DEF WriteFails, WalletFault
    <2> QED BY <1>1, <2>1, <2>2, <2>3, WalletKinds
  <1>3. CASE WriteFails
    <2>1. backup' = backup /\ walletFaults' \in 0..MaxWalletFaults /\ walletFaults' # walletFaults
      BY <1>1, <1>3, WalletKinds DEF WriteFails, WalletFault
    <2>2. Card(Broken, Nobody) \in FileCard /\ Card(Broken, Nobody).id = Broken /\ Card(Broken, Nobody).reward = Nobody
      BY DEF Card, FileCard, Anyone
    <2>3. walletFile' \in FileCard /\ walletFile'.id \in {backup.id, Broken} /\ walletFile'.reward \in {walletFile.reward, Nobody}
      BY <1>1, <1>3, <2>2, WalletKinds DEF WriteFails
    <2>4. ~Written(Card(id, reward))
      BY <2>1 DEF Written
    <2> QED BY <1>1, <1>3, <2>1, <2>3, <2>4, WalletKinds
  <1> QED BY <1>2, <1>3

(* The calls that move on: only one that binds is past, only one that is paid   *)
(* is counted.                                                                  *)
LEMMA CallMoves ==
  ASSUME WalletInv, NEW c \in WalletCalls, NEW next \in CallStages, NEW address \in Anyone, NEW revision \in 0..Cardinality(WalletCalls),
         wcall' = [wcall EXCEPT ![c] = [stage |-> next, address |-> address, revision |-> revision]]
  PROVE  /\ wcall' \in [WalletCalls -> WalletCall]
         /\ wcall'[c].stage = next /\ wcall'[c].address = address
         /\ \A d \in WalletCalls \ {c} : wcall'[d] = wcall[d]
         /\ PaidCalls' = (PaidCalls \ {c}) \cup (IF next = "paid" THEN {c} ELSE {})
         /\ PastCalls' = (PastCalls \ {c}) \cup (IF next \notin {"free", "register", "bind"} THEN {c} ELSE {})
  <1>1. wcall \in [WalletCalls -> WalletCall]
    BY WalletKinds DEF WalletInv
  <1>2. [stage |-> next, address |-> address, revision |-> revision] \in WalletCall
    BY DEF WalletCall
  <1>3. /\ wcall' \in [WalletCalls -> WalletCall] /\ wcall'[c] = [stage |-> next, address |-> address, revision |-> revision]
        /\ \A d \in WalletCalls \ {c} : wcall'[d] = wcall[d]
    BY <1>1, <1>2
  <1> QED BY <1>3 DEF PaidCalls, PastCalls

(* CallTo keeps the address and the revision.                                   *)
LEMMA CallKeeps ==
  ASSUME WalletInv, NEW c \in WalletCalls, NEW next \in CallStages, CallTo(c, next)
  PROVE  /\ wcall[c].address \in Anyone /\ wcall[c].revision \in 0..Cardinality(WalletCalls)
         /\ wcall' = [wcall EXCEPT ![c] = [stage |-> next, address |-> wcall[c].address, revision |-> wcall[c].revision]]
  <1>1. wcall \in [WalletCalls -> WalletCall]
    BY WalletKinds DEF WalletInv
  <1>2. PICK x \in WalletCall : x = wcall[c]
    BY <1>1
  <1>3. [x EXCEPT !.stage = next] = [stage |-> next, address |-> x.address, revision |-> x.revision]
        /\ x.address \in Anyone /\ x.revision \in 0..Cardinality(WalletCalls)
    BY DEF WalletCall
  <1>4. wcall' = [wcall EXCEPT ![c] = [x EXCEPT !.stage = next]]
    BY <1>2 DEF CallTo
  <1> QED BY <1>2, <1>3, <1>4

LEMMA ADoneCall == [FreshCall EXCEPT !.stage = "done"] = [stage |-> "done", address |-> Nobody, revision |-> 0]
                   /\ Nobody \in Anyone /\ 0 \in 0..Cardinality(WalletCalls) /\ "done" \in CallStages
  BY CallSets DEF FreshCall, Anyone, CallStages

(* A call that goes from one stage to another that is not before it keeps what  *)
(* was counted.                                                                 *)
LEMMA CallsCounted ==
  ASSUME WalletInv, NEW c \in WalletCalls,
         PaidCalls' = (PaidCalls \ {c}) \cup (IF wcall'[c].stage = "paid" THEN {c} ELSE {}),
         PastCalls' = (PastCalls \ {c}) \cup (IF wcall'[c].stage \notin {"free", "register", "bind"} THEN {c} ELSE {}),
         wcall[c].stage \in {"free", "register", "bind"} \/ wcall'[c].stage \notin {"free", "register", "bind"},
         wcall'[c].stage # "paid"
  PROVE  /\ Cardinality(PaidCalls') \in Nat /\ Cardinality(PaidCalls') <= Cardinality(PaidCalls)
         /\ c \in PaidCalls => Cardinality(PaidCalls') = Cardinality(PaidCalls) - 1
         /\ Cardinality(PastCalls') \in Nat /\ Cardinality(PastCalls) <= Cardinality(PastCalls')
         /\ c \notin PastCalls /\ c \in PastCalls' => Cardinality(PastCalls') = Cardinality(PastCalls) + 1
         /\ Cardinality(PaidCalls) \in Nat /\ Cardinality(PastCalls) \in Nat
  <1>1. IsFiniteSet(PaidCalls) /\ IsFiniteSet(PastCalls) /\ PaidCalls' = PaidCalls \ {c}
    BY CallSets DEF PaidCalls, PastCalls
  <1>2. IsFiniteSet(PastCalls') /\ PastCalls \subseteq PastCalls'
    <2>1. c \in PastCalls => wcall'[c].stage \notin {"free", "register", "bind"}
      BY DEF PastCalls
    <2>2. PastCalls' \in SUBSET WalletCalls
      BY DEF PastCalls
    <2> QED BY <2>1, <2>2, CallSets
  <1>3. c \notin PastCalls /\ c \in PastCalls' => PastCalls' = PastCalls \cup {c}
    OBVIOUS
  <1>4. /\ Cardinality(PaidCalls) \in Nat /\ Cardinality(PastCalls) \in Nat
        /\ Cardinality(PaidCalls') \in Nat /\ Cardinality(PastCalls') \in Nat
    BY <1>1, <1>2, FS_CardinalityType, FS_RemoveElement
  <1>5. Cardinality(PaidCalls') = IF c \in PaidCalls THEN Cardinality(PaidCalls) - 1 ELSE Cardinality(PaidCalls)
    BY <1>1, FS_RemoveElement
  <1>6. Cardinality(PastCalls) <= Cardinality(PastCalls')
    BY <1>2, FS_Subset
  <1>7. c \notin PastCalls /\ c \in PastCalls' => Cardinality(PastCalls') = Cardinality(PastCalls) + 1
    BY <1>1, <1>3, FS_AddElement
  <1> QED BY <1>4, <1>5, <1>6, <1>7

(* What the operator and the process do with the file while no request moves.   *)
LEMMA IdentityMoves ==
  ASSUME WalletInv, UNCHANGED <<wcall, payout, registeredAs, boundTo, paidClaims, savedLedger>>,
         walletFile' \in FileCard, backup' \in GoodCard, held' \in Holder, walletFaults' \in 0..MaxWalletFaults,
         SameIdentity', {held'.reward, backup'.reward, walletFile'.reward} \subseteq boundTo \cup {Nobody},
         ledger' = ledger \/ (ledger' = savedLedger /\ ~held.up),
         held'.up = held.up \/ ~held.up, held'.id = held.id \/ held.id = Nobody
  PROVE  WalletInv'
  <1>1. WalletTypeOK
    BY DEF WalletInv
  <1>2. WalletTypeOK'
    <2>1. /\ wcall' \in [WalletCalls -> WalletCall] /\ payout' \in Payout /\ registeredAs' \subseteq Addresses /\ boundTo' \subseteq Addresses
          /\ paidClaims' \in 0..MaxClaims /\ ledger' \in 0..MaxClaims /\ savedLedger' \in 0..MaxClaims
      BY <1>1, WalletKinds
    <2> QED BY <2>1 DEF WalletTypeOK, FileCard, GoodCard, Holder, WalletCall, Payout
  <1>3. RewardsAccepted'
    BY DEF WalletInv, RewardsAccepted
  <1>4. CallsHaveIdentity'
    <2>1. \A c \in WalletCalls : wcall[c].stage \in OpenStages \cup {"claim", "paid"} => held'.up
      BY DEF WalletInv, CallsHaveIdentity
    <2>2. \A c \in WalletCalls : wcall[c].stage \in OpenStages => held'.id # Nobody /\ wcall[c].address \in Addresses
      BY DEF WalletInv, CallsHaveIdentity
    <2> QED BY <2>1, <2>2 DEF CallsHaveIdentity
  <1>5. ClaimsCounted'
    <2>1. PaidCalls' = PaidCalls /\ PastCalls' = PastCalls
      BY DEF PaidCalls, PastCalls
    <2>2. ~held.up => PaidCalls = {}
      BY DEF WalletInv, CallsHaveIdentity, PaidCalls
    <2>3. CASE ledger' = ledger
      BY <2>1, <2>3 DEF WalletInv, ClaimsCounted
    <2>4. CASE ledger' = savedLedger /\ ~held.up
      <3>1. Cardinality(PaidCalls') = 0 /\ ledger' = savedLedger
        BY <2>1, <2>2, <2>4, FS_EmptySet
      <3>2. savedLedger \in Nat /\ savedLedger <= paidClaims
        BY <1>1, WalletKinds DEF WalletInv, ClaimsCounted
      <3>3. savedLedger + 0 <= paidClaims
        BY <3>2
      <3> QED BY <2>1, <3>1, <3>2, <3>3 DEF WalletInv, ClaimsCounted
    <2> QED BY <2>3, <2>4
  <1> QED BY <1>2, <1>3, <1>4, <1>5 DEF WalletInv

LEMMA WalletStarts == ASSUME WalletInv, NEW env \in Anyone, StartWallet(env) PROVE WalletInv'
  <1>0. WalletTypeOK /\ ~held.up /\ held = NotHeld /\ walletFile.id \in {backup.id, Broken} /\ registeredAs \subseteq {backup.id}
    BY DEF WalletInv, SameIdentity, StartWallet
  <1>1. UNCHANGED <<wcall, payout, registeredAs, boundTo, paidClaims, savedLedger>> /\ ledger' = savedLedger
    BY DEF StartWallet
  <1>2. /\ NotHeld \in Holder /\ NotHeld.id = Nobody /\ NotHeld.reward = Nobody /\ NotHeld.up = FALSE
        /\ [NotHeld EXCEPT !.up = TRUE] \in Holder /\ [NotHeld EXCEPT !.up = TRUE].id = Nobody
        /\ [NotHeld EXCEPT !.up = TRUE].reward = Nobody /\ [NotHeld EXCEPT !.up = TRUE].up = TRUE
    BY DEF NotHeld, Holder, Anyone
  <1>3. {held.reward, backup.reward, walletFile.reward} \subseteq boundTo \cup {Nobody}
    BY DEF WalletInv, RewardsAccepted
  <1>m. ASSUME walletFile' \in FileCard, backup' \in GoodCard, held' \in Holder, walletFaults' \in 0..MaxWalletFaults,
               SameIdentity', {held'.reward, backup'.reward, walletFile'.reward} \subseteq boundTo \cup {Nobody}
        PROVE  WalletInv'
    BY <1>0, <1>1, <1>2, <1>m, IdentityMoves
  <1>4. CASE /\ walletFile.id \in Addresses /\ UNCHANGED <<walletFile, backup, walletFaults>>
             /\ held' = [up |-> TRUE, id |-> walletFile.id, reward |-> walletFile.reward]
    <2>1. walletFile.reward \in Anyone /\ walletFile.id \in Anyone /\ walletFile.id = backup.id
      BY <1>0, <1>4, WalletKinds DEF FileCard, Anyone
    <2>2. held' \in Holder /\ held'.up = TRUE /\ held'.id = backup'.id /\ held'.reward = walletFile.reward
      BY <1>4, <2>1 DEF Holder
    <2>3. SameIdentity'
      BY <1>0, <1>1, <1>4, <2>2 DEF SameIdentity
    <2> QED BY <1>0, <1>3, <1>4, <1>m, <2>2, <2>3, WalletKinds
  <1>5. CASE walletFile.id = Nobody
    <2>0. backup.id = Nobody /\ registeredAs = {}
      BY <1>0, <1>5, WalletKinds DEF Nobody, Broken
    <2>1. CASE held' = [NotHeld EXCEPT !.up = TRUE] /\ UNCHANGED <<walletFile, backup, walletFaults>>
      <3>1. SameIdentity'
        BY <1>0, <1>1, <1>2, <2>0, <2>1 DEF SameIdentity
      <3> QED BY <1>0, <1>2, <1>3, <1>m, <2>1, <3>1, WalletKinds
    <2>2. CASE Written(Card(env, Nobody)) /\ held' = [up |-> TRUE, id |-> env, reward |-> Nobody]
      <3>1. /\ walletFile' \in FileCard /\ backup' \in GoodCard /\ walletFaults' \in 0..MaxWalletFaults
            /\ walletFile'.id \in {backup'.id, Broken} /\ backup'.id = env /\ backup'.reward = Nobody /\ walletFile'.reward = Nobody
        BY <2>2, FileWrittenOrNot DEF Anyone
      <3>2. held' \in Holder /\ held'.up = TRUE /\ held'.id = env /\ held'.reward = Nobody
        BY <2>2 DEF Holder, Anyone
      <3>3. SameIdentity'
        BY <1>1, <2>0, <3>1, <3>2 DEF SameIdentity
      <3> QED BY <1>m, <3>1, <3>2, <3>3
    <2>3. CASE WriteFails /\ held' = NotHeld
      <3>1. /\ walletFile' \in FileCard /\ backup' \in GoodCard /\ walletFaults' \in 0..MaxWalletFaults
            /\ walletFile'.id \in {backup'.id, Broken} /\ backup' = backup /\ walletFile'.reward \in {walletFile.reward, Nobody}
        BY <2>3, FileWrittenOrNot DEF Anyone
      <3>2. SameIdentity'
        BY <1>1, <1>2, <2>0, <2>3, <3>1 DEF SameIdentity
      <3> QED BY <1>2, <1>3, <1>m, <2>3, <3>1, <3>2
    <2> QED BY <1>5, <2>1, <2>2, <2>3, WalletKinds, <1>0 DEF StartWallet
  <1> QED BY <1>4, <1>5 DEF StartWallet

LEMMA WalletIsRestored == ASSUME WalletInv, RestoreWallet PROVE WalletInv'
  <1>1. /\ UNCHANGED <<backup, held, wcall, payout, registeredAs, boundTo, paidClaims, ledger, savedLedger, walletFaults>> /\ walletFile' = backup
        /\ WalletTypeOK /\ SameIdentity /\ {held.reward, backup.reward, walletFile.reward} \subseteq boundTo \cup {Nobody}
    BY DEF WalletInv, RestoreWallet, RewardsAccepted
  <1>2. backup \in GoodCard /\ backup \in FileCard /\ held \in Holder /\ walletFaults \in 0..MaxWalletFaults
    BY <1>1, WalletKinds DEF GoodCard, FileCard
  <1>3. SameIdentity'
    BY <1>1 DEF SameIdentity
  <1> QED BY <1>1, <1>2, <1>3, IdentityMoves

LEMMA WalletStops == ASSUME WalletInv, StopWallet PROVE WalletInv'
  <1>0. WalletTypeOK
    BY DEF WalletInv
  <1>1. /\ UNCHANGED <<walletFile, backup, payout, registeredAs, boundTo, paidClaims, savedLedger>> /\ held' = NotHeld /\ ledger' = 0
        /\ walletFaults' \in 0..MaxWalletFaults
    BY <1>0, FaultCounted DEF StopWallet
  <1>2. /\ wcall' \in [WalletCalls -> WalletCall]
        /\ \A c \in WalletCalls : wcall'[c].stage = "free" \/ wcall'[c].stage = "done"
        /\ \A c \in WalletCalls : wcall[c].stage # "free" => wcall'[c].stage = "done"
    <2>1. FreshCall \in WalletCall /\ [FreshCall EXCEPT !.stage = "done"] \in WalletCall /\ [FreshCall EXCEPT !.stage = "done"].stage = "done"
      BY ADoneCall, CallSets DEF FreshCall, WalletCall, CallStages
    <2>2. wcall \in [WalletCalls -> WalletCall]
      BY <1>0, WalletKinds
    <2>3. wcall' = [c \in WalletCalls |-> IF wcall[c].stage = "free" THEN wcall[c] ELSE [FreshCall EXCEPT !.stage = "done"]]
      BY DEF StopWallet
    <2> QED BY <2>1, <2>2, <2>3
  <1>a. \A c \in WalletCalls : wcall'[c].stage = "free" \/ wcall'[c].stage = "done"
    BY <1>2
  <1>b. \A c \in WalletCalls : wcall[c].stage # "free" => wcall'[c].stage = "done"
    BY <1>2
  <1>3. WalletTypeOK'
    <2>1. held' \in Holder
      BY <1>1 DEF NotHeld, Holder, Anyone
    <2>2. ledger' \in 0..MaxClaims
      BY <1>0, <1>1, WalletKinds
    <2> QED BY <1>0, <1>1, <1>2, <2>1, <2>2, WalletKinds DEF WalletTypeOK, FileCard, GoodCard, Holder, WalletCall, Payout
  <1>4. SameIdentity' /\ RewardsAccepted'
    <2>1. NotHeld.up = FALSE /\ NotHeld.reward = Nobody
      BY DEF NotHeld
    <2>2. SameIdentity'
      BY <1>1, <2>1 DEF WalletInv, SameIdentity
    <2>3. RewardsAccepted'
      <3>1. \A c \in WalletCalls : wcall'[c].stage # "bound"
        BY <1>a
      <3> QED BY <1>1, <2>1, <3>1 DEF WalletInv, RewardsAccepted
    <2> QED BY <2>2, <2>3
  <1>5. CallsHaveIdentity'
    <2>1. \A c \in WalletCalls : wcall'[c].stage \notin {"register", "bind", "bound", "claim", "paid"}
      BY <1>a
    <2> QED BY <2>1 DEF CallsHaveIdentity, OpenStages
  <1>6. ClaimsCounted'
    <2>1. PaidCalls' = {} /\ PastCalls \subseteq PastCalls'
      <3>1. \A c \in WalletCalls : wcall'[c].stage # "paid"
        BY <1>a
      <3>2. \A c \in PastCalls : c \in WalletCalls /\ wcall'[c].stage = "done"
        BY <1>b DEF PastCalls
      <3> QED BY <3>1, <3>2 DEF PaidCalls, PastCalls
    <2>2. Cardinality(PaidCalls') = 0 /\ Cardinality(PastCalls) <= Cardinality(PastCalls') /\ Cardinality(PastCalls) \in Nat /\ Cardinality(PastCalls') \in Nat
      <3>1. PastCalls \in SUBSET WalletCalls /\ PastCalls' \in SUBSET WalletCalls
        BY DEF PastCalls
      <3> QED BY <2>1, <3>1, CallSets, FS_Subset, FS_EmptySet
    <2>3. payout.revision \in Nat /\ paidClaims \in Nat
      BY <1>0, WalletKinds DEF Payout
    <2> QED BY <1>1, <2>2, <2>3 DEF WalletInv, ClaimsCounted
  <1> QED BY <1>3, <1>4, <1>5, <1>6 DEF WalletInv

LEMMA NodeIsRegistered == ASSUME WalletInv, Register PROVE WalletInv'
  <1>1. /\ UNCHANGED <<walletFile, backup, held, wcall, payout, boundTo, paidClaims, ledger, savedLedger, walletFaults>>
        /\ registeredAs' = registeredAs \cup {held.id} /\ held.id = backup.id /\ held.id \in Addresses
    BY WalletKinds DEF WalletInv, Register, SameIdentity, Holder, Anyone
  <1>2. WalletTypeOK' /\ SameIdentity'
    BY <1>1 DEF WalletInv, WalletTypeOK, SameIdentity
  <1>3. RewardsAccepted' /\ CallsHaveIdentity' /\ ClaimsCounted'
    BY <1>1 DEF WalletInv, RewardsAccepted, CallsHaveIdentity, ClaimsCounted, PaidCalls, PastCalls
  <1> QED BY <1>2, <1>3 DEF WalletInv

(* configurePayoutAddress.                                                      *)
LEMMA WalletConfigured ==
  ASSUME WalletInv, NEW a \in Addresses, held.up, Configure(a), UNCHANGED <<registeredAs, boundTo>>
  PROVE  /\ walletFile' \in FileCard /\ backup' \in GoodCard /\ held' \in Holder /\ walletFaults' \in 0..MaxWalletFaults
         /\ SameIdentity' /\ {held'.reward, backup'.reward, walletFile'.reward} \subseteq boundTo \cup {Nobody}
         /\ held'.up = held.up /\ (held'.id = held.id \/ held.id = Nobody)
  <1>0. /\ WalletTypeOK /\ held.id = backup.id /\ registeredAs \subseteq {backup.id}
        /\ {held.reward, backup.reward, walletFile.reward} \subseteq boundTo \cup {Nobody} /\ SameIdentity
    BY DEF WalletInv, SameIdentity, RewardsAccepted
  <1>1. CASE held.id # Nobody
    <2>1. UNCHANGED <<walletFile, backup, held, walletFaults>>
      BY <1>1 DEF Configure
    <2> QED BY <1>0, <2>1, WalletKinds DEF SameIdentity
  <1>2. CASE held.id = Nobody
    <2>0. registeredAs = {}
      BY <1>0, <1>2, WalletKinds
    <2>1. CASE Written(Card(a, Nobody)) /\ held' = [held EXCEPT !.id = a]
      <3>1. /\ walletFile' \in FileCard /\ backup' \in GoodCard /\ walletFaults' \in 0..MaxWalletFaults
            /\ walletFile'.id \in {backup'.id, Broken} /\ backup'.id = a /\ backup'.reward = Nobody /\ walletFile'.reward = Nobody
        BY <2>1, FileWrittenOrNot DEF Anyone
      <3>2. held' \in Holder /\ held'.id = a /\ held'.up = held.up /\ held'.reward = held.reward
        BY <1>0, <2>1, WalletKinds DEF Holder, Anyone
      <3>3. SameIdentity'
        BY <2>0, <3>1, <3>2 DEF SameIdentity
      <3> QED BY <1>0, <1>2, <3>1, <3>2, <3>3
    <2>2. CASE WriteFails /\ UNCHANGED held
      <3>1. /\ walletFile' \in FileCard /\ backup' \in GoodCard /\ walletFaults' \in 0..MaxWalletFaults
            /\ walletFile'.id \in {backup'.id, Broken} /\ backup' = backup /\ walletFile'.reward \in {walletFile.reward, Nobody}
        BY <2>2, FileWrittenOrNot DEF Anyone
      <3>2. SameIdentity'
        BY <1>0, <2>2, <3>1 DEF SameIdentity
      <3> QED BY <1>0, <2>2, <3>1, <3>2, WalletKinds
    <2> QED BY <1>2, <2>1, <2>2 DEF Configure
  <1> QED BY <1>1, <1>2

LEMMA IdentityIsSet == ASSUME WalletInv, NEW a \in Addresses, SetIdentity(a) PROVE WalletInv'
  <1>1. held.up /\ Configure(a) /\ UNCHANGED <<wcall, payout, registeredAs, boundTo, paidClaims, ledger, savedLedger>>
    BY DEF SetIdentity
  <1>2. /\ walletFile' \in FileCard /\ backup' \in GoodCard /\ held' \in Holder /\ walletFaults' \in 0..MaxWalletFaults
        /\ SameIdentity' /\ {held'.reward, backup'.reward, walletFile'.reward} \subseteq boundTo \cup {Nobody}
        /\ held'.up = held.up /\ (held'.id = held.id \/ held.id = Nobody)
    BY <1>1, WalletConfigured
  <1> QED BY <1>1, <1>2, IdentityMoves

LEMMA RewardAsked ==
  ASSUME WalletInv, NEW c \in WalletCalls, NEW a \in Addresses, NEW revision \in 0..payout.revision, AskReward(c, a, revision)
  PROVE  WalletInv'
  <1>0. /\ WalletTypeOK /\ held.up /\ wcall[c].stage = "free" /\ UNCHANGED <<payout, registeredAs, boundTo, paidClaims, ledger, savedLedger>>
    BY DEF WalletInv, AskReward, CallAt
  <1>1. /\ walletFile' \in FileCard /\ backup' \in GoodCard /\ held' \in Holder /\ walletFaults' \in 0..MaxWalletFaults
        /\ SameIdentity' /\ {held'.reward, backup'.reward, walletFile'.reward} \subseteq boundTo \cup {Nobody}
        /\ held'.up = held.up /\ (held'.id = held.id \/ held.id = Nobody)
    <2>1. CASE Configure(a)
      BY <1>0, <2>1, WalletConfigured
    <2>2. CASE UNCHANGED <<walletFile, backup, held, walletFaults>>
      BY <1>0, <2>2, WalletKinds DEF WalletInv, SameIdentity, RewardsAccepted
    <2> QED BY <2>1, <2>2 DEF AskReward
  <1>2. PICK next, address : /\ next = (IF held'.id = Nobody THEN "done" ELSE IF held.id = Nobody THEN "register" ELSE "bind")
                             /\ address = (IF held'.id = Nobody THEN Nobody ELSE a)
    OBVIOUS
  <1>3. wcall' = [wcall EXCEPT ![c] = [stage |-> next, address |-> address, revision |-> revision]]
    BY <1>2 DEF AskReward
  <1>4. /\ next \in {"done", "register", "bind"} /\ next \in CallStages /\ address \in Anyone
        /\ (next # "done" => held'.id # Nobody /\ address \in Addresses) /\ revision \in 0..Cardinality(WalletCalls)
    <2>1. payout.revision \in 0..Cardinality(WalletCalls) /\ Cardinality(WalletCalls) \in Nat
      BY <1>0, WalletKinds DEF Payout
    <2>2. revision \in 0..Cardinality(WalletCalls)
      BY <2>1
    <2>3. CASE held'.id = Nobody
      BY <1>2, <2>2, <2>3 DEF CallStages, Anyone
    <2>4. CASE held'.id # Nobody
      BY <1>2, <2>2, <2>4 DEF CallStages, Anyone
    <2> QED BY <2>3, <2>4
  <1>5. /\ wcall' \in [WalletCalls -> WalletCall]
        /\ wcall'[c].stage = next /\ wcall'[c].address = address
        /\ \A d \in WalletCalls \ {c} : wcall'[d] = wcall[d]
        /\ PaidCalls' = (PaidCalls \ {c}) \cup (IF wcall'[c].stage = "paid" THEN {c} ELSE {})
        /\ PastCalls' = (PastCalls \ {c}) \cup (IF wcall'[c].stage \notin {"free", "register", "bind"} THEN {c} ELSE {})
    BY <1>3, <1>4, CallMoves
  <1>6. WalletTypeOK'
    BY <1>0, <1>1, <1>5, WalletKinds DEF WalletTypeOK, FileCard, GoodCard, Holder, WalletCall, Payout
  <1>7. RewardsAccepted'
    BY <1>0, <1>1, <1>4, <1>5 DEF WalletInv, RewardsAccepted
  <1>8. CallsHaveIdentity'
    <2>1. \A d \in WalletCalls \ {c} : wcall[d].stage \in OpenStages => held'.id # Nobody /\ wcall[d].address \in Addresses
      BY <1>1 DEF WalletInv, CallsHaveIdentity
    <2>2. wcall'[c].stage \in OpenStages => held'.id # Nobody /\ wcall'[c].address \in Addresses
      BY <1>4, <1>5 DEF OpenStages
    <2> QED BY <1>0, <1>1, <1>5, <2>1, <2>2 DEF CallsHaveIdentity
  <1>9. ClaimsCounted'
    <2>1. /\ Cardinality(PaidCalls') \in Nat /\ Cardinality(PaidCalls') <= Cardinality(PaidCalls)
          /\ Cardinality(PastCalls') \in Nat /\ Cardinality(PastCalls) <= Cardinality(PastCalls')
          /\ Cardinality(PaidCalls) \in Nat /\ Cardinality(PastCalls) \in Nat
      BY <1>0, <1>4, <1>5, CallsCounted
    <2>2. payout.revision \in Nat /\ ledger \in Nat /\ paidClaims \in Nat
      BY <1>0, WalletKinds DEF Payout
    <2> QED BY <1>0, <2>1, <2>2 DEF WalletInv, ClaimsCounted
  <1> QED BY <1>1, <1>6, <1>7, <1>8, <1>9 DEF WalletInv

(* A request that moves while the file and the process stay as they are.        *)
LEMMA RequestMoves ==
  ASSUME WalletInv, NEW c \in WalletCalls, NEW next \in CallStages, NEW address \in Anyone, NEW revision \in 0..Cardinality(WalletCalls),
         wcall' = [wcall EXCEPT ![c] = [stage |-> next, address |-> address, revision |-> revision]],
         wcall[c].stage \in {"free", "register", "bind"} \/ next \notin {"free", "register", "bind"},
         next # "paid", next = "bind" => wcall[c].stage = "register" /\ address = wcall[c].address,
         next = "bound" => wcall[c].stage \in OpenStages /\ address = wcall[c].address /\ address \in boundTo',
         next \in {"bind", "bound", "done"}
  PROVE  /\ wcall' \in [WalletCalls -> WalletCall]
         /\ \A d \in WalletCalls : wcall'[d].stage = "bound" => wcall'[d].address \in boundTo \cup boundTo'
         /\ UNCHANGED held => CallsHaveIdentity'
         /\ Cardinality(PaidCalls') \in Nat /\ Cardinality(PaidCalls') <= Cardinality(PaidCalls)
         /\ c \in PaidCalls => Cardinality(PaidCalls') = Cardinality(PaidCalls) - 1
         /\ Cardinality(PastCalls') \in Nat /\ Cardinality(PastCalls) <= Cardinality(PastCalls')
         /\ c \notin PastCalls /\ c \in PastCalls' => Cardinality(PastCalls') = Cardinality(PastCalls) + 1
         /\ Cardinality(PaidCalls) \in Nat /\ Cardinality(PastCalls) \in Nat
         /\ next \in {"bound", "done"} => c \in PastCalls'
  <1>1. /\ wcall' \in [WalletCalls -> WalletCall] /\ wcall'[c].stage = next /\ wcall'[c].address = address
        /\ \A d \in WalletCalls \ {c} : wcall'[d] = wcall[d]
        /\ PaidCalls' = (PaidCalls \ {c}) \cup (IF wcall'[c].stage = "paid" THEN {c} ELSE {})
        /\ PastCalls' = (PastCalls \ {c}) \cup (IF wcall'[c].stage \notin {"free", "register", "bind"} THEN {c} ELSE {})
    BY CallMoves
  <1>2. \A d \in WalletCalls : wcall'[d].stage = "bound" => wcall'[d].address \in boundTo \cup boundTo'
    BY <1>1 DEF WalletInv, RewardsAccepted
  <1>3. UNCHANGED held => CallsHaveIdentity'
    <2> SUFFICES ASSUME UNCHANGED held PROVE CallsHaveIdentity'
      OBVIOUS
    <2>1. wcall'[c].stage \in OpenStages => wcall[c].stage \in OpenStages /\ wcall'[c].address = wcall[c].address
      BY <1>1 DEF OpenStages
    <2>2. wcall'[c].stage \notin {"claim", "paid"}
      BY <1>1
    <2> QED BY <1>1, <2>1, <2>2 DEF WalletInv, CallsHaveIdentity
  <1>4. /\ Cardinality(PaidCalls') \in Nat /\ Cardinality(PaidCalls') <= Cardinality(PaidCalls)
        /\ c \in PaidCalls => Cardinality(PaidCalls') = Cardinality(PaidCalls) - 1
        /\ Cardinality(PastCalls') \in Nat /\ Cardinality(PastCalls) <= Cardinality(PastCalls')
        /\ c \notin PastCalls /\ c \in PastCalls' => Cardinality(PastCalls') = Cardinality(PastCalls) + 1
        /\ Cardinality(PaidCalls) \in Nat /\ Cardinality(PastCalls) \in Nat
    BY <1>1, CallsCounted
  <1>5. next \in {"bound", "done"} => c \in PastCalls'
    BY <1>1
  <1> QED BY <1>1, <1>2, <1>3, <1>4, <1>5

LEMMA CallRegistered == ASSUME WalletInv, NEW c \in WalletCalls, Registered(c) PROVE WalletInv'
  <1>0. /\ WalletTypeOK /\ held.up /\ wcall[c].stage = "register" /\ held.id = backup.id /\ held.id # Nobody
        /\ UNCHANGED <<walletFile, backup, held, payout, boundTo, paidClaims, ledger, savedLedger, walletFaults>>
    BY DEF WalletInv, Registered, CallAt, SameIdentity, CallsHaveIdentity, OpenStages
  <1>1. held.id \in Addresses
    BY <1>0, WalletKinds DEF Holder, Anyone
  <1>2. PICK next \in CallStages, address \in Anyone, revision \in 0..Cardinality(WalletCalls) :
          /\ wcall' = [wcall EXCEPT ![c] = [stage |-> next, address |-> address, revision |-> revision]]
          /\ next \in {"bind", "done"} /\ (next = "bind" => address = wcall[c].address)
    <2>1. CASE CallTo(c, "bind")
      BY <2>1, CallKeeps DEF CallStages
    <2>2. CASE wcall' = [wcall EXCEPT ![c] = [FreshCall EXCEPT !.stage = "done"]]
      BY <2>2, ADoneCall
    <2> QED BY <2>1, <2>2 DEF Registered
  <1>3. /\ wcall' \in [WalletCalls -> WalletCall] /\ CallsHaveIdentity'
        /\ \A d \in WalletCalls : wcall'[d].stage = "bound" => wcall'[d].address \in boundTo
        /\ Cardinality(PaidCalls') \in Nat /\ Cardinality(PaidCalls') <= Cardinality(PaidCalls) /\ Cardinality(PaidCalls) \in Nat
        /\ Cardinality(PastCalls') \in Nat /\ Cardinality(PastCalls) <= Cardinality(PastCalls') /\ Cardinality(PastCalls) \in Nat
    <2>1. boundTo' = boundTo /\ UNCHANGED held
      BY <1>0
    <2> QED BY <1>0, <1>2, <2>1, RequestMoves DEF OpenStages
  <1>4. registeredAs' \in {registeredAs, registeredAs \cup {held.id}}
    BY DEF Registered
  <1>5. WalletTypeOK' /\ SameIdentity'
    <2>1. WalletTypeOK'
      BY <1>0, <1>1, <1>3, <1>4 DEF WalletTypeOK, WalletCall
    <2>2. SameIdentity'
      BY <1>0, <1>4 DEF WalletInv, SameIdentity
    <2> QED BY <2>1, <2>2
  <1>6. RewardsAccepted'
    BY <1>0, <1>3 DEF WalletInv, RewardsAccepted
  <1>7. ClaimsCounted'
    <2>1. payout.revision \in Nat /\ ledger \in Nat /\ paidClaims \in Nat
      BY <1>0, WalletKinds DEF Payout
    <2> QED BY <1>0, <1>3, <2>1 DEF WalletInv, ClaimsCounted
  <1> QED BY <1>3, <1>5, <1>6, <1>7 DEF WalletInv

LEMMA RewardIsBound == ASSUME WalletInv, NEW c \in WalletCalls, BindReward(c) PROVE WalletInv'
  <1>0. /\ WalletTypeOK /\ held.up /\ wcall[c].stage = "bind" /\ wcall[c].address \in Addresses
        /\ UNCHANGED <<walletFile, backup, held, registeredAs, paidClaims, ledger, savedLedger, walletFaults>>
    BY DEF WalletInv, BindReward, CallAt, CallsHaveIdentity, OpenStages
  <1>1. PICK next \in CallStages, address \in Anyone, revision \in 0..Cardinality(WalletCalls) :
          /\ wcall' = [wcall EXCEPT ![c] = [stage |-> next, address |-> address, revision |-> revision]]
          /\ next \in {"bound", "done"} /\ (next = "bound" => address = wcall[c].address /\ boundTo' = boundTo \cup {wcall[c].address})
    <2>1. CASE CallTo(c, "bound") /\ boundTo' = boundTo \cup {wcall[c].address}
      BY <2>1, CallKeeps DEF CallStages
    <2>2. CASE wcall' = [wcall EXCEPT ![c] = [FreshCall EXCEPT !.stage = "done"]]
      BY <2>2, ADoneCall
    <2> QED BY <2>1, <2>2 DEF BindReward
  <1>2. /\ wcall' \in [WalletCalls -> WalletCall] /\ CallsHaveIdentity'
        /\ \A d \in WalletCalls : wcall'[d].stage = "bound" => wcall'[d].address \in boundTo \cup boundTo'
        /\ Cardinality(PaidCalls') \in Nat /\ Cardinality(PaidCalls') <= Cardinality(PaidCalls) /\ Cardinality(PaidCalls) \in Nat
        /\ Cardinality(PastCalls') \in Nat /\ Cardinality(PastCalls') = Cardinality(PastCalls) + 1 /\ Cardinality(PastCalls) \in Nat
    <2>1. c \notin PastCalls /\ UNCHANGED held
      BY <1>0 DEF PastCalls
    <2> QED BY <1>0, <1>1, <2>1, RequestMoves DEF OpenStages
  <1>3. boundTo \subseteq boundTo' /\ boundTo' \subseteq Addresses
    BY <1>0, WalletKinds DEF BindReward
  <1>4. payout'.revision <= Cardinality(PastCalls') /\ payout' \in Payout
    <2>1. payout \in Payout /\ payout.revision \in Nat /\ payout.revision <= Cardinality(PastCalls)
      BY <1>0, WalletKinds DEF WalletInv, ClaimsCounted, Payout
    <2>2. PastCalls' \in SUBSET WalletCalls
      BY DEF PastCalls
    <2>3. Cardinality(PastCalls') <= Cardinality(WalletCalls) /\ Cardinality(WalletCalls) \in Nat
      BY <2>2, CallSets
    <2>4. CASE payout' = [address |-> wcall[c].address, revision |-> payout.revision + 1]
      <3>1. payout.revision + 1 <= Cardinality(PastCalls') /\ payout.revision + 1 \in 0..Cardinality(WalletCalls)
        BY <1>2, <2>1, <2>3
      <3> QED BY <1>0, <2>4, <3>1 DEF Payout, Anyone
    <2>5. CASE payout' = payout
      BY <1>2, <2>1, <2>5
    <2> QED BY <2>4, <2>5 DEF BindReward
  <1>5. WalletTypeOK' /\ SameIdentity'
    <2>1. WalletTypeOK'
      BY <1>0, <1>2, <1>3, <1>4 DEF WalletTypeOK, WalletCall, Payout
    <2>2. SameIdentity'
      BY <1>0 DEF WalletInv, SameIdentity
    <2> QED BY <2>1, <2>2
  <1>6. RewardsAccepted'
    BY <1>0, <1>2, <1>3 DEF WalletInv, RewardsAccepted
  <1>7. ClaimsCounted'
    <2>1. ledger \in Nat /\ paidClaims \in Nat
      BY <1>0, WalletKinds
    <2> QED BY <1>0, <1>2, <1>4, <2>1 DEF WalletInv, ClaimsCounted
  <1> QED BY <1>2, <1>5, <1>6, <1>7 DEF WalletInv

LEMMA RewardIsCached == ASSUME WalletInv, NEW c \in WalletCalls, CacheReward(c) PROVE WalletInv'
  <1>0. /\ WalletTypeOK /\ held.up /\ wcall[c].stage = "bound" /\ wcall[c].address \in boundTo /\ wcall[c].address \in Addresses
        /\ held.id = backup.id /\ CallTo(c, "done")
        /\ UNCHANGED <<payout, registeredAs, boundTo, paidClaims, ledger, savedLedger>>
    BY DEF WalletInv, CacheReward, CallAt, CallsHaveIdentity, OpenStages, RewardsAccepted, SameIdentity
  <1>1. /\ wcall' \in [WalletCalls -> WalletCall] /\ (UNCHANGED held => CallsHaveIdentity')
        /\ \A d \in WalletCalls : wcall'[d].stage = "bound" => wcall'[d].address \in boundTo
        /\ Cardinality(PaidCalls') \in Nat /\ Cardinality(PaidCalls') <= Cardinality(PaidCalls) /\ Cardinality(PaidCalls) \in Nat
        /\ Cardinality(PastCalls') \in Nat /\ Cardinality(PastCalls) <= Cardinality(PastCalls') /\ Cardinality(PastCalls) \in Nat
    <2>1. PICK address \in Anyone, revision \in 0..Cardinality(WalletCalls) :
             wcall' = [wcall EXCEPT ![c] = [stage |-> "done", address |-> address, revision |-> revision]]
      BY <1>0, CallKeeps, ADoneCall
    <2>2. boundTo' = boundTo /\ "done" \in CallStages
      BY <1>0, ADoneCall
    <2> QED BY <1>0, <2>1, <2>2, RequestMoves
  <1>2. held \in Holder /\ held.id \in Anyone /\ wcall[c].address \in Anyone
    BY <1>0, WalletKinds DEF Holder, Anyone
  <1>3. /\ walletFile' \in FileCard /\ backup' \in GoodCard /\ held' \in Holder /\ walletFaults' \in 0..MaxWalletFaults
        /\ walletFile'.id \in {backup'.id, Broken} /\ backup'.id = backup.id /\ held'.id = held.id /\ held'.up = held.up
        /\ {held'.reward, backup'.reward, walletFile'.reward} \subseteq boundTo \cup {Nobody}
    <2>0. {held.reward, backup.reward, walletFile.reward} \subseteq boundTo \cup {Nobody}
      BY DEF WalletInv, RewardsAccepted
    <2>1. CASE Written(Card(held.id, wcall[c].address)) /\ held' = [held EXCEPT !.reward = wcall[c].address]
      <3>1. /\ walletFile' \in FileCard /\ backup' \in GoodCard /\ walletFaults' \in 0..MaxWalletFaults
            /\ walletFile'.id \in {backup'.id, Broken} /\ backup'.id = held.id /\ backup'.reward = wcall[c].address /\ walletFile'.reward = wcall[c].address
        BY <1>2, <2>1, FileWrittenOrNot
      <3>2. held' \in Holder /\ held'.id = held.id /\ held'.up = held.up /\ held'.reward = wcall[c].address
        BY <1>2, <2>1 DEF Holder
      <3> QED BY <1>0, <3>1, <3>2
    <2>2. CASE WriteFails /\ UNCHANGED held
      <3>1. /\ walletFile' \in FileCard /\ backup' \in GoodCard /\ walletFaults' \in 0..MaxWalletFaults
            /\ walletFile'.id \in {backup'.id, Broken} /\ backup' = backup /\ walletFile'.reward \in {walletFile.reward, Nobody}
        BY <1>2, <2>2, FileWrittenOrNot
      <3> QED BY <1>2, <2>0, <2>2, <3>1
    <2> QED BY <2>1, <2>2 DEF CacheReward
  <1>4. WalletTypeOK'
    BY <1>0, <1>1, <1>3 DEF WalletTypeOK, WalletCall, FileCard, GoodCard, Holder
  <1>5. SameIdentity'
    BY <1>0, <1>3 DEF WalletInv, SameIdentity
  <1>6. RewardsAccepted'
    BY <1>0, <1>1, <1>3 DEF RewardsAccepted
  <1>7. CallsHaveIdentity'
    <2>1. /\ \A d \in WalletCalls \ {c} : wcall'[d] = wcall[d]
          /\ wcall'[c].stage = "done"
      BY <1>0, WalletKinds DEF CallTo, WalletCall
    <2> QED BY <1>3, <2>1 DEF WalletInv, CallsHaveIdentity, OpenStages
  <1>8. ClaimsCounted'
    <2>1. payout.revision \in Nat /\ ledger \in Nat /\ paidClaims \in Nat
      BY <1>0, WalletKinds DEF Payout
    <2> QED BY <1>0, <1>1, <2>1 DEF WalletInv, ClaimsCounted
  <1> QED BY <1>4, <1>5, <1>6, <1>7, <1>8 DEF WalletInv

LEMMA RewardsAreClaimed == ASSUME WalletInv, NEW c \in WalletCalls, Claim(c) PROVE WalletInv'
  <1>0. /\ WalletTypeOK /\ held.up /\ wcall[c].stage = "free" /\ paidClaims < MaxClaims /\ paidClaims' = paidClaims + 1
        /\ UNCHANGED <<walletFile, backup, held, payout, registeredAs, boundTo, ledger, savedLedger, walletFaults>>
    BY DEF WalletInv, Claim, CallAt
  <1>1. PICK next \in {"paid", "done"}, address \in Anyone, revision \in 0..Cardinality(WalletCalls) :
          wcall' = [wcall EXCEPT ![c] = [stage |-> next, address |-> address, revision |-> revision]]
    <2>1. CASE CallTo(c, "paid")
      BY <2>1, CallKeeps DEF CallStages
    <2>2. CASE CallTo(c, "done")
      BY <2>2, CallKeeps DEF CallStages
    <2> QED BY <2>1, <2>2 DEF Claim
  <1>2. /\ wcall' \in [WalletCalls -> WalletCall] /\ wcall'[c].stage = next
        /\ \A d \in WalletCalls \ {c} : wcall'[d] = wcall[d]
        /\ PaidCalls' = (PaidCalls \ {c}) \cup (IF next = "paid" THEN {c} ELSE {})
        /\ PastCalls' = (PastCalls \ {c}) \cup (IF next \notin {"free", "register", "bind"} THEN {c} ELSE {})
    <2>1. next \in CallStages
      BY DEF CallStages
    <2> QED BY <1>1, <2>1, CallMoves
  <1>3. WalletTypeOK' /\ SameIdentity' /\ RewardsAccepted'
    <2>1. paidClaims' \in 0..MaxClaims
      BY <1>0, WalletKinds
    <2>2. WalletTypeOK'
      BY <1>0, <1>2, <2>1 DEF WalletTypeOK, WalletCall
    <2>3. SameIdentity'
      BY <1>0 DEF WalletInv, SameIdentity
    <2>4. RewardsAccepted'
      BY <1>0, <1>2 DEF WalletInv, RewardsAccepted
    <2> QED BY <2>2, <2>3, <2>4
  <1>4. CallsHaveIdentity'
    <2>1. wcall'[c].stage \notin OpenStages
      BY <1>2 DEF OpenStages
    <2> QED BY <1>0, <1>2, <2>1 DEF WalletInv, CallsHaveIdentity
  <1>5. ClaimsCounted'
    <2>1. /\ PaidCalls \in SUBSET WalletCalls /\ PastCalls \in SUBSET WalletCalls /\ PastCalls' \in SUBSET WalletCalls
          /\ c \notin PaidCalls /\ PastCalls \subseteq PastCalls' /\ (PaidCalls' = PaidCalls \/ PaidCalls' = PaidCalls \cup {c})
      BY <1>0, <1>2 DEF PaidCalls, PastCalls
    <2>2. Cardinality(PaidCalls') = Cardinality(PaidCalls) \/ Cardinality(PaidCalls') = Cardinality(PaidCalls) + 1
      BY <2>1, CallSets, FS_AddElement
    <2>3. Cardinality(PaidCalls) \in Nat /\ Cardinality(PastCalls) \in Nat /\ Cardinality(PastCalls') \in Nat /\ Cardinality(PastCalls) <= Cardinality(PastCalls')
      BY <2>1, CallSets, FS_Subset
    <2>4. ledger \in Nat /\ paidClaims \in Nat /\ savedLedger \in Nat /\ payout.revision \in Nat
      BY <1>0, WalletKinds DEF Payout
    <2> QED BY <1>0, <2>2, <2>3, <2>4 DEF WalletInv, ClaimsCounted
  <1> QED BY <1>3, <1>4, <1>5 DEF WalletInv

LEMMA EarningIsEntered == ASSUME WalletInv, NEW c \in WalletCalls, RecordEarning(c) PROVE WalletInv'
  <1>0. /\ WalletTypeOK /\ wcall[c].stage = "paid" /\ CallTo(c, "done") /\ ledger' = ledger + 1
        /\ UNCHANGED <<walletFile, backup, held, payout, registeredAs, boundTo, paidClaims, savedLedger, walletFaults>>
    BY DEF WalletInv, RecordEarning, CallAt
  <1>1. PICK address \in Anyone, revision \in 0..Cardinality(WalletCalls) :
           wcall' = [wcall EXCEPT ![c] = [stage |-> "done", address |-> address, revision |-> revision]]
    BY <1>0, CallKeeps, ADoneCall
  <1>2. /\ wcall' \in [WalletCalls -> WalletCall] /\ CallsHaveIdentity'
        /\ \A d \in WalletCalls : wcall'[d].stage = "bound" => wcall'[d].address \in boundTo
        /\ Cardinality(PaidCalls') \in Nat /\ Cardinality(PaidCalls') = Cardinality(PaidCalls) - 1 /\ Cardinality(PaidCalls) \in Nat
        /\ Cardinality(PastCalls') \in Nat /\ Cardinality(PastCalls) <= Cardinality(PastCalls') /\ Cardinality(PastCalls) \in Nat
    <2>1. c \in PaidCalls /\ UNCHANGED held /\ boundTo' = boundTo /\ "done" \in CallStages
      BY <1>0, ADoneCall DEF PaidCalls
    <2> QED BY <1>1, <2>1, RequestMoves
  <1>3. /\ ledger \in Nat /\ paidClaims \in Nat /\ paidClaims \in 0..MaxClaims /\ payout.revision \in Nat
        /\ ledger + Cardinality(PaidCalls) <= paidClaims
    BY <1>0, WalletKinds DEF Payout, WalletInv, ClaimsCounted
  <1>4. ClaimsCounted' /\ ledger' \in 0..MaxClaims
    <2>1. MaxClaims \in Nat /\ savedLedger <= paidClaims /\ payout.revision <= Cardinality(PastCalls)
      BY <1>0, WalletKinds DEF WalletInv, ClaimsCounted
    <2>2. Cardinality(PaidCalls) >= 1
      BY <1>2
    <2>3. ledger' \in 0..MaxClaims
      BY <1>0, <1>2, <1>3, <2>1, <2>2
    <2>4. ledger' + Cardinality(PaidCalls') <= paidClaims
      BY <1>0, <1>2, <1>3, <2>2
    <2>5. payout.revision <= Cardinality(PastCalls')
      BY <1>2, <1>3, <2>1
    <2> QED BY <1>0, <2>1, <2>3, <2>4, <2>5 DEF ClaimsCounted
  <1>5. WalletTypeOK' /\ SameIdentity' /\ RewardsAccepted'
    <2>2. WalletTypeOK'
      BY <1>0, <1>2, <1>4 DEF WalletTypeOK, WalletCall
    <2>3. SameIdentity'
      BY <1>0 DEF WalletInv, SameIdentity
    <2>4. RewardsAccepted'
      BY <1>0, <1>2 DEF WalletInv, RewardsAccepted
    <2> QED BY <2>2, <2>3, <2>4
  <1> QED BY <1>2, <1>4, <1>5 DEF WalletInv

LEMMA LedgerIsSaved == ASSUME WalletInv, SaveLedger PROVE WalletInv'
  <1>0. /\ WalletTypeOK /\ UNCHANGED <<walletFile, backup, held, wcall, payout, registeredAs, boundTo, paidClaims, ledger>>
    BY DEF WalletInv, SaveLedger
  <1>1. Cardinality(PaidCalls) \in Nat
    BY CallSets DEF PaidCalls
  <1>2. /\ ledger \in Nat /\ paidClaims \in Nat /\ savedLedger \in 0..MaxClaims /\ ledger \in 0..MaxClaims /\ MaxClaims \in Nat
        /\ ledger + Cardinality(PaidCalls) <= paidClaims /\ savedLedger <= paidClaims
    BY <1>0, WalletKinds DEF WalletInv, ClaimsCounted
  <1>3. savedLedger' \in 0..MaxClaims /\ savedLedger' <= paidClaims
    BY <1>1, <1>2 DEF SaveLedger
  <1>4. walletFaults' \in 0..MaxWalletFaults
    BY <1>0, FaultCounted, WalletKinds DEF SaveLedger
  <1>5. WalletTypeOK' /\ SameIdentity' /\ RewardsAccepted' /\ CallsHaveIdentity'
    <2>2. WalletTypeOK'
      BY <1>0, <1>3, <1>4 DEF WalletTypeOK
    <2>3. SameIdentity'
      BY <1>0 DEF WalletInv, SameIdentity
    <2>4. RewardsAccepted' /\ CallsHaveIdentity'
      BY <1>0 DEF WalletInv, RewardsAccepted, CallsHaveIdentity
    <2> QED BY <2>2, <2>3, <2>4
  <1>6. ClaimsCounted'
    BY <1>0, <1>3 DEF WalletInv, ClaimsCounted, PaidCalls, PastCalls
  <1> QED BY <1>5, <1>6 DEF WalletInv

LEMMA WalletKept == WalletInv /\ [WalletNext]_walletVars => WalletInv'
  <1> SUFFICES ASSUME WalletInv, [WalletNext]_walletVars PROVE WalletInv'
    OBVIOUS
  <1>1. CASE UNCHANGED walletVars
    BY <1>1 DEF walletVars, WalletInv, WalletTypeOK, SameIdentity, RewardsAccepted, CallsHaveIdentity, ClaimsCounted, PaidCalls, PastCalls
  <1> QED BY <1>1, EarningIsEntered, WalletIsRestored, WalletStops, NodeIsRegistered, LedgerIsSaved, WalletStarts, IdentityIsSet, CallRegistered,
             RewardIsBound, RewardIsCached, RewardsAreClaimed, RewardAsked DEF WalletNext

-----------------------------------------------------------------------------
(* The directory (swarm/orchestrator.ts): no listing is from the future, and    *)
(* who was dropped is not in the map.                                           *)
ListedBefore == /\ \A n \in SwarmNodes : known[n].seen <= period
                /\ expired \cap Peers = {}
                /\ relayPeers \subseteq Peers \cup expired
DirectoryInv == DirectoryTypeOK /\ ListedBefore /\ DirectoryIsCurrent

Listing == [seen : 0..MaxPeriods, relay : BOOLEAN]

LEMMA DirectoryBegins == DirectoryInit => DirectoryInv
  <1> SUFFICES ASSUME DirectoryInit PROVE DirectoryInv
    OBVIOUS
  <1>1. DirectoryTypeOK
    <2>1. known \in [SwarmNodes -> [seen : 0..MaxPeriods, relay : BOOLEAN]] /\ period \in 1..MaxPeriods /\ asked \in 0..MaxAsked
      BY DirectoryAssumption DEF DirectoryInit, Unlisted
    <2>2. DOMAIN fedTasks = {}
      BY DEF DirectoryInit
    <2> QED BY <2>1, <2>2 DEF DirectoryInit, DirectoryTypeOK
  <1>2. ListedBefore /\ Peers = {}
    BY DEF DirectoryInit, ListedBefore, Unlisted, Peers
  <1>3. DirectoryIsCurrent
    BY <1>2 DEF DirectoryInit, DirectoryIsCurrent, RelayRoutes, FindModelHosts
  <1> QED BY <1>1, <1>2, <1>3 DEF DirectoryInv

(* The routes and the hosts follow from where the relays and the dropped are.   *)
LEMMA RoutesAreKnown ==
  ASSUME ListedBefore PROVE /\ \A n \in SwarmNodes : \A r \in RelayRoutes(n) : r \ {n} \subseteq Peers \cup expired
                            /\ \A m \in SwarmModels : FindModelHosts(m) \cap expired = {}
  BY DEF ListedBefore, RelayRoutes, FindModelHosts

LEMMA DirectoryKept == DirectoryInv /\ [DirectoryNext]_directoryVars => DirectoryInv'
  <1> SUFFICES ASSUME DirectoryInv, [DirectoryNext]_directoryVars PROVE DirectoryInv'
    OBVIOUS
  <1>0. /\ MaxPeriods \in Nat \ {0} /\ StaleAfter \in Nat /\ MaxAsked \in Nat /\ Volunteers \subseteq SwarmNodes
        /\ known \in [SwarmNodes -> Listing] /\ period \in 1..MaxPeriods /\ asked \in 0..MaxAsked /\ timersSet \in BOOLEAN
    BY DirectoryAssumption DEF DirectoryInv, DirectoryTypeOK, Listing
  <1>r. ASSUME ListedBefore', DirectoryTypeOK',
               timersSet' => \A n \in Peers' : period' - known'[n].seen <= StaleAfter,
               \A n \in Peers' : n \in relayPeers' <=> known'[n].relay
        PROVE  DirectoryInv'
    <2>1. /\ (\A n \in SwarmNodes : \A r \in RelayRoutes(n) : r \ {n} \subseteq Peers \cup expired)'
          /\ (\A m \in SwarmModels : FindModelHosts(m) \cap expired = {})'
      BY <1>r DEF ListedBefore, RelayRoutes, FindModelHosts
    <2> QED BY <1>r, <2>1 DEF DirectoryInv, DirectoryIsCurrent
  <1>1. CASE UNCHANGED directoryVars
    BY <1>1 DEF directoryVars, DirectoryInv, DirectoryTypeOK, ListedBefore, DirectoryIsCurrent, Peers, RelayRoutes, FindModelHosts
  <1>2. CASE InitSwarm \/ DiscoverPeers \/ DiscoveryFails \/ StopSwarm
    <2>1. UNCHANGED <<known, relayPeers, hostedBy, fedTasks, period, expired>>
      BY <1>2 DEF InitSwarm, DiscoverPeers, DiscoveryFails, StopSwarm
    <2>2. asked' \in 0..MaxAsked
      BY <1>0, <1>2 DEF InitSwarm, DiscoverPeers, DiscoveryFails, StopSwarm
    <2>3. timersSet' \in BOOLEAN /\ (timersSet' => timersSet \/ Peers = {})
      <3>1. CASE InitSwarm
        BY <3>1 DEF InitSwarm
      <3>2. CASE DiscoverPeers
        BY <1>0, <3>2 DEF DiscoverPeers
      <3>3. CASE DiscoveryFails
        BY <1>0, <3>3 DEF DiscoveryFails
      <3>4. CASE StopSwarm
        BY <3>4 DEF StopSwarm
      <3> QED BY <1>2, <3>1, <3>2, <3>3, <3>4
    <2>4. Peers' = Peers
      BY <2>1 DEF Peers
    <2>5. DirectoryTypeOK' /\ ListedBefore'
      BY <2>1, <2>2, <2>3, <2>4 DEF DirectoryInv, DirectoryTypeOK, ListedBefore
    <2> QED BY <1>r, <2>1, <2>3, <2>4, <2>5 DEF DirectoryInv, DirectoryIsCurrent
  <1>3. CASE PeriodPasses
    <2> DEFINE expiring == IF timersSet THEN {n \in SwarmNodes : LongUnlisted(n, period + 1)} ELSE {}
    <2>1. /\ period' = period + 1 /\ period' \in 1..MaxPeriods /\ UNCHANGED <<relayPeers, hostedBy, fedTasks, asked, timersSet>>
          /\ known' = [n \in SwarmNodes |-> IF n \in expiring THEN Unlisted ELSE known[n]] /\ expired' = expired \cup expiring
      BY <1>0, <1>3 DEF PeriodPasses
    <2>2. expiring \subseteq SwarmNodes /\ expiring \subseteq Peers /\ Unlisted \in Listing /\ Unlisted.seen = 0
      BY <1>0 DEF LongUnlisted, Peers, Unlisted, Listing
    <2>3. known' \in [SwarmNodes -> Listing]
      BY <1>0, <2>1, <2>2
    <2>4. Peers' = Peers \ expiring /\ \A n \in Peers' : known'[n] = known[n] /\ n \in SwarmNodes
      BY <2>1, <2>2 DEF Peers
    <2>5. DirectoryTypeOK'
      BY <2>1, <2>2, <2>3 DEF DirectoryInv, DirectoryTypeOK, Listing
    <2>6. ListedBefore'
      <3>1. \A n \in SwarmNodes : known[n].seen \in Nat /\ known[n].seen <= period
        BY <1>0 DEF DirectoryInv, ListedBefore, Listing
      <3>2. \A n \in SwarmNodes : known'[n].seen <= period'
        BY <1>0, <2>1, <2>2, <3>1
      <3> QED BY <2>1, <2>2, <2>4, <3>2 DEF DirectoryInv, ListedBefore
    <2>7. timersSet' => \A n \in Peers' : period' - known'[n].seen <= StaleAfter
      <3> SUFFICES ASSUME timersSet, NEW n \in Peers' PROVE period' - known'[n].seen <= StaleAfter
        BY <2>1
      <3>1. n \in Peers /\ n \notin expiring /\ n \in SwarmNodes /\ known'[n] = known[n] /\ known[n].seen # 0
        BY <2>4 DEF Peers
      <3>2. known[n].seen \in Nat
        BY <1>0, <3>1 DEF Listing
      <3>3. ~LongUnlisted(n, period + 1)
        <4>1. expiring = {x \in SwarmNodes : LongUnlisted(x, period + 1)}
          OBVIOUS
        <4> HIDE DEF expiring
        <4> QED BY <3>1, <4>1
      <3>4. PICK listed, soon \in Nat : listed = known[n].seen /\ soon = period + 1
        BY <1>0, <3>2
      <3>5. ~(soon - listed > StaleAfter)
        BY <3>1, <3>3, <3>4 DEF LongUnlisted
      <3> QED BY <1>0, <2>1, <3>1, <3>4, <3>5
    <2>8. \A n \in Peers' : n \in relayPeers' <=> known'[n].relay
      BY <2>1, <2>4 DEF DirectoryInv, DirectoryIsCurrent
    <2> QED BY <1>r, <2>5, <2>6, <2>7, <2>8
  <1>4. ASSUME NEW ns \in SUBSET SwarmNodes, NEW learnt \in [ns -> BOOLEAN], PeersListed(learnt) PROVE DirectoryInv'
    <2>1. /\ known' = [n \in SwarmNodes |-> IF n \in ns THEN [seen |-> period, relay |-> learnt[n]] ELSE known[n]]
          /\ relayPeers' = {n \in SwarmNodes : IF n \in ns THEN learnt[n] ELSE known[n].seen # 0 /\ known[n].relay}
          /\ expired' = {} /\ UNCHANGED <<hostedBy, fedTasks, timersSet, period>>
      BY <1>4 DEF PeersListed, RelaysOf
    <2>2. asked' \in 0..MaxAsked
      BY <1>0, <1>4 DEF PeersListed
    <2>3. \A n \in ns : [seen |-> period, relay |-> learnt[n]] \in Listing
      BY <1>0 DEF Listing
    <2>4. known' \in [SwarmNodes -> Listing]
      BY <1>0, <2>1, <2>3
    <2>5. /\ \A n \in ns : known'[n].seen = period /\ known'[n].relay = learnt[n]
          /\ \A n \in SwarmNodes \ ns : known'[n] = known[n]
      BY <2>1
    <2>6. DirectoryTypeOK'
      BY <2>1, <2>2, <2>4 DEF DirectoryInv, DirectoryTypeOK, Listing
    <2>7. ListedBefore'
      <3>1. \A n \in SwarmNodes : known'[n].seen <= period'
        BY <1>0, <2>1, <2>5 DEF DirectoryInv, ListedBefore
      <3>2. relayPeers' \subseteq Peers'
        BY <1>0, <2>1, <2>5 DEF Peers
      <3> QED BY <2>1, <3>1, <3>2 DEF ListedBefore
    <2>8. timersSet' => \A n \in Peers' : period' - known'[n].seen <= StaleAfter
      <3> SUFFICES ASSUME timersSet', NEW n \in Peers' PROVE period' - known'[n].seen <= StaleAfter
        OBVIOUS
      <3>1. CASE n \in ns
        BY <1>0, <2>1, <2>5, <3>1
      <3>2. CASE n \notin ns
        <4>1. n \in Peers /\ known'[n] = known[n]
          BY <2>5, <3>2 DEF Peers
        <4> QED BY <2>1, <4>1 DEF DirectoryInv, DirectoryIsCurrent
      <3> QED BY <3>1, <3>2
    <2>9. \A n \in Peers' : n \in relayPeers' <=> known'[n].relay
      BY <1>0, <2>1, <2>5 DEF Peers
    <2> QED BY <1>r, <2>6, <2>7, <2>8, <2>9
  <1>5. CASE CreateFederatedTask
    <2>1. UNCHANGED <<known, relayPeers, hostedBy, asked, timersSet, period, expired>> /\ Peers' = Peers
      BY <1>5 DEF CreateFederatedTask, Peers
    <2>2. DOMAIN fedTasks' \subseteq 1..MaxPeriods /\ \A t \in DOMAIN fedTasks' : fedTasks'[t] \subseteq SwarmNodes
      BY <1>0, <1>5 DEF CreateFederatedTask, DirectoryInv, DirectoryTypeOK
    <2>3. DirectoryTypeOK' /\ ListedBefore'
      BY <2>1, <2>2 DEF DirectoryInv, DirectoryTypeOK, ListedBefore
    <2> QED BY <1>r, <2>1, <2>3 DEF DirectoryInv, DirectoryIsCurrent
  <1>6. ASSUME NEW n \in Volunteers, NEW m \in SwarmModels, RegisterModelHost(m, n) PROVE DirectoryInv'
    <2>1. UNCHANGED <<known, relayPeers, fedTasks, asked, timersSet, period, expired>> /\ Peers' = Peers
      BY <1>6 DEF RegisterModelHost, Peers
    <2>2. hostedBy' \in [SwarmModels -> SUBSET SwarmNodes]
      BY <1>0, <1>6 DEF RegisterModelHost, DirectoryInv, DirectoryTypeOK
    <2>3. DirectoryTypeOK' /\ ListedBefore'
      BY <2>1, <2>2 DEF DirectoryInv, DirectoryTypeOK, ListedBefore
    <2> QED BY <1>r, <2>1, <2>3 DEF DirectoryInv, DirectoryIsCurrent
  <1>7. ASSUME NEW n \in Volunteers, NEW t \in 1..MaxPeriods, JoinFederatedTask(t, n) PROVE DirectoryInv'
    <2>1. UNCHANGED <<known, relayPeers, hostedBy, asked, timersSet, period, expired>> /\ Peers' = Peers
      BY <1>7 DEF JoinFederatedTask, Peers
    <2>2. DOMAIN fedTasks' \subseteq 1..MaxPeriods /\ \A s \in DOMAIN fedTasks' : fedTasks'[s] \subseteq SwarmNodes
      BY <1>0, <1>7 DEF JoinFederatedTask, DirectoryInv, DirectoryTypeOK
    <2>3. DirectoryTypeOK' /\ ListedBefore'
      BY <2>1, <2>2 DEF DirectoryInv, DirectoryTypeOK, ListedBefore
    <2> QED BY <1>r, <2>1, <2>3 DEF DirectoryInv, DirectoryIsCurrent
  <1> QED BY <1>1, <1>2, <1>3, <1>4, <1>5, <1>6, <1>7 DEF DirectoryNext
=============================================================================

--------------------------- MODULE MCServicesLive ---------------------------
(* The components whose properties need fairness, side by side as in MCServices  *)
(* and on smaller instances.  Nothing that a fairness condition names is        *)
(* enabled in an initial state, so a component at rest satisfies its own.       *)
EXTENDS QuorumCoordinator, Scheduler, NodeProcess, PeerManager, MobileNodes,
        P2PMesh, UptimeDaemon, NodeHttps, EventBus, RemoteAccess,
        SovereignPeers

VARIABLE part   \* the component that runs

Parts == {"quorum", "scheduler", "update", "peers", "mobile", "lifecycle",
          "mesh", "uptime", "https", "bus", "remote", "sovereign"}

servicesVars == <<part, quorumVars, schedulerVars, updateVars, peerVars,
                  mobileVars, lifecycleVars, meshVars, uptimeVars,
                  httpsVars, busVars, remoteVars, sovereignPeersVars>>

(* A component that rests does so in one of its initial states.                 *)
ServicesInit == /\ part \in Parts
                /\ QuorumInit
                /\ part # "quorum" => answer = [n \in Executors |-> CHOOSE h \in Hashes : TRUE]
                /\ SchedulerInit
                /\ UpdateInit
                /\ PeerInit
                /\ MobileInit
                /\ LifecycleInit
                /\ MeshInit
                /\ UptimeInit
                /\ HttpsInit
                /\ BusInit
                /\ RemoteInit
                /\ SovereignPeersInit

(* The others rest.                                                             *)
OthersRest ==
    /\ IF part = "quorum" THEN TRUE ELSE UNCHANGED quorumVars
    /\ IF part = "scheduler" THEN TRUE ELSE UNCHANGED schedulerVars
    /\ IF part = "update" THEN TRUE ELSE UNCHANGED updateVars
    /\ IF part = "peers" THEN TRUE ELSE UNCHANGED peerVars
    /\ IF part = "mobile" THEN TRUE ELSE UNCHANGED mobileVars
    /\ IF part = "lifecycle" THEN TRUE ELSE UNCHANGED lifecycleVars
    /\ IF part = "mesh" THEN TRUE ELSE UNCHANGED meshVars
    /\ IF part = "uptime" THEN TRUE ELSE UNCHANGED uptimeVars
    /\ IF part = "https" THEN TRUE ELSE UNCHANGED httpsVars
    /\ IF part = "bus" THEN TRUE ELSE UNCHANGED busVars
    /\ IF part = "remote" THEN TRUE ELSE UNCHANGED remoteVars
    /\ IF part = "sovereign" THEN TRUE ELSE UNCHANGED sovereignPeersVars

ServicesNext ==
    /\ UNCHANGED part
    /\ OthersRest
    /\ \/ part = "quorum" /\ QuorumNext
       \/ part = "scheduler" /\ SchedulerNext
       \/ part = "update" /\ UpdateNext
       \/ part = "peers" /\ PeerNext
       \/ part = "mobile" /\ MobileNext
       \/ part = "lifecycle" /\ LifecycleNext
       \/ part = "mesh" /\ MeshNext
       \/ part = "uptime" /\ UptimeNext
       \/ part = "https" /\ HttpsNext
       \/ part = "bus" /\ BusNext
       \/ part = "remote" /\ RemoteNext
       \/ part = "sovereign" /\ SovereignPeersNext

ServicesSpec == ServicesInit /\ [][ServicesNext]_servicesVars
                /\ QuorumFairness
                /\ SchedulerFairness
                /\ UpdateFairness
                /\ PeerFairness
                /\ MobileFairness
                /\ LifecycleFairness
                /\ MeshFairness
                /\ UptimeFairness
                /\ HttpsFairness
                /\ BusFairness
                /\ RemoteFairness
                /\ SovereignPeersFairness

-----------------------------------------------------------------------------
(* The instances.                                                               *)
MCSeedsOf == [n \in PeerNodes |-> {"a"}]
MCMeshSees == {<<"a", "b">>}
MCRemembers == {<<"b", "a">>}
MCBootstrapOf == [n \in MeshNodes |-> {"h"}]
MCBootstrapPeers == [n \in SovereignNodes |-> IF n = "a" THEN <<"b">> ELSE IF n = "g" THEN <<"b">> ELSE << >>]

-----------------------------------------------------------------------------
(* Whatever one part of a node waits for comes to an end: a quorum, the stop of *)
(* the scheduler, an update, the heartbeats between peers, the shutdown, the    *)
(* setup of HTTPS.                                                              *)
WaitsEnd == AwaitEnds /\ StopReturnsInTime /\ UpdateEnds /\ BeatsEnd /\ ShutdownEnds /\ SetupEnds

(* Nodes that know one address in common find each other, over HTTP and libp2p, *)
(* although requests and replies are lost.                                      *)
NodesMeet == SeedsConnect /\ StarBecomesMesh

(* When the platform, a service or the relay is back, what was held back goes   *)
(* on.                                                                          *)
Recovers == NodeStaysKnown /\ RelayComesBack

(* A phone that has gone is not counted as a node, and nothing goes on watching *)
(* it; nor is a dashboard that vanished counted as a viewer, or a node that has *)
(* left kept among the peers of a sovereign node.                               *)
PhonesLeave == GoneIsStopped /\ WatchersEnd /\ SilentAreDropped /\ GoneMakeRoom
=============================================================================

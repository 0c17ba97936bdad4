--------------------------- MODULE ServicesProofs ---------------------------
(* The components side by side (MCServices): what every one of them promises    *)
(* of the same hazard, from the inductive invariant of each, for every value of *)
(* the constants.  No component touches another's variables, so an invariant of *)
(* the one that runs is one of them all.                                        *)
EXTENDS MCServices, HostProofs, NetProofs, BooksProofs

-----------------------------------------------------------------------------
(* Side by side.  A step is one of the component that runs.                     *)
LEMMA PartsRun ==
  ASSUME [ServicesNext]_servicesVars
  PROVE  /\ UNCHANGED part
         /\ part = "validators" => [ValidatorNext]_validatorVars
         /\ part = "uptime" => [UptimeNext]_uptimeVars
         /\ part = "https" => [HttpsNext]_httpsVars
         /\ part = "auth" => [GateNext]_gateVars
         /\ part = "memory" => [MemoryNext]_memoryVars
         /\ part = "hardening" => [HardeningNext]_hardeningVars
         /\ part = "remote" => [RemoteNext]_remoteVars
         /\ part = "ton" => [TonNext]_tonVars
         /\ part = "vault" => [VaultNext]_vaultVars
         /\ part = "market" => [MarketNext]_marketVars
         /\ part = "chats" => [ChatNext]_chatVars
         /\ part = "bus" => [BusNext]_busVars
         /\ part = "failover" => [FailoverNext]_failoverVars
         /\ part = "gradients" => [GradientNext]_gradientVars
         /\ part = "offline" => [OfflineNext]_offlineVars
         /\ part = "sovereign" => [SovereignPeersNext]_sovereignPeersVars
         /\ part = "wallet" => [WalletNext]_walletVars
         /\ part = "naas" => [NaasNext]_naasVars
         /\ part = "pins" => [PinNext]_pinVars
         /\ part = "directory" => [DirectoryNext]_directoryVars
         /\ part = "earnings" => [EngineNext]_engineVars
         /\ part = "sharing" => [ResourceNext]_resourceVars
         /\ part = "ledger" => [LedgerNext]_ledgerVars
         /\ part = "premium" => [PremiumNext]_premiumVars
         /\ part = "skills" => [SkillNext]_skillVars
         /\ part = "bridge" => [BridgeNext]_bridgeVars
         /\ part = "swarm" => [SwarmNext]_swarmVars
         /\ part = "router" => [RouterNext]_routerVars
         /\ part = "apps" => [AppNext]_appVars
         /\ part = "login" => [Next]_vars
         /\ part = "quorum" => [QuorumNext]_quorumVars
         /\ part = "scheduler" => [SchedulerNext]_schedulerVars
         /\ part = "update" => [UpdateNext]_updateVars
         /\ part = "peers" => [PeerNext]_peerVars
         /\ part = "mobile" => [MobileNext]_mobileVars
         /\ part = "lifecycle" => [LifecycleNext]_lifecycleVars
         /\ part = "mesh" => [MeshNext]_meshVars
  <1>1. CASE ServicesNext
    BY <1>1 DEF ServicesNext
  <1>2. CASE UNCHANGED servicesVars
    BY <1>2 DEF servicesVars
  <1> QED BY <1>1, <1>2

StrayInv == /\ part = "validators" => ChildrenInv
            /\ part = "uptime" => BeatsInv
            /\ part = "https" => HttpsInv

LEMMA StrayStarts == ServicesInit => StrayInv
  BY ChildrenStart, BeatsStart, HttpsStart DEF ServicesInit, StrayInv

LEMMA StrayKept == StrayInv /\ [ServicesNext]_servicesVars => StrayInv'
  BY PartsRun, ChildrenKept, BeatsKept, HttpsKept DEF StrayInv

(* What was told to stop is not running unnoticed: the children of chains that  *)
(* are switched off (stop of validators/manager.ts), heartbeats and downloads   *)
(* that overlap (sendHeartbeat, processPullQueue), and the proxy of a setup     *)
(* that failed (node-https-helper.py).                                          *)
THEOREM NothingStrays == ServicesSpec => []NoStray
  <1>1. StrayInv => NoStray
    BY BeatsMean DEF StrayInv, NoStray, ChildrenInv, HttpsInv
  <1> QED BY <1>1, StrayStarts, StrayKept, PTL DEF ServicesSpec

-----------------------------------------------------------------------------
AccessInv == /\ part = "auth" => GateInv
             /\ part = "memory" => MemoryInv
             /\ part = "hardening" => HardeningInv
             /\ part = "remote" => RemoteInv
             /\ part = "ton" => TonInv

LEMMA AccessStarts == ServicesInit => AccessInv
  BY GateStarts, MemoryStarts, HardeningStarts, RemoteStarts, TonStarts DEF ServicesInit, AccessInv

LEMMA AccessStays == AccessInv /\ [ServicesNext]_servicesVars => AccessInv'
  BY PartsRun, GateIsKept, MemoryKept, HardeningKept, RemoteKept, TonKept DEF AccessInv

(* Who gets in and what gets out: the first PIN is set once and sessions end    *)
(* with it (the setup routes and checkAuth of gateway/server.ts), answers that  *)
(* are not shared stay (memory/collective.ts), strangers are admitted and may   *)
(* fail only so often (security/hardening.ts), revoked tokens open nothing      *)
(* (network/remote.ts) and a dApp is answered once (wallet/tonconnect.ts).      *)
THEOREM AccessIsKept == ServicesSpec => []AccessKept
  <1>1. AccessInv => AccessKept
    BY MemoryMeans, HardeningMeans, TonMeans DEF AccessInv, AccessKept, GateInv, RemoteInv
  <1> QED BY <1>1, AccessStarts, AccessStays, PTL DEF ServicesSpec

-----------------------------------------------------------------------------
CapacityInv == /\ part = "vault" => VaultInv
               /\ part = "market" => MarketInv
               /\ part = "chats" => ChatInv
               /\ part = "bus" => BusInv
               /\ part = "failover" => FailoverInv
               /\ part = "https" => HttpsInv
               /\ part = "gradients" => GradientInv
               /\ part = "offline" => OfflineInv
               /\ part = "sovereign" => SovereignPeersInv

LEMMA CapacityStarts == ServicesInit => CapacityInv
  BY VaultStarts, MarketStarts, ChatsStart, BusStarts, FailoverStarts, HttpsStart, GradientStarts, OfflineStarts,
     PeersStartSound DEF ServicesInit, CapacityInv

LEMMA CapacityStays == CapacityInv /\ [ServicesNext]_servicesVars => CapacityInv'
  <1> SUFFICES ASSUME CapacityInv, [ServicesNext]_servicesVars PROVE CapacityInv'
    OBVIOUS
  <1>0. part' = part
    BY PartsRun
  <1>1. /\ part = "vault" => VaultInv'
        /\ part = "market" => MarketInv'
        /\ part = "chats" => ChatInv'
    BY PartsRun, VaultKept, MarketKept, ChatsKept DEF CapacityInv
  <1>2. /\ part = "bus" => BusInv'
        /\ part = "failover" => FailoverInv'
        /\ part = "https" => HttpsInv'
    BY PartsRun, BusKept, FailoverKept, HttpsKept DEF CapacityInv
  <1>3. /\ part = "gradients" => GradientInv'
        /\ part = "offline" => OfflineInv'
        /\ part = "sovereign" => SovereignPeersInv'
    BY PartsRun, GradientKept, OfflineKept, SovereignPeersKept DEF CapacityInv
  <1> QED BY <1>0, <1>1, <1>2, <1>3 DEF CapacityInv

(* However requests and answers overlap, fail or come late, no part of a node   *)
(* holds more than it offered, asks for more than it may or uses anything       *)
(* twice: the vault (storeShard of storage/vault.ts), the job slots             *)
(* (compute/marketplace.ts), the chats, the viewers of the event bus, the       *)
(* models that are asked in turn, the certificates, the rounds of gradients,    *)
(* the work kept while the platform is away, the peers of a sovereign node.     *)
THEOREM CapacityIsKept == ServicesSpec => []CapacityRespected
  <1>1. CapacityInv => CapacityRespected
    BY VaultMeans, MarketMeans, ChatsMean, FailoverMeans, HttpsMeans, GradientMeans, OfflineMeans, PeersMeanBounded
       DEF CapacityInv, CapacityRespected, BusInv
  <1> QED BY <1>1, CapacityStarts, CapacityStays, PTL DEF ServicesSpec

-----------------------------------------------------------------------------
BooksInv == /\ part = "wallet" => WalletInv
            /\ part = "naas" => NaasInv
            /\ part = "pins" => PinInv
            /\ part = "directory" => DirectoryInv
            /\ part = "earnings" => EngineInv
            /\ part = "sharing" => SharingInv
            /\ part = "ledger" => StakeInv
            /\ part = "premium" => PremiumInv
            /\ part = "skills" => SkillInv
            /\ part = "bridge" => BridgeInv

LEMMA BooksStart == ServicesInit => BooksInv
  BY WalletBegins, NaasBegins, PinsBegin, DirectoryBegins, EngineBegins, SharingBegins, StakeBegins, PremiumBegins,
     SkillsBegin, BridgeBegins DEF ServicesInit, BooksInv

LEMMA BooksStay == BooksInv /\ [ServicesNext]_servicesVars => BooksInv'
  <1> SUFFICES ASSUME BooksInv, [ServicesNext]_servicesVars PROVE BooksInv'
    OBVIOUS
  <1>0. part' = part
    BY PartsRun
  <1>1. /\ part = "wallet" => WalletInv'
        /\ part = "naas" => NaasInv'
        /\ part = "pins" => PinInv'
        /\ part = "directory" => DirectoryInv'
    BY PartsRun, WalletKept, NaasKept, PinsKept, DirectoryKept DEF BooksInv
  <1>2. /\ part = "earnings" => EngineInv'
        /\ part = "sharing" => SharingInv'
        /\ part = "ledger" => StakeInv'
        /\ part = "premium" => PremiumInv'
    BY PartsRun, EngineKept, SharingKept, StakeKept, PremiumKept DEF BooksInv
  <1>3. /\ part = "skills" => SkillInv'
        /\ part = "bridge" => BridgeInv'
    BY PartsRun, SkillsKept, BridgeKept DEF BooksInv
  <1> QED BY <1>0, <1>1, <1>2, <1>3 DEF BooksInv

(* The node is one identity to the platform (wallet/manager.ts); no fee is lost *)
(* between its record and its settlement (naas/revenue_flywheel.ts); the list   *)
(* of pins is what was asked for (storage/ipfs.ts); nodes that are listed were  *)
(* heard of lately (swarm/orchestrator.ts); every event is in one place and     *)
(* counted once (revenue/engine.ts); the meter of shared compute is what was    *)
(* paid (network/resources.ts); the stake is what the platform holds, or on its *)
(* way (blockchain/token.ts); rewards of bounties and totals of validators add  *)
(* up (gateway/server.ts); a listed skill is whole (skills/marketplace.ts), and *)
(* what the bridge approved is on its chain (blockchain/bridge.ts).             *)
THEOREM BooksAreKept == ServicesSpec => []BooksBalance
  <1>1. BooksInv => BooksBalance
    BY WalletMeans, NaasMeans, PinsMean, EngineMeans, PremiumMeans
       DEF BooksInv, BooksBalance, DirectoryInv, SharingInv, StakeInv, SkillInv, BridgeInv
  <1> QED BY <1>1, BooksStart, BooksStay, PTL DEF ServicesSpec

-----------------------------------------------------------------------------
(* The components no other theorem here is about, and what the types of four    *)
(* others need beside their invariants.                                         *)
RestInv == /\ part \in Parts
           /\ part = "swarm" => SwarmInv
           /\ part = "router" => RouterInv
           /\ part = "apps" => AppInv
           /\ part = "login" => Inv
           /\ part = "quorum" => QuorumInv
           /\ part = "scheduler" => SchedulerInv
           /\ part = "update" => UpdateInv
           /\ part = "peers" => PeerInv
           /\ part = "mobile" => MobileInv
           /\ part = "lifecycle" => LifecycleInv
           /\ part = "mesh" => MeshInv
           /\ part = "validators" => DyingInv
           /\ part = "uptime" => BreakerInv
           /\ part = "failover" => HealthInv
           /\ part = "sovereign" => RunningInv
TypesInv == StrayInv /\ AccessInv /\ CapacityInv /\ BooksInv /\ RestInv

LEMMA RestStarts == ServicesInit => RestInv
  BY SwarmStarts, RouterStarts, AppStarts, InitInv, QuorumStarts, SchedulerStarts, UpdateStarts, PeersStart, MobileStarts,
     LifecycleStarts, MeshBegins, DyingStarts, BreakerStarts, HealthStarts, RunningStarts DEF ServicesInit, RestInv

LEMMA RestStays == RestInv /\ CapacityInv /\ [ServicesNext]_servicesVars => RestInv'
  <1> SUFFICES ASSUME RestInv, CapacityInv, [ServicesNext]_servicesVars PROVE RestInv'
    OBVIOUS
  <1>0. part' = part /\ part \in Parts
    BY PartsRun DEF RestInv
  <1>1. /\ part = "swarm" => SwarmInv'
        /\ part = "router" => RouterInv'
        /\ part = "apps" => AppInv'
        /\ part = "login" => Inv'
    BY PartsRun, SwarmKept, RouterKept, AppsKept, NextInv DEF RestInv, CapacityInv
  <1>2. /\ part = "quorum" => QuorumInv'
        /\ part = "scheduler" => SchedulerInv'
        /\ part = "update" => UpdateInv'
        /\ part = "peers" => PeerInv'
    BY PartsRun, QuorumKept, SchedulerKept, UpdateKept, PeersKept DEF RestInv, CapacityInv
  <1>3. /\ part = "mobile" => MobileInv'
        /\ part = "lifecycle" => LifecycleInv'
        /\ part = "mesh" => MeshInv'
        /\ part = "validators" => DyingInv'
    BY PartsRun, MobileKept, LifecycleKept, MeshKept, DyingKept DEF RestInv, CapacityInv
  <1>4. /\ part = "uptime" => BreakerInv'
        /\ part = "failover" => HealthInv'
        /\ part = "sovereign" => RunningInv'
    BY PartsRun, BreakerKept, HealthKept, RunningKept DEF RestInv, CapacityInv
  <1> QED BY <1>0, <1>1, <1>2, <1>3, <1>4 DEF RestInv

LEMMA EveryPartIsTyped == TypesInv => ServicesTypeOK
  <1> SUFFICES ASSUME TypesInv PROVE ServicesTypeOK
    OBVIOUS
  <1>1. CASE part = "swarm"
    BY <1>1 DEF TypesInv, RestInv, SwarmInv, ServicesTypeOK
  <1>2. CASE part = "router"
    BY <1>2, RouterIsTyped DEF TypesInv, RestInv, ServicesTypeOK
  <1>3. CASE part = "apps"
    BY <1>3 DEF TypesInv, RestInv, AppInv, ServicesTypeOK
  <1>4. CASE part = "login"
    BY <1>4 DEF TypesInv, RestInv, Inv, ServicesTypeOK
  <1>5. CASE part = "quorum"
    BY <1>5 DEF TypesInv, RestInv, QuorumInv, ServicesTypeOK
  <1>6. CASE part = "scheduler"
    BY <1>6 DEF TypesInv, RestInv, SchedulerInv, ServicesTypeOK
  <1>7. CASE part = "update"
    BY <1>7 DEF TypesInv, RestInv, UpdateInv, ServicesTypeOK
  <1>8. CASE part = "peers"
    BY <1>8 DEF TypesInv, RestInv, PeerInv, ServicesTypeOK
  <1>9. CASE part = "mobile"
    BY <1>9 DEF TypesInv, RestInv, MobileInv, ServicesTypeOK
  <1>10. CASE part = "lifecycle"
    BY <1>10 DEF TypesInv, RestInv, LifecycleInv, ServicesTypeOK
  <1>11. CASE part = "mesh"
    BY <1>11 DEF TypesInv, RestInv, MeshInv, ServicesTypeOK
  <1>12. CASE part = "vault"
    BY <1>12, VaultMeans DEF TypesInv, CapacityInv, ServicesTypeOK
  <1>13. CASE part = "market"
    BY <1>13, MarketMeans DEF TypesInv, CapacityInv, ServicesTypeOK
  <1>14. CASE part = "validators"
    BY <1>14, ChildrenMean DEF TypesInv, StrayInv, RestInv, ServicesTypeOK
  <1>15. CASE part = "auth"
    BY <1>15 DEF TypesInv, AccessInv, GateInv, ServicesTypeOK
  <1>16. CASE part = "wallet"
    BY <1>16, WalletMeans DEF TypesInv, BooksInv, ServicesTypeOK
  <1>17. CASE part = "chats"
    BY <1>17, ChatsMean DEF TypesInv, CapacityInv, ServicesTypeOK
  <1>18. CASE part = "uptime"
    BY <1>18, HeartbeatsTyped DEF TypesInv, StrayInv, RestInv, ServicesTypeOK
  <1>19. CASE part = "naas"
    BY <1>19, NaasMeans DEF TypesInv, BooksInv, ServicesTypeOK
  <1>20. CASE part = "memory"
    BY <1>20 DEF TypesInv, AccessInv, MemoryInv, ServicesTypeOK
  <1>21. CASE part = "pins"
    BY <1>21, PinsMean DEF TypesInv, BooksInv, ServicesTypeOK
  <1>22. CASE part = "https"
    BY <1>22 DEF TypesInv, StrayInv, HttpsInv, ServicesTypeOK
  <1>23. CASE part = "bus"
    BY <1>23 DEF TypesInv, CapacityInv, BusInv, ServicesTypeOK
  <1>24. CASE part = "failover"
    BY <1>24, FailoverIsTyped DEF TypesInv, CapacityInv, RestInv, ServicesTypeOK
  <1>25. CASE part = "hardening"
    BY <1>25 DEF TypesInv, AccessInv, HardeningInv, ServicesTypeOK
  <1>26. CASE part = "directory"
    BY <1>26 DEF TypesInv, BooksInv, DirectoryInv, ServicesTypeOK
  <1>27. CASE part = "earnings"
    BY <1>27, EngineMeans DEF TypesInv, BooksInv, ServicesTypeOK
  <1>28. CASE part = "sharing"
    BY <1>28 DEF TypesInv, BooksInv, SharingInv, ServicesTypeOK
  <1>29. CASE part = "ledger"
    BY <1>29 DEF TypesInv, BooksInv, StakeInv, ServicesTypeOK
  <1>30. CASE part = "ton"
    BY <1>30, TonIsTyped DEF TypesInv, AccessInv, ServicesTypeOK
  <1>31. CASE part = "remote"
    BY <1>31 DEF TypesInv, AccessInv, RemoteInv, ServicesTypeOK
  <1>32. CASE part = "gradients"
    BY <1>32, GradientMeans DEF TypesInv, CapacityInv, ServicesTypeOK
  <1>33. CASE part = "offline"
    BY <1>33, OfflineMeans DEF TypesInv, CapacityInv, ServicesTypeOK
  <1>34. CASE part = "premium"
    BY <1>34, PremiumMeans DEF TypesInv, BooksInv, ServicesTypeOK
  <1>35. CASE part = "skills"
    BY <1>35 DEF TypesInv, BooksInv, SkillInv, ServicesTypeOK
  <1>36. CASE part = "bridge"
    BY <1>36 DEF TypesInv, BooksInv, BridgeInv, ServicesTypeOK
  <1>37. CASE part = "sovereign"
    BY <1>37, PeersAreTyped DEF TypesInv, CapacityInv, RestInv, ServicesTypeOK
  <1> QED BY <1>1, <1>2, <1>3, <1>4, <1>5, <1>6, <1>7, <1>8, <1>9, <1>10, <1>11, <1>12, <1>13, <1>14, <1>15, <1>16, <1>17, <1>18, <1>19, <1>20, <1>21, <1>22, <1>23, <1>24, <1>25, <1>26, <1>27, <1>28, <1>29, <1>30, <1>31, <1>32, <1>33, <1>34, <1>35, <1>36, <1>37 DEF TypesInv, RestInv, Parts

(* Every variable of every component keeps its type through whatever happens,   *)
(* the restarts of the node and those of what it talks to included.             *)
THEOREM TypesAreKept == ServicesSpec => []ServicesTypeOK
  <1>1. ServicesInit => TypesInv
    BY StrayStarts, AccessStarts, CapacityStarts, BooksStart, RestStarts DEF TypesInv
  <1>2. TypesInv /\ [ServicesNext]_servicesVars => TypesInv'
    BY StrayKept, AccessStays, CapacityStays, BooksStay, RestStays DEF TypesInv
  <1> QED BY <1>1, <1>2, EveryPartIsTyped, PTL DEF ServicesSpec
=============================================================================

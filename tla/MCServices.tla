----------------------------- MODULE MCServices -----------------------------
(* Components of a node that share no state with each other, each on a small    *)
(* instance of its own.  A behaviour exercises one of them and leaves the       *)
(* others in their initial state, so the states of this module are those of the *)
(* components side by side and not their product.                               *)
EXTENDS Swarm, ChatRouter, AppsAndSkills, LoginLimiter, QuorumCoordinator,
        Scheduler, NodeProcess, PeerManager, MobileNodes, P2PMesh,
        NodeStorage, ComputeSharing, GatewayAccess, Wallet,
        ChatClients, UptimeDaemon, NodeAsAService, CollectiveMemory,
        NodeHttps, EventBus, ModelFailover, EarningBooks, Blockchain,
        RemoteAccess, Training, SovereignPeers

VARIABLE part   \* the component that runs

Parts == {"swarm", "router", "apps", "login", "quorum", "scheduler",
          "update", "peers", "mobile", "lifecycle", "mesh", "vault",
          "market", "validators", "auth", "wallet", "chats", "uptime",
          "naas", "memory", "pins", "https", "bus", "failover", "hardening",
          "directory", "earnings", "sharing", "ledger", "ton", "remote",
          "gradients", "offline", "premium", "skills", "bridge",
          "sovereign"}

servicesVars == <<part, swarmVars, routerVars, appVars, vars, quorumVars,
                  schedulerVars, updateVars, peerVars, mobileVars,
                  lifecycleVars, meshVars, vaultVars, marketVars,
                  validatorVars, gateVars, walletVars, chatVars, uptimeVars,
                  naasVars, memoryVars, pinVars, httpsVars, busVars,
                  failoverVars, hardeningVars, directoryVars, engineVars,
                  resourceVars, ledgerVars, tonVars, remoteVars,
                  gradientVars, offlineVars, premiumVars, skillVars,
                  bridgeVars, sovereignPeersVars>>

(* A component that rests does so in one of its initial states.                 *)
ServicesInit == /\ part \in Parts
                /\ SwarmInit
                /\ RouterInit
                /\ part # "router" => \A c \in Chats : chat[c].ask = CHOOSE r \in Requests : TRUE
                /\ AppInit
                /\ Init
                /\ QuorumInit
                /\ part # "quorum" => answer = [n \in Executors |-> CHOOSE h \in Hashes : TRUE]
                /\ SchedulerInit
                /\ UpdateInit
                /\ PeerInit
                /\ MobileInit
                /\ LifecycleInit
                /\ MeshInit
                /\ VaultInit
                /\ MarketInit
                /\ ValidatorInit
                /\ GateInit
                /\ part # "auth" => hashFile = NoPin /\ plainFile = NoPin
                /\ WalletInit
                /\ ChatInit
                /\ UptimeInit
                /\ NaasInit
                /\ MemoryInit
                /\ part # "memory" => sharing = [consent |-> FALSE, redis |-> FALSE, platform |-> FALSE]
                /\ PinInit
                /\ HttpsInit
                /\ BusInit
                /\ FailoverInit
                /\ HardeningInit
                /\ part # "hardening" => keyFile = 0
                /\ DirectoryInit
                /\ EngineInit
                /\ part # "earnings" => hasWallet
                /\ ResourceInit
                /\ part # "sharing" => price = CHOOSE p \in Prices : TRUE
                /\ LedgerInit
                /\ part # "ledger" => hasAddress
                /\ TonInit
                /\ RemoteInit
                /\ GradientInit
                /\ OfflineInit
                /\ part # "offline" => inMemory
                /\ PremiumInit
                /\ SkillInit
                /\ BridgeInit
                /\ part # "bridge" => chain = [t \in BridgeTasks |-> "TON"]
                /\ SovereignPeersInit

(* The others rest.                                                             *)
OthersRest ==
    /\ IF part = "swarm" THEN TRUE ELSE UNCHANGED swarmVars
    /\ IF part = "router" THEN TRUE ELSE UNCHANGED routerVars
    /\ IF part = "apps" THEN TRUE ELSE UNCHANGED appVars
    /\ IF part = "login" THEN TRUE ELSE UNCHANGED vars
    /\ IF part = "quorum" THEN TRUE ELSE UNCHANGED quorumVars
    /\ IF part = "scheduler" THEN TRUE ELSE UNCHANGED schedulerVars
    /\ IF part = "update" THEN TRUE ELSE UNCHANGED updateVars
    /\ IF part = "peers" THEN TRUE ELSE UNCHANGED peerVars
    /\ IF part = "mobile" THEN TRUE ELSE UNCHANGED mobileVars
    /\ IF part = "lifecycle" THEN TRUE ELSE UNCHANGED lifecycleVars
    /\ IF part = "mesh" THEN TRUE ELSE UNCHANGED meshVars
    /\ IF part = "vault" THEN TRUE ELSE UNCHANGED vaultVars
    /\ IF part = "market" THEN TRUE ELSE UNCHANGED marketVars
    /\ IF part = "validators" THEN TRUE ELSE UNCHANGED validatorVars
    /\ IF part = "auth" THEN TRUE ELSE UNCHANGED gateVars
    /\ IF part = "wallet" THEN TRUE ELSE UNCHANGED walletVars
    /\ IF part = "chats" THEN TRUE ELSE UNCHANGED chatVars
    /\ IF part = "uptime" THEN TRUE ELSE UNCHANGED uptimeVars
    /\ IF part = "naas" THEN TRUE ELSE UNCHANGED naasVars
    /\ IF part = "memory" THEN TRUE ELSE UNCHANGED memoryVars
    /\ IF part = "pins" THEN TRUE ELSE UNCHANGED pinVars
    /\ IF part = "https" THEN TRUE ELSE UNCHANGED httpsVars
    /\ IF part = "bus" THEN TRUE ELSE UNCHANGED busVars
    /\ IF part = "failover" THEN TRUE ELSE UNCHANGED failoverVars
    /\ IF part = "hardening" THEN TRUE ELSE UNCHANGED hardeningVars
    /\ IF part = "directory" THEN TRUE ELSE UNCHANGED directoryVars
    /\ IF part = "earnings" THEN TRUE ELSE UNCHANGED engineVars
    /\ IF part = "sharing" THEN TRUE ELSE UNCHANGED resourceVars
    /\ IF part = "ledger" THEN TRUE ELSE UNCHANGED ledgerVars
    /\ IF part = "ton" THEN TRUE ELSE UNCHANGED tonVars
    /\ IF part = "remote" THEN TRUE ELSE UNCHANGED remoteVars
    /\ IF part = "gradients" THEN TRUE ELSE UNCHANGED gradientVars
    /\ IF part = "offline" THEN TRUE ELSE UNCHANGED offlineVars
    /\ IF part = "premium" THEN TRUE ELSE UNCHANGED premiumVars
    /\ IF part = "skills" THEN TRUE ELSE UNCHANGED skillVars
    /\ IF part = "bridge" THEN TRUE ELSE UNCHANGED bridgeVars
    /\ IF part = "sovereign" THEN TRUE ELSE UNCHANGED sovereignPeersVars

ServicesNext ==
    /\ UNCHANGED part
    /\ OthersRest
    /\ \/ part = "swarm" /\ SwarmNext
       \/ part = "router" /\ RouterNext
       \/ part = "apps" /\ AppNext
       \/ part = "login" /\ Next
       \/ part = "quorum" /\ QuorumNext
       \/ part = "scheduler" /\ SchedulerNext
       \/ part = "update" /\ UpdateNext
       \/ part = "peers" /\ PeerNext
       \/ part = "mobile" /\ MobileNext
       \/ part = "lifecycle" /\ LifecycleNext
       \/ part = "mesh" /\ MeshNext
       \/ part = "vault" /\ VaultNext
       \/ part = "market" /\ MarketNext
       \/ part = "validators" /\ ValidatorNext
       \/ part = "auth" /\ GateNext
       \/ part = "wallet" /\ WalletNext
       \/ part = "chats" /\ ChatNext
       \/ part = "uptime" /\ UptimeNext
       \/ part = "naas" /\ NaasNext
       \/ part = "memory" /\ MemoryNext
       \/ part = "pins" /\ PinNext
       \/ part = "https" /\ HttpsNext
       \/ part = "bus" /\ BusNext
       \/ part = "failover" /\ FailoverNext
       \/ part = "hardening" /\ HardeningNext
       \/ part = "directory" /\ DirectoryNext
       \/ part = "earnings" /\ EngineNext
       \/ part = "sharing" /\ ResourceNext
       \/ part = "ledger" /\ LedgerNext
       \/ part = "ton" /\ TonNext
       \/ part = "remote" /\ RemoteNext
       \/ part = "gradients" /\ GradientNext
       \/ part = "offline" /\ OfflineNext
       \/ part = "premium" /\ PremiumNext
       \/ part = "skills" /\ SkillNext
       \/ part = "bridge" /\ BridgeNext
       \/ part = "sovereign" /\ SovereignPeersNext

ServicesSpec == ServicesInit /\ [][ServicesNext]_servicesVars

-----------------------------------------------------------------------------
(* The instances.                                                               *)
Ask(model, privacy) == [model |-> model, prompt |-> "hi", privacy |-> privacy, cache |-> TRUE]
MCRequests == {Ask("auto", "local"), Ask("large", "network")}
MCAutoOrder == <<"small", "large">>
MCSeedsOf == [n \in PeerNodes |-> {"a"}]
MCMeshSees == {<<"a", "b">>}
MCRemembers == {<<"a", "c">>}
MCBootstrapOf == [n \in MeshNodes |-> {"h"}]
MCSizeOf == [s \in ShardIds |-> IF s = "s1" THEN 1 ELSE 2]
MCRole(c, r, d, p) == [cpu |-> c, ram |-> r, disk |-> d, port |-> p]
MCRoleCatalog == <<MCRole(1, 1, 2, 1), MCRole(2, 4, 50, 2), MCRole(2, 4, 80, 2)>>
MCMachine(c, r, d) == [cpu |-> c, ram |-> r, disk |-> d]
MCProfiles == {MCMachine(1, 2, 20), MCMachine(4, 16, 200), MCMachine(2, 8, 120)}
MCWorthOf == [e \in Fees |-> IF e = "e1" THEN 30 ELSE 120]
MCChain == <<"m1", "m2">>
MCCallers == {"away", "home"}
MCTrusted == {"home"}
MCRequestId(r) == IF r = "r3" THEN "q3" ELSE "q1"
MCRequestType(r) == IF r = "r3" THEN "storage" ELSE "query"
MCCallKind(c) == IF c = "s1" THEN "stake" ELSE "unstake"
MCSkillName(i) == "writer"
MCSource(i) == CASE i = "i1" -> "repo" [] i = "i2" -> "tree" [] i = "i3" -> "local" [] OTHER -> "web"
MCBootstrapPeers == [n \in SovereignNodes |-> IF n = "a" THEN <<"b">> ELSE IF n = "g" THEN <<"b">> ELSE << >>]

-----------------------------------------------------------------------------
(* Every variable of the component that runs keeps its type, through its        *)
(* restarts and those of what it talks to.                                      *)
ServicesTypeOK ==
    CASE part = "swarm" -> SwarmTypeOK
      [] part = "router" -> RouterTypeOK
      [] part = "apps" -> AppTypeOK
      [] part = "login" -> TypeOK
      [] part = "quorum" -> QuorumTypeOK
      [] part = "scheduler" -> SchedulerTypeOK
      [] part = "update" -> UpdateTypeOK
      [] part = "peers" -> PeerTypeOK
      [] part = "mobile" -> MobileTypeOK
      [] part = "lifecycle" -> LifecycleTypeOK
      [] part = "mesh" -> MeshTypeOK
      [] part = "vault" -> VaultTypeOK
      [] part = "market" -> MarketTypeOK
      [] part = "validators" -> ValidatorTypeOK
      [] part = "auth" -> GateTypeOK
      [] part = "wallet" -> WalletTypeOK
      [] part = "chats" -> ChatTypeOK
      [] part = "uptime" -> UptimeTypeOK
      [] part = "naas" -> NaasTypeOK
      [] part = "memory" -> MemoryTypeOK
      [] part = "pins" -> PinTypeOK
      [] part = "https" -> HttpsTypeOK
      [] part = "bus" -> BusTypeOK
      [] part = "failover" -> FailoverTypeOK
      [] part = "hardening" -> HardeningTypeOK
      [] part = "directory" -> DirectoryTypeOK
      [] part = "earnings" -> EngineTypeOK
      [] part = "sharing" -> ResourceTypeOK
      [] part = "ledger" -> LedgerTypeOK
      [] part = "ton" -> TonTypeOK
      [] part = "remote" -> RemoteTypeOK
      [] part = "gradients" -> GradientTypeOK
      [] part = "offline" -> OfflineTypeOK
      [] part = "premium" -> PremiumTypeOK
      [] part = "skills" -> SkillTypeOK
      [] part = "bridge" -> BridgeTypeOK
      [] part = "sovereign" -> SovereignPeersTypeOK

(* However requests and answers overlap, fail or come late, no part of a node   *)
(* holds more than it offered, asks for more than it may or uses anything       *)
(* twice: the vault, the job slots, the chats, the viewers and the log of the   *)
(* event bus, the models that are asked in turn, the certificates, the rounds   *)
(* of gradients, the work kept while the platform is away, the peers of a       *)
(* sovereign node.                                                              *)
CapacityRespected ==
    CASE part = "vault" -> VaultWithinShare
      [] part = "market" -> MarketWithinLimit
      [] part = "chats" -> ChatsWithinLimit
      [] part = "bus" -> ViewersKept
      [] part = "failover" -> EveryModelTried
      [] part = "https" -> IssuanceCapped
      [] part = "gradients" -> RoundsUseEachOnce
      [] part = "offline" -> ResultsAreKept
      [] part = "sovereign" -> PeersAreBounded
      [] OTHER -> TRUE

(* Nothing that was told to stop goes on working unnoticed.                     *)
NoStray ==
    CASE part = "validators" -> NoStrayDaemon
      [] part = "uptime" -> OneAtATime
      [] part = "https" -> FailedSetupUndone
      [] OTHER -> TRUE

(* Only the operator gets in, and is not locked out by a change of the PIN;     *)
(* strangers and revoked friends are kept out; each request to the wallet gets  *)
(* one answer; and nothing is passed on that was not meant to be.               *)
AccessKept ==
    CASE part = "auth" -> OperatorOnly
      [] part = "memory" -> AnswersStayHome
      [] part = "hardening" -> StrangersAreBounded
      [] part = "remote" -> RevokedStayOut
      [] part = "ton" -> EachAnsweredOnce
      [] OTHER -> TRUE

(* The node is one identity, its books of fees, earnings, stakes, shares and    *)
(* bounties add up to what it was paid or others hold, and its lists say what   *)
(* it was last asked for or shown: pins, nodes, skills, bridged tokens.         *)
BooksBalance ==
    CASE part = "wallet" -> OneIdentity
      [] part = "naas" -> FeesBalance
      [] part = "pins" -> PinsAsAsked
      [] part = "directory" -> DirectoryIsCurrent
      [] part = "earnings" -> EarningsAddUp
      [] part = "sharing" -> SharingIsMetered
      [] part = "ledger" -> StakeIsHeld
      [] part = "premium" -> BooksAddUp
      [] part = "skills" -> SkillsAreWhole
      [] part = "bridge" -> ApprovedIsThere
      [] OTHER -> TRUE
=============================================================================

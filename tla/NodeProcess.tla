----------------------------- MODULE NodeProcess ----------------------------
(* The process of a node and the code it runs: start and shutdown, and the      *)
(* update from git.                                                             *)
EXTENDS Naturals, Sequences

-----------------------------------------------------------------------------
(* The process of a node: main() of src/src/index.ts with the start and stop of  *)
(* the gateway (src/src/gateway/server.ts), from the search for a port to the    *)
(* exit, with the retries of the mesh in the background, signals at any moment,  *)
(* and stops that throw or never return.                                         *)

CONSTANTS MaxPorts, \* 10 in the code: ports that are tried
          Grace     \* ticks of the 30 s a shutdown may take

ASSUME LifecycleAssumption == MaxPorts \in Nat \ {0} /\ Grace \in Nat \ {0}

VARIABLES booted,   \* "port", "services", "mesh", "ready"
          port,     \* how many ports were found busy
          process,  \* "running", or how it ended: "clean" (0), "failed" (1), "killed"
          mesh,     \* the libp2p node: "off", "up", "retrying"
          link,     \* whether the platform link talks to the platform
          stopping, \* "no", the stop that is awaited, or "rejected"
          since,    \* ticks since the shutdown began
          shutdowns \* history: how often the sequence of stops was begun

lifecycleVars == <<booted, port, process, mesh, link, stopping, since, shutdowns>>

Stops == <<"mesh", "http", "gateway", "memory">>    \* in the order of index.ts
StopNames == {Stops[i] : i \in DOMAIN Stops}

LifecycleTypeOK == /\ booted \in {"port", "services", "mesh", "ready"}
                   /\ port \in 0..MaxPorts - 1
                   /\ process \in {"running", "clean", "failed", "killed"}
                   /\ mesh \in {"off", "up", "retrying"} /\ link \in BOOLEAN
                   /\ stopping \in {"no", "rejected"} \cup StopNames
                   /\ since \in 0..Grace /\ shutdowns \in Nat

LifecycleInit == /\ booted = "port" /\ port = 0 /\ process = "running"
                 /\ mesh = "off" /\ link = FALSE
                 /\ stopping = "no" /\ since = 0 /\ shutdowns = 0

Alive == process = "running"
Exit(how) == process' = how

-----------------------------------------------------------------------------
(* OmegaGateway.start(): a busy port is given up for the next one.              *)
PortBusy == /\ Alive /\ booted = "port"
            /\ IF port < MaxPorts - 1 THEN port' = port + 1 /\ UNCHANGED process
               ELSE Exit("failed") /\ UNCHANGED port
            /\ UNCHANGED <<booted, mesh, link, stopping, since, shutdowns>>

Listening == /\ Alive /\ booted = "port"
             /\ booted' = "services" /\ link' = TRUE
             /\ UNCHANGED <<port, process, mesh, stopping, since, shutdowns>>

(* Wallet, memory, orchestrator, Fastify; what throws ends the process.         *)
ServicesStart == /\ Alive /\ booted = "services"
                 /\ \/ booted' = "mesh" /\ UNCHANGED process
                    \/ Exit("failed") /\ UNCHANGED booted
                 /\ UNCHANGED <<port, mesh, link, stopping, since, shutdowns>>

(* No mesh in platform mode; a failed start is retried while the start goes on.  *)
MeshStarts == /\ Alive /\ booted = "mesh"
              /\ booted' = "ready"
              /\ mesh' \in {"off", "up", "retrying"}
              /\ UNCHANGED <<port, process, link, stopping, since, shutdowns>>

(* retryMeshInBackground asks nobody whether the node is shutting down.         *)
MeshRetried == /\ Alive /\ mesh = "retrying"
               /\ mesh' = "up"
               /\ UNCHANGED <<booted, port, process, link, stopping, since, shutdowns>>

-----------------------------------------------------------------------------
(* A signal before the handlers are there ends the process; one after a first   *)
(* one changes nothing.                                                         *)
Signal == /\ Alive
          /\ \/ /\ booted # "ready"
                /\ Exit("killed")
                /\ UNCHANGED <<stopping, since, shutdowns>>
             \/ /\ booted = "ready" /\ stopping = "no"
                /\ stopping' = Stops[1] /\ since' = 0 /\ shutdowns' = shutdowns + 1
                /\ UNCHANGED process
          /\ UNCHANGED <<booted, port, mesh, link>>

StopReturnsIn(i) ==
    /\ Alive /\ stopping = Stops[i]
    /\ mesh' = IF Stops[i] = "mesh" /\ mesh = "up" THEN "off" ELSE mesh
    /\ link' = (link /\ Stops[i] # "gateway")
    /\ IF i = Len(Stops) THEN Exit("clean") /\ UNCHANGED stopping
       ELSE stopping' = Stops[i + 1] /\ UNCHANGED process
    /\ UNCHANGED <<booted, port, since, shutdowns>>

(* Mutant: the first stop that throws ends the process as if all had returned.  *)
StopThrowsUnnoticed == /\ Alive /\ stopping \in StopNames
                       /\ Exit("clean")
                       /\ UNCHANGED <<booted, port, mesh, link, stopping, since, shutdowns>>

StopThrows == /\ Alive /\ stopping \in StopNames
              /\ stopping' = "rejected"
              /\ UNCHANGED <<booted, port, process, mesh, link, since, shutdowns>>

LifecycleTick == /\ Alive /\ stopping # "no" /\ since < Grace
                 /\ since' = since + 1
                 /\ UNCHANGED <<booted, port, process, mesh, link, stopping, shutdowns>>

(* The timer of 30 s, which a rejected shutdown leaves running.                 *)
GraceOver == /\ Alive /\ stopping # "no" /\ since = Grace
             /\ Exit("failed")
             /\ UNCHANGED <<booted, port, mesh, link, stopping, since, shutdowns>>

(* checkAndUpdate ends the process for its supervisor, unless it shuts down.    *)
UpdateExits == /\ Alive /\ booted = "ready" /\ stopping = "no"
               /\ Exit("clean")
               /\ UNCHANGED <<booted, port, mesh, link, stopping, since, shutdowns>>

LifecycleNext == \/ PortBusy \/ Listening \/ ServicesStart \/ MeshStarts \/ MeshRetried
                 \/ Signal \/ StopThrows \/ LifecycleTick \/ GraceOver \/ UpdateExits
                 \/ \E i \in DOMAIN Stops : StopReturnsIn(i)

(* Time passes and the timer fires; no stop need ever return.                   *)
LifecycleFairness == WF_lifecycleVars(LifecycleTick) /\ WF_lifecycleVars(GraceOver)

LifecycleSpec == LifecycleInit /\ [][LifecycleNext]_lifecycleVars /\ LifecycleFairness

-----------------------------------------------------------------------------
(* A shutdown ends, whether its stops return, throw or hang.                    *)
ShutdownEnds == stopping # "no" ~> process # "running"

(* The exit code tells the supervisor the truth: 0 only after every stop        *)
(* returned, or for an update of a node nobody asked to stop.                   *)
CleanMeansStopped == process = "clean" /\ stopping # "no" => ~link /\ stopping = "memory"

(* Several signals run one sequence of stops.                                   *)
StopsOnce == shutdowns <= 1

(* However many signals come, the stops run once, and exit code 0 means they    *)
(* all returned.                                                                *)
StopsTold == StopsOnce /\ CleanMeansStopped

-----------------------------------------------------------------------------
(* The node updates itself from git: src/src/lib/node-update.ts and its callers, *)
(* the hourly check of src/src/index.ts, the update the platform asks the swarm  *)
(* agent for, and the routes of src/src/gateway/server.ts.  Every step is a      *)
(* blocking child process, so nothing else of the node runs in between, but the  *)
(* process may be killed there.  pm2 starts what dist/ holds.                    *)

CONSTANTS LastCommit,  \* commits 0..LastCommit of origin/main, in order
          Unbuildable, \* commits npm or tsc fails on
          Crashing,    \* commits that build and then crash when they start
          Damaged,     \* what half-replaced node_modules or dist hold
          MaxKills     \* bound: kills and failed rollbacks

Commits == 0..LastCommit
ASSUME UpdateAssumption == /\ LastCommit \in Nat /\ MaxKills \in Nat
                           /\ Damaged \notin Commits /\ 0 \notin Unbuildable \cup Crashing

VARIABLES origin,   \* the commit of origin/main
          head,     \* the checkout's commit
          deps,     \* the commit node_modules was installed for
          dist,     \* the commit dist/ was compiled from
          running,  \* the commit the process runs, or Damaged when it is down
          step,     \* where the update is, "none" when there is none
          caller,   \* which code runs it
          previous, \* the snapshot to roll back to
          kills     \* what interrupted an update so far

updateVars == <<origin, head, deps, dist, running, step, caller, previous, kills>>

Callers == {"hourly", "agent", "button", "route"}   \* button: /api/actions, no restart
Steps == {"none", "install", "compile", "undo", "reinstall", "recompile", "restart"}

UpdateTypeOK ==
    /\ origin \in Commits /\ head \in Commits /\ previous \in Commits
    /\ deps \in Commits \cup {Damaged} /\ dist \in Commits \cup {Damaged}
    /\ running \in Commits \cup {Damaged}
    /\ step \in Steps /\ caller \in Callers
    /\ kills \in 0..MaxKills

UpdateInit == /\ origin = 0 /\ head = 0 /\ deps = 0 /\ dist = 0 /\ running = 0 /\ previous = 0
              /\ step = "none" /\ caller = "hourly" /\ kills = 0

Up == running \in Commits

Push == /\ origin < LastCommit
        /\ origin' = origin + 1
        /\ UNCHANGED <<head, deps, dist, running, step, caller, previous, kills>>

(* fastForwardNodeUpdate, a merge --ff-only: all of it or nothing.  The hourly  *)
(* check and the agent stop when there is nothing new; the routes build again.  *)
BeginUpdate(c) ==
    /\ Up /\ step = "none"
    /\ c \in {"hourly", "agent"} => head # origin
    /\ previous' = head
    /\ head' = origin
    /\ step' = "install" /\ caller' = c
    /\ UNCHANGED <<origin, deps, dist, running, kills>>

(* npm ci replaces node_modules; it may fail half-way.                          *)
Install == /\ step = "install"
           /\ \/ deps' = head /\ step' = "compile"
              \/ deps' = Damaged /\ step' = "undo"
           /\ UNCHANGED <<origin, head, dist, running, caller, previous, kills>>

(* tsc writes dist/ as it goes and exits with an error afterwards.              *)
CompileTo(failed) ==
    /\ step = "compile"
    /\ IF head \in Unbuildable
       THEN step' = failed /\ dist' \in {dist, Damaged}
       ELSE step' = "restart" /\ dist' = head
    /\ UNCHANGED <<origin, head, deps, running, caller, previous, kills>>
CompileAgain == CompileTo("compile")     \* mutant: tried for ever

Compile == CompileTo("undo")

(* rollbackNodeUpdate and the same two commands again for the snapshot.         *)
Undo == /\ step = "undo"
        /\ head' = previous
        /\ step' = "reinstall"
        /\ UNCHANGED <<origin, deps, dist, running, caller, previous, kills>>

Reinstall == /\ step = "reinstall"
             /\ deps' = head /\ step' = "recompile"
             /\ UNCHANGED <<origin, head, dist, running, caller, previous, kills>>

Recompile == /\ step = "recompile"
             /\ dist' = head /\ step' = "none"
             /\ UNCHANGED <<origin, head, deps, running, caller, previous, kills>>

RollbackFailsUnnoticed == /\ step \in {"undo", "reinstall", "recompile"}    \* mutant
                          /\ kills < MaxKills
                          /\ kills' = kills + 1
                          /\ step' = "restart"
                          /\ UNCHANGED <<origin, head, deps, dist, running, caller, previous>>

(* A rollback command that fails is logged and leaves what there is.            *)
RollbackFails == /\ step \in {"undo", "reinstall", "recompile"}
                 /\ kills < MaxKills
                 /\ kills' = kills + 1
                 /\ step' = "none"
                 /\ deps' \in IF step = "reinstall" THEN {Damaged} ELSE {deps}
                 /\ dist' \in IF step = "recompile" THEN {dist, Damaged} ELSE {dist}
                 /\ UNCHANGED <<origin, head, running, caller, previous>>

(* exit(0) after a verified build; the button only asks for a restart.          *)
ExitForUpdate == /\ step = "restart"
                 /\ step' = "none"
                 /\ running' = IF caller = "button" THEN running ELSE Damaged
                 /\ UNCHANGED <<origin, head, deps, dist, caller, previous, kills>>

(* A kill in the middle of a command leaves what that command replaces damaged. *)
Killed == /\ Up
          /\ kills < MaxKills
          /\ kills' = kills + 1
          /\ running' = Damaged /\ step' = "none"
          /\ deps' \in IF step \in {"install", "reinstall"} THEN {deps, Damaged} ELSE {deps}
          /\ dist' \in IF step \in {"compile", "recompile"} THEN {dist, Damaged} ELSE {dist}
          /\ UNCHANGED <<origin, head, caller, previous>>

(* pm2: start dist/ again.                                                      *)
Restart == /\ ~Up
           /\ deps # Damaged /\ dist # Damaged
           /\ running' = dist
           /\ UNCHANGED <<origin, head, deps, dist, step, caller, previous, kills>>

(* A commit that does not start goes down again.                                *)
CrashAtStart == /\ running \in Crashing
                /\ step = "none"
                /\ running' = Damaged
                /\ UNCHANGED <<origin, head, deps, dist, step, caller, previous, kills>>

UpdateNext == \/ Push
              \/ \E c \in Callers : BeginUpdate(c)
              \/ Install \/ Compile
              \/ Undo \/ Reinstall \/ Recompile \/ RollbackFails
              \/ ExitForUpdate \/ Killed \/ Restart \/ CrashAtStart

UpdateSpec == UpdateInit /\ [][UpdateNext]_updateVars

(* An update is one function that goes on, and pm2 restarts what went down.     *)
UpdateFairness ==
    /\ WF_updateVars(Install \/ Compile \/ Undo \/ Reinstall \/ Recompile \/ ExitForUpdate)
    /\ WF_updateVars(Restart \/ CrashAtStart)

-----------------------------------------------------------------------------
(* Every update ends: finished, rolled back, given up or killed.                *)
UpdateEnds == step # "none" ~> step = "none"

(* Whatever fails, is rolled back or is killed during an update, what runs next *)
(* was built from what is checked out: no restart into a half-built node        *)
(* (gateway/server.ts:2153), an update that ends without one leaves the commit  *)
(* it found, and outside an update sources, packages and dist/ are of one       *)
(* commit unless something interrupted an update or its rollback.               *)
UpdateKeepsBuild ==
    [][/\ ExitForUpdate => head = deps /\ head = dist
       /\ step = "recompile" /\ step' = "none" /\ kills' = kills =>
              head' = previous /\ deps' = previous /\ dist' = previous
       /\ step' = "none" /\ kills' = 0 => head' = deps' /\ head' = dist']_updateVars
=============================================================================

---------------------------- MODULE AppsAndSkills ---------------------------
(* What an operator installs on a node: applications and skills.                *)
EXTENDS Naturals, FiniteSets

-----------------------------------------------------------------------------
(* Installing, starting and removing applications: src/src/apps/manager.ts and   *)
(* the routes /api/apps/... of src/src/gateway/server.ts.  Docker commands block *)
(* the process; an installation waits between its steps, and everything else can *)
(* run there.  An installation keeps the InstalledApp object it created, which   *)
(* may have been removed from the table, or replaced, meanwhile.                 *)

CONSTANTS Apps,       \* ids of the registry
          DockerApps, \* the ones that run in a container
          LastStep,   \* steps of an installation: 0 .. LastStep
          MaxInstalls \* bound: installations in a behaviour

(* "none" stands for no app at all; the registry has none of that id.           *)
ASSUME AppAssumption == DockerApps \subseteq Apps /\ "none" \notin Apps /\ {LastStep, MaxInstalls} \subseteq Nat

Installations == 1..MaxInstalls
NoApp == [object |-> 0, status |-> "none"]
Idle == [app |-> "none", step |-> 0, start |-> FALSE, removed |-> FALSE]

VARIABLES installed, \* the table: the object of each app and its status
          stateFile, \* installed.json: the status of each app it lists
          inst,      \* the installations that run
          container, \* apps whose container runs
          used       \* installations begun so far

appVars == <<installed, stateFile, inst, container, used>>

Statuses == {"installing", "stopped", "running", "error"}

AppTypeOK == /\ installed \in [Apps -> {NoApp} \cup [object : Installations, status : Statuses]]
             /\ stateFile \in [Apps -> Statuses \cup {"none"}]
             /\ inst \in [Installations ->
                    {Idle} \cup [app : Apps, step : 0..LastStep, start : BOOLEAN, removed : BOOLEAN]]
             /\ container \subseteq DockerApps
             /\ used \in 0..MaxInstalls

AppInit == /\ installed = [a \in Apps |-> NoApp]
           /\ stateFile = [a \in Apps |-> "none"]
           /\ inst = [i \in Installations |-> Idle]
           /\ container = {}
           /\ used = 0

Listed(a) == installed[a] # NoApp
Saved == stateFile' = [a \in Apps |-> installed'[a].status]
SetStatus(a, status) == installed' = [installed EXCEPT ![a].status = status]

(* Mutant: the table is not looked at.                                          *)
BeginInstallAgain(a, start) ==
    /\ used < MaxInstalls
    /\ used' = used + 1
    /\ installed' = [installed EXCEPT ![a] = [object |-> used', status |-> "installing"]]
    /\ inst' = [inst EXCEPT ![used'] = [app |-> a, step |-> 0, start |-> start, removed |-> FALSE]]
    /\ Saved
    /\ UNCHANGED container

(* install(), up to its first await.  Bulk installation and an update start the *)
(* app when it is done.                                                         *)
BeginInstall(a, start) ==
    /\ used < MaxInstalls
    /\ ~Listed(a)
    /\ used' = used + 1
    /\ installed' = [installed EXCEPT ![a] = [object |-> used', status |-> "installing"]]
    /\ inst' = [inst EXCEPT ![used'] = [app |-> a, step |-> 0, start |-> start, removed |-> FALSE]]
    /\ Saved
    /\ UNCHANGED container

(* The status of the object of installation i, which nobody sees once the table *)
(* holds another.                                                               *)
MarkObject(i, status) ==
    installed' = [a \in Apps |-> IF installed[a].object = i
                                 THEN [installed[a] EXCEPT !.status = status] ELSE installed[a]]

(* A step is done; the last one marks the object stopped before its wait.       *)
StepDone(i) == /\ inst[i] # Idle
               /\ inst[i].step < LastStep
               /\ inst' = [inst EXCEPT ![i].step = @ + 1]
               /\ IF inst[i].step + 1 = LastStep THEN MarkObject(i, "stopped") ELSE UNCHANGED installed
               /\ UNCHANGED <<stateFile, container, used>>

StepFails(i) == /\ inst[i] # Idle
                /\ inst[i].step < LastStep
                /\ inst' = [inst EXCEPT ![i] = Idle]
                /\ MarkObject(i, "error")
                /\ Saved
                /\ UNCHANGED <<container, used>>

(* docker run after docker rm -f; a container that does not start leaves "error" *)
(* in memory alone.                                                             *)
StartApp(a, ok) ==
    /\ Listed(a)
    /\ a \notin DockerApps => ok
    /\ SetStatus(a, IF ok THEN "running" ELSE "error")
    /\ container' = IF ok /\ a \in DockerApps THEN container \cup {a} ELSE container \ {a}
    /\ IF ok THEN Saved ELSE UNCHANGED stateFile
    /\ UNCHANGED <<inst, used>>

(* The end of an installation: the table is saved, and an update or a bulk       *)
(* installation starts what the table now holds.                                *)
EndInstall(i, ok) ==
    LET a == inst[i].app IN
    /\ inst[i] # Idle
    /\ inst[i].step = LastStep
    /\ inst' = [inst EXCEPT ![i] = Idle]
    /\ IF inst[i].start /\ Listed(a) /\ (ok \/ a \in DockerApps)
       THEN /\ SetStatus(a, IF ok THEN "running" ELSE "error")
            /\ container' = IF ok /\ a \in DockerApps THEN container \cup {a} ELSE container \ {a}
       ELSE UNCHANGED <<installed, container>>
    /\ stateFile' = [b \in Apps |-> IF ok THEN installed'[b].status ELSE installed[b].status]
    /\ UNCHANGED used

(* docker stop: its failure is ignored.                                         *)
StopApp(a, ok) == /\ Listed(a)
                  /\ SetStatus(a, "stopped")
                  /\ container' = IF ok THEN container \ {a} ELSE container
                  /\ Saved
                  /\ UNCHANGED <<inst, used>>

(* stop(), then docker rm -f, then the table.                                   *)
Uninstall(a) == /\ Listed(a)
                /\ installed' = [installed EXCEPT ![a] = NoApp]
                /\ inst' = [i \in Installations |-> IF inst[i].app = a
                                THEN [inst[i] EXCEPT !.removed = TRUE] ELSE inst[i]]
                /\ container' = container \ {a}
                /\ Saved
                /\ UNCHANGED used

(* The process restarts: init() reads the table, installations are gone, and    *)
(* containers ("--restart unless-stopped") keep running.                        *)
AppRestart == /\ installed' = [a \in Apps |->
                    IF stateFile[a] = "none" THEN NoApp
                    ELSE [object |-> IF Listed(a) THEN installed[a].object ELSE 1, status |-> stateFile[a]]]
              /\ inst' = [i \in Installations |-> Idle]
              /\ UNCHANGED <<stateFile, container, used>>

AppNext == \/ \E a \in Apps : \/ Uninstall(a)
                              \/ \E b \in BOOLEAN : BeginInstall(a, b) \/ StartApp(a, b) \/ StopApp(a, b)
           \/ \E i \in Installations : \/ StepDone(i) \/ StepFails(i)
                                       \/ \E ok \in BOOLEAN : EndInstall(i, ok)
           \/ AppRestart

AppSpec == AppInit /\ [][AppNext]_appVars

-----------------------------------------------------------------------------
(* An app is installed by one installation at a time, whether the operator, a   *)
(* bulk installation or an update began it; only removing the app under an      *)
(* installation leaves that one running beside the next.                        *)
OneInstallation == \A i, j \in Installations :
    inst[i] # Idle /\ inst[j] # Idle /\ inst[i].app = inst[j].app /\ i # j =>
        inst[i].removed \/ inst[j].removed

(* No container outlives its app in the table or in the file, so that the       *)
(* operator can stop it, also after a restart and whatever ended in between.    *)
ContainersListed == \A a \in container : Listed(a) /\ stateFile[a] # "none"

(* A restart finds the apps there were.  What it may find changed is the status *)
(* of one that failed to start, or whose installation was about to end.         *)
FileFollowsTable == \A a \in Apps :
    /\ stateFile[a] # "none" <=> Listed(a)
    /\ stateFile[a] # installed[a].status =>
          \/ installed[a].status = "error"
          \/ \E i \in Installations : inst[i] # Idle /\ inst[i].step = LastStep /\ installed[a].object = i

(* Apps, their containers and the file agree, one installation at a time.       *)
AppsAgree == OneInstallation /\ ContainersListed /\ FileFollowsTable

-----------------------------------------------------------------------------
(* The skills of a node: src/src/skills/marketplace.ts. A skill is a directory  *)
(* with a SKILL.md and a meta.json; importing one again updates it in place.    *)
(* Imports overlap where they wait for the network, and the process can be      *)
(* killed between the two writes.                                               *)

CONSTANTS Imports, SkillNames,
          SkillName(_), \* [import -> the name of the skill]: isSafeSkillName, extractSkillName
          Source(_)     \* [import -> "tree", "repo", "web" or "local"]: a directory of a repository on
                        \* GitHub, a repository, another URL, a path

VARIABLES skillMd,    \* [name -> "none" or [by, page]: the source of its SKILL.md, and whether it is a web page]
          metaJson,   \* [name -> "none" or the source in its meta.json]
          rest,       \* names with other files in the directory
          importStep, \* [import -> "new", "raw", "clone", "generic", "skill", "null"]
          torn        \* names of which one file was written without the other (not in the code)

skillVars == <<skillMd, metaJson, rest, importStep, torn>>

Origins == {"tree", "repo", "web", "local"}
ASSUME SkillAssumption == \A i \in Imports : SkillName(i) \in SkillNames /\ Source(i) \in Origins
NoSkillMd == [by |-> "none", page |-> FALSE]
SkillTypeOK == /\ skillMd \in [SkillNames -> [by : Origins \cup {"none"}, page : BOOLEAN]]
               /\ metaJson \in [SkillNames -> Origins \cup {"none"}]
               /\ rest \subseteq SkillNames /\ torn \subseteq SkillNames
               /\ importStep \in [Imports -> {"new", "raw", "clone", "generic", "skill", "null"}]

SkillInit == /\ skillMd = [n \in SkillNames |-> NoSkillMd] /\ metaJson = [n \in SkillNames |-> "none"] /\ rest = {}
             /\ importStep = [i \in Imports |-> "new"] /\ torn = {}

ImportGoes(i, to) == importStep' = [importStep EXCEPT ![i] = to]
(* listInstalled shows a directory by its meta.json.                            *)
ListInstalled == {n \in SkillNames : metaJson[n] # "none"}
IsEmpty(n) == skillMd[n] = NoSkillMd /\ metaJson[n] = "none" /\ n \notin rest

(* importSkill, importFromUrl: the directory is made; GitHub is asked for the   *)
(* raw SKILL.md first.                                                          *)
ImportFromUrl(i) == /\ importStep[i] = "new" /\ Source(i) # "local"
                    /\ ImportGoes(i, IF Source(i) = "web" THEN "generic" ELSE "raw")
                    /\ UNCHANGED <<skillMd, metaJson, rest, torn>>
(* SKILL.md is written, then meta.json; killed in between, the process is gone  *)
(* with all its imports.                                                        *)
StoreSkill(i, page) ==
    LET n == SkillName(i) IN
    /\ skillMd' = [skillMd EXCEPT ![n] = [by |-> Source(i), page |-> page]]
    /\ \/ metaJson' = [metaJson EXCEPT ![n] = Source(i)] /\ ImportGoes(i, "skill") /\ torn' = torn \ {n}
       \/ /\ UNCHANGED metaJson /\ torn' = torn \cup {n}
          /\ importStep' = [j \in Imports |-> IF importStep[j] \in {"raw", "clone", "generic"} THEN "null" ELSE importStep[j]]
(* The raw address of a whole repository names no branch: there is nothing.     *)
RawAnswers(i) == /\ importStep[i] = "raw"
                 /\ \/ Source(i) = "tree" /\ StoreSkill(i, FALSE)
                    \/ ImportGoes(i, "clone") /\ UNCHANGED <<skillMd, metaJson, torn>>
                 /\ UNCHANGED rest
(* git clones only into an empty directory; the call blocks the process. A      *)
(* repository without a SKILL.md at its root leaves its files behind.           *)
Cloned(i) == LET n == SkillName(i) IN
             /\ IsEmpty(n) /\ rest' = rest \cup {n}
             /\ \/ StoreSkill(i, FALSE)
                \/ ImportGoes(i, "generic") /\ UNCHANGED <<skillMd, metaJson, torn>>
GitClone(i) == /\ importStep[i] = "clone"
               /\ \/ Cloned(i)
                  \/ ImportGoes(i, "generic") /\ UNCHANGED <<skillMd, metaJson, rest, torn>>
(* The last resort takes what the address shows: of GitHub, a page.             *)
GenericFetch(i) == /\ importStep[i] = "generic"
                   /\ \/ StoreSkill(i, Source(i) # "web")
                      \/ ImportGoes(i, "null") /\ UNCHANGED <<skillMd, metaJson, torn>>
                   /\ UNCHANGED rest

(* importFromLocal goes by whether there is a SKILL.md afterwards, be it the    *)
(* one of before when the copy failed.                                          *)
HasSkill(i, there) == there # NoSkillMd
CopyResult(i, md) ==
    LET n == SkillName(i) IN
    /\ skillMd' = [skillMd EXCEPT ![n] = md]
    /\ IF HasSkill(i, md)
         THEN /\ metaJson' = [metaJson EXCEPT ![n] = "local"] /\ ImportGoes(i, "skill")
              /\ torn' = IF md.by = "local" THEN torn \ {n} ELSE torn \cup {n}
         ELSE ImportGoes(i, "null") /\ UNCHANGED <<metaJson, torn>>
ImportFromLocal(i) ==
    /\ importStep[i] = "new" /\ Source(i) = "local"
    /\ \E copied \in BOOLEAN : /\ CopyResult(i, IF copied THEN [by |-> "local", page |-> FALSE] ELSE skillMd[SkillName(i)])
                               /\ rest' \in {rest, rest \cup {SkillName(i)}}

SkillNext == \E i \in Imports : ImportFromUrl(i) \/ RawAnswers(i) \/ GitClone(i) \/ GenericFetch(i) \/ ImportFromLocal(i)
-----------------------------------------------------------------------------
(* A skill that is listed has a SKILL.md, which came from where its meta.json   *)
(* says unless a kill or a failed copy left one file without the other; an      *)
(* import that reported a skill left one listed; a page stands for a skill only *)
(* where a repository on GitHub was asked for.                                  *)
SkillsAreWhole ==
    /\ \A n \in ListInstalled : skillMd[n] # NoSkillMd /\ (skillMd[n].by # metaJson[n] => n \in torn)
    /\ \A n \in SkillNames \ torn : skillMd[n] # NoSkillMd <=> n \in ListInstalled
    /\ \A i \in Imports : importStep[i] = "skill" => SkillName(i) \in ListInstalled
    /\ \A n \in SkillNames : skillMd[n].page => skillMd[n].by \in {"tree", "repo"}
=============================================================================

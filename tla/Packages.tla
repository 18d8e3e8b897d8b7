------------------------------ MODULE Packages ------------------------------
(***************************************************************************)
(* The files, images and containers of one registry plugin: download,      *)
(* install, upgrade, uninstall, start and stop                             *)
(* (internal/api/handlers_registry.go, internal/service/plugin.go,         *)
(* pkg/container/lifecycle.go). PluginLifecycle has the record under       *)
(* interleaved requests and takes the files as given and the services as   *)
(* one; here the calls that make and remove them are steps, each of which  *)
(* may fail, and the daemon may die between any two. Broker accounts and   *)
(* the network are PluginLifecycle's, and so are writes of a status that   *)
(* fail; removing a directory always succeeds.                             *)
(***************************************************************************)
EXTENDS BootSpec, Integers, FiniteSets

CONSTANTS
    Worker,          \* requests that can be under way at once
    Version,
    SpecOf,          \* the boot spec of each version
    Files,           \* the core files of a package, in the order of download
    NoRecord, NoContainer,
    Listed,          \* the approved images, at first
    MaxFaults,       \* BOUND: calls that fail
    MaxCrashes,      \* BOUND: times the daemon dies
    MaxRevocations   \* BOUND: images taken off the list

Service == UNION {DOMAIN SpecOf[v] : v \in Version}
AllImages == UNION {Images(SpecOf[v]) : v \in Version}

Statuses == {"pending_setup", "ready", "pulling", "starting", "running", "stopped", "failed"}

ASSUME PackagesAssumption ==
    /\ NoRecord \notin [dir : Version, status : Statuses]
    /\ NoContainer \notin [image : AllImages, up : BOOLEAN]
    /\ IsFiniteSet(Version) /\ Files \in Seq(ToSet(Files))
    /\ \A v \in Version : IsBootSpec(SpecOf[v])
    /\ Listed \subseteq AllImages
    /\ {MaxFaults, MaxCrashes, MaxRevocations} \subseteq Nat

VARIABLES
    record,      \* PluginInstance: its PluginDir, that is its version, and its Status
    dirs,        \* ~/.griffino/plugins/<id>/<version>: "none", "part" or "whole", per file
    images,      \* the images Docker has
    containers,
    approved,    \* approved-images.json
    job,         \* each request: where it is and what it holds
    booted,      \* the restore loop has run
    faults, crashes, revocations,
    unregistered \* AUXILIARY: versions an install downloaded and did not register

boundVars == <<faults, crashes, revocations>>
dockerVars == <<images, containers>>
vars == <<record, dirs, dockerVars, approved, job, booted, boundVars, unregistered>>

NoFiles == [n \in DOMAIN Files |-> "none"]
IdleJob == [pc |-> "idle", op |-> "none", new |-> NoRecord, inst |-> NoRecord,
            left |-> <<>>, restart |-> FALSE]

At(w, pc) == job[w].pc = pc
Left(w) == job[w].left
SetJob(w, j) == job' = [job EXCEPT ![w] = j]
Goto(w, pc) == SetJob(w, [job[w] EXCEPT !.pc = pc])
GotoWith(w, pc, left) == SetJob(w, [job[w] EXCEPT !.pc = pc, !.left = left])
Advance(w) == SetJob(w, [job[w] EXCEPT !.left = Tail(@)])
Done(w) == SetJob(w, IdleJob)
Fails == faults < MaxFaults /\ faults' = faults + 1
Succeeds == UNCHANGED faults
NoLimits == UNCHANGED <<crashes, revocations>>

HasStatus(S) == record # NoRecord /\ record.status \in S

Saved(status) == record' = [record EXCEPT !.status = status]
UpdateStatus(status) == IF record = NoRecord THEN UNCHANGED record ELSE Saved(status)

-----------------------------------------------------------------------------
(***************************************************************************)
(* Downloads.                                                              *)
(***************************************************************************)
\* manifest.Load: every core file is there and can be parsed.
Load(v) == \A n \in DOMAIN Files : dirs[v][n] = "whole"

RemoveAll(v) == dirs' = [dirs EXCEPT ![v] = NoFiles]
Write(v, n, state) == dirs' = [dirs EXCEPT ![v][n] = state]

\* The index and the checks of both handlers up to fetchAndVerifyVersion.
InstallRegistryPlugin(w, v) ==
    /\ At(w, "idle") /\ booted
    /\ record = NoRecord
    /\ SetJob(w, [IdleJob EXCEPT !.pc = "fetch", !.op = "install", !.new = v, !.left = Files])
    /\ UNCHANGED <<record, dirs, dockerVars, approved, booted, boundVars, unregistered>>

\* MUTANT: the version that is installed is fetched again
RefetchesCurrent(v) == TRUE

NotUpToDate(v) == record.dir # v

UpgradeRegistryPlugin(w, v) ==
    /\ At(w, "idle") /\ booted
    /\ record # NoRecord
    /\ NotUpToDate(v)
    /\ SetJob(w, [IdleJob EXCEPT !.pc = "fetch", !.op = "upgrade", !.new = v, !.left = Files])
    /\ UNCHANGED <<record, dirs, dockerVars, approved, booted, boundVars, unregistered>>

\* os.Create truncates what is there.
CreateFile(w) ==
    /\ At(w, "fetch") /\ Left(w) # <<>>
    /\ Write(job[w].new, Len(Files) - Len(Left(w)) + 1, "part")
    /\ Goto(w, "copy")
    /\ UNCHANGED <<record, dockerVars, approved, booted, boundVars, unregistered>>

CopyFile(w) ==
    /\ At(w, "copy")
    /\ Write(job[w].new, Len(Files) - Len(Left(w)) + 1, "whole")
    /\ GotoWith(w, "fetch", Tail(Left(w)))
    /\ UNCHANGED <<record, dockerVars, approved, booted, boundVars, unregistered>>

FetchFails(w) ==
    /\ At(w, "copy") \/ (At(w, "fetch") /\ Left(w) # <<>>)
    /\ Fails
    /\ RemoveAll(job[w].new)
    /\ Done(w)
    /\ NoLimits
    /\ UNCHANGED <<record, dockerVars, approved, booted, unregistered>>

\* The list is fetched only if there is an image to look up.
Approves(spec) == CheckBootSpec(spec, approved) /\ Succeeds
Refuses(spec) ==
    \/ ~CheckBootSpec(spec, approved) /\ Succeeds
    \/ SubImages(spec) # {} /\ Fails

VerifyVersion(w) ==
    /\ At(w, "fetch") /\ Left(w) = <<>>
    /\ LET v == job[w].new
       IN  \/ /\ Load(v) /\ Approves(SpecOf[v])
              /\ Goto(w, IF job[w].op = "install" THEN "register" ELSE "upgrade")
              /\ UNCHANGED dirs
           \/ \* a file that cannot be parsed, an image that is not listed, no list
              /\ (~Load(v) /\ Succeeds) \/ Refuses(SpecOf[v]) \/ Fails
              /\ RemoveAll(v)
              /\ Done(w)
    /\ NoLimits
    /\ UNCHANGED <<record, dockerVars, approved, booted, unregistered>>

\* A package that Validate refuses, or whose record cannot be saved, stays on disk.
InstallFromRegistry(w) ==
    /\ At(w, "register")
    /\ LET v == job[w].new
       IN  \/ /\ Load(v) /\ Validate(SpecOf[v]) /\ record = NoRecord
              /\ Succeeds
              /\ record' = [dir |-> v, status |-> "pending_setup"]
              /\ unregistered' = unregistered \ {v}
           \/ /\ ~Load(v) \/ ~Validate(SpecOf[v]) \/ record # NoRecord
              /\ Succeeds
              /\ unregistered' = unregistered \cup {v}
              /\ UNCHANGED record
           \/ /\ Fails
              /\ unregistered' = unregistered \cup {v}
              /\ UNCHANGED record
    /\ Done(w)
    /\ NoLimits
    /\ UNCHANGED <<dirs, dockerVars, approved, booted>>

-----------------------------------------------------------------------------
(***************************************************************************)
(* container.StopPlugin: the containers Docker lists, in any order, until  *)
(* one call fails. What follows depends on who stops the plugin.           *)
(***************************************************************************)
Listing == {s \in Service : containers[s] # NoContainer}

\* The new download goes, unless the record has come to point at it.
\* MUTANT: the handler returns without cleaning up
KeepsDownload(v) == FALSE

Unused(v) == record = NoRecord \/ record.dir # v

UpgradeFails(w) ==
    /\ IF Unused(job[w].new) THEN RemoveAll(job[w].new) ELSE UNCHANGED dirs
    /\ Done(w)
    /\ UNCHANGED record

BeginStop(w, j) ==
    \E listed \in SetToSeqs(Listing) : SetJob(w, [j EXCEPT !.pc = "stop", !.left = listed])

StopContainer(w) ==
    /\ At(w, "stop") /\ Left(w) # <<>>
    /\ containers[Head(Left(w))] # NoContainer
    /\ containers' = [containers EXCEPT ![Head(Left(w))] = NoContainer]
    /\ Advance(w)
    /\ UNCHANGED <<record, dirs, images, approved, booted, boundVars, unregistered>>

\* The stop failed, or the removal after it; or somebody else removed the container; or,
\* with all of them gone, the save of the record.
StopFails(w) ==
    /\ At(w, "stop")
    /\ \/ Left(w) = <<>> /\ Fails /\ UNCHANGED containers
       \/ /\ Left(w) # <<>>
          /\ LET s == Head(Left(w))
             IN  \/ containers[s] = NoContainer /\ Succeeds /\ UNCHANGED containers
                 \/ containers[s] # NoContainer /\ Fails /\ UNCHANGED containers
                 \/ /\ containers[s] # NoContainer /\ Fails
                    /\ containers' = [containers EXCEPT ![s].up = FALSE]
    /\ CASE job[w].op = "start"   -> UpdateStatus("failed") /\ Done(w) /\ UNCHANGED dirs
         [] job[w].op = "upgrade" -> UpgradeFails(w)
         [] OTHER                 -> Done(w) /\ UNCHANGED <<record, dirs>>
    /\ NoLimits
    /\ UNCHANGED <<images, approved, booted, unregistered>>

\* stopCore saves the instance it was given; a failed start marks the plugin failed.
Stopped(w) ==
    /\ At(w, "stop") /\ Left(w) = <<>>
    /\ CASE job[w].op = "start"     -> UpdateStatus("failed") /\ Done(w)
         [] job[w].op = "stop"      -> record' = [job[w].inst EXCEPT !.status = "stopped"] /\ Done(w)
         [] job[w].op = "upgrade"   ->
               record' = [job[w].inst EXCEPT !.status = "stopped"] /\ Goto(w, "switch")
         [] job[w].op = "uninstall" ->
               record' = [job[w].inst EXCEPT !.status = "stopped"] /\ Goto(w, "delete")
    /\ UNCHANGED <<dirs, dockerVars, approved, booted, boundVars, unregistered>>

StopPlugin(w) ==
    /\ At(w, "idle") /\ booted
    /\ HasStatus({"running"})
    /\ BeginStop(w, [IdleJob EXCEPT !.op = "stop", !.inst = record])
    /\ UNCHANGED <<record, dirs, dockerVars, approved, booted, boundVars, unregistered>>

-----------------------------------------------------------------------------
(***************************************************************************)
(* UpgradePlugin.                                                          *)
(***************************************************************************)
UpgradeGet(w) ==
    /\ At(w, "upgrade")
    /\ LET running == HasStatus({"running"})
           j == [job[w] EXCEPT !.inst = record, !.restart = running]
       IN  \/ /\ record = NoRecord
              /\ UpgradeFails(w)
           \/ /\ running
              /\ BeginStop(w, j)
              /\ UNCHANGED <<record, dirs>>
           \/ /\ record # NoRecord /\ ~running
              /\ SetJob(w, [j EXCEPT !.pc = "switch"])
              /\ UNCHANGED <<record, dirs>>
    /\ UNCHANGED <<dockerVars, approved, booted, boundVars, unregistered>>

\* Whether the saved configuration has all that the new version requires is open.
Switched(inst, new, compatible, wasRunning) ==
    [dir |-> new,
     status |-> CASE ~compatible -> "ready"
                  [] compatible /\ wasRunning -> "stopped"
                  [] compatible /\ ~wasRunning ->
                        IF inst.status = "failed" THEN "ready" ELSE inst.status]

OldImages(w) == IF Load(job[w].inst.dir) THEN Images(SpecOf[job[w].inst.dir]) ELSE {}

\* The running plugin's record is read again after the stop.
SwitchVersion(w) ==
    /\ At(w, "switch")
    /\ LET gone == job[w].restart /\ record = NoRecord
           inst == IF job[w].restart THEN record ELSE job[w].inst
           old  == job[w].inst.dir
           new  == job[w].new
       IN  \/ gone /\ Succeeds /\ UpgradeFails(w)
           \/ /\ ~gone /\ Succeeds
              /\ \E compatible \in BOOLEAN, left \in SetToSeqs(OldImages(w) \ Images(SpecOf[new])) :
                    /\ record' = Switched(inst, new, compatible, job[w].restart)
                    /\ SetJob(w, [job[w] EXCEPT !.pc = "cleanup", !.left = left,
                                                !.restart = @ /\ compatible])
              /\ UNCHANGED dirs
           \/ \* the save failed: the old directory is saved back, if that does not fail too
              /\ ~gone /\ Fails
              /\ \E compatible \in BOOLEAN :
                    record' \in {record, [Switched(inst, new, compatible, job[w].restart)
                                             EXCEPT !.dir = old]}
              /\ IF new # old THEN RemoveAll(new) ELSE UNCHANGED dirs
              /\ Done(w)
    /\ NoLimits
    /\ UNCHANGED <<dockerVars, approved, booted, unregistered>>

\* Step 5 of UpgradePlugin and step 5 of UninstallPlugin.
RemoveDirectory(w) ==
    /\ At(w, "cleanup")
    /\ IF job[w].op = "uninstall" \/ job[w].inst.dir # job[w].new
       THEN RemoveAll(job[w].inst.dir)
       ELSE UNCHANGED dirs
    /\ Goto(w, "images")
    /\ UNCHANGED <<record, dockerVars, approved, booted, boundVars, unregistered>>

\* Docker does not remove an image a container was made from; an error is a warning.
InUse(i) == \E s \in Service : containers[s] # NoContainer /\ containers[s].image = i

RemoveImage(w) ==
    /\ At(w, "images") /\ Left(w) # <<>>
    /\ \/ ~InUse(Head(Left(w))) /\ Succeeds /\ images' = images \ {Head(Left(w))}
       \/ InUse(Head(Left(w))) /\ Succeeds /\ UNCHANGED images
       \/ Fails /\ UNCHANGED images
    /\ Advance(w)
    /\ NoLimits
    /\ UNCHANGED <<record, dirs, containers, approved, booted, unregistered>>

-----------------------------------------------------------------------------
(***************************************************************************)
(* UninstallPlugin.                                                        *)
(***************************************************************************)
UninstallPlugin(w) ==
    /\ At(w, "idle") /\ booted
    /\ record # NoRecord
    /\ LET j == [IdleJob EXCEPT !.op = "uninstall", !.inst = record]
       IN  IF record.status = "running" THEN BeginStop(w, j)
           ELSE SetJob(w, [j EXCEPT !.pc = "delete"])
    /\ UNCHANGED <<record, dirs, dockerVars, approved, booted, boundVars, unregistered>>

\* A record that is gone after the stop ends the request: err.Error() of no error panics.
DeletePlugin(w) ==
    /\ At(w, "delete")
    /\ LET gone == job[w].inst.status = "running" /\ record = NoRecord
       IN  \/ gone /\ Succeeds /\ Done(w) /\ UNCHANGED record
           \/ ~gone /\ Fails /\ Done(w) /\ UNCHANGED record
           \/ /\ ~gone /\ Succeeds
              /\ record' = NoRecord
              /\ \E left \in SetToSeqs(OldImages(w)) : GotoWith(w, "cleanup", left)
    /\ NoLimits
    /\ UNCHANGED <<dirs, dockerVars, approved, booted, unregistered>>

-----------------------------------------------------------------------------
(***************************************************************************)
(* Starting: the checks, PullImages and StartContainers.                   *)
(***************************************************************************)
\* A job that starts what the given instance points at; images in the map's order.
BeginStart(w, inst) ==
    \E services \in SetToSeqs(DOMAIN SpecOf[inst.dir]) :
        SetJob(w, [IdleJob EXCEPT !.pc = "pull", !.op = "start", !.inst = inst, !.left = services])

\* The first save of the configuration.
ConfigPlugin(w) ==
    /\ At(w, "idle") /\ booted
    /\ HasStatus({"pending_setup"})
    /\ Saved("ready")
    /\ UNCHANGED <<dirs, dockerVars, approved, job, booted, boundVars, unregistered>>

StartPlugin(w) ==
    /\ At(w, "idle") /\ booted
    /\ HasStatus({"ready", "stopped", "failed"})
    /\ Load(record.dir) /\ Approves(SpecOf[record.dir])
    /\ BeginStart(w, record)
    /\ NoLimits
    /\ UNCHANGED <<record, dirs, dockerVars, approved, booted, unregistered>>

\* What is left to do after an upgrade or an uninstall.
Finish(w) ==
    /\ At(w, "images") /\ Left(w) = <<>>
    /\ LET v == job[w].new
       IN  \/ /\ job[w].restart /\ Load(v) /\ Approves(SpecOf[v])
              /\ BeginStart(w, [dir |-> v, status |-> "stopped"])
           \/ /\ (~job[w].restart /\ Succeeds) \/ (job[w].restart /\ Refuses(SpecOf[v]))
              /\ Done(w)
    /\ NoLimits
    /\ UNCHANGED <<record, dirs, dockerVars, approved, booted, unregistered>>

Pulls(w) == SpecOf[job[w].inst.dir][Head(Left(w))].image

\* ensureImage: what is there is not checked; a pull whose stream breaks off counts as done.
PullImage(w) ==
    /\ At(w, "pull") /\ Left(w) # <<>>
    /\ \/ Pulls(w) \in images /\ Succeeds /\ UNCHANGED images
       \/ /\ Pulls(w) \notin images
          /\ IsAllowedToPull(Pulls(w), SpecOf[job[w].inst.dir], approved)
          /\ \/ Succeeds /\ images' = images \cup {Pulls(w)}
             \/ Fails /\ UNCHANGED images
    /\ UpdateStatus("pulling")
    /\ Advance(w)
    /\ NoLimits
    /\ UNCHANGED <<dirs, containers, approved, booted, unregistered>>

PullFails(w) ==
    /\ At(w, "pull") /\ Left(w) # <<>>
    /\ Pulls(w) \notin images
    /\ \/ ~IsAllowedToPull(Pulls(w), SpecOf[job[w].inst.dir], approved) /\ Succeeds
       \/ Fails
    /\ UpdateStatus("failed")
    /\ Done(w)
    /\ NoLimits
    /\ UNCHANGED <<dirs, dockerVars, approved, booted, unregistered>>

SortServices(w) ==
    /\ At(w, "pull") /\ Left(w) = <<>>
    /\ \E order \in VisitOrders(SpecOf[job[w].inst.dir]) :
          LET sorted == TopoSort(SpecOf[job[w].inst.dir], order)
          IN  IF sorted = Failed
              THEN BeginStop(w, job[w])
              ELSE GotoWith(w, "containers", sorted)
    /\ UpdateStatus("starting")
    /\ UNCHANGED <<dirs, dockerVars, approved, booted, boundVars, unregistered>>

\* One that runs is kept, a stopped one is started as it is, a missing one is made.
Running(s, v) ==
    IF containers[s] = NoContainer THEN [image |-> SpecOf[v][s].image, up |-> TRUE]
    ELSE [containers[s] EXCEPT !.up = TRUE]

StartContainer(w) ==
    /\ At(w, "containers") /\ Left(w) # <<>>
    /\ LET s == Head(Left(w))
           v == job[w].inst.dir
       IN  /\ containers[s] # NoContainer \/ SpecOf[v][s].image \in images
           /\ containers' = [containers EXCEPT ![s] = Running(s, v)]
    /\ Advance(w)
    /\ UNCHANGED <<record, dirs, images, approved, booted, boundVars, unregistered>>

\* Finding, creating or starting it failed: what this start and earlier ones made is stopped.
StartFails(w) ==
    /\ At(w, "containers") /\ Left(w) # <<>>
    /\ LET s == Head(Left(w))
           v == job[w].inst.dir
           missing == containers[s] = NoContainer /\ SpecOf[v][s].image \notin images
       IN  \/ missing /\ Succeeds /\ UNCHANGED containers
           \/ Fails /\ UNCHANGED containers
           \/ /\ containers[s] = NoContainer /\ ~missing /\ Fails
              /\ containers' = [containers EXCEPT ![s] = [image |-> SpecOf[v][s].image, up |-> FALSE]]
    /\ Goto(w, "undo")
    /\ NoLimits
    /\ UNCHANGED <<record, dirs, images, approved, booted, unregistered>>

UndoStart(w) ==
    /\ At(w, "undo")
    /\ BeginStop(w, job[w])
    /\ UNCHANGED <<record, dirs, dockerVars, approved, booted, boundVars, unregistered>>

MarkRunning(w) ==
    /\ At(w, "containers") /\ Left(w) = <<>>
    /\ UpdateStatus("running")
    /\ Done(w)
    /\ UNCHANGED <<dirs, dockerVars, approved, booted, boundVars, unregistered>>

-----------------------------------------------------------------------------
(***************************************************************************)
(* The daemon dies, and comes back: an interrupted start is marked failed, *)
(* a running plugin is started again.                                      *)
(***************************************************************************)
Crash ==
    /\ crashes < MaxCrashes
    /\ crashes' = crashes + 1
    /\ booted' = FALSE
    /\ job' = [w \in Worker |-> IdleJob]
    /\ UNCHANGED <<record, dirs, dockerVars, approved, faults, revocations, unregistered>>

Restore(w) ==
    /\ ~booted
    /\ booted' = TRUE
    /\ \/ /\ ~HasStatus({"pulling", "starting", "running"})
          /\ Succeeds
          /\ UNCHANGED <<record, job>>
       \/ /\ HasStatus({"pulling", "starting"})
          /\ Saved("failed") /\ Succeeds
          /\ UNCHANGED job
       \/ /\ HasStatus({"running"})
          /\ Load(record.dir) /\ Approves(SpecOf[record.dir])
          /\ Saved("stopped")
          /\ BeginStart(w, [record EXCEPT !.status = "stopped"])
       \/ /\ HasStatus({"running"})
          /\ (~Load(record.dir) /\ Succeeds) \/ Refuses(SpecOf[record.dir])
          /\ Saved("failed")
          /\ UNCHANGED job
    /\ NoLimits
    /\ UNCHANGED <<dirs, dockerVars, approved, unregistered>>

\* An image is taken off the list, outside.
Revoke(i) ==
    /\ revocations < MaxRevocations
    /\ i \in approved
    /\ approved' = approved \ {i}
    /\ revocations' = revocations + 1
    /\ UNCHANGED <<record, dirs, dockerVars, job, booted, faults, crashes, unregistered>>

-----------------------------------------------------------------------------
Init ==
    /\ record = NoRecord
    /\ dirs = [v \in Version |-> NoFiles]
    /\ images = {}
    /\ containers = [s \in Service |-> NoContainer]
    /\ approved = Listed
    /\ job = [w \in Worker |-> IdleJob]
    /\ booted = TRUE
    /\ faults = 0 /\ crashes = 0 /\ revocations = 0
    /\ unregistered = {}

Download(w) ==
    \/ \E v \in Version : InstallRegistryPlugin(w, v) \/ UpgradeRegistryPlugin(w, v)
    \/ CreateFile(w) \/ CopyFile(w) \/ FetchFails(w) \/ VerifyVersion(w)
    \/ InstallFromRegistry(w)

Change(w) ==
    \/ UpgradeGet(w) \/ SwitchVersion(w) \/ UninstallPlugin(w) \/ DeletePlugin(w)
    \/ RemoveDirectory(w) \/ RemoveImage(w) \/ Finish(w) \/ ConfigPlugin(w)

Run(w) ==
    \/ StartPlugin(w) \/ PullImage(w) \/ PullFails(w) \/ SortServices(w)
    \/ StartContainer(w) \/ StartFails(w) \/ UndoStart(w) \/ MarkRunning(w)
    \/ StopPlugin(w) \/ StopContainer(w) \/ StopFails(w) \/ Stopped(w) \/ Restore(w)

Next ==
    \/ \E w \in Worker : Download(w) \/ Change(w) \/ Run(w)
    \/ Crash
    \/ \E i \in AllImages : Revoke(i)

Spec == Init /\ [][Next]_vars

-----------------------------------------------------------------------------
PCs == {"idle", "fetch", "copy", "register", "upgrade", "stop", "switch", "delete",
        "cleanup", "images", "pull", "containers", "undo"}
Records == [dir : Version, status : Statuses] \cup {NoRecord}

TypeOK ==
    /\ record \in Records
    /\ dirs \in [Version -> [DOMAIN Files -> {"none", "part", "whole"}]]
    /\ images \subseteq AllImages /\ approved \subseteq AllImages
    /\ containers \in [Service -> [image : AllImages, up : BOOLEAN] \cup {NoContainer}]
    /\ \A w \in Worker : /\ job[w].pc \in PCs
                         /\ job[w].inst \in Records
                         /\ job[w].restart \in BOOLEAN
                         /\ ToSet(Left(w)) \subseteq
                               CASE At(w, "images")                   -> AllImages
                                 [] job[w].pc \in {"pull", "containers"} -> DOMAIN SpecOf[job[w].inst.dir]
                                 [] job[w].pc \in {"fetch", "copy"}      -> ToSet(Files)
                                 [] OTHER                              -> Service \cup AllImages
    /\ booted \in BOOLEAN
    /\ faults \in 0..MaxFaults /\ crashes \in 0..MaxCrashes
    /\ revocations \in 0..MaxRevocations
    /\ unregistered \subseteq Version

Quiet == booted /\ \A w \in Worker : At(w, "idle")
OnDisk == {v \in Version : dirs[v] # NoFiles}

\* An installed plugin has its files, at every moment of every upgrade, uninstall
\* and failed download, and after a crash in the middle of one: nothing deletes or
\* truncates the directory the record points at. For requests that come one at a
\* time; see the README for what two at once can do.
RecordHasItsPackage == record # NoRecord => Load(record.dir)

\* "clean up to avoid leftovers" (handlers_registry.go:298): when no request is under
\* way and the daemon never died, the disk holds the installed version only, and
\* what an install could not register, whatever calls failed on the way.
NoLeftovers ==
    Quiet /\ crashes = 0 =>
        OnDisk \subseteq {record.dir : r \in {record} \ {NoRecord}} \cup unregistered

\* depends_on: a container comes up only when those it depends on are up, in every order
\* in which the map is iterated, after partial starts, failed stops and crashes.
DependenciesFirst ==
    [][\A s \in Service :
          containers'[s] # NoContainer /\ containers'[s].up
          /\ ~(containers[s] # NoContainer /\ containers[s].up)
          => \A d \in ToSet(SpecOf[record.dir][s].deps) :
                containers[d] # NoContainer /\ containers[d].up]_vars

\* "newDir must already be downloaded and validated (manifest + image whitelist) by the
\* calling handler" (service/plugin.go:703).
InstalledIsValid == record # NoRecord => Validate(SpecOf[record.dir])
=============================================================================

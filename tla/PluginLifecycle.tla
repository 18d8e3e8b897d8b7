--------------------------- MODULE PluginLifecycle ---------------------------
(***************************************************************************)
(* One plugin of Griffino: its record in the store, its container, network *)
(* and broker account, and everything that changes them: the requests of   *)
(* the API and of the dev socket, the goroutines they leave behind, the    *)
(* health checker, and the daemon's shutdown, crash and restart.           *)
(*                                                                         *)
(* A step is one bbolt transaction, one Docker call or one broker call;    *)
(* nothing in the code holds a lock from one to the next, so the steps of  *)
(* all goroutines interleave.  A request keeps the PluginInstance it read  *)
(* (inst) and may save it back whole.                                      *)
(*                                                                         *)
(* Abstractions: a plugin has one service, hence one container.  A broker  *)
(* password stands for the RabbitMQ and the Redis credential, which the    *)
(* code makes and drops together.  AdminConfig is the number of saves it   *)
(* holds and a version requires a number of them.  Images, directories,    *)
(* logs and the log streams are left out; calls to the store succeed.      *)
(*                                                                         *)
(* An operator marked "mutant" is the one after it written wrong.          *)
(***************************************************************************)
EXTENDS Naturals, FiniteSets

CONSTANTS
  Worker,         \* slots for requests and the goroutines they start
  Restorer,       \* the goroutine that restores the plugin at boot
  Credential,     \* broker passwords
  Version,        \* version directories of the plugin
  Requires,       \* how many saves of the configuration a version needs
  Operations,     \* the operations clients call
  OneAtATime,     \* do operations, the restore at boot and health checks
                  \* wait for one another?
  NoRecord, NoContainer, NoCredential, NoVersion,
  MaxConfig,      \* bound: saves of the configuration
  MaxFaults,      \* bound: Docker and broker calls that fail
  MaxOutages,     \* bound: containers stopped or started from outside
  MaxExits        \* bound: daemon crashes and shutdowns

Statuses == {"pending_setup", "ready", "pulling", "starting", "running",
             "stopped", "failed"}
AllOperations == {"install", "start", "stop", "config", "uninstall", "upgrade",
                  "reinstall"}

ASSUME ProcessAssumption == Restorer \notin Worker

ASSUME DataAssumption ==
  /\ NoCredential \notin Credential
  /\ NoVersion \notin Version
  /\ Requires \in [Version -> Nat]
  /\ Operations \subseteq AllOperations
  /\ OneAtATime \in BOOLEAN

ASSUME BoundsAssumption ==
  /\ MaxConfig \in Nat
  /\ MaxFaults \in Nat
  /\ MaxOutages \in Nat
  /\ MaxExits \in Nat

Process  == Worker \union {Restorer}
Password == Credential \union {NoCredential}
Config   == 0 .. MaxConfig

\* PluginInstance: info is RuntimeInfo, by the password it holds; dev is
\* IsDevPlugin.
Instance == [status : Statuses, info : Password, dirty : BOOLEAN,
             config : Config, dir : Version, dev : BOOLEAN]

\* A container keeps the environment and the image it was created with.
Container == [up : BOOLEAN, cred : Password, config : Config, dir : Version]

ASSUME NullAssumption == NoRecord \notin Instance /\ NoContainer \notin Container

VARIABLES
  record,     \* the plugin's entry in bucketPlugins
  container,  \* its container in Docker
  network,    \* does its Docker network exist?
  account,    \* the password the broker accepts for its user
  mode,       \* where the daemon process is
  pc,         \* per process: the next step
  inst,       \* per process: the PluginInstance it holds
  cred,       \* per process: resources.Password in startCore
  plan,       \* per process: what follows stopCore, or why startCore failed
  goal,       \* per process: newDir
  check,      \* the health checker's next step
  seen,       \* the PluginInstance the health checker holds
  faults, outages, exits  \* faults so far

docker == <<container, network>>
local  == <<pc, inst, cred, plan, goal>>
health == <<check, seen>>
bounds == <<faults, outages, exits>>
vars   == <<record, docker, account, mode, local, health, bounds>>

IsUp == container # NoContainer /\ container.up

Installed == record # NoRecord

HasStatus(S) == Installed /\ record.status \in S
-----------------------------------------------------------------------------
(* Steps of a process. *)

Goto(p, step) ==
  /\ pc' = [pc EXCEPT ![p] = step]
  /\ UNCHANGED <<inst, cred, plan, goal>>

\* Go on with a PluginInstance in hand.
GotoWith(p, step, instance) ==
  /\ pc'   = [pc EXCEPT ![p] = step]
  /\ inst' = [inst EXCEPT ![p] = instance]
  /\ UNCHANGED <<cred, plan, goal>>

Return(p) ==
  /\ pc'   = [pc   EXCEPT ![p] = "idle"]
  /\ inst' = [inst EXCEPT ![p] = NoRecord]
  /\ cred' = [cred EXCEPT ![p] = NoCredential]
  /\ plan' = [plan EXCEPT ![p] = "none"]
  /\ goal' = [goal EXCEPT ![p] = NoVersion]

Works == UNCHANGED bounds

Fails ==
  /\ faults < MaxFaults
  /\ faults' = faults + 1
  /\ UNCHANGED <<outages, exits>>

\* mutant: a status update makes a record where there is none
UpsertsStatus(status) ==
  record' = IF Installed THEN [record EXCEPT !.status = status] ELSE [status |-> status]

\* store.UpdateStatus touches the status only, and nothing if there is no
\* record.
UpdateStatus(status) ==
  record' = IF Installed THEN [record EXCEPT !.status = status] ELSE record

\* The API serves once the restore loop is over.  The dev socket, which does
\* not offer config, is open before it.
Serving(op, dev) ==
  mode = "up" \/ (dev /\ op # "config" /\ mode \in {"boot", "reset", "restore"})

NothingUnderWay ==
  /\ mode \notin {"reset", "restore"}
  /\ check = "idle"
  /\ \A p \in Process : pc[p] = "idle"

\* A client calls op for a plugin that is a dev plugin or not; p serves it.
Call(p, op, dev) ==
  /\ op \in Operations
  /\ Serving(op, dev)
  /\ p \in Worker
  /\ pc[p] = "idle"
  /\ OneAtATime => NothingUnderWay
-----------------------------------------------------------------------------
(* Installing. *)

New(v, dev) == [status |-> "pending_setup", info |-> NoCredential, dirty |-> FALSE,
                config |-> 0, dir |-> v, dev |-> dev]

Install(p) ==
  /\ ~Installed
  /\ \E v \in Version, dev \in BOOLEAN :
       Call(p, "install", dev) /\ GotoWith(p, "install", New(v, dev))
  /\ UNCHANGED <<record, docker, account, mode, health, bounds>>

\* handleInstall / installFromRegistry save without looking again.
SaveInstall(p) ==
  /\ pc[p] = "install"
  /\ record' = inst[p]
  /\ Return(p)
  /\ UNCHANGED <<docker, account, mode, health, bounds>>
-----------------------------------------------------------------------------
(* Starting: StartPluginAsync, StartDevPlugin and startCore. *)

Startable == {"ready", "stopped", "failed"}

Start(p) ==
  /\ HasStatus(Startable)
  /\ Call(p, "start", record.dev)
  /\ GotoWith(p, "provision", record)
  /\ UNCHANGED <<record, docker, account, mode, health, bounds>>

\* A password generatePassword has not produced before.
Fresh ==
  Credential \ ({account} \union {cred[q] : q \in Process}
    \union {i.info : i \in ({record, seen} \union {inst[q] : q \in Process}) \ {NoRecord}}
    \union {c.cred : c \in {container} \ {NoContainer}})

\* mutant: every start makes a new password
AlwaysNewPassword(p) ==
  /\ pc[p] = "provision"
  /\ Works
  /\ \E c \in Fresh :
       /\ account' = c
       /\ pc'   = [pc EXCEPT ![p] = "network"]
       /\ cred' = [cred EXCEPT ![p] = c]
  /\ UNCHANGED <<inst, plan, goal, record, docker, mode, health>>

\* The broker is asked for the password of the instance in hand, or given a
\* new one.  When the Redis half fails the RabbitMQ half stays.
Provision(p) ==
  /\ pc[p] = "provision"
  /\ LET held == inst[p].info
     IN  \E c \in (IF held # NoCredential THEN {held} ELSE Fresh) :
           \/ /\ Works
              /\ account' = c
              /\ pc'   = [pc EXCEPT ![p] = "network"]
              /\ cred' = [cred EXCEPT ![p] = c]
              /\ UNCHANGED <<inst, plan, goal>>
           \/ /\ Fails
              /\ account' \in {account, c}
              /\ Return(p)
  /\ UNCHANGED <<record, docker, mode, health>>

\* A stage of startCore fails: the clean-up begins.
Undo(p, stage) ==
  /\ Fails
  /\ pc'   = [pc EXCEPT ![p] = "undoAccount"]
  /\ plan' = [plan EXCEPT ![p] = stage]
  /\ UNCHANGED <<inst, cred, goal>>

CreateNetwork(p) ==
  /\ pc[p] = "network"
  /\ \/ Works /\ network' = TRUE /\ Goto(p, "env")
     \/ Undo(p, "network") /\ UNCHANGED network
  /\ UNCHANGED <<record, container, account, mode, health>>

\* env.Build, then the status becomes pulling.
BuildEnv(p) ==
  /\ pc[p] = "env"
  /\ \/ Works /\ UpdateStatus("pulling") /\ Goto(p, "pull")
     \/ Undo(p, "env") /\ UNCHANGED record
  /\ UNCHANGED <<docker, account, mode, health>>

PullImages(p) ==
  /\ pc[p] = "pull"
  /\ \/ Works /\ UpdateStatus("starting") /\ Goto(p, "containers")
     \/ Undo(p, "pull") /\ UNCHANGED record
  /\ UNCHANGED <<docker, account, mode, health>>

\* The container startCore would create from the instance in hand.
NewContainer(p, up) ==
  [up |-> up, cred |-> cred[p], config |-> inst[p].config, dir |-> inst[p].dir]

\* A running container is left alone, a stopped one is started as it is.
StartedContainer(p) ==
  IF container = NoContainer THEN NewContainer(p, TRUE)
                             ELSE [container EXCEPT !.up = TRUE]

StartContainers(p) ==
  /\ pc[p] = "containers"
  /\ \/ /\ Works
        /\ container' = StartedContainer(p)
        /\ Goto(p, "info")
     \/ /\ Undo(p, "start")
        /\ container' \in {container} \union
             {c \in {NewContainer(p, FALSE)} : container = NoContainer}
  /\ UNCHANGED <<record, network, account, mode, health>>

\* mutant: running is announced, the RuntimeInfo is not saved
SavesNoInfo(p) ==
  /\ pc[p] = "info"
  /\ Goto(p, "running")
  /\ UNCHANGED <<record, docker, account, mode, health, bounds>>

\* mutant: give way to another start that has already saved its RuntimeInfo
YieldsToOtherStart(p) ==
  /\ pc[p] = "info"
  /\ IF Installed /\ record.info = NoCredential
       THEN /\ record' = [record EXCEPT !.info = cred[p]]
            /\ Goto(p, "running")
       ELSE Return(p) /\ UNCHANGED record
  /\ UNCHANGED <<docker, account, mode, health, bounds>>

\* Both writes are refused when the record is gone.
UpdateRuntimeInfo(p) ==
  /\ pc[p] = "info"
  /\ IF Installed
       THEN /\ record' = [record EXCEPT !.info = cred[p]]
            /\ Goto(p, "running")
       ELSE Return(p) /\ UNCHANGED record
  /\ UNCHANGED <<docker, account, mode, health, bounds>>

MarkRunning(p) ==
  /\ pc[p] = "running"
  /\ UpdateStatus("running")
  /\ Return(p)
  /\ UNCHANGED <<docker, account, mode, health, bounds>>
-----------------------------------------------------------------------------
(* Clean-up after a failed start; its own failures are only logged. *)

\* The container is removed only when starting it failed.
UndoAccount(p) ==
  /\ pc[p] = "undoAccount"
  /\ \/ Works /\ account' = NoCredential
     \/ Fails /\ UNCHANGED account
  /\ \/ plan[p] = "network" /\ Return(p)
     \/ plan[p] = "start" /\ Goto(p, "undoContainers")
     \/ plan[p] \in {"env", "pull"} /\ Goto(p, "undoNetwork")
  /\ UNCHANGED <<record, docker, mode, health>>

\* container.StopPlugin stops the container and removes it; either may fail.
StopPluginFails ==
  /\ Fails
  /\ container # NoContainer
  /\ container' \in {container, [container EXCEPT !.up = FALSE]}

UndoContainers(p) ==
  /\ pc[p] = "undoContainers"
  /\ (Works /\ container' = NoContainer) \/ StopPluginFails
  /\ Goto(p, "undoNetwork")
  /\ UNCHANGED <<record, network, account, mode, health>>

\* Docker refuses to remove a network a running container is attached to.
RemoveNetwork ==
  \/ Works /\ network' = (network /\ IsUp)
  \/ Fails /\ UNCHANGED network

UndoNetwork(p) ==
  /\ pc[p] = "undoNetwork"
  /\ RemoveNetwork
  /\ IF plan[p] = "env" THEN Return(p) ELSE Goto(p, "failGet")
  /\ UNCHANGED <<record, container, account, mode, health>>

\* setFailed reads the record and saves it back in a second transaction.
SetFailedGet(p) ==
  /\ pc[p] = "failGet"
  /\ IF Installed THEN GotoWith(p, "failSave", record) ELSE Return(p)
  /\ UNCHANGED <<record, docker, account, mode, health, bounds>>

SetFailedSave(p) ==
  /\ pc[p] = "failSave"
  /\ record' = [inst[p] EXCEPT !.status = "failed"]
  /\ Return(p)
  /\ UNCHANGED <<docker, account, mode, health, bounds>>
-----------------------------------------------------------------------------
(* Stopping: StopPlugin, StopDevPlugin and stopCore. *)

BeginStop(p, then) ==
  /\ record.status = "running"
  /\ pc'   = [pc EXCEPT ![p] = "stopContainers"]
  /\ inst' = [inst EXCEPT ![p] = record]
  /\ plan' = [plan EXCEPT ![p] = then]
  /\ UNCHANGED cred

Stop(p) ==
  /\ Installed
  /\ Call(p, "stop", record.dev)
  /\ BeginStop(p, "none")
  /\ UNCHANGED <<goal, record, docker, account, mode, health, bounds>>

\* mutant: a container that does not stop is passed over
IgnoresStopError(p) ==
  /\ pc[p] = "stopContainers"
  /\ (Works /\ container' = NoContainer) \/ StopPluginFails
  /\ Goto(p, "stopNetwork")
  /\ UNCHANGED <<record, network, account, mode, health>>

StopContainers(p) ==
  /\ pc[p] = "stopContainers"
  /\ \/ Works /\ container' = NoContainer /\ Goto(p, "stopNetwork")
     \/ StopPluginFails /\ Return(p)
  /\ UNCHANGED <<record, network, account, mode, health>>

StopNetwork(p) ==
  /\ pc[p] = "stopNetwork"
  /\ RemoveNetwork
  /\ Goto(p, "stopAccount")
  /\ UNCHANGED <<record, container, account, mode, health>>

StopAccount(p) ==
  /\ pc[p] = "stopAccount"
  /\ \/ /\ Works
        /\ account' = IF inst[p].info # NoCredential THEN NoCredential ELSE account
     \/ Fails /\ UNCHANGED account
  /\ Goto(p, "stopSave")
  /\ UNCHANGED <<record, docker, mode, health>>

\* The instance read before the stop is saved back whole.
Stopped(instance) == [instance EXCEPT !.info = NoCredential, !.status = "stopped"]

StopSave(p) ==
  /\ pc[p] = "stopSave"
  /\ record' = Stopped(inst[p])
  /\ IF plan[p] = "none" THEN Return(p) ELSE Goto(p, plan[p])
  /\ UNCHANGED <<docker, account, mode, health, bounds>>
-----------------------------------------------------------------------------
(* Configuring: handleConfigPlugin. *)

ConfigGet(p) ==
  /\ Installed
  /\ Call(p, "config", record.dev)
  /\ record.config < MaxConfig
  /\ GotoWith(p, "config", record)
  /\ UNCHANGED <<record, docker, account, mode, health, bounds>>

Configured(instance) ==
  [instance EXCEPT
     !.config = @ + 1,
     !.status = IF @ = "pending_setup" THEN "ready" ELSE @,
     !.dirty  = instance.status = "running"]

\* "save", "save_and_start" (StartPluginFromInstance: no look at the status)
\* or "save_and_restart" (StopThenStartAsync).
ConfigSave(p) ==
  /\ pc[p] = "config"
  /\ LET saved == Configured(inst[p])
     IN  /\ record' = saved
         /\ \/ Return(p)
            \/ ~saved.dev /\ saved.status # "running" /\ GotoWith(p, "provision", saved)
            \/ saved.status = "running" /\ Goto(p, "restartCheck")
  /\ UNCHANGED <<docker, account, mode, health, bounds>>

StopThenStart(p) ==
  /\ pc[p] = "restartCheck"
  /\ IF HasStatus({"running"}) /\ ~record.dev
       THEN BeginStop(p, "restart") /\ UNCHANGED goal
       ELSE Return(p)
  /\ UNCHANGED <<record, docker, account, mode, health, bounds>>

\* A manifest that does not load sends the plugin to failed.
Restart(p) ==
  /\ pc[p] = "restart"
  /\ IF Installed
       THEN \/ Works /\ GotoWith(p, "provision", record)
            \/ Fails /\ Goto(p, "failGet")
       ELSE Works /\ Return(p)
  /\ UNCHANGED <<record, docker, account, mode, health>>
-----------------------------------------------------------------------------
(* Uninstalling, upgrading, reinstalling. *)

\* UninstallPlugin, and handleUninstall of the dev socket.
Uninstall(p) ==
  /\ Installed
  /\ Call(p, "uninstall", record.dev)
  /\ \/ BeginStop(p, "delete") /\ UNCHANGED goal
     \/ record.status # "running" /\ Goto(p, "delete")
  /\ UNCHANGED <<record, docker, account, mode, health, bounds>>

Delete(p) ==
  /\ pc[p] = "delete"
  /\ record' = NoRecord
  /\ Return(p)
  /\ UNCHANGED <<docker, account, mode, health, bounds>>

\* mutant: a running plugin is not stopped first
ReplacesRunning(p, step, reload, v) ==
  /\ goal' = [goal EXCEPT ![p] = v]
  /\ pc'   = [pc EXCEPT ![p] = step]
  /\ inst' = [inst EXCEPT ![p] = record]
  /\ UNCHANGED <<cred, plan, record, docker, account, mode, health, bounds>>

\* UpgradePlugin to another version; ReinstallDevPlugin to any.
Replace(p, step, reload, v) ==
  /\ goal' = [goal EXCEPT ![p] = v]
  /\ \/ BeginStop(p, reload)
     \/ /\ record.status # "running"
        /\ pc'   = [pc EXCEPT ![p] = step]
        /\ inst' = [inst EXCEPT ![p] = record]
        /\ UNCHANGED <<cred, plan>>
  /\ UNCHANGED <<record, docker, account, mode, health, bounds>>

Upgrade(p) ==
  /\ Installed
  /\ ~record.dev
  /\ Call(p, "upgrade", record.dev)
  /\ \E v \in Version \ {record.dir} : Replace(p, "upgrade", "upgradeReload", v)

ReinstallDev(p) ==
  /\ Installed
  /\ record.dev
  /\ Call(p, "reinstall", record.dev)
  /\ \E v \in Version : Replace(p, "reinstall", "reinstallReload", v)

Reload(p, reload, step) ==
  /\ pc[p] = reload
  /\ IF Installed THEN GotoWith(p, step, record) ELSE Return(p)
  /\ UNCHANGED <<record, docker, account, mode, health, bounds>>

missingRequiredConfig(instance, v) == instance.config < Requires[v]

\* wasRunning: stopCore came first.
WasRunning(p) == plan[p] = "upgradeReload"

Upgraded(p) ==
  LET incompatible == missingRequiredConfig(inst[p], goal[p])
  IN  [inst[p] EXCEPT
         !.dir    = goal[p],
         !.dirty  = incompatible,
         !.status = IF incompatible THEN "ready"
                    ELSE IF WasRunning(p) THEN "stopped"
                    ELSE IF @ = "failed" THEN "ready" ELSE @]

SwitchVersion(p) ==
  /\ pc[p] = "upgrade"
  /\ record' = Upgraded(p)
  /\ IF WasRunning(p) /\ ~Upgraded(p).dirty
       THEN GotoWith(p, "provision", Upgraded(p))
       ELSE Return(p)
  /\ UNCHANGED <<docker, account, mode, health, bounds>>

Overwrite(p) ==
  /\ pc[p] = "reinstall"
  /\ record' = [status |-> IF missingRequiredConfig(inst[p], goal[p])
                             THEN "pending_setup" ELSE "ready",
                info |-> NoCredential, dirty |-> FALSE,
                config |-> inst[p].config, dir |-> goal[p], dev |-> TRUE]
  /\ Return(p)
  /\ UNCHANGED <<docker, account, mode, health, bounds>>
-----------------------------------------------------------------------------
(* The health checker: list, look at the container, read again, save. *)

ShuttingDown == mode \in {"stopping", "halting", "haltingDev", "marking"}

\* mutant: only failed plugins are looked at
ListsFailedOnly ==
  /\ check = "idle"
  /\ mode # "down" /\ ~ShuttingDown
  /\ OneAtATime => NothingUnderWay
  /\ HasStatus({"failed"})
  /\ record.info # NoCredential
  /\ check' = "inspect"
  /\ seen'  = record
  /\ UNCHANGED <<record, docker, account, mode, local, bounds>>

HealthList ==
  /\ check = "idle"
  /\ mode # "down" /\ ~ShuttingDown
  /\ OneAtATime => NothingUnderWay
  /\ HasStatus({"running", "failed"})
  /\ record.info # NoCredential
  /\ check' = "inspect"
  /\ seen'  = record
  /\ UNCHANGED <<record, docker, account, mode, local, bounds>>

\* A Docker error counts as a container that is down; the shutdown cancels
\* the checker's context, which is such an error.
HealthInspect ==
  /\ check = "inspect"
  /\ \E up \in BOOLEAN :
       /\ \/ (up = IsUp \/ (ShuttingDown /\ ~up)) /\ Works
          \/ ~up /\ IsUp /\ ~ShuttingDown /\ Fails
       /\ check' = IF up /\ seen.status = "failed" THEN "recovered"
                   ELSE IF ~up /\ seen.status = "running" THEN "down"
                   ELSE "idle"
       /\ seen' = NoRecord
  /\ UNCHANGED <<record, docker, account, mode, local>>

HealthGet ==
  /\ check \in {"recovered", "down"}
  /\ IF Installed
       THEN /\ check' = IF check = "down" THEN "downSave" ELSE "recoveredSave"
            /\ seen'  = record
       ELSE check' = "idle" /\ UNCHANGED seen
  /\ UNCHANGED <<record, docker, account, mode, local, bounds>>

\* The status the record was read with is not looked at again.
HealthSave ==
  /\ check \in {"recoveredSave", "downSave"}
  /\ record' = [seen EXCEPT !.status = IF check = "downSave" THEN "failed" ELSE "running"]
  /\ check'  = "idle"
  /\ seen'   = NoRecord
  /\ UNCHANGED <<docker, account, mode, local, bounds>>
-----------------------------------------------------------------------------
(* The daemon process. *)

\* The health checker is started before the restore loop lists the plugins.
Boot ==
  /\ mode = "down"
  /\ mode' = "boot"
  /\ UNCHANGED <<record, docker, account, local, health, bounds>>

\* mutant: a start interrupted after the pull is not reset
ResetsPullingOnly ==
  /\ mode = "boot"
  /\ OneAtATime => NothingUnderWay
  /\ mode' = IF HasStatus({"pulling"}) THEN "reset"
             ELSE IF HasStatus({"running"}) /\ ~record.dev THEN "restore"
             ELSE "up"
  /\ UNCHANGED <<record, docker, account, local, health, bounds>>

RestoreList ==
  /\ mode = "boot"
  /\ OneAtATime => NothingUnderWay
  /\ mode' = IF HasStatus({"pulling", "starting"}) THEN "reset"
             ELSE IF HasStatus({"running"}) /\ ~record.dev THEN "restore"
             ELSE "up"
  /\ UNCHANGED <<record, docker, account, local, health, bounds>>

ResetInterrupted ==
  /\ mode = "reset"
  /\ UpdateStatus("failed")
  /\ mode' = "up"
  /\ UNCHANGED <<docker, account, local, health, bounds>>

Restore ==
  /\ mode = "restore"
  /\ UpdateStatus("stopped")
  /\ mode' = "up"
  /\ Goto(Restorer, "restore")
  /\ UNCHANGED <<docker, account, health, bounds>>

\* The restoring goroutine: StartPluginAsync, failed if it refuses, as it
\* does when the manifest does not load.
RestoreStart ==
  /\ pc[Restorer] = "restore"
  /\ LET startable == HasStatus(Startable) /\ ~record.dev
     IN  \/ startable /\ Works /\ GotoWith(Restorer, "provision", record)
         \/ startable /\ Fails /\ Goto(Restorer, "restoreFailed")
         \/ ~startable /\ Works /\ Goto(Restorer, "restoreFailed")
  /\ UNCHANGED <<record, docker, account, mode, health>>

RestoreFailed ==
  /\ pc[Restorer] = "restoreFailed"
  /\ UpdateStatus("failed")
  /\ Return(Restorer)
  /\ UNCHANGED <<docker, account, mode, health, bounds>>

\* The process ends: every goroutine with it.
ProcessEnds ==
  /\ mode' = "down"
  /\ pc'   = [p \in Process |-> "idle"]
  /\ inst' = [p \in Process |-> NoRecord]
  /\ cred' = [p \in Process |-> NoCredential]
  /\ plan' = [p \in Process |-> "none"]
  /\ goal' = [p \in Process |-> NoVersion]
  /\ check' = "idle"
  /\ seen'  = NoRecord

Crash ==
  /\ mode # "down"
  /\ exits < MaxExits
  /\ exits' = exits + 1
  /\ ProcessEnds
  /\ UNCHANGED <<record, docker, account, faults, outages>>

\* A signal: the API shuts down, then StopAll lists the plugins.
Shutdown ==
  /\ mode = "up"
  /\ exits < MaxExits
  /\ exits' = exits + 1
  /\ mode' = "stopping"
  /\ UNCHANGED <<record, docker, account, local, health, faults, outages>>

StopAllList ==
  /\ mode = "stopping"
  /\ IF HasStatus({"running"})
       THEN /\ mode' = IF record.dev THEN "haltingDev" ELSE "halting"
            /\ UNCHANGED <<local, health>>
       ELSE ProcessEnds
  /\ UNCHANGED <<record, docker, account, bounds>>

\* StopPluginContainers stops without removing, whatever Docker answers.
StopAllHalt ==
  /\ mode \in {"halting", "haltingDev"}
  /\ \/ /\ Works
        /\ container' = IF IsUp THEN [container EXCEPT !.up = FALSE] ELSE container
     \/ Fails /\ UNCHANGED container
  /\ IF mode = "haltingDev"
       THEN mode' = "marking" /\ UNCHANGED <<local, health>>
       ELSE ProcessEnds
  /\ UNCHANGED <<record, network, account>>

\* mutant: the plugin is saved as stopCore would
MarksAsStopCore ==
  /\ mode = "marking"
  /\ record' = IF Installed THEN Stopped(record) ELSE record
  /\ ProcessEnds
  /\ UNCHANGED <<docker, account, bounds>>

StopAllMark ==
  /\ mode = "marking"
  /\ UpdateStatus("stopped")
  /\ ProcessEnds
  /\ UNCHANGED <<docker, account, bounds>>

\* Someone else, or the host, stops or starts the container.
Outage ==
  /\ container # NoContainer
  /\ outages < MaxOutages
  /\ outages' = outages + 1
  /\ container' = [container EXCEPT !.up = ~@]
  /\ UNCHANGED <<record, network, account, mode, local, health, faults, exits>>

StartCore(p) ==
  \/ Provision(p) \/ CreateNetwork(p) \/ BuildEnv(p) \/ PullImages(p)
  \/ StartContainers(p) \/ UpdateRuntimeInfo(p) \/ MarkRunning(p)
  \/ UndoAccount(p) \/ UndoContainers(p) \/ UndoNetwork(p)
  \/ SetFailedGet(p) \/ SetFailedSave(p)

StopCore(p) ==
  StopContainers(p) \/ StopNetwork(p) \/ StopAccount(p) \/ StopSave(p)

Continue(p) ==
  \/ StartCore(p) \/ StopCore(p)
  \/ SaveInstall(p) \/ ConfigSave(p) \/ StopThenStart(p) \/ Restart(p)
  \/ Delete(p)
  \/ Reload(p, "upgradeReload", "upgrade") \/ SwitchVersion(p)
  \/ Reload(p, "reinstallReload", "reinstall") \/ Overwrite(p)

Request(p) ==
  \/ Install(p) \/ Start(p) \/ Stop(p) \/ ConfigGet(p) \/ Uninstall(p)
  \/ Upgrade(p) \/ ReinstallDev(p)

HealthCheck == HealthList \/ HealthInspect \/ HealthGet \/ HealthSave

Restoring == RestoreList \/ ResetInterrupted \/ Restore

Exiting == StopAllList \/ StopAllHalt \/ StopAllMark

\* The store may already hold a plugin that was configured and never started.
ReadyRecord(v, dev) == [New(v, dev) EXCEPT !.status = "ready", !.config = MaxConfig]

Init ==
  /\ record    \in {NoRecord} \union {ReadyRecord(v, dev) : v \in Version, dev \in BOOLEAN}
  /\ container = NoContainer
  /\ network   = FALSE
  /\ account   = NoCredential
  /\ mode      = "down"
  /\ pc   = [p \in Process |-> "idle"]
  /\ inst = [p \in Process |-> NoRecord]
  /\ cred = [p \in Process |-> NoCredential]
  /\ plan = [p \in Process |-> "none"]
  /\ goal = [p \in Process |-> NoVersion]
  /\ check = "idle"
  /\ seen  = NoRecord
  /\ faults  = 0
  /\ outages = 0
  /\ exits   = 0

Next ==
  \/ \E p \in Process : Request(p) \/ Continue(p)
  \/ RestoreStart \/ RestoreFailed
  \/ HealthCheck
  \/ Boot \/ Restoring \/ Shutdown \/ Exiting \/ Crash
  \/ Outage

\* Goroutines run on, the checker's ticker ticks and the service manager
\* starts the daemon again; requests, faults and outages need not happen.
Fairness ==
  /\ \A p \in Process : WF_vars(Continue(p))
  /\ WF_vars(RestoreStart \/ RestoreFailed)
  /\ WF_vars(HealthCheck)
  /\ WF_vars(Boot \/ Restoring \/ Exiting)

Spec == Init /\ [][Next]_vars /\ Fairness
-----------------------------------------------------------------------------
(* Properties. *)

StartSteps == {"provision", "network", "env", "pull", "containers", "info", "running"}
UndoSteps  == {"undoAccount", "undoContainers", "undoNetwork", "failGet", "failSave"}
StopSteps  == {"stopContainers", "stopNetwork", "stopAccount", "stopSave"}
OtherSteps == {"idle", "install", "config", "restartCheck", "restart", "delete",
               "upgradeReload", "upgrade", "reinstallReload", "reinstall",
               "restore", "restoreFailed"}

\* Every variable holds what the code stores in it.
TypeOK ==
  /\ record \in Instance \union {NoRecord}
  /\ container \in Container \union {NoContainer}
  /\ network \in BOOLEAN
  /\ account \in Password
  /\ mode \in {"down", "boot", "reset", "restore", "up", "stopping", "halting",
              "haltingDev", "marking"}
  /\ pc   \in [Process -> StartSteps \union UndoSteps \union StopSteps \union OtherSteps]
  /\ inst \in [Process -> Instance \union {NoRecord}]
  /\ cred \in [Process -> Password]
  /\ plan \in [Process -> {"none", "network", "env", "pull", "start", "restart",
                         "delete", "upgradeReload", "reinstallReload"}]
  /\ goal \in [Process -> Version \union {NoVersion}]
  /\ check \in {"idle", "inspect", "recovered", "down", "recoveredSave", "downSave"}
  /\ seen \in Instance \union {NoRecord}
  /\ faults \in 0 .. MaxFaults
  /\ outages \in 0 .. MaxOutages
  /\ exits \in 0 .. MaxExits

\* p will still take the record out of pulling and starting.
Drives(p) ==
  \/ pc[p] \in {"pull", "containers", "info", "running", "failGet", "failSave"}
  \/ /\ pc[p] \in {"undoAccount", "undoContainers", "undoNetwork"}
     /\ plan[p] \in {"pull", "start"}

\* A record that says pulling or starting has a goroutine at work that will
\* take it out of there: every start is refused in these states, so without
\* one the plugin could not be started again.  startCore, setFailed and the
\* reset of interrupted plugins at boot.
StartIsDriven ==
  mode = "up" /\ HasStatus({"pulling", "starting"}) => \E p \in Process : Drives(p)

\* A start that was announced ends, with the daemon's crashes and restarts
\* in between: the record does not say pulling or starting for ever.
StartEnds == HasStatus({"pulling", "starting"}) ~> ~HasStatus({"pulling", "starting"})

\* A running plugin has its RuntimeInfo: without it the health checker skips
\* the plugin and stopping it leaves its broker account behind.
RunningIsKnown == HasStatus({"running"}) => record.info # NoCredential

\* A plugin stopCore saved as stopped has no container left.
StoppedIsClean ==
  HasStatus({"stopped"}) /\ record.info = NoCredential => container = NoContainer

\* A plugin the health checker looks at does not go on being shown, and
\* routed to, as running while its container is down, whatever requests,
\* restarts and the restore at boot save over the checker's findings.
Lapsed == HasStatus({"running"}) /\ record.info # NoCredential /\ ~IsUp
LapseIsNoticed == Lapsed ~> ~Lapsed

\* Nothing is under way.
Resting == mode = "up" /\ NothingUnderWay

Serves == Resting /\ HasStatus({"running"}) /\ IsUp

\* The container of a running plugin logs in with the password the broker
\* accepts and the record holds, although a container is never given a new
\* environment and the broker keeps one password only.  While the daemon stays
\* up: see the README for the crash before UpdateRuntimeInfo.
CredentialsAgree ==
  exits = 0 /\ Serves => container.cred = account /\ account = record.info

\* Nothing failed, no container changed by itself, the daemon stayed up.
Undisturbed == faults = 0 /\ outages = 0 /\ exits = 0

\* UninstallPlugin "performs a full uninstall: clean up resources".
UninstallIsFull ==
  Resting /\ ~Installed => container = NoContainer /\ account = NoCredential /\ ~network

\* The container of a running plugin is of the version in the record, and has
\* the saved configuration unless the record is marked dirty.
RunsAsRecorded ==
  Serves => /\ container.dir = record.dir
            /\ record.dirty \/ container.config = record.config

\* As long as nothing fails, what runs is what the record says, whatever was
\* saved, upgraded and reinstalled and in whatever order, and nothing is left
\* of what was uninstalled: although a container that is there is started as
\* it is, and only the clean-up before each change removes it (StartContainers,
\* UpgradePlugin, UninstallPlugin, ReinstallDevPlugin).
UndisturbedIsAsRecorded == Undisturbed => RunsAsRecorded /\ UninstallIsFull

\* StopAll "does not change status - resumes on next start".
ResumesOnNextStart ==
  (mode = "halting" /\ HasStatus({"running"})) ~> (mode = "up" /\ HasStatus({"running"}) /\ IsUp)
=============================================================================

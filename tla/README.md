# Griffino in TLA+

Griffino is a single-machine daemon (Go) that runs plugins in containers, routes
capability calls between them over RabbitMQ and executes *Blueprints*, graphs of plugin
and control-flow nodes. This directory models the parts of it whose correctness depends on
the order in which things happen, model-checks them with TLC and proves theorems about them
with TLAPS.

## 1. Inventory of the system

| Component | Source | State it keeps | Operations | What is hard | Module |
|---|---|---|---|---|---|
| Task scheduler | `internal/taskscheduler` | one `Task` per run in Redis (WATCH/MULTI), one AMQP channel | trigger, node result, fork, JOIN, IF, LOOP, INPUT, OUTPUT, watchdog, plugin-down report | parallel branches race on one record; exactly one terminal outcome and callback; lost answers; redelivery; crash | `TaskScheduler`, `TaskPromise` |
| Plugin lifecycle, health checker, dev daemon | `internal/service`, `internal/store`, `internal/health`, `internal/devdaemon`, `cli/daemon.go` | plugin record in BoltDB (status, runtime info, credentials), container, network | install, start, stop, restart, upgrade, uninstall, config; restore at boot; 30 s sweep | long asynchronous starts against concurrent stop, uninstall, config; stale whole-record saves; restart | `PluginLifecycle` |
| Router, route configuration | `internal/router`, `handlers_routes.go` | AMQP connection and channels, round-robin counters, the user's table | invoke with failover, reconnect supervisor, stop, replace the table | a request redelivered while its first goroutine works; answer and acknowledgement over two connections; close noticed late or never | `RouteSelection`, `Router` |
| Sessions, login, users, setup | `internal/auth`, `store/user.go`, `handlers_auth.go`, `handlers_user.go`, `handlers_setup.go`, ... | session keys with TTL, per-user index, attempt counters in Redis; users and policy in BoltDB | login, logout, revoke, lockout, create, update, delete, setup | index and keys expire apart; check-then-act on the last administrator; stale whole-record update | `Accounts` |
| Infrastructure bootstrap | `internal/system`, `internal/crypto`, `cli/daemon.go` | key file, database, RabbitMQ and Redis containers | launch, ensure containers, conflict resolution, shutdown | a crash between any two steps; two processes; something of another program in the way | `Bootstrap` |
| Broker provisioning | `pkg/broker`, `pkg/redisacl` | exchanges, users, permissions, queues, bindings; ACL users in memory | provision, sync, teardown | a call that fails after it had its effect; Redis forgets on restart | `Provisioning` |
| Registry and packages, container lifecycle | `handlers_registry.go`, `imagecheck`, `pkg/container`, `pkg/manifest` | directories of versions, images, containers of several services | download, verify, register, upgrade, remove, start in dependency order | one step of many failing, and what is cleaned up after it | `BootSpec`, `Packages` |
| Per-user configuration | `handlers_user_config.go`, `store/user_config.go` | one value in Redis | masked read, validated write | masked passwords restored by position; two tabs | `UserConfig` |
| Blueprints | `handlers_blueprint.go`, `portcheck.go`, `taskscheduler/store.go` | Blueprints and schemas in BoltDB | create, replace, delete, list, port check | plugins change between the lookups of one request | `Blueprints` |
| Templates, audit, dashboard, metrics, i18n, CLI, tray, API documents | `pkg/template`, `pkg/env`, `internal/*` | | parsing, single-record writes, formatting, installers | little or no interleaving | none |

How they interact. A plugin publishes to the `dispatch` queue; the Router hands every
delivery to a goroutine running `Scheduler.HandleDispatch`. The scheduler reads the
Blueprint, mutates the Task and publishes node requests to plugins; a plugin's result is
again a dispatch, with a task id. The health checker and the watchdog end Tasks from
outside. Plugins call each other through the Router's `invoke` queue. The daemon brings the
infrastructure up, restores plugins at boot, and starts everything else. A start calls the
broker provisioner, the image check and the container client.

The modules meet where one takes for granted what the other shows. `TaskScheduler` takes
a delivery as given, which is `Router`'s; `PluginLifecycle` takes the credential as made in
one step (`Provision`), which `Provisioning` does call by call, and the files and the
services as one, which `Packages` does one by one; `Blueprints` takes plugins as changing at
any time, which is `PluginLifecycle`'s.

What makes each of them correct:

* **Task scheduler**: the branch count is the number of live branches; a Task completes when
  the last branch ends and not before; a JOIN goes on when every edge has been taken; one
  terminal outcome, told once; every Task ends if no call fails.
* **Plugin lifecycle** and **health checker**: the record agrees with Docker and the broker
  when nothing is under way; no start is announced for ever; a dead container does not go
  unnoticed; an uninstall leaves nothing.
* **Router**: a request leaves the queue only when its caller was told something; a goroutine
  tells it once and does not ask a second provider after an answer; a lost connection is
  replaced unless the Router is stopped.
* **Accounts**: a live session can be listed, and so revoked; there is always an administrator;
  a save changes only what it is about.
* **Bootstrap**: what is encrypted can be decrypted; a daemon that serves runs its own
  containers with its own passwords; it touches nothing of another program unasked; launching
  it again heals what a crash left.
* **Provisioning**: what the record of a running plugin says is what both services accept.
* **Packages**: an installed plugin has its files; a failed step leaves nothing behind;
  services start after what they depend on.
* **UserConfig**: a password sent back masked keeps its value.
* **Blueprints**: what is stored passed the port check for plugins as they were.

## 2. Plan

Done: the modules of sections 3 to 10, in that order of importance, and the proofs about all
of them.

Left, in this order:

1. The scheduler: the number of passes of a LOOP for Blueprints other than that of `walk`.
2. `TaskOutputs`: the OUTPUT node's read-modify-write of `__outputs`, several Tasks from one
   trigger, and a Blueprint replaced or deleted under a running Task.

Every module takes its parameters as CONSTANTS with named assumptions, has one action per
operation or step, and keeps RECURSIVE operators out of what theorems are about. Each thing
a step tests or writes that a bug could get wrong is an operator of its own; next to it
stands the same operator written wrong, marked *mutant*, which shows that a property
can fail.

### The runs

| Run | Module, cfg | States | Section |
|---|---|---|---|
| `walk`, `faults`, `promise` | `MCTaskScheduler` | up to 520 thousand | 3 |
| `plugin_serial`, `plugin_liveness` | `MCPluginLifecycle` | 235, 590 thousand | 4 |
| `router` | `MCRouter` | 260 thousand | 5 |
| `accounts` | `MCAccounts` | 1.9 million | 6 |
| `bootstrap` | `MCBootstrap` | 640 thousand | 7 |
| `provisioning` | `MCProvisioning` | 290 thousand | 8 |
| `packages` | `MCPackages` | 5 million | 9 |
| `user_config`, `blueprints` | `MCUserConfig`, `MCBlueprints` | 610 thousand, 4.4 million | 10 |

Deadlock is not checked where the bounds, a Task that ended or a daemon that was stopped
end every behaviour; in `packages` the next request can always come.

### Counterexamples kept beside the runs

Each of these configurations checks one property that states what a comment, a doc or an
option of the program says, and TLC finds it violated by what the code does. They are not
among the runs, which all pass; run them with `tlc -config <cfg> <module>`.

| Configuration | Property | What it shows |
|---|---|---|
| `MCSharedNode` | `EventuallyTerminal` | `ActiveNodes` is keyed by node id: two branches at one plugin node share the entry, the first result removes it, and if the second never comes the watchdog has nothing to expire |
| `MCExitEarly` | `CompletedLeavesNothing` | an IF or LOOP whose successor is the empty id completes the Task while siblings are out at plugins |
| `MCPluginUninstallFailed` | `UninstallIsFull` | only a `running` plugin goes through `stopCore` before its record is deleted |
| `MCPluginResume` | `ResumesOnNextStart` | a health check before the restore loop marks the plugins the shutdown stopped as failed, and they are not restored |
| `MCPluginStuck` | `StartIsDriven` | `handleConfigPlugin` saves back a status it read: `pulling` with nobody pulling |
| `MCRouterMajor` | `PrimaryInterfaceOnly` | the health filter comes first, so with the primary down another major is called ("never silently treated as interchangeable", `router.go:699`) |
| `MCBootstrapCustomName` | `CustomNameIsUsed` | `Find` looks for the default name, whatever `UpdateContainerName` stored: the conflict is there again |
| `MCPackagesRace` | `RecordHasItsPackage` | two requests for one plugin share a directory; the one that fails removes it for both |
| `MCPackagesUnvalidated` | `InstalledIsValid` | an upgrade checks images, not the manifest ("validated", `service/plugin.go:703`) |
| `MCUserConfigShift` | `EachItsOwnPassword` | masked passwords in a list are restored by index (`handlers_user_config.go:362`), so removing an item gives the next one its password |
| `MCBlueprintsUninstalled` | `UnresolvedIsAllowed` | a node whose plugin is not installed panics (`handlers_blueprint.go:48`, against the comment at 28-30) |
| `MCBlueprintsOrder` | `ListedNewestFirst` | the list comes in the reverse order of its UUIDs, not by `CreatedAt` (`taskscheduler/store.go:80`) |
| `MCBlueprintsDeleted` | `DeletedStaysDeleted` | a PUT that read the Blueprint before its deletion saves it again |
| `MCProvisioningUpgrade` | `RunningHasItsQueues` | a plugin upgraded while it has RuntimeInfo is only synced, and lacks the queues of its new version |
| `MCProvisioningTeardown` | `TeardownIsFull` | `Teardown` deletes the user and leaves the queues (`provisioner.go:132`) |

`MCPluginOutages` passes: `CredentialsAgree` under start, stop, config and upgrade one at a time.

## 3. The task scheduler

`TaskScheduler.tla` is one Task. Its state is the Task record (`status`, `activeBranches`,
`activeNodes`, `joinState`, `loopState`), the workers (`pc`, `cur`, `todo`, `msg`: the
`HandleDispatch` goroutines, the watchdog and the `FailTasksByPlugin` caller) and the broker
(`requests`, `results`, `callbacks`, `channelUp`).

**Atomicity.** Every mutation of a Task is one `TaskStore.update`, a WATCH/MULTI transaction
retried on conflict, so it is one step. Between two transactions, reads and publishes a
handler can be overtaken, so each is a step of its own. A goroutine walks the successors of
a node depth first: `cur` is where it is, `todo` what is left of the loops it is inside.

**Correspondence.**

| Action | Code |
|---|---|
| `Trigger` | `handleNewDispatch`, `createAndStartTask` |
| `Receive`, `RemoveActiveNode` | `handleNodeResult` up to and from its first transaction |
| `EndBranch`, `NextNodeNotFound`, `ForkBranches` | `handleFanOut` |
| `ExecutePluginNode`, `Publish` | `executePluginNode`: `AddActiveNode`, then the publish |
| `ExecuteDataNode`, `ExecuteUnknownNode` | `executeInputNode`, `executeOutputNode`, `executeBuiltinNode` |
| `HandleJoinNode`, `HandleIFNode`, `HandleLoopNode` | the functions of that name and `ArriveAtJoin`, `IncrLoopCount` |
| `CompleteTask`, `FailTask`, `SendCallback` | `completeTask`, `failTask`, `sendCallback` |
| `SweepExpiredTasks`, `FailTasksByPlugin` | the watchdog and the health checker, acting on the snapshot they read |
| `StoreError`, `ChannelCloses`, `Redeliver`, `Crash` | the faults |
| `PluginAnswers` | a plugin (external): it answers once, or never |

**Abstracted.** `Task.Context`: an expression of an IF or an expression LOOP takes either
value or fails to evaluate, an INPUT finds its variable or not, an output parses or not. Time:
a registered deadline may pass at any moment after it was registered. The 24 h TTL and
`CurrentNodeID` (never read) are left out. One trigger is one Task. The Blueprint does not
change while the Task runs. A failed store call is one that did not commit.

**Auxiliary variables.** `minted` and the ids of branches name the live branches, `joined`
remembers which sources a JOIN has seen in this round; no guard reads them.

`TaskPromise.tla` is what the triggering plugin can rely on: one outcome, final, announced
at most once and truthfully (`SafeSpec`), and reached and announced (`Spec`).

### Runs

| Run | Blueprint | Question |
|---|---|---|
| `walk` | a LOOP of 2 around a fork of three, two sides of which meet at a JOIN back to the LOOP; 3 handlers, a store error, a closing channel | branch count, re-entered JOIN, in-flight table, number of passes, under every interleaving |
| `faults` | two plugin nodes; channel close, store error, redelivery, crash | refinement of `TaskPromise!SafeSpec` |
| `promise` | two branches through every built-in kind and every malformed one, to a JOIN | the Task ends; refinement of `TaskPromise!Spec` with liveness |

Bounds. Three handlers let two race while a third is between them; two LOOP passes are
enough to re-enter a JOIN and to carry something over from one pass to the next; each fault
happens at most once, at every point. The handlers are symmetric, so the runs that check no
liveness use symmetry.

Fairness (`FairSpec`): a ready goroutine runs, a queued result is consumed, and the watchdog
ticks (`time.Ticker`, 30 s) until the deadline has passed. Nothing is assumed of plugins.
`promise` is without faults: with a lost branch the Task hangs until its TTL, which is what
the code does. `InFlightIsWatched` is conditioned on no store error having happened: the
code only logs `AddActiveNode`'s error.

### Notes

`MCSharedNode` and `MCExitEarly` (section 2) show where code and comments differ. Noted
without a run: `ArriveAtJoin` counts arrivals, not edges, so a node that ran
twice feeds a JOIN twice and takes the place of another edge; and a result that is handled
twice, after a redelivery, ends its branch twice, so that the count reaches zero with a
sibling alive. `BranchAccounting` and `JoinMergesEveryEdge` are therefore checked without
redelivery and on a Blueprint where the sources of a JOIN run once a pass. A redelivered trigger creates a second Task, with a callback of its own.
A Blueprint edited or deleted under a running Task loses the branch whose result comes next:
`RemoveActiveNode` is before `findNode` (`scheduler.go:227-249`).

### Theorems (`TaskSchedulerProofs.tla`)

For every Blueprint, finite number of handlers and bound on the faults:

* `TypeCorrect`: `Spec => []TypeOK`. `TypeOK` is inductive; the proof has one lemma for the
  workers' variables under each way to go on (`GotoType`, `ResumeType`, `ForkType`, ...) and
  one case per action.
* `ReportedByOne`, `ToldOnce` (no run lists `OneReporter`, `CallbackOnce` and
  `TerminalIsFinal`: `PromiseIsSafe`, which `faults` checks, implies what they say of
  the outcome): `CallbackOnce` alone is not inductive: two workers that both
  passed `MarkTerminal` would break it later. `OneReporter` is the missing part: at most
  one worker is in a telling stage, with the stored outcome and nothing published. The
  invariant is `IInv == TypeOK /\ OneReporter /\ CallbackOnce`. Most steps are `Quiet` (they
  start no teller and touch neither status nor callbacks), one lemma covers them; `MarkTerminal`
  and `SendCallback` are the two others.
* `OutcomeIsFinal`, `KeepsPromise`: from the same invariant, by the kinds of step.
* `BranchesAreCounted` (`BranchAccounting`). The count alone is not inductive. `AInv` says where a
  branch id can be: at a handler, among its siblings, in a request or in a result, in one of these
  places only, and never above `minted`. Each step then `Stays`, `Sends`, `Ends` or `Forks`: it keeps the
  ids, moves one out, ends one or mints new ones, and one lemma for each kind says what becomes of
  `Cardinality(LiveBranches)`. After a store error the count can only be too high. Hypothesis
  `DeliveredOnce` (no redelivery, no crash): a result handled twice ends its branch twice,
  and a crash loses the siblings a handler still has to execute; both break the property.
* `LastBranchCompletes`: a completed Task has no live branch, which is the first half of
  `CompletedLeavesNothing`. Who comes to `completeTask` has seen the count reach zero, so by
  `AInv` nothing is left, and without a branch none comes back. Hypotheses `DeliveredOnce` and
  `NoExit`: no node leads to the empty id (`MCExitEarly` shows an IF that does).
* `CompletedTaskLeftNothing` (`CompletedLeavesNothing`): nor is there a JOIN that still waits. This is
  not true of every Blueprint: where an IF goes around a JOIN, or an edge comes from a node nobody reaches,
  the Task can complete past a JOIN that has not been filled. So the theorem has a third hypothesis,
  `WellNested`: for each JOIN that waits there are a number N, a worth `W[n]` of a branch that comes to n
  and a worth `V[n]` of one that leaves it, all in 0..N, such that a fork shares out what it got and a JOIN
  adds up what it got, both up to multiples of N (`Conserves`); that fewer arrivals than the JOIN has edges
  are never worth a multiple of N; and that any other JOIN with a worth is within it, of a lower rank
  (`Nests`). A JOIN fed by a fork of two has N = 2, and worth one half on each side.
  `MCTaskScheduler`'s assumptions `LoopNests` and `BuiltinNests` evaluate it on the Blueprints of `walk`
  and `promise`. The invariant, `FlowInv`: as long as the count is exact and no handler is failing the
  Task (`Settled`), what the branches and the arrivals in `joinState` are worth together is a multiple
  of N (`Balanced`). When the last branch has ended the arrivals alone are; were some JOIN waiting,
  the one of lowest rank would be alone in its weights, with too few arrivals to make a multiple.
* `RequestsAreWatched` (`InFlightIsWatched`), for the runs in which no two branches are at one plugin
  node together (`[]OneAtEachNode`), which the Blueprints of `walk` and `promise` keep and `MCSharedNode`
  does not. `Watched` adds the entry made before the publish; the step that matters is
  `RemoveActiveNode`, which with the ids apart takes away its own entry only.
* `JoinsMerge` (`JoinMergesEveryEdge`), for the runs in which no node arrives twice at a JOIN in one round
  (`[]EachSourceOnce`), and a Blueprint that does not start with a JOIN. `JoinInv` says that every branch is
  on an edge and that `joinState[n]` is the number of nodes in `joined[n]`; there are at least as many edges
  as nodes they come from (`EdgesCoverSources`), so the arrival that fills the count is the last node's.
  Redeliveries and crashes are allowed here: one that breaks the merge is one that arrives twice.
* `BranchesStayApart`, and from it `BlueprintIsWatched` (`InFlightIsWatched`) and `BlueprintMerges`
  (`JoinMergesEveryEdge`): the same two, with a condition on the Blueprint in the place of the one on the
  run. A place is the end of an edge, `<<m, n>>`, or the inside of a node, `<<n>>`, and a relation `Par` says
  which of them may hold a branch or an arrival at the same time. `Parallel(Par)`: it is symmetric, holds of the
  sides of every fork, and goes along with a branch from edge to node to edge; a JOIN that waits lets out what is
  beside all its edges, the others what is beside any. `KeepsApart(Par)`: besides, it has no two in a
  plugin node and no two on one edge to a JOIN that waits. `MCTaskScheduler`'s assumptions `LoopKeepsApart` and
  `BuiltinKeepsApart` name such a relation for the Blueprints of `walk` and `promise`. The invariant, `ApartInv`, is that
  of `BranchesAreCounted` with `JoinInv`, and: every two of the branches and arrivals are at places
  `Par` relates (`StandApart`), and a JOIN that waits lacks an arrival (`JoinsWait`). With a redelivery a
  branch is beside itself and no relation says so, hence `DeliveredOnce`.

They use `WorkersAssumption`, `BlueprintAssumption` and `EnvironmentAssumption`. Only
model-checked: the number of passes of a LOOP, which `LoopBodyRunsExactly` says of the Blueprint
of `walk`, and all liveness (TLAPS has no rules for fairness here).

## 4. The plugin lifecycle

`PluginLifecycle.tla` is one plugin: its `record` in BoltDB (`PluginInstance`), its
`container` and `network` in Docker, the `account` its broker user has, the daemon's `mode`,
the goroutines at work on it (`pc`, with what each holds: `inst`, `cred`, `plan`, `goal`) and
the health checker (`check`, `seen`).

**Atomicity.** A bbolt transaction, a Docker call and a broker call are one step each.
`PluginService` has no lock, `net/http` and the dev socket serve every request on a goroutine
of its own, and `StartPluginAsync` leaves another behind, so all steps interleave. A handler
that reads a record and later saves it back whole does so in two steps, with the record in
`inst`.

**Correspondence.**

| Action | Code |
|---|---|
| `Install`, `SaveInstall` | `installFromRegistry`, `handleInstall` of the dev socket: the check and the save |
| `Start`; `Provision` to `MarkRunning` | `StartPluginAsync`, `StartDevPlugin`; the stages of `startCore` |
| `UndoAccount`, `UndoContainers`, `UndoNetwork` | `cleanupProvisionedResources` and the clean-up after each failed stage |
| `SetFailedGet`, `SetFailedSave` | `setFailed` |
| `Stop`; `StopContainers` to `StopSave` | `StopPlugin`, `StopDevPlugin`; `stopCore` |
| `ConfigGet`, `ConfigSave`, `StopThenStart`, `Restart` | `handleConfigPlugin` with its three actions, `StopThenStartAsync` |
| `Uninstall`, `Delete` | `UninstallPlugin`, `handleUninstall` |
| `Upgrade`, `ReinstallDev`, `Reload`, `SwitchVersion`, `Overwrite` | `UpgradePlugin`, `ReinstallDevPlugin` |
| `HealthList` to `HealthSave` | `health.check` for one plugin |
| `Boot`, `RestoreList`, `ResetInterrupted`, `Restore`, `RestoreStart`, `RestoreFailed` | `daemon.go`: the start of the checker, the restore loop and its goroutine |
| `Shutdown`, `StopAllList`, `StopAllHalt`, `StopAllMark` | `daemon.go`'s signal handler, `StopAll` |
| `Crash`, `Outage` | the process dies; the container is stopped or started from outside |

Every Docker and broker call may fail (`Fails`), and what a failed call leaves behind is what
the code's order of calls leaves: a broker account without its Redis half, a container
created and not started, one stopped and not removed.

**Abstracted.** A plugin has one service. One password stands for the RabbitMQ and the Redis
credential, made and dropped together; a failure of the Redis sync of an existing credential
is only a warning in the code and is left out. `AdminConfig` is the number of saves it holds;
a version requires a number of them. The upgrade handler's two reads of the record are one.
Calls of the store succeed. Images, directories and log streams are left out. A container that
is started again after its network was removed is covered by a start that fails.

`OneAtATime` makes an operation, the restore loop and a health check each wait until the
others are done. The code does not do that: the constant separates what the code gets right
for a user who waits for each answer from what it gets right under interleaving. It is
TRUE in `plugin_serial`, `MCPluginOutages`, `MCPluginUninstallFailed` and `MCPluginResume`.

### Runs

| Run | Instance | Question |
|---|---|---|
| `plugin_serial` | all operations, registry and dev plugin, 2 versions, 1 failing call, 1 outage, 1 crash or shutdown | `running` has RuntimeInfo; `stopped` has no container; while nothing fails the running plugin is as its record says and an uninstall is full (`UndisturbedIsAsRecorded`) |
| `plugin_liveness` | start, uninstall, 1 outage, 1 crash or shutdown, interleaved with the health checker and the restore | an announced start is driven by someone and ends; a container that went down is noticed; container, record and broker hold one password |

Bounds. One request slot, the restoring goroutine and the health checker: a `startCore` of the
restore races one that was asked for, and both race a stop or uninstall; two requests at once
are in the notes below and in the theorems, which are for any number of slots. The second version needs two saves of the configuration,
so an upgrade can be compatible or not; three passwords are enough for one in the record, one
at the broker and a fresh one (they are symmetric); one failing call, outage and exit
happen at every point and in every order.

Fairness: goroutines run on, the checker's ticker ticks, and the service manager starts the
daemon again after an exit. Requests, faults and outages need not happen.
`StartEnds` and `LapseIsNoticed` are checked with crashes in between.

### Notes

`MCPluginUninstallFailed`, `MCPluginResume` and `MCPluginStuck` (section 2) show where code and
comments differ. Noted without a run:

* a health check that listed a plugin as running or failed before a stop writes `failed` or
  `running` over the stop's `stopped` (`health.go:113`);
* `setFailed` reads and saves in two transactions, so an uninstall in between is undone;
* the container of a failed plugin is started again as it is after an upgrade or a
  configuration (`lifecycle.go:157-168`), so after a failure
  `RunsAsRecorded` does not hold; a dev plugin's container is left by a shutdown and
  meets its next version in the same way (`plugin.go:277`);
* nothing clears `ConfigDirty` after `save_and_restart` (`handlers_plugin.go:196`), so
  the mark may stay on a plugin that is current: `RunsAsRecorded` is the direction that holds;
* a crash between `StartContainers` and `UpdateRuntimeInfo` leaves a container whose password
  is in no record; the next start gives the broker another one, and `ReinstallDev` and an
  uninstall of a failed plugin drop RuntimeInfo while the container keeps its password, so
  `CredentialsAgree` speaks of a plugin at rest and is checked with starts and uninstalls only;
* two starts at once can both pass the check of the status (`plugin.go:120-134`), which is not in
  the transaction that writes `starting`; the second `Provision` gives the broker another
  password and the container keeps the first one's. With two request slots `CredentialsAgree`
  fails in this way without any fault, which is why it is checked with one;
* a dev plugin's start through the socket, which opens before the restore loop, can be reset
  to failed by that loop.

### Theorems (`PluginLifecycleProofs.tla`)

For any number of request slots, passwords and versions and any bounds, from
`ProcessAssumption`, `DataAssumption`, `BoundsAssumption` and `NullAssumption`:

* `TypeCorrectness`: `Spec => []TypeOK`. `TypeOK` is not inductive: a save writes what its
  process holds, and a process might hold nothing. `IInv` adds `Fits`: a process at a
  step holds the instance, the plan and the version the rest of its code reads. One lemma
  for each way to go on (`GotoOK`, `GotoWithOK`, `ReturnOK`, `BeginStopOK`, ...), all from
  `MovesOK`, then one case per action.
* `StartsAreDriven`: without `config` and `upgrade` (`Harmless`), `Spec => []StartIsDriven`
  under every interleaving. The strengthening, `AllConfined`, says that no process is going
  to save a status it has read: a new record is `pending_setup`, and the other whole-record
  saves set the status. Each step of a process either gives the announced start a
  driver, withdraws the announcement, or does neither (`Keeps`). `MCPluginStuck` shows that
  `config` cannot be added; `SwitchVersion` keeps a read status in the same way.
* `RunningHasInfo`: with `OneAtATime`, `Spec => []RunningIsKnown` for all operations. Not
  inductive either: `KInv` adds that a process is alone with the record (`Alone`), that
  every instance held anywhere is itself known when it says running (`Held`, `CheckKnows`),
  and that a start past `Provision` has a password.

* `StoppedHasNoContainer`: with `OneAtATime`, `Spec => []StoppedIsClean`. `SInv` adds to `KInv`
  what the process at work may rely on: that the copy it will save is the record
  (`RecordFits`), that the container is gone behind `stopCore` (`ContainerFits`), that only a
  plugin of the registry is started after a stop (`PlanFits`), and that nothing starts a dev
  plugin while `StopAll` is about to mark it stopped (`HaltFits`, `MarkIsClean`).
* `UndisturbedRunsAsRecorded`: with `OneAtATime`, `Spec => []UndisturbedIsAsRecorded`. The
  property says nothing while someone is at work, so it is far from inductive. `UInv` says
  step by step what there is of the plugin (`Stage`): after which stage of `startCore` the
  network, the account and the container exist, and of which version and configuration the
  container is, and the same backwards for `stopCore`. When nobody works (`NobodyWorks`) nothing is
  left of the plugin (`AtRest`) or it serves as recorded (`InService`).
* `OnePassword`: with `OneAtATime` and `DropsNoPassword`, without a failing call,
  `CredentialsAgree`. `DropsNoPassword` excludes reinstalling, and uninstalling together with
  installing again: both drop the RuntimeInfo of a failed plugin and leave its container (see
  the notes; TLC finds the violation with either). `PInv` follows the password on its
  way from `Provision` to `UpdateRuntimeInfo` (`PasswordFits`). Outages are allowed.

Only model-checked: liveness (outside TLAPS's reach here, as is ENABLED), and `CredentialsAgree`
where the restore and the health checker interleave with a start or an uninstall, as in the run.

## 5. The Router

`RouteSelection.tla` has the pure part of `router.go`: `findRoute`, the health filter
(`healthyProviders`), the filter by major version (`compatibleProviders`), the weighted wheel
(`WheelStart`) and the order of the candidates (`orderedProviders`). `Router.tla` has the rest: one user's table (`routes`),
the requests and where the broker has them (`ask`, `place`, `over`), the connections (`alive`)
and the Router's own fields (`conn`, `invokeCh`, `dispatchCh`), the supervisor (`sup`, `ctx`)
and a `handler` for each delivery.

**Atomicity.** A publish, an acknowledgement, the opening of a connection and the swap of the
channels are steps. A request that was not acknowledged when its connection went is
delivered again over the next one, while the goroutine of the first delivery goes on: so
handlers are named by `<<request, connection>>`.

| Action | Code |
|---|---|
| `Start`, `SetupTopology`, `NotifyClose`, `SeesClose`, `Backoff`, `DialSucceeds`, `DialFails` | `Start`, `setupTopology`, `superviseConnection`, `reconnect` |
| `Cancel`, `CloseAll` | the two halves of `Stop` |
| `SetRoutes` | `handleSetRoutes` with `enrichRouteInterfaceRefs` |
| `Deliver`, `RouteRequest`, `RejectRequest` | `processInvokeMessages`, `handleMessage`, `replyError` |
| `TryProvider`, `ForwardReply`, `ProviderTimesOut`, `StopsWaiting`, `AllProvidersFailed` | `forwardWithFailover`, `tryProvider` |
| `Acknowledge` | the `Ack` at the end of the goroutine, on the channel the delivery came over |
| `LoseConnection`, `PublishRequest`, `ProviderAnswers` | broker and plugins (external) |

**Abstracted.** A version is its major number; which providers are down is any set at each
call; a key stands for plugin and capability. Bodies and correlation ids are left out, since
every attempt has a reply queue of its own.

**Run `router`.** `AckedIsAnswered` relates the broker's queue to what callers were told:
answer and acknowledgement may go over two connections. `AtMostOnce` speaks of one goroutine; a
redelivered request may be answered by each of its goroutines. `Reconnected` and `RequestEnds` are the
liveness. Three connections and one loss let a request be
redelivered, also after a set-up that failed in between; with two providers of one capability there is one to fail over to. The fairness: goroutines run,
the broker delivers what is ready on an open channel, and a dial or set-up that is repeated
without end succeeds some time (SF). Nothing is assumed of providers: the 60 s timeout ends the wait.

**Theorems** (`RouterProofs.tla`), for any requests, routes, providers and answers and any number of
connections, losses and edits: `TypeCorrect`, `AnswersOnce` (`AtMostOnce`) and
`AnsweredBeforeAck` (`AckedIsAnswered`). The last is not inductive, since an acknowledgement over a connection
that is gone does nothing, and an answer over one that is gone reaches nobody. `IInv` adds that only the latest
connection is open (`ConnectionInOrder`), that a request is with the goroutine of an open connection, and that
goroutine asks on the channel it came over or a later one (`DeliveryInOrder`), and that who can acknowledge has
answered, unless no answer was wanted or the Router was stopped (`HandlerInOrder`). So
the channel that takes the acknowledgement took the answer. `PrimaryInterfaceOnly` is only model-checked:
it is about `SelectSeq`, which the library defines by recursion, and so are `Reconnected` and
`RequestEnds`, which are liveness.

**Notes.** `NotifyClose` on a connection that is closed already ends the supervisor, taking
it for a graceful close, hence `sup = "watching"` in both liveness properties. A channel-level
close is not supervised. A `reconnect` that dials while `Stop` runs leaves its connection
open. A redelivery calls the providers a second time. The reference a client sends stands where there is
no manifest, and a stored one is stale after the provider's upgrade.

## 6. Users and sessions

`Accounts.tla` has the `users` and settings in BoltDB, and in Redis the `sessions`, the
per-user `index`, the counters of failed logins (`attempts`), the locks and the rate limit of actions.
Every request is a `worker`; a step is one BoltDB transaction or one Redis command, and
what a key has left of its lifetime is counted in hours (`Hour`).

| Action | Code |
|---|---|
| `Accept`, `Authenticate`, `RefreshSession`, `ExpireIndex`/`RefreshIndex` | `authMiddleware`, `adminOnly`, `SessionStore.Get`, `Refresh` |
| `CheckLock`, `Verify`, `CountFailure`, `StartWindow`, `Lock`, `DropAttempts`, `CreateSession`, `AddToIndex`, `NewSessionExpiry` | `handleLogin`, `SessionStore.Create` |
| `Revoke`, `RemoveFromIndex`, `DeleteKey`, `ListSessions`, `PruneIndex` | logout, revocation and the list with its pruning |
| `HasAnyUser`, `CheckName`, `CreateUser` | setup wizard, `handleCreateUser` |
| `ReadUser`, `CountAdmins`, `SaveUser`, `DeleteUser`, `ChangePassword` | `handleUpdateUser`, `handleDeleteUser`, `handleChangePassword` and their store calls |
| `SetSecurityPolicies`, `SetSetupCompleted` | the settings handlers |
| `BootstrapAdmin`, `ResetPassword` | the first administrator at boot, `griffino admin reset-password` (the daemon is down) |
| `LimitAction`, `StartLimit` | the rate limit of `handleTriggerAction` |
| `RedisFails`, `Crash`, `Hour`, `LockEnds`, `WindowEnds`, `LimitEnds` | faults and time |

Passwords are version numbers, `right` says whether the one offered is right. Three tokens, three
requests on two goroutines and one fault: enough for a login between the steps of a revocation,
and a save over a save. `overlapped` (two requests change users at once) and `repoliced` (the lifetime
was changed) are auxiliary, and mark what the properties except:

* two administrators who demote each other at once leave none (`handlers_user.go`: count, then
  save), and a save over a save undoes it: `LastAdmin` and `SavesOnlyItsChange` are about one
  edit at a time, `LiveIsListed` about all interleavings;
* a shorter policy cuts the index below what other sessions have left; live sessions keep the
  role they were created with;
* INCR and EXPIRE are two commands: a fault between them leaves a counter that never expires,
  so that a name stays close to its lockout for ever (no property: it is the fault's doing);
* two setup requests can both pass `HasAnyUser`; the reset looks for the name `admin` only.

**Theorems** (`AccountsProofs.tla`), for any finite set of users, any tokens, goroutines and password
versions, every finite lifetime of sessions (`handlers_settings.go:69` admits 1 to 8760 hours) and any bounds, as long
as there are an id and a token for every user: `TypeCorrect`, `AdministratorRemains` (`LastAdmin`),
`LiveSessionsListed` (`LiveIsListed`) under every interleaving, and the action property `SaveChangesItsRecord`
(`SavesOnlyItsChange`). None is inductive. `IInv` adds what a goroutine has in hand at each step
(`JobInOrder`), that a token belongs to one user and an index has only tokens of its own user
(`SessionsInOrder`), that without an overlap the one request that edits has the record as it is and has
counted another administrator (`UsersInOrder`), and that a live session is in its index and does not outlive
it, but for the one command that some goroutine is about to send (`ListsInOrder`): a login adds before it
sets the expiry, a renewal sets the session's before the index's, and a revocation removes from the index before it
deletes the key.

## 7. Infrastructure bootstrap

`Bootstrap.tla` follows a process from launch to serving: the key file (`LoadOrCreateKey`), the
database and its lock, `Manager.Bootstrap` (network, passwords, the two containers with their
image, start and network), the conflict dialogue, the wait for RabbitMQ, and shutdown. `Launch`
to `Open`, `EnsureNetwork` to `JoinNew`, `RemoveForeign`/`UseCustomName`/`Exit`,
`WaitForRabbitMQ`, `Connect`, `Signal` and `Shutdown` are in the order of `daemon.go` and
`system.go`; `CallFails` is any Docker or database call that ends the command, `Crash` any
moment before the signal handler is there; `MeddleWith`, `TakePort` and `LoseDatabase` are what
others do to the machine.

A password is the number of its generation; ports are one bit per service. Two processes let one meet the
other's lock and key; three passwords cover an upgrade and a database that was lost; two faults with one
change from outside and one refusal happen at every point.

**Run `bootstrap`.** `KeyOpensDatabase`, `ServesItsOwn`, `ForeignIsLeftAlone` and the liveness
`BootHeals`: launched again and allowed to remove what is in its way, the daemon serves, except
in the states `Hopeless` names. Fairness: a process runs on and the service manager launches it
again; refusals and faults are bounded. The auxiliary `raced`, `missed`, `told`, `lost` and
`disturbed` name the exceptions, each a fact about the code:

* two first launches may each write a key, before either has the database; a key file that was created and not
  written makes every later boot fail;
* nothing checks Redis's password in the boot, so a container with another one is noticed by its
  users only; the warning to delete it is printed once, by the process that made the new password up;
* a stored port that another program took later, and a broker container that outlived its
  database, end every boot; a custom container name never helps;
* a Router that fails to start is only logged, and on a fresh broker `griffino.actions` is then
  never declared, so every `Provision` fails at its last binding (section 8);
* `Shutdown` stops by name, without looking at the label.

**Theorems** (`BootstrapProofs.tla`), for any number of processes and any bound on faults, changes and
refusals, as long as two passwords can be generated: `TypeCorrect`, `KeyIsKept`
(`KeyOpensDatabase`), `ServesOwnContainers` (`ServesItsOwn`), and the action property `ForeignLeftAlone`
(`ForeignIsLeftAlone`). `IInv` adds that who is past `bolt.Open` has the lock (`LockInOrder`), that without a race
every key in memory is the one in the file (`KeyInOrder`), that a process works with the state the database
holds (`StateInOrder`), that Redis has that password or one of `missed`, `told` and `lost` explains it
(`RedisInOrder`), and how far a process is with each service: what it has passed is up, its own and joined
(`ContainersInOrder`). `BootHeals` is liveness and only checked.

## 8. Broker provisioning

`Provisioning.tla` takes `PluginLifecycle`'s step `Provision` apart: `HealthCheck`, `CreateUser`
or `SetUserPassword`, `SetPermissions`, `DeclareQueue` and `BindQueue` for each queue,
`ProvisionPlugin` or `SyncPlugin` (`pkg/broker/provisioner.go`, `client.go`, `pkg/redisacl`),
with `DropAcl` and `Teardown` for the way back, and `Boot`, `Bootstrap`, `StartRouter`, `Restore` for the
exchanges. Any call may fail, with its effect or without (`Attempted`), the daemon may die between
two, and `RedisRestarts` empties the ACL users, which are in memory only. One operation at a time.

**Run `provisioning`.** `RecordIsAccepted`: what the record of a running plugin says is what
RabbitMQ and Redis accept. `QueuesOfItsVersion`: it has its queues, bound. Two versions of which the
second moves a queue and adds one; four passwords (symmetric), so that a new one exists at every
start; two faults and two restarts. The auxiliary `unsynced` and `kept` name the exceptions: a sync
that failed and was only logged or a Redis that restarted under a running plugin, and a version switched under a
RuntimeInfo.

**Theorems** (`ProvisioningProofs.tla`), for any versions, queues and passwords and any bound on faults and restarts:
`TypeCorrect`, `Accepted` (`RecordIsAccepted`) and `Queued` (`QueuesOfItsVersion`). `IInv` adds that the
operation under way has the record in hand (`InHand`), which services accept its password after each call of
`Provision` (`Progress`), and, for the queues, that each binding of its version is there or still to come, and
that RuntimeInfo stands for bindings that are there (`QueuesInOrder`): a plugin that is
started again with a RuntimeInfo does not declare them again, which is what `kept` is about.

**Notes.** `SETUSER ... >password` adds to the passwords a user has, so a synced user may accept
two. A `Provision` that fails leaves its broker user; an uninstall from `failed` leaves the
accounts; queues stay after every teardown.

## 9. Packages and services

`BootSpec.tla` has what a boot spec says: `TopoSort` as in `lifecycle.go` (depth first from the main
service, any order of the map), `Validate`, `CheckBootSpec` and `IsAllowedToPull`. The closure `visit`
that calls itself is a function over the stack of its calls.
`Packages.tla` has one plugin's directories (each core file none, part or whole), images,
containers, the list of approved images and the record.

| Action | Code |
|---|---|
| `InstallRegistryPlugin`, `UpgradeRegistryPlugin` | the handlers up to the download |
| `CreateFile`, `CopyFile`, `FetchFails`, `VerifyVersion` | `fetchAndVerifyVersion`, file by file |
| `InstallFromRegistry` | `installFromRegistry` |
| `UpgradeGet`, `SwitchVersion`, `RemoveDirectory`, `RemoveImage`, `UpgradeFails` | `UpgradePlugin` and the handler's clean-up |
| `UninstallPlugin`, `DeletePlugin` | `UninstallPlugin` |
| `StartPlugin`, `PullImage`, `PullFails`, `SortServices`, `StartContainer`, `StartFails`, `UndoStart`, `MarkRunning` | `startCore`, `EnsureImages`, `StartContainers` |
| `StopPlugin`, `StopContainer`, `StopFails`, `Stopped` | `stopCore`, `container.StopPlugin` |
| `Restore`, `Crash`, `Revoke` | the boot; the daemon dies; an image is taken off the list |

**Run `packages`.** `RecordHasItsPackage`, `NoLeftovers` and `DependenciesFirst`, with two
failing calls, a crash and a revocation at every point, for three versions: one more
service and other images in the second, a dependency that does not exist in the third. One
request at a time: `MCPackagesRace` shows what two do. Removing a directory always succeeds.

**Theorems** (`PackagesProofs.tla`), for any versions, services, files and images and any bound on faults,
crashes and revocations. `PackagesAssumption` asks that a boot spec has finitely many services, each
with a list of dependencies, and that what stands for no record and no container is neither.

* `TopoSortHasEachOnce`: for every boot spec, cyclic or not, and every order of the map, a sort
  that does not fail returns each service once. `TopoSortIsTopological`: if no service depends on
  itself in any number of steps (`Acyclic`), each comes after all it depends on; the code does not look
  for cycles, so this is a hypothesis. Each step of the recursion makes a tuple of numbers less
  (services not visited, what is left of the loop, calls, dependencies left); a least
  counterexample, whose next step is not one, contradicts.
* `TypesHold` (`TypeOK`), for any number of requests at once; a start's list has each service once.
* With requests one at a time (`OneWorker`; `MCPackagesRace` shows why): `PackageStays`
  (`RecordHasItsPackage`) and `DiskIsClean` (`NoLeftovers`). `Invariance` adds that what a download writes and
  what a failed upgrade removes is never the directory of the record, that an uninstallation has deleted the record
  before it removes the directory (`JobsInOrder`), and that everything on disk is the installed version, what the
  request has in hand or what an install could not register (`NothingStray`).
* `ServicesStartInOrder` (`DependenciesFirst`), with `OneWorker` and every version `Acyclic`: also after
  failed starts, stops and crashes that left part of the services behind. `SInv` adds that a start is of
  the version in the record, and that each dependency of a service left to start is up or before it
  in the list.

**Notes.** A dependency cycle is broken silently by `topoSort` and not found by `Validate`. A
failed `Validate` of an install leaves its directory, which is why `NoLeftovers` excepts
`unregistered`. A pull whose stream breaks off counts as done. A daemon that is offline cannot
restore a plugin with sub-services, although the images are there, since the list of images is fetched first; a restart
through `StopThenStart` does not look at the list. A failed stop leaves a plugin `running` with
part of its services gone. `UninstallPlugin` calls `err.Error()` on a nil error when the record
vanished (`plugin.go:630`). The failure to download an optional file is ignored.
`CheckBootSpec`'s comment (`imagecheck.go:71-72`) is wider than its code.

## 10. Per-user configuration and Blueprints

`UserConfig.tla`: one user's configuration of one plugin, with a password at the top and a list
of accounts, each with a password. Tabs read it masked (`Load`), change it (`Edit`), and send it
whole: `Read` validates and fetches what is stored, `PreserveExistingPasswords` puts the
stored passwords back for the placeholders, `Save` writes. Run `user_config`: two tabs, a list of up to two,
a failing command, a switch of the plugin's version. `MaskedIsPreserved` holds at the place
where the password is stored; `MCUserConfigShift` shows the other places. A failed read is
dropped and taken for an empty configuration, so masked passwords are lost; a save between
another's read and write is overwritten.

**Theorems** (the last part of `RouterProofs.tla`; the two components share no name), for any tabs, accounts and passwords, any limits on the list and any bound
on edits, saves, faults and upgrades: `NoPlaceholderIsStored` (`ConfigTypeOK`: what is stored has no
placeholder and no refused item) and `MaskedStays` (`MaskedIsPreserved`). `CInv` adds that a POST which
has read what is stored, and that no other save has overtaken, holds the stored password for every
masked one at its place (`Restored`).
`UserConfigAssumption` only asks that the three marks differ from each other and from accounts and passwords.

`Blueprints.tla`: create, replace and delete by two users, with the lookup of the plugins of the
nodes one after the other (`ResolveNode`, which reads each plugin once and keeps its manifest),
the port check (`TypeCompatible` to `ValidateBlueprintPorts`) and the save, while plugins are installed, upgraded and
removed (`ChangePlugin`). Run `blueprints`: `SavedWasChecked`, with two workers, two plugins of
two versions and three drafts (two nodes of one plugin; a built-in node; a capability without a
schema). `seen` and `checkedBy` are auxiliary: the versions a request could have seen. A saved
Blueprint is not checked again when a plugin is upgraded later; two PUTs lose one of them.

**Theorems** (`BlueprintsProofs.tla`), for any requests, plugins, versions and capabilities, any drafts that are lists of nodes, and
any bound on changes: `TypeCorrect` and `OneVersionOfEach` (`SavedWasChecked`). `Invariance` says that each manifest a
request has cached is of a version it could have read, and that the schemas it holds are those of the nodes it
has passed, out of these manifests: so the check at the end is one for one version of each plugin.

## 11. Proved, and only model-checked

Proved by TLAPS, for every value of the constants that the named assumptions allow: the theorems of sections 3 to
10. Each rests on an inductive invariant that TLC checked on small instances first.
Hypotheses beyond the assumptions: `DeliveredOnce`, `NoExit`, `WellNested`, `OneAtEachNode` and
`EachSourceOnce`, or `KeepsApart` for both (section 3), `OneAtATime`, `Harmless` and `DropsNoPassword` (section 4), `OneWorker`
and `Acyclic` (section 9). Each is there for a reason: a configuration of section 2 breaks the property without it; for
`DeliveredOnce` it is enough to allow `MCWalk` a redelivery or a crash, for `EachSourceOnce`
to put a node that two branches reach (as `MCSharedNode`'s) before a JOIN, for `WellNested` an IF
that goes around a JOIN on one of two branches, and for `Acyclic` two services that depend on each other.

Only model-checked, on the instances of the runs:

* all liveness, since fairness and ENABLED are beyond the prover;
* `LoopBodyRunsExactly`, which is about the Blueprint of its run;
* `PrimaryInterfaceOnly`, which is about the library's `SelectSeq`, defined by recursion;
* `CredentialsAgree` under the interleavings of its run.

## 12. Not modelled

See `components` in `PROJECT.json` for the list with reasons; in short: parsing, formatting,
templates, installers, generated documents, metrics and log streams, and single-record reads and writes. Of
modelled components: `Task.Context`, several Tasks per trigger, Blueprints edited under a
running Task, the cipher, and `StopThenStartFromInstance` (`plugin.go:834`), which nothing calls.

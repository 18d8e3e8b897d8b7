------------------------ MODULE PluginLifecycleProofs ------------------------
(***************************************************************************)
(* Theorems about PluginLifecycle, for any number of requests at once, any *)
(* versions and any bound on the faults, outages and exits.                *)
(***************************************************************************)
EXTENDS PluginLifecycle, TLAPS

Steps == StartSteps \union UndoSteps \union StopSteps \union OtherSteps

\* What stopCore may be followed by.
Thens == {"none", "restart", "delete", "upgradeReload", "reinstallReload"}
Plans == Thens \union {"network", "env", "pull", "start"}

\* The steps at which a process needs the instance in its hand.
Holders == {"provision", "network", "env", "pull", "containers", "failSave",
            "config", "upgrade", "reinstall", "install"} \union StopSteps

\* The steps at which it needs the version it is to switch to.
Switching == {"upgradeReload", "upgrade", "reinstallReload", "reinstall"}

\* A process at a step has in its hands what the rest of its code reads.
Fits(step, instance, then, v) ==
  /\ step \in Holders => instance \in Instance
  /\ step = "config" => instance.config < MaxConfig
  /\ step \in StopSteps => then \in Thens
  /\ step \in Switching \/ (step \in StopSteps /\ then \in Switching) => v \in Version

WorkOK ==
  /\ pc   \in [Process -> Steps]
  /\ inst \in [Process -> Instance \union {NoRecord}]
  /\ cred \in [Process -> Password]
  /\ plan \in [Process -> Plans]
  /\ goal \in [Process -> Version \union {NoVersion}]
  /\ \A p \in Process : Fits(pc[p], inst[p], plan[p], goal[p])

StoreOK ==
  /\ record \in Instance \union {NoRecord}
  /\ container \in Container \union {NoContainer}
  /\ network \in BOOLEAN
  /\ account \in Password
  /\ mode \in {"down", "boot", "reset", "restore", "up", "stopping", "halting",
              "haltingDev", "marking"}

HealthOK ==
  /\ check \in {"idle", "inspect", "recovered", "down", "recoveredSave", "downSave"}
  /\ seen \in Instance \union {NoRecord}
  /\ check \in {"inspect", "recoveredSave", "downSave"} => seen # NoRecord

BoundsOK ==
  /\ faults \in 0 .. MaxFaults
  /\ outages \in 0 .. MaxOutages
  /\ exits \in 0 .. MaxExits

IInv == WorkOK /\ StoreOK /\ HealthOK /\ BoundsOK

\* The inductive invariant gives the type invariant.
LEMMA IInvTypes == IInv => TypeOK
BY DEF IInv, WorkOK, StoreOK, HealthOK, BoundsOK, TypeOK, Steps, Plans, Thens

\* A process moves on with these things in its hands.
Moves(p, step, instance, c, then, v) ==
  /\ pc'   = [pc   EXCEPT ![p] = step]
  /\ inst' = [inst EXCEPT ![p] = instance]
  /\ cred' = [cred EXCEPT ![p] = c]
  /\ plan' = [plan EXCEPT ![p] = then]
  /\ goal' = [goal EXCEPT ![p] = v]

\* If they fit the step, the processes stay in order.
LEMMA MovesOK ==
  ASSUME WorkOK, NEW p \in Process, NEW step \in Steps,
         NEW instance \in Instance \union {NoRecord}, NEW c \in Password,
         NEW then \in Plans, NEW v \in Version \union {NoVersion},
         Fits(step, instance, then, v), Moves(p, step, instance, c, then, v)
  PROVE  WorkOK'
<1>1. \A q \in Process : Fits(pc'[q], inst'[q], plan'[q], goal'[q])
  BY DEF WorkOK, Moves
<1>2. QED
  BY <1>1 DEF WorkOK, Moves, Fits

\* A process that only goes to another step.
LEMMA GotoOK ==
  ASSUME WorkOK, NEW p \in Process, NEW step \in Steps, Goto(p, step),
         Fits(step, inst[p], plan[p], goal[p])
  PROVE  WorkOK'
<1>1. Moves(p, step, inst[p], cred[p], plan[p], goal[p])
  BY DEF WorkOK, Moves, Goto
<1>2. /\ inst[p] \in Instance \union {NoRecord}
      /\ cred[p] \in Password
      /\ plan[p] \in Plans
      /\ goal[p] \in Version \union {NoVersion}
  BY DEF WorkOK
<1>3. QED
  BY <1>1, <1>2, MovesOK

\* A process that goes on with an instance.
LEMMA GotoWithOK ==
  ASSUME WorkOK, NEW p \in Process, NEW step \in Steps, NEW instance \in Instance,
         GotoWith(p, step, instance), Fits(step, instance, plan[p], goal[p])
  PROVE  WorkOK'
<1>1. Moves(p, step, instance, cred[p], plan[p], goal[p])
  BY DEF WorkOK, Moves, GotoWith
<1>2. /\ cred[p] \in Password
      /\ plan[p] \in Plans
      /\ goal[p] \in Version \union {NoVersion}
  BY DEF WorkOK
<1>3. QED
  BY <1>1, <1>2, MovesOK

\* A process that is done.
LEMMA ReturnOK ==
  ASSUME WorkOK, NEW p \in Process, Return(p)
  PROVE  WorkOK'
<1>1. Moves(p, "idle", NoRecord, NoCredential, "none", NoVersion)
  BY DEF Moves, Return
<1>2. "idle" \in Steps /\ Fits("idle", NoRecord, "none", NoVersion)
  BY DEF Steps, OtherSteps, Fits, Holders, StopSteps, Switching
<1>3. NoCredential \in Password /\ "none" \in Plans
  BY DEF Password, Plans, Thens
<1>4. QED
  BY <1>1, <1>2, <1>3, MovesOK

\* Nobody moves.
LEMMA StayOK == WorkOK /\ UNCHANGED local => WorkOK'
BY DEF WorkOK, local, Fits

-----------------------------------------------------------------------------
(* The instances that are saved are instances. *)

\* The record of an installed plugin.
LEMMA InstalledType == IInv /\ Installed => record \in Instance
BY DEF IInv, StoreOK, Installed

\* An instance with another status is an instance.
LEMMA WithStatusType ==
  ASSUME NEW i \in Instance, NEW s \in Statuses
  PROVE  [i EXCEPT !.status = s] \in Instance
BY DEF Instance

\* One with another RuntimeInfo is one.
LEMMA WithInfoType ==
  ASSUME NEW i \in Instance, NEW c \in Password
  PROVE  [i EXCEPT !.info = c] \in Instance
BY DEF Instance

\* So is a new plugin's.
LEMMA NewType ==
  ASSUME NEW v \in Version, NEW dev \in BOOLEAN
  PROVE  New(v, dev) \in Instance
BY BoundsAssumption DEF New, Instance, Statuses, Password, Config

\* So is the record the store may hold at first.
LEMMA ReadyType ==
  ASSUME NEW v \in Version, NEW dev \in BOOLEAN
  PROVE  ReadyRecord(v, dev) \in Instance
<1>1. MaxConfig \in Config /\ "ready" \in Statuses
  BY BoundsAssumption DEF Config, Statuses
<1>2. New(v, dev) \in Instance
  BY NewType
<1>3. QED
  BY <1>1, <1>2 DEF ReadyRecord, Instance

\* So is what stopCore saves,
LEMMA StoppedType ==
  ASSUME NEW i \in Instance
  PROVE  Stopped(i) \in Instance
BY DEF Stopped, Instance, Statuses, Password

\* what handleConfigPlugin saves, within the bound on saves,
LEMMA ConfiguredType ==
  ASSUME NEW i \in Instance, i.config < MaxConfig
  PROVE  Configured(i) \in Instance
<1>1. i.config + 1 \in Config
  BY BoundsAssumption DEF Instance, Config
<1>2. DEFINE s == IF i.status = "pending_setup" THEN "ready" ELSE i.status
<1>3. s \in Statuses
  BY DEF Instance, Statuses
<1>4. DEFINE d == i.status = "running"
<1>5. d \in BOOLEAN
  OBVIOUS
<1>6. Configured(i) = [i EXCEPT !.config = i.config + 1, !.status = s, !.dirty = d]
  BY DEF Configured, Instance
<1>7. QED
  <2> HIDE DEF s, d
  <2> QED
    BY <1>1, <1>3, <1>5, <1>6 DEF Instance

\* and what UpgradePlugin saves.
LEMMA UpgradedType ==
  ASSUME NEW p \in Process, inst[p] \in Instance, goal[p] \in Version
  PROVE  Upgraded(p) \in Instance
<1> DEFINE d == missingRequiredConfig(inst[p], goal[p])
           s == IF d THEN "ready" ELSE IF WasRunning(p) THEN "stopped"
                ELSE IF inst[p].status = "failed" THEN "ready" ELSE inst[p].status
<1>1. s \in Statuses
  BY DEF Instance, Statuses
<1>2. d \in BOOLEAN
  BY DEF missingRequiredConfig
<1>3. Upgraded(p) = [inst[p] EXCEPT !.dir = goal[p], !.dirty = d, !.status = s]
  BY DEF Upgraded, Instance
<1> HIDE DEF d, s
<1>4. QED
  BY <1>1, <1>2, <1>3 DEF Instance

\* A container startCore creates.
LEMMA NewContainerType ==
  ASSUME NEW p \in Process, NEW up \in BOOLEAN, inst[p] \in Instance, cred[p] \in Password
  PROVE  NewContainer(p, up) \in Container
BY DEF NewContainer, Container, Instance

\* A container that is started or stopped.
LEMMA WithUpType ==
  ASSUME NEW k \in Container, NEW up \in BOOLEAN
  PROVE  [k EXCEPT !.up = up] \in Container
BY DEF Container

\* UpdateStatus leaves a record or none.
LEMMA StatusOK ==
  ASSUME IInv, NEW s \in Statuses, UpdateStatus(s)
  PROVE  record' \in Instance \union {NoRecord}
BY InstalledType, WithStatusType DEF IInv, StoreOK, UpdateStatus, Installed

\* The initial state.
LEMMA InitIInv == Init => IInv
<1> SUFFICES ASSUME Init PROVE IInv
  OBVIOUS
<1>1. WorkOK
  BY DEF Init, WorkOK, Password, Plans, Thens, Fits, Holders, Switching, Steps, StartSteps,
     UndoSteps, StopSteps, OtherSteps
<1>2. record \in Instance \union {NoRecord}
  BY ReadyType DEF Init
<1>3. StoreOK
  BY <1>2 DEF Init, StoreOK, Password
<1>4. HealthOK
  BY DEF Init, HealthOK
<1>5. BoundsOK
  BY BoundsAssumption DEF Init, BoundsOK
<1>6. QED
  BY <1>1, <1>3, <1>4, <1>5 DEF IInv
-----------------------------------------------------------------------------
(* What a step leaves to show, once the processes are in order. *)

\* Nothing, if only processes moved.
LEMMA UnchangedOK ==
  ASSUME IInv, WorkOK', UNCHANGED <<record, docker, account, mode, health, bounds>>
  PROVE  IInv'
BY DEF IInv, StoreOK, HealthOK, BoundsOK, docker, health, bounds

\* A call that works or fails stays within the bounds.
LEMMA BoundsStep ==
  ASSUME IInv, Works \/ Fails
  PROVE  BoundsOK'
BY BoundsAssumption DEF IInv, BoundsOK, Works, Fails, bounds

\* The types of what was written, if a process wrote.
LEMMA StoreStep ==
  ASSUME IInv, WorkOK', Works \/ Fails, UNCHANGED <<mode, health>>,
         record' \in Instance \union {NoRecord},
         container' \in Container \union {NoContainer},
         network' \in BOOLEAN, account' \in Password
  PROVE  IInv'
<1>1. BoundsOK'
  BY BoundsStep
<1>2. QED
  BY <1>1 DEF IInv, StoreOK, HealthOK, health

\* A request that stops the plugin first.
LEMMA BeginStopOK ==
  ASSUME IInv, Installed, NEW p \in Process, NEW then \in Thens, BeginStop(p, then),
         NEW v \in Version \union {NoVersion}, then \in Switching => v \in Version,
         goal' = [goal EXCEPT ![p] = v]
  PROVE  WorkOK'
<1>1. WorkOK /\ record \in Instance
  BY InstalledType DEF IInv
<1>2. Moves(p, "stopContainers", record, cred[p], then, v)
  BY <1>1 DEF WorkOK, Moves, BeginStop
<1>3. "stopContainers" \in Steps /\ Fits("stopContainers", record, then, v)
  BY <1>1 DEF Steps, Fits, StopSteps, Holders, Switching
<1>4. cred[p] \in Password /\ then \in Plans
  BY <1>1 DEF WorkOK, Plans
<1>5. QED
  BY <1>1, <1>2, <1>3, <1>4, MovesOK

\* The same with the version in hand kept.
LEMMA BeginStopStays ==
  ASSUME IInv, Installed, NEW p \in Process, NEW then \in Thens \ Switching,
         BeginStop(p, then), UNCHANGED goal
  PROVE  WorkOK'
<1>1. goal' = [goal EXCEPT ![p] = goal[p]] /\ goal[p] \in Version \union {NoVersion}
  BY DEF IInv, WorkOK
<1>2. QED
  BY <1>1, BeginStopOK

\* A request that replaces the version.
LEMMA ReplaceOK ==
  ASSUME IInv, Installed, NEW p \in Process, NEW v \in Version,
         NEW step \in {"upgrade", "reinstall"},
         NEW reload \in {"upgradeReload", "reinstallReload"}, Replace(p, step, reload, v)
  PROVE  IInv'
<1>1. WorkOK /\ record \in Instance
  BY InstalledType DEF IInv
<1>2. UNCHANGED <<record, docker, account, mode, health, bounds>>
  BY DEF Replace
<1>3. CASE BeginStop(p, reload)
  <2>1. reload \in Thens
    BY DEF Thens
  <2>2. goal' = [goal EXCEPT ![p] = v]
    BY DEF Replace
  <2>3. WorkOK'
    BY <1>3, <2>1, <2>2, BeginStopOK
  <2>4. QED
    BY <1>2, <2>3, UnchangedOK
<1>4. CASE ~BeginStop(p, reload)
  <2>1. Moves(p, step, record, cred[p], plan[p], v)
    BY <1>1, <1>4 DEF WorkOK, Moves, Replace
  <2>2. step \in Steps /\ Fits(step, record, plan[p], v)
    BY <1>1 DEF Steps, OtherSteps, Fits, StopSteps, Holders, Switching
  <2>3. cred[p] \in Password /\ plan[p] \in Plans
    BY <1>1 DEF WorkOK
  <2>4. WorkOK'
    BY <1>1, <2>1, <2>2, <2>3, MovesOK
  <2>5. QED
    BY <1>2, <2>4, UnchangedOK
<1>5. QED
  BY <1>3, <1>4
-----------------------------------------------------------------------------
(* Every step keeps the inductive invariant. *)

\* Taking a request.
LEMMA RequestIInv ==
  ASSUME IInv, NEW p \in Process, Request(p)
  PROVE  IInv'
<1>0. WorkOK /\ (Installed => record \in Instance)
  BY InstalledType DEF IInv
<1>1. CASE Install(p)
  <2>1. PICK v \in Version, dev \in BOOLEAN : GotoWith(p, "install", New(v, dev))
    BY <1>1 DEF Install
  <2>2. WorkOK'
    BY <1>0, <2>1, GotoWithOK, NewType
       DEF Fits, Holders, Switching, Steps, StopSteps, OtherSteps
  <2>3. QED
    BY <1>1, <2>2, UnchangedOK DEF Install
<1>2. CASE Start(p)
  <2>1. WorkOK'
    BY <1>0, <1>2, GotoWithOK
       DEF Start, HasStatus, Fits, Holders, Switching, Steps, StartSteps, StopSteps
  <2>2. QED
    BY <1>2, <2>1, UnchangedOK DEF Start
<1>3. CASE Stop(p)
  <2>1. Installed /\ BeginStop(p, "none") /\ UNCHANGED goal /\ "none" \in Thens \ Switching
    BY <1>3 DEF Stop, Thens, Switching
  <2>2. WorkOK'
    BY <2>1, BeginStopStays
  <2>3. QED
    BY <1>3, <2>2, UnchangedOK DEF Stop
<1>4. CASE ConfigGet(p)
  <2>1. WorkOK'
    BY <1>0, <1>4, GotoWithOK
       DEF ConfigGet, Fits, Holders, Switching, Steps, StopSteps, OtherSteps
  <2>2. QED
    BY <1>4, <2>1, UnchangedOK DEF ConfigGet
<1>5. CASE Uninstall(p)
  <2>1. CASE BeginStop(p, "delete") /\ UNCHANGED goal
    <3>1. Installed /\ "delete" \in Thens \ Switching
      BY <1>5 DEF Uninstall, Thens, Switching
    <3>2. WorkOK'
      BY <2>1, <3>1, BeginStopStays
    <3>3. QED
      BY <1>5, <3>2, UnchangedOK DEF Uninstall
  <2>2. CASE Goto(p, "delete")
    <3>1. WorkOK'
      BY <1>0, <2>2, GotoOK DEF Fits, Holders, Switching, Steps, StopSteps, OtherSteps
    <3>2. QED
      BY <1>5, <3>1, UnchangedOK DEF Uninstall
  <2>3. QED
    BY <1>5, <2>1, <2>2 DEF Uninstall
<1>6. CASE Upgrade(p)
  <2>1. PICK v \in Version : Replace(p, "upgrade", "upgradeReload", v)
    BY <1>6 DEF Upgrade
  <2>2. QED
    BY <1>6, <2>1, ReplaceOK DEF Upgrade
<1>7. CASE ReinstallDev(p)
  <2>1. PICK v \in Version : Replace(p, "reinstall", "reinstallReload", v)
    BY <1>7 DEF ReinstallDev
  <2>2. QED
    BY <1>7, <2>1, ReplaceOK DEF ReinstallDev
<1>8. QED
  BY <1>1, <1>2, <1>3, <1>4, <1>5, <1>6, <1>7 DEF Request

\* What a failed stage of startCore leaves in the hands of its process.
LEMMA UndoOK ==
  ASSUME IInv, NEW p \in Process, NEW stage \in {"network", "env", "pull", "start"},
         Undo(p, stage)
  PROVE  WorkOK' /\ (Works \/ Fails)
<1>1. WorkOK
  BY DEF IInv
<1>2. Moves(p, "undoAccount", inst[p], cred[p], stage, goal[p])
  BY <1>1 DEF WorkOK, Moves, Undo
<1>3. "undoAccount" \in Steps /\ Fits("undoAccount", inst[p], stage, goal[p])
  BY DEF Steps, UndoSteps, Fits, Holders, StopSteps, Switching
<1>4. /\ inst[p] \in Instance \union {NoRecord}
      /\ cred[p] \in Password
      /\ goal[p] \in Version \union {NoVersion}
  BY <1>1 DEF WorkOK
<1>5. WorkOK'
  BY <1>1, <1>2, <1>3, <1>4, MovesOK DEF Plans
<1>6. QED
  BY <1>5 DEF Undo

\* startCore and its clean-up.
LEMMA StartCoreIInv ==
  ASSUME IInv, NEW p \in Process, StartCore(p)
  PROVE  IInv'
<1>0. /\ WorkOK /\ StoreOK
      /\ Installed => record \in Instance
      /\ pc[p] \in Holders => inst[p] \in Instance
      /\ cred[p] \in Password
  BY InstalledType DEF IInv, WorkOK, Fits
<1> USE DEF docker
<1>1. CASE Provision(p)
  <2>1. inst[p].info \in Password
    BY <1>0, <1>1 DEF Provision, Holders, Instance
  <2>2. PICK c \in Credential :
          \/ /\ Works
             /\ account' = c
             /\ pc'   = [pc EXCEPT ![p] = "network"]
             /\ cred' = [cred EXCEPT ![p] = c]
             /\ UNCHANGED <<inst, plan, goal>>
          \/ /\ Fails
             /\ account' \in {account, c}
             /\ Return(p)
    BY <1>1, <2>1 DEF Provision, Fresh, Password
  <2>3. account' \in Password
    BY <1>0, <2>2 DEF StoreOK, Password
  <2>4. CASE Return(p)
    <3>1. WorkOK'
      BY <1>0, <2>4, ReturnOK
    <3>2. QED
      BY <1>0, <1>1, <2>2, <2>3, <3>1, StoreStep DEF Provision, StoreOK
  <2>5. CASE ~Return(p)
    <3>1. Moves(p, "network", inst[p], c, plan[p], goal[p])
      BY <1>0, <2>2, <2>5 DEF WorkOK, Moves
    <3>2. "network" \in Steps /\ Fits("network", inst[p], plan[p], goal[p])
      BY <1>0, <1>1 DEF Provision, Holders, Steps, StartSteps, Fits, StopSteps, Switching
    <3>3. c \in Password /\ plan[p] \in Plans /\ goal[p] \in Version \union {NoVersion}
      BY <1>0 DEF WorkOK, Password
    <3>4. WorkOK'
      BY <1>0, <3>1, <3>2, <3>3, MovesOK DEF WorkOK
    <3>5. QED
      BY <1>0, <1>1, <2>2, <2>3, <3>4, StoreStep DEF Provision, StoreOK
  <2>6. QED
    BY <2>4, <2>5
<1>2. CASE CreateNetwork(p)
  <2>1. (Works \/ Fails) /\ network' \in BOOLEAN
    BY <1>0, <1>2 DEF CreateNetwork, Undo, StoreOK
  <2>2. CASE Goto(p, "env")
    <3>1. WorkOK'
      BY <1>0, <1>2, <2>2, GotoOK
         DEF CreateNetwork, Fits, Holders, StopSteps, Switching, Steps, StartSteps
    <3>2. QED
      BY <1>0, <1>2, <2>1, <3>1, StoreStep DEF CreateNetwork, StoreOK
  <2>3. CASE Undo(p, "network")
    <3>1. WorkOK'
      BY <2>3, UndoOK
    <3>2. QED
      BY <1>0, <1>2, <2>1, <3>1, StoreStep DEF CreateNetwork, StoreOK
  <2>4. QED
    BY <1>2, <2>2, <2>3 DEF CreateNetwork
<1>3. CASE BuildEnv(p)
  <2>1. (Works \/ Fails) /\ record' \in Instance \union {NoRecord}
    BY <1>0, <1>3, StatusOK DEF BuildEnv, Undo, StoreOK, Statuses
  <2>2. CASE Goto(p, "pull")
    <3>1. WorkOK'
      BY <1>0, <1>3, <2>2, GotoOK
         DEF BuildEnv, Fits, Holders, StopSteps, Switching, Steps, StartSteps
    <3>2. QED
      BY <1>0, <1>3, <2>1, <3>1, StoreStep DEF BuildEnv, StoreOK
  <2>3. CASE Undo(p, "env")
    <3>1. WorkOK'
      BY <2>3, UndoOK
    <3>2. QED
      BY <1>0, <1>3, <2>1, <3>1, StoreStep DEF BuildEnv, StoreOK
  <2>4. QED
    BY <1>3, <2>2, <2>3 DEF BuildEnv
<1>4. CASE PullImages(p)
  <2>1. (Works \/ Fails) /\ record' \in Instance \union {NoRecord}
    BY <1>0, <1>4, StatusOK DEF PullImages, Undo, StoreOK, Statuses
  <2>2. CASE Goto(p, "containers")
    <3>1. WorkOK'
      BY <1>0, <1>4, <2>2, GotoOK
         DEF PullImages, Fits, Holders, StopSteps, Switching, Steps, StartSteps
    <3>2. QED
      BY <1>0, <1>4, <2>1, <3>1, StoreStep DEF PullImages, StoreOK
  <2>3. CASE Undo(p, "pull")
    <3>1. WorkOK'
      BY <2>3, UndoOK
    <3>2. QED
      BY <1>0, <1>4, <2>1, <3>1, StoreStep DEF PullImages, StoreOK
  <2>4. QED
    BY <1>4, <2>2, <2>3 DEF PullImages
<1>5. CASE StartContainers(p)
  <2>1. inst[p] \in Instance
    BY <1>0, <1>5 DEF StartContainers, Holders
  <2>2. NewContainer(p, TRUE) \in Container /\ NewContainer(p, FALSE) \in Container
    BY <1>0, <2>1, NewContainerType
  <2>3. StartedContainer(p) \in Container
    BY <1>0, <2>2, WithUpType DEF StartedContainer, StoreOK
  <2>4. CASE Works /\ container' = StartedContainer(p) /\ Goto(p, "info")
    <3>1. WorkOK'
      BY <1>0, <2>4, GotoOK DEF Fits, Holders, StopSteps, Switching, Steps, StartSteps
    <3>2. QED
      BY <1>0, <1>5, <2>3, <2>4, <3>1, StoreStep DEF StartContainers, StoreOK
  <2>5. CASE /\ Undo(p, "start")
             /\ container' \in {container} \union
                  {c \in {NewContainer(p, FALSE)} : container = NoContainer}
    <3>1. WorkOK' /\ (Works \/ Fails)
      BY <2>5, UndoOK
    <3>2. container' \in Container \union {NoContainer}
      BY <1>0, <2>2, <2>5 DEF StoreOK
    <3>3. QED
      BY <1>0, <1>5, <3>1, <3>2, StoreStep DEF StartContainers, StoreOK
  <2>6. QED
    BY <1>5, <2>4, <2>5 DEF StartContainers
<1>6. CASE UpdateRuntimeInfo(p)
  <2>1. record' \in Instance \union {NoRecord}
    BY <1>0, <1>6, WithInfoType DEF UpdateRuntimeInfo, StoreOK
  <2>2. WorkOK'
    BY <1>0, <1>6, GotoOK, ReturnOK
       DEF UpdateRuntimeInfo, Fits, Holders, StopSteps, Switching, Steps, StartSteps
  <2>3. QED
    BY <1>0, <1>6, <2>1, <2>2, StoreStep DEF UpdateRuntimeInfo, StoreOK, Works
<1>7. CASE MarkRunning(p)
  <2>1. record' \in Instance \union {NoRecord}
    BY <1>7, StatusOK DEF MarkRunning, Statuses
  <2>2. WorkOK'
    BY <1>0, <1>7, ReturnOK DEF MarkRunning
  <2>3. QED
    BY <1>0, <1>7, <2>1, <2>2, StoreStep DEF MarkRunning, StoreOK, Works
<1>8. CASE UndoAccount(p)
  <2>1. (Works \/ Fails) /\ account' \in Password
    BY <1>0, <1>8 DEF UndoAccount, StoreOK, Password
  <2>2. WorkOK'
    BY <1>0, <1>8, GotoOK, ReturnOK
       DEF UndoAccount, Fits, Holders, StopSteps, Switching, Steps, UndoSteps
  <2>3. QED
    BY <1>0, <1>8, <2>1, <2>2, StoreStep DEF UndoAccount, StoreOK
<1>9. CASE UndoContainers(p)
  <2>1. (Works \/ Fails) /\ container' \in Container \union {NoContainer}
    BY <1>0, <1>9, WithUpType DEF UndoContainers, StopPluginFails, StoreOK
  <2>2. WorkOK'
    BY <1>0, <1>9, GotoOK
       DEF UndoContainers, Fits, Holders, StopSteps, Switching, Steps, UndoSteps
  <2>3. QED
    BY <1>0, <1>9, <2>1, <2>2, StoreStep DEF UndoContainers, StoreOK
<1>10. CASE UndoNetwork(p)
  <2>1. (Works \/ Fails) /\ network' \in BOOLEAN
    BY <1>0, <1>10 DEF UndoNetwork, RemoveNetwork, StoreOK, IsUp
  <2>2. WorkOK'
    BY <1>0, <1>10, GotoOK, ReturnOK
       DEF UndoNetwork, Fits, Holders, StopSteps, Switching, Steps, UndoSteps
  <2>3. QED
    BY <1>0, <1>10, <2>1, <2>2, StoreStep DEF UndoNetwork, StoreOK
<1>11. CASE SetFailedGet(p)
  <2>1. WorkOK'
    BY <1>0, <1>11, GotoWithOK, ReturnOK
       DEF SetFailedGet, Fits, Holders, StopSteps, Switching, Steps, UndoSteps
  <2>2. QED
    BY <1>11, <2>1, UnchangedOK DEF SetFailedGet
<1>12. CASE SetFailedSave(p)
  <2>1. record' \in Instance \union {NoRecord}
    BY <1>0, <1>12, WithStatusType DEF SetFailedSave, Holders, Statuses
  <2>2. WorkOK'
    BY <1>0, <1>12, ReturnOK DEF SetFailedSave
  <2>3. QED
    BY <1>0, <1>12, <2>1, <2>2, StoreStep DEF SetFailedSave, StoreOK, Works
<1>13. QED
  BY <1>1, <1>2, <1>3, <1>4, <1>5, <1>6, <1>7, <1>8, <1>9, <1>10, <1>11, <1>12
     DEF StartCore

\* stopCore.
LEMMA StopCoreIInv ==
  ASSUME IInv, NEW p \in Process, StopCore(p)
  PROVE  IInv'
<1>0. /\ WorkOK /\ StoreOK
      /\ pc[p] \in StopSteps => inst[p] \in Instance /\ plan[p] \in Thens
      /\ pc[p] \in StopSteps /\ plan[p] \in Switching => goal[p] \in Version
  BY DEF IInv, WorkOK, Fits, Holders
<1> USE DEF docker
<1>1. CASE StopContainers(p)
  <2>1. (Works \/ Fails) /\ container' \in Container \union {NoContainer}
    BY <1>0, <1>1, WithUpType DEF StopContainers, StopPluginFails, StoreOK
  <2>2. WorkOK'
    BY <1>0, <1>1, GotoOK, ReturnOK
       DEF StopContainers, Fits, Holders, StopSteps, Switching, Steps
  <2>3. QED
    BY <1>0, <1>1, <2>1, <2>2, StoreStep DEF StopContainers, StoreOK
<1>2. CASE StopNetwork(p)
  <2>1. (Works \/ Fails) /\ network' \in BOOLEAN
    BY <1>0, <1>2 DEF StopNetwork, RemoveNetwork, StoreOK, IsUp
  <2>2. WorkOK'
    BY <1>0, <1>2, GotoOK DEF StopNetwork, Fits, Holders, StopSteps, Switching, Steps
  <2>3. QED
    BY <1>0, <1>2, <2>1, <2>2, StoreStep DEF StopNetwork, StoreOK
<1>3. CASE StopAccount(p)
  <2>1. (Works \/ Fails) /\ account' \in Password
    BY <1>0, <1>3 DEF StopAccount, StoreOK, Password
  <2>2. WorkOK'
    BY <1>0, <1>3, GotoOK DEF StopAccount, Fits, Holders, StopSteps, Switching, Steps
  <2>3. QED
    BY <1>0, <1>3, <2>1, <2>2, StoreStep DEF StopAccount, StoreOK
<1>4. CASE StopSave(p)
  <2>1. inst[p] \in Instance /\ plan[p] \in Thens
    BY <1>0, <1>4 DEF StopSave, StopSteps
  <2>2. record' \in Instance \union {NoRecord}
    BY <1>4, <2>1, StoppedType DEF StopSave
  <2>3. CASE Return(p)
    <3>1. WorkOK'
      BY <1>0, <2>3, ReturnOK
    <3>2. QED
      BY <1>0, <1>4, <2>2, <3>1, StoreStep DEF StopSave, StoreOK, Works
  <2>4. CASE plan[p] # "none" /\ Goto(p, plan[p])
    <3>1. plan[p] \in Steps \ (Holders \union StopSteps \union {"config"})
      BY <2>1, <2>4 DEF Thens, Steps, OtherSteps, Holders, StopSteps
    <3>2. Fits(plan[p], inst[p], plan[p], goal[p])
      BY <1>0, <1>4, <3>1 DEF StopSave, StopSteps, Fits
    <3>3. WorkOK'
      BY <1>0, <2>4, <3>1, <3>2, GotoOK
    <3>4. QED
      BY <1>0, <1>4, <2>2, <3>3, StoreStep DEF StopSave, StoreOK, Works
  <2>5. QED
    BY <1>4, <2>3, <2>4 DEF StopSave
<1>5. QED
  BY <1>1, <1>2, <1>3, <1>4 DEF StopCore

\* All the goroutines of requests.
LEMMA ContinueIInv ==
  ASSUME IInv, NEW p \in Process, Continue(p)
  PROVE  IInv'
<1>0. /\ WorkOK /\ StoreOK
      /\ Installed => record \in Instance
      /\ pc[p] \in Holders => inst[p] \in Instance
      /\ pc[p] = "config" => inst[p].config < MaxConfig
      /\ pc[p] \in Switching => goal[p] \in Version
  BY InstalledType DEF IInv, WorkOK, Fits
<1> USE DEF docker
<1>1. CASE StartCore(p)
  BY <1>1, StartCoreIInv
<1>2. CASE StopCore(p)
  BY <1>2, StopCoreIInv
<1>3. CASE SaveInstall(p)
  <2>1. record' \in Instance \union {NoRecord} /\ WorkOK'
    BY <1>0, <1>3, ReturnOK DEF SaveInstall, Holders
  <2>2. QED
    BY <1>0, <1>3, <2>1, StoreStep DEF SaveInstall, StoreOK, Works
<1>4. CASE ConfigSave(p)
  <2>1. Configured(inst[p]) \in Instance
    BY <1>0, <1>4, ConfiguredType DEF ConfigSave, Holders
  <2>2. WorkOK'
    BY <1>0, <1>4, <2>1, GotoOK, GotoWithOK, ReturnOK
       DEF ConfigSave, Fits, Holders, StopSteps, Switching, Steps, StartSteps, OtherSteps
  <2>3. QED
    BY <1>0, <1>4, <2>1, <2>2, StoreStep DEF ConfigSave, StoreOK, Works
<1>5. CASE StopThenStart(p)
  <2>1. CASE Return(p)
    <3>1. WorkOK'
      BY <1>0, <2>1, ReturnOK
    <3>2. QED
      BY <1>5, <3>1, UnchangedOK DEF StopThenStart
  <2>2. CASE Installed /\ BeginStop(p, "restart") /\ UNCHANGED goal
    <3>1. "restart" \in Thens \ Switching
      BY DEF Thens, Switching
    <3>2. WorkOK'
      BY <2>2, <3>1, BeginStopStays
    <3>3. QED
      BY <1>5, <3>2, UnchangedOK DEF StopThenStart
  <2>3. QED
    BY <1>5, <2>1, <2>2 DEF StopThenStart, HasStatus
<1>6. CASE Restart(p)
  <2>1. WorkOK'
    BY <1>0, <1>6, GotoOK, GotoWithOK, ReturnOK
       DEF Restart, Fits, Holders, StopSteps, Switching, Steps, StartSteps, UndoSteps
  <2>2. QED
    BY <1>0, <1>6, <2>1, StoreStep DEF Restart, StoreOK
<1>7. CASE Delete(p)
  <2>1. WorkOK'
    BY <1>0, <1>7, ReturnOK DEF Delete
  <2>2. QED
    BY <1>0, <1>7, <2>1, StoreStep DEF Delete, StoreOK, Works
<1>8. ASSUME NEW reload \in {"upgradeReload", "reinstallReload"},
             NEW step \in {"upgrade", "reinstall"}, Reload(p, reload, step)
      PROVE  IInv'
  <2>1. goal[p] \in Version
    BY <1>0, <1>8 DEF Reload, Switching
  <2>2. step \in Steps \ (StopSteps \union {"config"})
    BY DEF Steps, OtherSteps, StopSteps
  <2>3. WorkOK'
    BY <1>0, <1>8, <2>1, <2>2, GotoWithOK, ReturnOK DEF Reload, Fits
  <2>4. QED
    BY <1>8, <2>3, UnchangedOK DEF Reload
<1>9. CASE SwitchVersion(p)
  <2>1. Upgraded(p) \in Instance
    BY <1>0, <1>9, UpgradedType DEF SwitchVersion, Holders, Switching
  <2>2. WorkOK'
    BY <1>0, <1>9, <2>1, GotoWithOK, ReturnOK
       DEF SwitchVersion, Fits, Holders, StopSteps, Switching, Steps, StartSteps
  <2>3. QED
    BY <1>0, <1>9, <2>1, <2>2, StoreStep DEF SwitchVersion, StoreOK, Works
<1>10. CASE Overwrite(p)
  <2>1. inst[p].config \in Config /\ goal[p] \in Version
    BY <1>0, <1>10 DEF Overwrite, Holders, Switching, Instance
  <2>2. record' \in Instance
    BY <1>10, <2>1 DEF Overwrite, Instance, Statuses, Password
  <2>3. WorkOK'
    BY <1>0, <1>10, ReturnOK DEF Overwrite
  <2>4. QED
    BY <1>0, <1>10, <2>2, <2>3, StoreStep DEF Overwrite, StoreOK, Works
<1>11. QED
  BY <1>1, <1>2, <1>3, <1>4, <1>5, <1>6, <1>7, <1>8, <1>9, <1>10 DEF Continue

\* The restoring goroutine.
LEMMA RestorerIInv ==
  ASSUME IInv, RestoreStart \/ RestoreFailed
  PROVE  IInv'
<1>0. /\ WorkOK /\ StoreOK
      /\ Installed => record \in Instance
      /\ Restorer \in Process
  BY InstalledType DEF IInv, Process
<1> USE DEF docker
<1>1. CASE RestoreStart
  <2>1. WorkOK'
    BY <1>0, <1>1, GotoOK, GotoWithOK
       DEF RestoreStart, HasStatus, Fits, Holders, StopSteps, Switching, Steps, StartSteps,
       OtherSteps
  <2>2. QED
    BY <1>0, <1>1, <2>1, StoreStep DEF RestoreStart, StoreOK
<1>2. CASE RestoreFailed
  <2>1. record' \in Instance \union {NoRecord} /\ WorkOK'
    BY <1>0, <1>2, StatusOK, ReturnOK DEF RestoreFailed, Statuses
  <2>2. QED
    BY <1>0, <1>2, <2>1, StoreStep DEF RestoreFailed, StoreOK, Works
<1>3. QED
  BY <1>1, <1>2

\* The health checker.
LEMMA HealthIInv ==
  ASSUME IInv, HealthCheck
  PROVE  IInv'
<1>0. /\ WorkOK /\ StoreOK /\ HealthOK
      /\ UNCHANGED local => WorkOK'
      /\ Installed => record \in Instance
  BY StayOK, InstalledType DEF IInv
<1>1. CASE HealthList
  BY <1>0, <1>1 DEF HealthList, HasStatus, Installed, IInv, StoreOK, HealthOK, BoundsOK, docker,
     bounds
<1>2. CASE HealthInspect
  <2>1. BoundsOK'
    BY <1>2, BoundsStep DEF HealthInspect
  <2>2. WorkOK' /\ HealthOK'
    BY <1>0, <1>2 DEF HealthInspect, HealthOK
  <2>3. QED
    BY <1>0, <1>2, <2>1, <2>2 DEF HealthInspect, IInv, StoreOK, docker
<1>3. CASE HealthGet
  BY <1>0, <1>3 DEF HealthGet, Installed, IInv, StoreOK, HealthOK, BoundsOK, docker, bounds
<1>4. CASE HealthSave
  <2>1. record' \in Instance
    BY <1>0, <1>4, WithStatusType DEF HealthSave, HealthOK, Statuses
  <2>2. HealthOK' /\ WorkOK'
    BY <1>0, <1>4 DEF HealthSave, HealthOK
  <2>3. QED
    BY <1>0, <1>4, <2>1, <2>2 DEF HealthSave, IInv, StoreOK, BoundsOK, docker, bounds
<1>5. QED
  BY <1>1, <1>2, <1>3, <1>4 DEF HealthCheck

\* The end of the process leaves nothing in anybody's hands.
LEMMA EndsOK == ProcessEnds => WorkOK' /\ HealthOK'
BY DEF ProcessEnds, WorkOK, HealthOK, Steps, OtherSteps, Plans, Thens, Password, Fits,
       Holders, StopSteps, Switching

\* The daemon's boot, shutdown and crash, and outages.
LEMMA DaemonIInv ==
  ASSUME IInv, Boot \/ Restoring \/ Shutdown \/ Exiting \/ Crash \/ Outage
  PROVE  IInv'
<1>0. /\ WorkOK /\ StoreOK /\ HealthOK /\ BoundsOK
      /\ UNCHANGED local => WorkOK'
      /\ UNCHANGED health => HealthOK'
      /\ UNCHANGED bounds => BoundsOK'
      /\ Restorer \in Process
  BY StayOK DEF IInv, HealthOK, BoundsOK, health, bounds, Process
<1> USE DEF docker
<1>1. CASE Boot \/ RestoreList
  BY <1>0, <1>1 DEF Boot, RestoreList, IInv, StoreOK
<1>2. CASE ResetInterrupted
  <2>1. record' \in Instance \union {NoRecord}
    BY <1>2, StatusOK DEF ResetInterrupted, Statuses
  <2>2. QED
    BY <1>0, <1>2, <2>1 DEF ResetInterrupted, IInv, StoreOK
<1>3. CASE Restore
  <2>1. record' \in Instance \union {NoRecord}
    BY <1>3, StatusOK DEF Restore, Statuses
  <2>2. WorkOK'
    BY <1>0, <1>3, GotoOK DEF Restore, Fits, Holders, StopSteps, Switching, Steps, OtherSteps
  <2>3. QED
    BY <1>0, <1>3, <2>1, <2>2 DEF Restore, IInv, StoreOK
<1>4. CASE Shutdown
  BY <1>0, <1>4, BoundsAssumption DEF Shutdown, IInv, StoreOK, BoundsOK
<1>5. CASE Crash
  <2>1. BoundsOK'
    BY <1>0, <1>5, BoundsAssumption DEF Crash, BoundsOK
  <2>2. QED
    BY <1>0, <1>5, <2>1, EndsOK DEF Crash, ProcessEnds, IInv, StoreOK
<1>6. CASE StopAllList
  BY <1>0, <1>6, EndsOK DEF StopAllList, ProcessEnds, IInv, StoreOK
<1>7. CASE StopAllHalt
  <2>1. BoundsOK'
    BY <1>7, BoundsStep DEF StopAllHalt, IInv
  <2>2. container' \in Container \union {NoContainer}
    BY <1>0, <1>7, WithUpType DEF StopAllHalt, StoreOK, IsUp
  <2>3. CASE ProcessEnds
    BY <1>0, <1>7, <2>1, <2>2, <2>3, EndsOK DEF StopAllHalt, ProcessEnds, IInv, StoreOK
  <2>4. CASE mode' = "marking" /\ UNCHANGED <<local, health>>
    BY <1>0, <1>7, <2>1, <2>2, <2>4 DEF StopAllHalt, IInv, StoreOK
  <2>5. QED
    BY <1>7, <2>3, <2>4 DEF StopAllHalt
<1>8. CASE StopAllMark
  <2>1. record' \in Instance \union {NoRecord}
    BY <1>8, StatusOK DEF StopAllMark, Statuses
  <2>2. QED
    BY <1>0, <1>8, <2>1, EndsOK DEF StopAllMark, ProcessEnds, IInv, StoreOK
<1>9. CASE Outage
  <2>1. BoundsOK'
    BY <1>0, <1>9, BoundsAssumption DEF Outage, BoundsOK
  <2>2. container' \in Container
    BY <1>0, <1>9 DEF Outage, StoreOK, Container
  <2>3. QED
    BY <1>0, <1>9, <2>1, <2>2 DEF Outage, IInv, StoreOK
<1>10. QED
  BY <1>1, <1>2, <1>3, <1>4, <1>5, <1>6, <1>7, <1>8, <1>9 DEF Restoring, Exiting

\* Every step, and stuttering.
LEMMA NextIInv == IInv /\ [Next]_vars => IInv'
<1> SUFFICES ASSUME IInv, [Next]_vars PROVE IInv'
  OBVIOUS
<1>1. CASE UNCHANGED vars
  <2>1. WorkOK'
    BY <1>1, StayOK DEF vars, IInv
  <2>2. QED
    BY <1>1, <2>1, UnchangedOK DEF vars
<1>2. CASE Next
  BY <1>2, RequestIInv, ContinueIInv, RestorerIInv, HealthIInv, DaemonIInv DEF Next
<1>3. QED
  BY <1>1, <1>2

\* The inductive invariant holds throughout.
THEOREM Invariance == Spec => []IInv
<1>1. QED
  BY InitIInv, NextIInv, PTL DEF Spec

\* Every variable holds what the code stores in it, whatever requests,
\* goroutines, health checks, crashes and restarts interleave: a process at a
\* step holds the PluginInstance, the password and the version the rest of
\* its code reads, so that nothing is ever saved that is no PluginInstance.
THEOREM TypeCorrectness == Spec => []TypeOK
<1>1. QED
  BY Invariance, IInvTypes, PTL
-----------------------------------------------------------------------------
(* A start that is announced is driven, whatever starts, stops, installs,   *)
(* uninstalls and reinstalls interleave: it takes a handler that saves back *)
(* a status it read earlier, as config and upgrade do, to break it.         *)

Announced == HasStatus({"pulling", "starting"})

\* A process of these operations saves no status it has read.
Confined(step, instance, then) ==
  /\ step = "install" => instance.status = "pending_setup"
  /\ step \notin {"config", "restartCheck", "upgradeReload", "upgrade"}
  /\ then # "upgradeReload"

AllConfined == \A p \in Process : Confined(pc[p], inst[p], plan[p])

DInv == IInv /\ AllConfined /\ StartIsDriven

\* A step of p leaves the other processes where they are and either gives
\* the announced start a driver, or withdraws the announcement, or does
\* neither harm.
Keeps(p) ==
  /\ \A q \in Process \ {p} : pc'[q] = pc[q] /\ inst'[q] = inst[q] /\ plan'[q] = plan[q]
  /\ Confined(pc'[p], inst'[p], plan'[p])
  /\ mode' = "up" => mode = "up"
  /\ \/ ~Announced'
     \/ Drives(p)'
     \/ (Announced' => Announced) /\ ~Drives(p)

\* Then the announced start stays driven.
LEMMA KeepsDriven ==
  ASSUME DInv, NEW p \in Process, Keeps(p)
  PROVE  AllConfined' /\ StartIsDriven'
<1>1. AllConfined'
  BY DEF DInv, AllConfined, Keeps
<1>2. ASSUME NEW q \in Process \ {p}, Drives(q) PROVE Drives(q)'
  BY <1>2 DEF Keeps, Drives
<1>3. StartIsDriven'
  BY <1>2 DEF DInv, Keeps, StartIsDriven, Announced
<1>4. QED
  BY <1>1, <1>3

\* The operations at hand.
Harmless == Operations \intersect {"config", "upgrade"} = {}

\* Taking one of these requests is such a step,
LEMMA RequestKeeps ==
  ASSUME Harmless, DInv, NEW p \in Process, Request(p)
  PROVE  Keeps(p)
<1>0. /\ pc[p] = "idle" => ~Drives(p)
      /\ Confined(pc[p], inst[p], plan[p])
      /\ pc \in [Process -> Steps] /\ inst \in [Process -> Instance \union {NoRecord}]
      /\ plan \in [Process -> Plans]
  BY DEF DInv, AllConfined, Drives, IInv, WorkOK
<1> USE DEF Keeps, Confined, Call
<1>1. CASE Install(p)
  BY <1>0, <1>1 DEF Install, GotoWith, New, Announced, HasStatus, Installed
<1>2. CASE Start(p)
  BY <1>0, <1>2 DEF Start, GotoWith, Announced, HasStatus, Installed
<1>3. CASE Stop(p)
  BY <1>0, <1>3 DEF Stop, BeginStop, Announced, HasStatus, Installed
<1>4. CASE ConfigGet(p) \/ Upgrade(p)
  BY <1>4 DEF Harmless, ConfigGet, Upgrade
<1>5. CASE Uninstall(p)
  BY <1>0, <1>5 DEF Uninstall, BeginStop, Goto, Announced, HasStatus, Installed
<1>6. CASE ReinstallDev(p)
  BY <1>0, <1>6 DEF ReinstallDev, Replace, BeginStop, Announced, HasStatus, Installed
<1>7. QED
  BY <1>1, <1>2, <1>3, <1>4, <1>5, <1>6 DEF Request

\* and so is every step of a goroutine.
LEMMA ContinueKeeps ==
  ASSUME DInv, NEW p \in Process, Continue(p)
  PROVE  Keeps(p)
<1>0. /\ Confined(pc[p], inst[p], plan[p])
      /\ pc[p] \in StopSteps => plan[p] \in Thens
      /\ pc \in [Process -> Steps] /\ inst \in [Process -> Instance \union {NoRecord}]
      /\ plan \in [Process -> Plans]
      /\ Installed => record \in Instance
  BY InstalledType DEF DInv, AllConfined, IInv, WorkOK, Fits
<1> USE DEF Keeps, Confined, Drives
<1>1. CASE Provision(p)
  BY <1>0, <1>1 DEF Provision, Goto, GotoWith, Return, Announced, HasStatus, Installed
<1>2. CASE CreateNetwork(p)
  BY <1>0, <1>2 DEF CreateNetwork, Undo, Goto, GotoWith, Return, Announced, HasStatus, Installed
<1>3. CASE BuildEnv(p)
  BY <1>0, <1>3 DEF BuildEnv, Undo, UpdateStatus, Goto, GotoWith, Return, Announced, HasStatus,
     Installed
<1>4. CASE PullImages(p)
  BY <1>0, <1>4 DEF PullImages, Undo, UpdateStatus, Goto, GotoWith, Return, Announced, HasStatus,
     Installed
<1>5. CASE StartContainers(p)
  BY <1>0, <1>5 DEF StartContainers, Undo, Goto, GotoWith, Return, Announced, HasStatus, Installed
<1>6. CASE UpdateRuntimeInfo(p)
  BY <1>0, <1>6 DEF UpdateRuntimeInfo, Goto, GotoWith, Return, Announced, HasStatus, Installed
<1>7. CASE MarkRunning(p)
  BY <1>0, <1>7 DEF MarkRunning, UpdateStatus, Goto, GotoWith, Return, Announced, HasStatus,
     Installed
<1>8. CASE UndoAccount(p)
  BY <1>0, <1>8 DEF UndoAccount, Goto, GotoWith, Return, Announced, HasStatus, Installed
<1>9. CASE UndoContainers(p)
  BY <1>0, <1>9 DEF UndoContainers, Goto, GotoWith, Return, Announced, HasStatus, Installed
<1>10. CASE UndoNetwork(p)
  BY <1>0, <1>10 DEF UndoNetwork, Goto, GotoWith, Return, Announced, HasStatus, Installed
<1>11. CASE SetFailedGet(p)
  BY <1>0, <1>11 DEF SetFailedGet, Goto, GotoWith, Return, Announced, HasStatus, Installed
<1>12. CASE SetFailedSave(p)
  BY <1>0, <1>12 DEF SetFailedSave, Goto, GotoWith, Return, Announced, HasStatus, Installed
<1>13. CASE StopContainers(p)
  BY <1>0, <1>13 DEF StopContainers, Goto, GotoWith, Return, Announced, HasStatus, Installed
<1>14. CASE StopNetwork(p)
  BY <1>0, <1>14 DEF StopNetwork, Goto, GotoWith, Return, Announced, HasStatus, Installed
<1>15. CASE StopAccount(p)
  BY <1>0, <1>15 DEF StopAccount, Goto, GotoWith, Return, Announced, HasStatus, Installed
<1>16. CASE StopSave(p)
  BY <1>0, <1>16 DEF StopSave, Stopped, StopSteps, Thens, Goto, GotoWith, Return, Announced,
     HasStatus, Installed
<1>17. CASE SaveInstall(p)
  BY <1>0, <1>17 DEF SaveInstall, Goto, GotoWith, Return, Announced, HasStatus, Installed
<1>18. CASE ConfigSave(p)
  BY <1>0, <1>18 DEF ConfigSave, Goto, GotoWith, Return, Announced, HasStatus, Installed
<1>19. CASE StopThenStart(p)
  BY <1>0, <1>19 DEF StopThenStart, Goto, GotoWith, Return, Announced, HasStatus, Installed
<1>20. CASE Restart(p)
  BY <1>0, <1>20 DEF Restart, Goto, GotoWith, Return, Announced, HasStatus, Installed
<1>21. CASE Delete(p)
  BY <1>0, <1>21 DEF Delete, Goto, GotoWith, Return, Announced, HasStatus, Installed
<1>22. CASE Reload(p, "upgradeReload", "upgrade") \/ Reload(p, "reinstallReload", "reinstall")
  BY <1>0, <1>22 DEF Reload, Goto, GotoWith, Return, Announced, HasStatus, Installed
<1>23. CASE SwitchVersion(p)
  BY <1>0, <1>23 DEF SwitchVersion, Goto, GotoWith, Return, Announced, HasStatus, Installed
<1>24. CASE Overwrite(p)
  BY <1>0, <1>24 DEF Overwrite, Goto, GotoWith, Return, Announced, HasStatus, Installed
<1>25. QED
  BY <1>1, <1>2, <1>3, <1>4, <1>5, <1>6, <1>7, <1>8, <1>9, <1>10, <1>11, <1>12, <1>13, <1>14,
     <1>15, <1>16, <1>17, <1>18, <1>19, <1>20, <1>21, <1>22, <1>23, <1>24 DEF Continue,
     StartCore, StopCore

\* With these operations the strengthened invariant holds throughout.
THEOREM DrivenInvariance == Harmless => (Spec => []DInv)
<1> SUFFICES ASSUME Harmless PROVE Spec => []DInv
  OBVIOUS
<1>1. Init => DInv
  <2> SUFFICES ASSUME Init PROVE AllConfined /\ StartIsDriven
    BY InitIInv DEF DInv
  <2>1. QED
    BY DEF Init, AllConfined, Confined, StartIsDriven
<1>2. ASSUME DInv, [Next]_vars PROVE DInv'
  <2>1. IInv'
    BY <1>2, NextIInv DEF DInv
  <2> SUFFICES AllConfined' /\ StartIsDriven'
    BY <2>1 DEF DInv
  <2>2. ASSUME NEW p \in Process, Request(p) \/ Continue(p)
        PROVE  AllConfined' /\ StartIsDriven'
    BY <1>2, <2>2, RequestKeeps, ContinueKeeps, KeepsDriven
  <2>3. ASSUME ProcessEnds PROVE AllConfined' /\ StartIsDriven'
    BY <2>3 DEF ProcessEnds, AllConfined, Confined, StartIsDriven
  <2>4. CASE RestoreStart \/ RestoreFailed
    <3>1. /\ Restorer \in Process
          /\ pc \in [Process -> Steps] /\ inst \in [Process -> Instance \union {NoRecord}]
          /\ plan \in [Process -> Plans]
          /\ Confined(pc[Restorer], inst[Restorer], plan[Restorer])
      BY <1>2 DEF Process, DInv, AllConfined, IInv, WorkOK
    <3>2. pc[Restorer] \in {"restore", "restoreFailed"} /\ ~Drives(Restorer)
      BY <2>4 DEF RestoreStart, RestoreFailed, Drives
    <3>3. ASSUME RestoreStart PROVE Keeps(Restorer)
      BY <3>1, <3>2, <3>3 DEF RestoreStart, Keeps, Confined, Goto, GotoWith, Announced,
         HasStatus, Installed
    <3>4. ASSUME RestoreFailed PROVE Keeps(Restorer)
      BY <3>1, <3>2, <3>4 DEF RestoreFailed, UpdateStatus, Keeps, Confined, Return,
         Announced, HasStatus, Installed
    <3>5. QED
      BY <1>2, <2>4, <3>1, <3>3, <3>4, KeepsDriven
  <2>5. CASE Restore
    <3>1. /\ Restorer \in Process
          /\ pc \in [Process -> Steps] /\ plan \in [Process -> Plans]
      BY <1>2 DEF Process, DInv, IInv, WorkOK
    <3>2. AllConfined'
      BY <1>2, <2>5, <3>1 DEF DInv, AllConfined, Confined, Restore, Goto
    <3>3. StartIsDriven'
      BY <2>5 DEF Restore, UpdateStatus, StartIsDriven, HasStatus, Installed
    <3>4. QED
      BY <3>2, <3>3
  <2>6. ASSUME UNCHANGED local,
               mode' # "up" \/ ~Announced' \/ (mode' = mode /\ (Announced' => Announced))
        PROVE  AllConfined' /\ StartIsDriven'
    BY <1>2, <2>6 DEF DInv, AllConfined, Confined, StartIsDriven, Drives, Announced, local
  <2>7. CASE HealthCheck
    <3>1. UNCHANGED <<local, mode>> /\ (Announced' => Announced)
      BY <1>2, <2>7 DEF HealthCheck, HealthList, HealthInspect, HealthGet, HealthSave,
         Announced, HasStatus, Installed, DInv, IInv, HealthOK, Instance
    <3>2. QED
      BY <2>6, <3>1
  <2>8. CASE Boot \/ RestoreList \/ ResetInterrupted \/ Shutdown \/ Outage
    <3>1. /\ UNCHANGED local
          /\ mode' # "up" \/ ~Announced' \/ (mode' = mode /\ (Announced' => Announced))
      <4>1. CASE ResetInterrupted
        <5>1. Installed => record \in Instance
          BY <1>2, InstalledType DEF DInv
        <5>2. QED
          BY <4>1, <5>1 DEF ResetInterrupted, UpdateStatus, Announced, HasStatus, Installed,
             Instance
      <4>2. CASE ~ResetInterrupted
        BY <2>8, <4>2 DEF Boot, RestoreList, Shutdown, Outage, Announced, HasStatus, Installed
      <4>3. QED
        BY <4>1, <4>2
    <3>2. QED
      BY <2>6, <3>1
  <2>9. CASE Exiting \/ Crash
    <3>1. CASE ProcessEnds
      BY <2>3, <3>1
    <3>2. CASE ~ProcessEnds
      <4>1. UNCHANGED local /\ mode' # "up"
        BY <2>9, <3>2 DEF Exiting, StopAllList, StopAllHalt, StopAllMark, Crash
      <4>2. QED
        BY <2>6, <4>1
    <3>3. QED
      BY <3>1, <3>2
  <2>10. CASE UNCHANGED vars
    BY <2>6, <2>10 DEF vars, Announced, HasStatus, Installed
  <2>11. QED
    BY <1>2, <2>2, <2>4, <2>5, <2>7, <2>8, <2>9, <2>10 DEF Next, Restoring
<1>3. QED
  BY <1>1, <1>2, PTL DEF Spec

\* A record that says pulling or starting always has a goroutine that will
\* take it out of there, however many installs, starts, stops, uninstalls and
\* reinstalls run at once, with the health checker, the restore at boot,
\* failing calls, crashes and shutdowns: startCore and setFailed never leave
\* it.  handleConfigPlugin and UpgradePlugin are left out because they do
\* break it.
THEOREM StartsAreDriven == Harmless => (Spec => []StartIsDriven)
<1>1. DInv => StartIsDriven
  BY DEF DInv
<1>2. QED
  BY <1>1, DrivenInvariance, PTL
-----------------------------------------------------------------------------
(* One thing at a time, running comes with RuntimeInfo.                     *)

Known(i) == i.status = "running" => i.info # NoCredential

\* What p holds does not make an unknown plugin running.
Held(p) ==
  /\ inst[p] # NoRecord => Known(inst[p])
  /\ pc[p] \in {"network", "env", "pull", "containers", "info"} => cred[p] # NoCredential
  /\ pc[p] = "running" /\ Installed => record.info # NoCredential

\* One process, or the health checker, or the restore loop.
Alone ==
  /\ \A p, q \in Process : pc[p] # "idle" /\ pc[q] # "idle" => p = q
  /\ check # "idle" \/ mode \in {"reset", "restore"} => \A p \in Process : pc[p] = "idle"
  /\ mode \in {"reset", "restore"} => check = "idle"

\* What the health checker holds is no unknown plugin either.
CheckKnows ==
  /\ seen # NoRecord => Known(seen)
  /\ check \in {"inspect", "recovered", "down"} /\ Installed => record.info # NoCredential
  /\ check = "recoveredSave" => seen.info # NoCredential

AllHeld == \A p \in Process : Held(p)

KInv == IInv /\ Alone /\ AllHeld /\ CheckKnows /\ RunningIsKnown

KParts == Alone /\ AllHeld /\ CheckKnows /\ RunningIsKnown

\* A step of p while the others rest.
Settles(p) ==
  /\ \A q \in Process \ {p} : pc[q] = "idle" /\ pc'[q] = "idle" /\ inst'[q] = inst[q]
  /\ check = "idle" /\ UNCHANGED <<check, seen>>
  /\ mode' \notin {"reset", "restore"}
  /\ Held(p)' /\ RunningIsKnown'

\* Such a step keeps the rest of the invariant.
LEMMA SettlesOK ==
  ASSUME KInv, NEW p \in Process, Settles(p)
  PROVE  KParts'
<1>1. Alone'
  BY DEF Settles, Alone
<1>2. ASSUME NEW q \in Process PROVE Held(q)'
  BY DEF KInv, AllHeld, Held, Settles, Known
<1>3. CheckKnows'
  BY DEF KInv, CheckKnows, Settles, Known
<1>4. QED
  BY <1>1, <1>2, <1>3 DEF Settles, KParts, AllHeld

\* Taking a request is such a step, when nothing is under way.
LEMMA RequestSettles ==
  ASSUME OneAtATime, KInv, NEW p \in Process, Request(p)
  PROVE  Settles(p)
<1>0. /\ pc \in [Process -> Steps] /\ inst \in [Process -> Instance \union {NoRecord}]
      /\ Installed => record \in Instance /\ Known(record)
      /\ inst[p] # NoRecord => Known(inst[p])
  BY InstalledType DEF KInv, IInv, WorkOK, AllHeld, Held, RunningIsKnown, HasStatus, Known
<1>1. NothingUnderWay /\ UNCHANGED <<record, mode, health>>
  BY DEF Request, Install, Start, Stop, ConfigGet, Uninstall, Upgrade, ReinstallDev, Replace, Call
<1>2. RunningIsKnown'
  BY <1>1 DEF KInv, RunningIsKnown, HasStatus, Installed
<1> USE <1>0, <1>1, <1>2 DEF Settles, Held, Installed, NothingUnderWay, health
<1>3. CASE Install(p)
  BY <1>3 DEF Install, GotoWith, New, Known
<1>4. CASE Start(p)
  BY <1>4 DEF Start, GotoWith, HasStatus, Known
<1>5. CASE Stop(p)
  BY <1>5 DEF Stop, BeginStop, Known
<1>6. CASE ConfigGet(p)
  BY <1>6 DEF ConfigGet, GotoWith, Known
<1>7. CASE Uninstall(p)
  BY <1>7 DEF Uninstall, BeginStop, Goto, Known
<1>8. CASE Upgrade(p)
  BY <1>8 DEF Upgrade, Replace, BeginStop, Known
<1>9. CASE ReinstallDev(p)
  BY <1>9 DEF ReinstallDev, Replace, BeginStop, Known
<1>10. QED
  BY <1>3, <1>4, <1>5, <1>6, <1>7, <1>8, <1>9 DEF Request

\* So is every step of a goroutine.
LEMMA ContinueSettles ==
  ASSUME KInv, NEW p \in Process, Continue(p)
  PROVE  Settles(p)
<1>0. /\ pc \in [Process -> Steps] /\ inst \in [Process -> Instance \union {NoRecord}]
      /\ cred \in [Process -> Password]
      /\ pc[p] \in Holders => inst[p] \in Instance
      /\ pc[p] \in StopSteps => plan[p] \in Thens
      /\ Installed => record \in Instance /\ Known(record)
      /\ Held(p)
      /\ NoRecord \notin Instance
  BY InstalledType, NullAssumption
     DEF KInv, IInv, WorkOK, Fits, AllHeld, RunningIsKnown, HasStatus, Known
<1>1. pc[p] # "idle"
  BY DEF Continue, StartCore, StopCore, Provision, CreateNetwork, BuildEnv, PullImages,
     StartContainers, UpdateRuntimeInfo, MarkRunning, UndoAccount, UndoContainers, UndoNetwork,
     SetFailedGet, SetFailedSave, StopContainers, StopNetwork, StopAccount, StopSave,
     SaveInstall, ConfigSave, StopThenStart, Restart, Delete, Reload, SwitchVersion, Overwrite
<1>2. /\ \A q \in Process \ {p} : pc[q] = "idle"
      /\ check = "idle" /\ mode \notin {"reset", "restore"}
  BY <1>1 DEF KInv, Alone
<1>3. UNCHANGED <<mode, health>>
  BY DEF Continue, StartCore, StopCore, Provision, CreateNetwork, BuildEnv, PullImages,
     StartContainers, UpdateRuntimeInfo, MarkRunning, UndoAccount, UndoContainers, UndoNetwork,
     SetFailedGet, SetFailedSave, StopContainers, StopNetwork, StopAccount, StopSave,
     SaveInstall, ConfigSave, StopThenStart, Restart, Delete, Reload, SwitchVersion, Overwrite
<1> USE <1>0, <1>2, <1>3 DEF Settles, Held, Installed, health, RunningIsKnown, HasStatus, Known
<1>4. CASE Provision(p)
  <2>1. PICK c \in Credential :
          \/ /\ pc'   = [pc EXCEPT ![p] = "network"]
             /\ cred' = [cred EXCEPT ![p] = c]
             /\ UNCHANGED inst
          \/ Return(p)
    BY <1>4 DEF Provision, Fresh, Holders, Instance, Password
  <2>2. c # NoCredential
    BY DataAssumption
  <2>3. UNCHANGED record
    BY <1>4 DEF Provision
  <2>4. QED
    BY <2>1, <2>2, <2>3 DEF Return
<1>5. CASE CreateNetwork(p)
  BY <1>5 DEF CreateNetwork, Undo, Goto, GotoWith, Return
<1>6. CASE BuildEnv(p)
  BY <1>6 DEF BuildEnv, Undo, UpdateStatus, Instance, Goto, GotoWith, Return
<1>7. CASE PullImages(p)
  BY <1>7 DEF PullImages, Undo, UpdateStatus, Instance, Goto, GotoWith, Return
<1>8. CASE StartContainers(p)
  BY <1>8 DEF StartContainers, Undo, Goto, GotoWith, Return
<1>9. CASE UpdateRuntimeInfo(p)
  BY <1>9 DEF UpdateRuntimeInfo, Instance, Goto, GotoWith, Return
<1>10. CASE MarkRunning(p)
  BY <1>10 DEF MarkRunning, UpdateStatus, Instance, Goto, GotoWith, Return
<1>11. CASE UndoAccount(p)
  BY <1>11 DEF UndoAccount, Goto, GotoWith, Return
<1>12. CASE UndoContainers(p)
  BY <1>12 DEF UndoContainers, Goto, GotoWith, Return
<1>13. CASE UndoNetwork(p)
  BY <1>13 DEF UndoNetwork, Goto, GotoWith, Return
<1>14. CASE SetFailedGet(p)
  BY <1>14 DEF SetFailedGet, Goto, GotoWith, Return
<1>15. CASE SetFailedSave(p)
  BY <1>15 DEF SetFailedSave, Holders, Instance, Goto, GotoWith, Return
<1>16. CASE StopContainers(p)
  BY <1>16 DEF StopContainers, Goto, GotoWith, Return
<1>17. CASE StopNetwork(p)
  BY <1>17 DEF StopNetwork, Goto, GotoWith, Return
<1>18. CASE StopAccount(p)
  BY <1>18 DEF StopAccount, Goto, GotoWith, Return
<1>19. CASE StopSave(p)
  BY <1>19 DEF StopSave, Stopped, StopSteps, Thens, Holders, Instance, Goto, GotoWith, Return
<1>20. CASE SaveInstall(p)
  BY <1>20 DEF SaveInstall, Goto, GotoWith, Return
<1>21. CASE ConfigSave(p)
  BY <1>21 DEF ConfigSave, Configured, Holders, Instance, Goto, GotoWith, Return
<1>22. CASE StopThenStart(p)
  BY <1>22 DEF StopThenStart, BeginStop, Goto, GotoWith, Return
<1>23. CASE Restart(p)
  BY <1>23 DEF Restart, Goto, GotoWith, Return
<1>24. CASE Delete(p)
  BY <1>24 DEF Delete, Goto, GotoWith, Return
<1>25. CASE Reload(p, "upgradeReload", "upgrade") \/ Reload(p, "reinstallReload", "reinstall")
  BY <1>25 DEF Reload, Goto, GotoWith, Return
<1>26. CASE SwitchVersion(p)
  <2>1. inst[p] \in Instance
    BY <1>26 DEF SwitchVersion, Holders
  <2>2. /\ Upgraded(p).info = inst[p].info
        /\ Upgraded(p).status = "running" => inst[p].status = "running"
    BY <2>1 DEF Upgraded, Instance
  <2>3. CASE Return(p)
    BY <1>26, <2>1, <2>2, <2>3 DEF SwitchVersion, Return
  <2>4. CASE GotoWith(p, "provision", Upgraded(p))
    BY <1>26, <2>1, <2>2, <2>4 DEF SwitchVersion, GotoWith
  <2>5. QED
    BY <1>26, <2>3, <2>4 DEF SwitchVersion
<1>27. CASE Overwrite(p)
  BY <1>27 DEF Overwrite, Goto, GotoWith, Return
<1>28. QED
  BY <1>4, <1>5, <1>6, <1>7, <1>8, <1>9, <1>10, <1>11, <1>12, <1>13, <1>14, <1>15, <1>16, <1>17,
     <1>18, <1>19, <1>20, <1>21, <1>22, <1>23, <1>24, <1>25, <1>26, <1>27 DEF Continue,
     StartCore, StopCore

\* So are the steps of the goroutine that restores the plugin.
LEMMA RestoreSettles ==
  ASSUME KInv, RestoreStart \/ RestoreFailed \/ Restore
  PROVE  Restorer \in Process /\ Settles(Restorer)
<1>0. /\ IInv /\ Alone /\ AllHeld /\ CheckKnows /\ RunningIsKnown
      /\ Restorer \in Process
      /\ pc \in [Process -> Steps] /\ inst \in [Process -> Instance \union {NoRecord}]
      /\ Installed => record \in Instance
  BY InstalledType DEF KInv, IInv, WorkOK, Process
<1>1. /\ \A q \in Process \ {Restorer} : pc[q] = "idle"
      /\ check = "idle"
      /\ inst[Restorer] # NoRecord => Known(inst[Restorer])
  BY <1>0 DEF RestoreStart, RestoreFailed, Restore, Alone, AllHeld, Held
<1>2. ASSUME RestoreStart \/ RestoreFailed PROVE mode \notin {"reset", "restore"}
  BY <1>0, <1>2 DEF RestoreStart, RestoreFailed, Alone
<1>3. CASE RestoreStart
  BY <1>0, <1>1, <1>2, <1>3 DEF RestoreStart, Goto, GotoWith, Settles, Held, Known,
     RunningIsKnown, HasStatus, Installed, health
<1>4. CASE RestoreFailed
  BY <1>0, <1>1, <1>2, <1>4 DEF RestoreFailed, UpdateStatus, Return, Settles, Held,
     RunningIsKnown, HasStatus, Installed, Instance, health
<1>5. CASE Restore
  BY <1>0, <1>1, <1>5 DEF Restore, UpdateStatus, Goto, Settles, Held,
     RunningIsKnown, HasStatus, Installed, Instance, health
<1>6. QED
  BY <1>0, <1>3, <1>4, <1>5

\* Every step keeps the invariant.
LEMMA NextKnown ==
  ASSUME OneAtATime, KInv, [Next]_vars
  PROVE  KParts'
<1>0. /\ IInv /\ Alone /\ AllHeld /\ CheckKnows /\ RunningIsKnown
      /\ Restorer \in Process
      /\ pc \in [Process -> Steps] /\ inst \in [Process -> Instance \union {NoRecord}]
      /\ Installed => record \in Instance
  BY InstalledType DEF KInv, IInv, WorkOK, Process
<1>1. ASSUME NEW p \in Process, Request(p) \/ Continue(p) PROVE KParts'
  BY <1>1, RequestSettles, ContinueSettles, SettlesOK
<1>2. ASSUME ProcessEnds, RunningIsKnown' PROVE KParts'
  BY <1>2 DEF ProcessEnds, KParts, Alone, AllHeld, Held, CheckKnows
<1>3. CASE RestoreStart \/ RestoreFailed \/ Restore
  BY <1>0, <1>3, RestoreSettles, SettlesOK
\* The steps that move no process and write no record.
<1>4. ASSUME UNCHANGED <<record, local, health>>,
             mode' \in {"reset", "restore"} =>
               check = "idle" /\ \A p \in Process : pc[p] = "idle"
      PROVE  KParts'
  BY <1>0, <1>4 DEF KParts, Alone, AllHeld, Held, CheckKnows, RunningIsKnown, HasStatus,
     Installed, Known, local, health
<1>5. CASE Boot \/ RestoreList \/ Shutdown \/ Outage
  <2>1. UNCHANGED <<record, local, health>>
    BY <1>5 DEF Boot, RestoreList, Shutdown, Outage
  <2>2. mode' \in {"reset", "restore"} =>
          check = "idle" /\ \A p \in Process : pc[p] = "idle"
    BY <1>0, <1>5 DEF Boot, RestoreList, Shutdown, Outage, NothingUnderWay, Alone
  <2>3. QED
    BY <1>4, <2>1, <2>2
<1>6. CASE ResetInterrupted
  BY <1>0, <1>6 DEF ResetInterrupted, UpdateStatus, KParts, Alone, AllHeld, Held,
     CheckKnows, RunningIsKnown, HasStatus, Installed, Instance, local, health
<1>7. CASE HealthCheck
  <2>1. \A p \in Process : pc'[p] = "idle" /\ pc[p] = "idle"
    BY <1>0, <1>7 DEF HealthCheck, HealthList, HealthInspect, HealthGet, HealthSave,
       NothingUnderWay, Alone, local
  <2>2. mode' \notin {"reset", "restore"}
    BY <1>0, <1>7 DEF HealthCheck, HealthList, HealthInspect, HealthGet, HealthSave,
       NothingUnderWay, Alone
  <2>3. UNCHANGED local
    BY <1>7 DEF HealthCheck, HealthList, HealthInspect, HealthGet, HealthSave
  <2>4. CheckKnows' /\ RunningIsKnown'
    <3>1. CASE HealthList
      BY <1>0, <3>1 DEF HealthList, CheckKnows, RunningIsKnown, HasStatus, Installed, Known
    <3>2. CASE HealthInspect
      BY <1>0, <3>2 DEF HealthInspect, CheckKnows, RunningIsKnown, HasStatus, Installed, Known
    <3>3. CASE HealthGet
      BY <1>0, <3>3 DEF HealthGet, CheckKnows, RunningIsKnown, HasStatus, Installed, Known
    <3>4. CASE HealthSave
      <4>1. seen \in Instance
        BY <1>0, <3>4 DEF HealthSave, IInv, HealthOK
      <4>2. QED
        BY <1>0, <3>4, <4>1 DEF HealthSave, CheckKnows, RunningIsKnown, HasStatus, Installed,
           Known, Instance
    <3>5. QED
      BY <1>7, <3>1, <3>2, <3>3, <3>4 DEF HealthCheck
  <2>5. Alone' /\ AllHeld'
    BY <1>0, <2>1, <2>2, <2>3 DEF Alone, AllHeld, Held, Known, local
  <2>6. QED
    BY <2>4, <2>5 DEF KParts
<1>8. CASE Crash
  BY <1>0, <1>2, <1>8 DEF Crash, RunningIsKnown, HasStatus, Installed
<1>9. CASE StopAllList \/ StopAllHalt
  <2>1. UNCHANGED record /\ RunningIsKnown'
    BY <1>0, <1>9 DEF StopAllList, StopAllHalt, RunningIsKnown, HasStatus, Installed
  <2>2. ProcessEnds \/ (UNCHANGED <<local, health>> /\ mode' \notin {"reset", "restore"})
    BY <1>9 DEF StopAllList, StopAllHalt
  <2>3. QED
    BY <1>2, <1>4, <2>1, <2>2
<1>10. CASE StopAllMark
  <2>1. RunningIsKnown'
    BY <1>0, <1>10 DEF StopAllMark, UpdateStatus, RunningIsKnown, HasStatus, Installed, Instance
  <2>2. QED
    BY <1>2, <1>10, <2>1 DEF StopAllMark
<1>11. CASE UNCHANGED vars
  BY <1>0, <1>4, <1>11 DEF vars, Alone
<1>12. QED
  BY <1>1, <1>3, <1>5, <1>6, <1>7, <1>8, <1>9, <1>10, <1>11 DEF Next, Restoring, Exiting

\* The initial state.
LEMMA InitKInv == Init => KInv
<1> SUFFICES ASSUME Init PROVE KParts
  BY InitIInv DEF KInv, KParts
<1>1. ASSUME NEW v \in Version, NEW dev \in BOOLEAN
      PROVE  ReadyRecord(v, dev).status = "ready"
  BY DEF ReadyRecord, New
<1>2. RunningIsKnown
  BY <1>1 DEF Init, RunningIsKnown, HasStatus, Installed
<1>3. Alone /\ AllHeld /\ CheckKnows
  BY DEF Init, Alone, AllHeld, Held, CheckKnows
<1>4. QED
  BY <1>2, <1>3 DEF KParts

\* The strengthened invariant holds throughout.
THEOREM KnownInvariance == OneAtATime => (Spec => []KInv)
<1> SUFFICES ASSUME OneAtATime PROVE Spec => []KInv
  OBVIOUS
<1>2. KInv /\ [Next]_vars => KInv'
  BY NextKnown, NextIInv DEF KInv, KParts
<1>3. QED
  BY InitKInv, <1>2, PTL DEF Spec

\* While operations, health checks and the restore at boot wait for one
\* another, a plugin is never running without its RuntimeInfo, for any
\* versions and any number of failing calls, outages, crashes and shutdowns.
\* UpdateRuntimeInfo comes before the running status, stopCore drops both in
\* one save, and every record saved back whole was read as one.
THEOREM RunningHasInfo == OneAtATime => (Spec => []RunningIsKnown)
<1>1. KInv => RunningIsKnown
  BY DEF KInv
<1>2. QED
  BY <1>1, KnownInvariance, PTL
-----------------------------------------------------------------------------
(* One thing at a time, a plugin that was stopped has no container.         *)

\* The steps at which a process holds the record as it is.
Holding == {"config", "upgrade", "reinstall", "failSave"} \union StopSteps

\* The steps between being asked to start and being running.
Starting == StartSteps \union UndoSteps \union {"restart", "restore", "restoreFailed"}

\* The steps behind the first call of stopCore.
AfterStop == {"stopNetwork", "stopAccount", "stopSave", "restart",
              "upgradeReload", "reinstallReload"}

\* The record is as p, at its step, takes it to be.
RecordFits(p) ==
  /\ pc[p] \in Holding => inst[p] = record
  /\ pc[p] \in Starting => ~HasStatus({"running"})
  /\ pc[p] \in {"pull", "containers", "info", "running"} => ~HasStatus({"stopped"})
  /\ pc[p] = "install" => ~Installed /\ inst[p].status = "pending_setup"

\* So is the container: a version is switched after a stop, or under a plugin
\* that was not running.
ContainerFits(p) ==
  /\ pc[p] \in AfterStop => container = NoContainer
  /\ pc[p] \in {"upgrade", "reinstall"} =>
       \/ container = NoContainer
       \/ plan[p] # "upgradeReload" /\ ~HasStatus({"running"})

\* So is the plan: only the plugins of the registry are started after a stop.
PlanFits(p) ==
  /\ pc[p] = "idle" => plan[p] = "none"
  /\ \/ pc[p] \in {"restart", "upgradeReload", "upgrade"}
     \/ pc[p] \in StopSteps /\ plan[p] \in {"restart", "upgradeReload"}
     => ~(Installed /\ record.dev)

\* While StopAll is about to mark a dev plugin as stopped, nothing starts it.
Marking == mode \in {"haltingDev", "marking"}

HaltFits(p) ==
  Marking => /\ pc[p] \notin Starting \union {"install"}
             /\ pc[p] = "reinstall" => container = NoContainer

MarkIsClean ==
  Marking /\ Installed =>
    record.dev /\ (record.info = NoCredential => container = NoContainer)

\* What the restore loop and the health checker save over.
RestoresRunning == mode = "restore" => HasStatus({"running"})
CheckIsCurrent == check \in {"recoveredSave", "downSave"} => seen = record

Orderly(p) == RecordFits(p) /\ ContainerFits(p) /\ PlanFits(p) /\ HaltFits(p)

SParts ==
  /\ \A p \in Process : Orderly(p)
  /\ MarkIsClean /\ RestoresRunning /\ CheckIsCurrent /\ StoppedIsClean

SInv == KInv /\ SParts

\* What a step of p leaves to show, while the others rest.
Tidies(p) == Orderly(p)' /\ MarkIsClean' /\ StoppedIsClean'

\* The others and the checker stay in order.
LEMMA TidiesOK ==
  ASSUME SInv, NEW p \in Process, Settles(p), Tidies(p),
         \A q \in Process \ {p} : plan'[q] = plan[q]
  PROVE  SParts'
<1>1. ASSUME NEW q \in Process, q # p PROVE Orderly(q)'
  <2>1. pc[q] = "idle" /\ pc'[q] = "idle" /\ plan'[q] = plan[q] /\ plan[q] = "none"
    BY <1>1 DEF Settles, SInv, SParts, Orderly, PlanFits
  <2>2. QED
    BY <2>1 DEF Orderly, RecordFits, ContainerFits, PlanFits, HaltFits, Holding, Starting,
       AfterStop, StartSteps, UndoSteps, StopSteps
<1>2. RestoresRunning' /\ CheckIsCurrent'
  BY DEF Settles, RestoresRunning, CheckIsCurrent
<1>3. QED
  BY <1>1, <1>2 DEF Tidies, SParts

\* Every step of a goroutine is such a step.
LEMMA ContinueTidies ==
  ASSUME SInv, NEW p \in Process, Continue(p)
  PROVE  Tidies(p) /\ \A q \in Process \ {p} : plan'[q] = plan[q]
<1>0. /\ pc \in [Process -> Steps] /\ inst \in [Process -> Instance \union {NoRecord}]
      /\ cred \in [Process -> Password] /\ plan \in [Process -> Plans]
      /\ container \in Container \union {NoContainer}
      /\ pc[p] \in Holders => inst[p] \in Instance
      /\ pc[p] \in StopSteps => plan[p] \in Thens
      /\ Installed => record \in Instance
      /\ Orderly(p) /\ MarkIsClean /\ StoppedIsClean /\ RunningIsKnown /\ Held(p)
      /\ NoRecord \notin Instance
      /\ NoContainer \notin Container
      /\ NoCredential \notin Credential
  BY InstalledType, NullAssumption, DataAssumption
     DEF SInv, SParts, KInv, IInv, WorkOK, StoreOK, Fits, AllHeld
<1>1. UNCHANGED <<mode, health>>
  BY DEF Continue, StartCore, StopCore, Provision, CreateNetwork, BuildEnv, PullImages,
     StartContainers, UpdateRuntimeInfo, MarkRunning, UndoAccount, UndoContainers, UndoNetwork,
     SetFailedGet, SetFailedSave, StopContainers, StopNetwork, StopAccount, StopSave,
     SaveInstall, ConfigSave, StopThenStart, Restart, Delete, Reload, SwitchVersion, Overwrite
<1> USE <1>0, <1>1 DEF Tidies, Orderly, RecordFits, ContainerFits, PlanFits, HaltFits, Marking,
      MarkIsClean, StoppedIsClean, HasStatus, Installed, Holding, Starting, AfterStop,
      StartSteps, UndoSteps, StopSteps, docker
<1>2. CASE Provision(p)
  <2>1. UNCHANGED <<record, container>>
    BY <1>2 DEF Provision, docker
  <2>2. \/ pc' = [pc EXCEPT ![p] = "network"] /\ UNCHANGED <<inst, plan>>
        \/ Return(p)
    BY <1>2 DEF Provision
  <2>3. QED
    BY <1>2, <2>1, <2>2 DEF Provision, Return
<1>3. CASE CreateNetwork(p)
  BY <1>3 DEF CreateNetwork, Undo, Goto
<1>4. CASE BuildEnv(p)
  BY <1>4 DEF BuildEnv, Undo, UpdateStatus, Instance, Goto
<1>5. CASE PullImages(p)
  BY <1>5 DEF PullImages, Undo, UpdateStatus, Instance, Goto
<1>6. CASE StartContainers(p)
  BY <1>6 DEF StartContainers, Undo, Goto
<1>7. CASE UpdateRuntimeInfo(p)
  BY <1>7 DEF UpdateRuntimeInfo, Instance, Goto, Return
<1>8. CASE MarkRunning(p)
  BY <1>8 DEF MarkRunning, UpdateStatus, Instance, Return
<1>9. CASE UndoAccount(p)
  BY <1>9 DEF UndoAccount, Goto, Return
<1>10. CASE UndoContainers(p)
  BY <1>10 DEF UndoContainers, StopPluginFails, Goto
<1>11. CASE UndoNetwork(p)
  BY <1>11 DEF UndoNetwork, Goto, Return
<1>12. CASE SetFailedGet(p)
  BY <1>12 DEF SetFailedGet, GotoWith, Return
<1>13. CASE SetFailedSave(p)
  BY <1>13 DEF SetFailedSave, Holders, Instance, Return
<1>14. CASE StopContainers(p)
  BY <1>14 DEF StopContainers, StopPluginFails, Goto, Return
<1>15. CASE StopNetwork(p)
  BY <1>15 DEF StopNetwork, Goto
<1>16. CASE StopAccount(p)
  BY <1>16 DEF StopAccount, Goto
<1>17. CASE StopSave(p)
  BY <1>17 DEF StopSave, Stopped, Thens, Holders, Instance, Goto, Return
<1>18. CASE SaveInstall(p)
  BY <1>18 DEF SaveInstall, Return
<1>19. CASE ConfigSave(p)
  BY <1>19 DEF ConfigSave, Configured, Holders, Instance, Goto, GotoWith, Return
<1>20. CASE StopThenStart(p)
  BY <1>20 DEF StopThenStart, BeginStop, Return
<1>21. CASE Restart(p)
  BY <1>21 DEF Restart, Goto, GotoWith, Return
<1>22. CASE Delete(p)
  BY <1>22 DEF Delete, Return
<1>23. CASE Reload(p, "upgradeReload", "upgrade") \/ Reload(p, "reinstallReload", "reinstall")
  BY <1>23 DEF Reload, GotoWith, Return
<1>24. CASE SwitchVersion(p)
  <2>1. inst[p] \in Instance
    BY <1>24 DEF SwitchVersion, Holders
  <2>2. /\ Upgraded(p).info = inst[p].info
        /\ Upgraded(p).dev = inst[p].dev
        /\ Upgraded(p).status = "running" => inst[p].status = "running"
        /\ Upgraded(p).status = "stopped" => inst[p].status = "stopped" \/ WasRunning(p)
    BY <2>1 DEF Upgraded, Instance
  <2>3. /\ inst[p] = record /\ Installed /\ ~record.dev /\ ~Marking
        /\ record' = Upgraded(p) /\ UNCHANGED <<container, mode>>
        /\ container = NoContainer \/ (~WasRunning(p) /\ ~HasStatus({"running"}))
    BY <1>24, <2>1 DEF SwitchVersion, WasRunning
  <2>4. StoppedIsClean' /\ MarkIsClean' /\ ~Marking'
    BY <2>2, <2>3
  <2>5. CASE Return(p)
    BY <2>3, <2>4, <2>5 DEF Return
  <2>6. CASE GotoWith(p, "provision", Upgraded(p)) /\ WasRunning(p) /\ ~Upgraded(p).dirty
    <3>1. Upgraded(p).status = "stopped"
      BY <2>1, <2>6 DEF Upgraded, Instance
    <3>2. QED
      BY <2>3, <2>4, <2>6, <3>1 DEF GotoWith
  <2>7. QED
    BY <1>24, <2>5, <2>6 DEF SwitchVersion
<1>25. CASE Overwrite(p)
  BY <1>25 DEF Overwrite, Return
<1>26. QED
  BY <1>2, <1>3, <1>4, <1>5, <1>6, <1>7, <1>8, <1>9, <1>10, <1>11, <1>12, <1>13, <1>14, <1>15,
     <1>16, <1>17, <1>18, <1>19, <1>20, <1>21, <1>22, <1>23, <1>24, <1>25 DEF Continue,
     StartCore, StopCore

\* So is taking a request.
LEMMA RequestTidies ==
  ASSUME OneAtATime, SInv, NEW p \in Process, Request(p)
  PROVE  Tidies(p) /\ \A q \in Process \ {p} : plan'[q] = plan[q]
<1>0. /\ pc \in [Process -> Steps] /\ inst \in [Process -> Instance \union {NoRecord}]
      /\ plan \in [Process -> Plans]
      /\ Installed => record \in Instance
      /\ MarkIsClean /\ StoppedIsClean /\ RunningIsKnown
      /\ pc[p] = "idle" => plan[p] = "none"
  BY InstalledType DEF SInv, SParts, KInv, IInv, WorkOK, Orderly, PlanFits
<1>1. /\ pc[p] = "idle" /\ UNCHANGED <<record, container, mode, health>>
      /\ mode \in {"up", "boot", "reset", "restore"}
  BY DEF Request, Install, Start, Stop, ConfigGet, Uninstall, Upgrade, ReinstallDev, Replace,
     Call, Serving, docker
<1>2. MarkIsClean' /\ StoppedIsClean' /\ ~Marking'
  BY <1>0, <1>1 DEF MarkIsClean, Marking, StoppedIsClean, HasStatus, Installed
<1> USE <1>0, <1>1, <1>2 DEF Tidies, Orderly, RecordFits, ContainerFits, PlanFits, HaltFits,
      HasStatus, Installed, Holding, Starting, AfterStop, StartSteps, UndoSteps, StopSteps
<1>3. CASE Install(p)
  BY <1>3 DEF Install, GotoWith, New
<1>4. CASE Start(p)
  BY <1>4 DEF Start, GotoWith, Startable
<1>5. CASE Stop(p)
  BY <1>5 DEF Stop, BeginStop
<1>6. CASE ConfigGet(p)
  BY <1>6 DEF ConfigGet, GotoWith
<1>7. CASE Uninstall(p)
  BY <1>7 DEF Uninstall, BeginStop, Goto
<1>8. CASE Upgrade(p)
  BY <1>8 DEF Upgrade, Replace, BeginStop
<1>9. CASE ReinstallDev(p)
  BY <1>9 DEF ReinstallDev, Replace, BeginStop
<1>10. QED
  BY <1>3, <1>4, <1>5, <1>6, <1>7, <1>8, <1>9 DEF Request

\* Every step keeps the invariant.
LEMMA NextTidy ==
  ASSUME OneAtATime, SInv, [Next]_vars
  PROVE  SParts'
<1>0. /\ KInv /\ IInv /\ Alone /\ RunningIsKnown /\ CheckKnows
      /\ MarkIsClean /\ RestoresRunning /\ CheckIsCurrent /\ StoppedIsClean
      /\ \A p \in Process : Orderly(p)
      /\ Restorer \in Process
      /\ pc \in [Process -> Steps] /\ plan \in [Process -> Plans]
      /\ record \in Instance \union {NoRecord}
      /\ container \in Container \union {NoContainer}
      /\ NoContainer \notin Container /\ NoRecord \notin Instance
  BY NullAssumption DEF SInv, SParts, KInv, IInv, WorkOK, StoreOK, Process
<1>1. ASSUME NEW p \in Process, Request(p) \/ Continue(p) PROVE SParts'
  BY <1>0, <1>1, RequestSettles, ContinueSettles, RequestTidies, ContinueTidies, TidiesOK
\* The steps after which no process is at work.
<1>2. ASSUME ProcessEnds, StoppedIsClean' PROVE SParts'
  BY <1>2 DEF ProcessEnds, SParts, Orderly, RecordFits, ContainerFits, PlanFits, HaltFits,
     Holding, Starting, AfterStop, StartSteps, UndoSteps, StopSteps, Marking, MarkIsClean,
     RestoresRunning, CheckIsCurrent
\* The steps that move no process.
<1>3. ASSUME UNCHANGED local, UNCHANGED <<record, container>> \/ \A p \in Process : pc[p] = "idle"
      PROVE  \A p \in Process :
               RecordFits(p)' /\ ContainerFits(p)' /\ PlanFits(p)'
  BY <1>0, <1>3 DEF Orderly, RecordFits, ContainerFits, PlanFits, local,
     Holding, Starting, AfterStop, StartSteps, UndoSteps, StopSteps, HasStatus, Installed
<1>4. CASE RestoreStart
  <2>1. Settles(Restorer)
    BY <1>0, <1>4, RestoreSettles
  <2>2. Tidies(Restorer) /\ \A q \in Process \ {Restorer} : plan'[q] = plan[q]
    <3> USE <1>0 DEF Tidies, Orderly, RecordFits, ContainerFits, PlanFits, HaltFits, Marking,
      MarkIsClean, StoppedIsClean, HasStatus, Installed, Holding, Starting, AfterStop,
      StartSteps, UndoSteps, StopSteps, docker
    <3>1. QED
      BY <1>4 DEF RestoreStart, Goto, GotoWith, Startable
  <2>3. QED
    BY <1>0, <2>1, <2>2, TidiesOK
<1>5. CASE RestoreFailed
  <2>1. Settles(Restorer)
    BY <1>0, <1>5, RestoreSettles
  <2>2. Tidies(Restorer) /\ \A q \in Process \ {Restorer} : plan'[q] = plan[q]
    <3> USE <1>0 DEF Tidies, Orderly, RecordFits, ContainerFits, PlanFits, HaltFits, Marking,
      MarkIsClean, StoppedIsClean, HasStatus, Installed, Holding, Starting, AfterStop,
      StartSteps, UndoSteps, StopSteps, docker
    <3>1. QED
      BY <1>5 DEF RestoreFailed, UpdateStatus, Return, Instance
  <2>3. QED
    BY <1>0, <2>1, <2>2, TidiesOK
<1>6. CASE Restore
  <2>1. Settles(Restorer)
    BY <1>0, <1>6, RestoreSettles
  <2>2. /\ \A p \in Process : pc[p] = "idle"
        /\ HasStatus({"running"}) /\ record.info # NoCredential
        /\ record' = [record EXCEPT !.status = "stopped"] /\ UNCHANGED container
        /\ mode' = "up"
        /\ pc' = [pc EXCEPT ![Restorer] = "restore"] /\ UNCHANGED plan
    BY <1>0, <1>6 DEF Restore, UpdateStatus, Alone, RestoresRunning, RunningIsKnown, HasStatus,
       Goto, docker
  <2>3. record'.info = record.info /\ record'.status = "stopped"
    BY <1>0, <2>2 DEF Instance, HasStatus, Installed
  <2>4. Tidies(Restorer) /\ \A q \in Process \ {Restorer} : plan'[q] = plan[q]
    BY <1>0, <2>2, <2>3 DEF Tidies, Orderly, RecordFits, ContainerFits, PlanFits, HaltFits,
      Marking, MarkIsClean, StoppedIsClean, HasStatus, Installed, Holding, Starting, AfterStop,
      StartSteps, UndoSteps, StopSteps
  <2>5. QED
    BY <1>0, <2>1, <2>4, TidiesOK
<1>7. CASE Boot \/ RestoreList \/ Shutdown
  <2>1. UNCHANGED <<record, container, local, health>>
    BY <1>7 DEF Boot, RestoreList, Shutdown, docker
  <2>2. mode' \in {"boot", "reset", "restore", "up", "stopping"}
    BY <1>7 DEF Boot, RestoreList, Shutdown
  <2>3. RestoresRunning'
    BY <1>7 DEF Boot, RestoreList, Shutdown, RestoresRunning, HasStatus, Installed
  <2>4. QED
    BY <1>0, <1>3, <2>1, <2>2, <2>3 DEF SParts, Orderly, HaltFits, Marking, MarkIsClean,
       CheckIsCurrent, StoppedIsClean, HasStatus, Installed, health
<1>8. CASE ResetInterrupted
  <2>1. \A p \in Process : pc[p] = "idle"
    BY <1>0, <1>8 DEF ResetInterrupted, Alone
  <2>2. /\ UNCHANGED <<local, health>> /\ mode' = "up" /\ check = "idle"
        /\ ~HasStatus({"stopped"})'
    BY <1>0, <1>8 DEF ResetInterrupted, UpdateStatus, Alone, HasStatus, Installed, Instance
  <2>3. QED
    BY <1>0, <1>3, <2>1, <2>2 DEF SParts, Orderly, HaltFits, Marking, MarkIsClean,
       RestoresRunning, CheckIsCurrent, StoppedIsClean, HasStatus, Installed, health
<1>9. CASE HealthCheck
  <2>1. UNCHANGED <<container, mode, local>>
    BY <1>9 DEF HealthCheck, HealthList, HealthInspect, HealthGet, HealthSave, docker
  <2>2. \A p \in Process : pc[p] = "idle"
    BY <1>0, <1>9 DEF HealthCheck, HealthList, HealthInspect, HealthGet, HealthSave,
       NothingUnderWay, Alone
  <2>3. \A p \in Process : Orderly(p)'
    BY <1>0, <1>3, <2>1, <2>2 DEF Orderly, HaltFits, Marking, Starting, StartSteps, UndoSteps, local
  <2>4. mode \notin {"reset", "restore"}
    BY <1>0, <1>9 DEF HealthCheck, HealthList, HealthInspect, HealthGet, HealthSave,
       NothingUnderWay, Alone
  <2>5. CASE HealthList \/ HealthInspect \/ HealthGet
    <3>1. UNCHANGED record /\ CheckIsCurrent'
      BY <2>5 DEF HealthList, HealthInspect, HealthGet, CheckIsCurrent
    <3>2. QED
      BY <1>0, <2>1, <2>3, <2>4, <3>1 DEF SParts, Marking, MarkIsClean, RestoresRunning,
         StoppedIsClean, HasStatus, Installed
  <2>6. CASE HealthSave
    <3>1. /\ seen = record /\ record \in Instance /\ check' = "idle"
          /\ record' = [record EXCEPT !.status = IF check = "downSave" THEN "failed" ELSE "running"]
      BY <1>0, <2>6 DEF HealthSave, CheckIsCurrent, IInv, HealthOK
    <3>2. record'.info = record.info /\ record'.dev = record.dev
          /\ record'.status # "stopped" /\ record # NoRecord
      BY <1>0, <3>1 DEF Instance
    <3>3. QED
      BY <1>0, <2>1, <2>3, <2>4, <3>1, <3>2 DEF SParts, Marking, MarkIsClean, RestoresRunning,
         CheckIsCurrent, StoppedIsClean, HasStatus, Installed
  <2>7. QED
    BY <1>9, <2>5, <2>6 DEF HealthCheck
<1>10. CASE Crash
  BY <1>0, <1>2, <1>10 DEF Crash, StoppedIsClean, HasStatus, Installed, docker
<1>11. CASE StopAllList
  <2>1. UNCHANGED <<record, container>> /\ StoppedIsClean'
    BY <1>0, <1>11 DEF StopAllList, StoppedIsClean, HasStatus, Installed, docker
  <2>2. ASSUME ~ProcessEnds PROVE SParts'
    <3>1. /\ HasStatus({"running"}) /\ UNCHANGED <<local, health>>
          /\ mode' = IF record.dev THEN "haltingDev" ELSE "halting"
      BY <1>11, <2>2 DEF StopAllList
    <3>2. \A p \in Process : Orderly(p)'
      <4>1. TAKE p \in Process
      <4>2. pc[p] \notin Starting \union {"install"}
        BY <1>0, <3>1 DEF Orderly, RecordFits, HasStatus
      <4>3. pc[p] = "reinstall" => container = NoContainer
        BY <1>0, <3>1 DEF Orderly, ContainerFits
      <4>4. HaltFits(p)'
        BY <2>1, <3>1, <4>2, <4>3 DEF HaltFits, local
      <4>5. QED
        BY <1>3, <2>1, <3>1, <4>4 DEF Orderly
    <3>3. MarkIsClean'
      BY <1>0, <2>1, <3>1 DEF MarkIsClean, Marking, RunningIsKnown, HasStatus, Installed
    <3>4. RestoresRunning' /\ CheckIsCurrent'
      BY <1>0, <2>1, <3>1 DEF RestoresRunning, CheckIsCurrent, health
    <3>5. QED
      BY <2>1, <3>2, <3>3, <3>4 DEF SParts
  <2>3. QED
    BY <1>2, <2>1, <2>2
<1>12. CASE StopAllHalt \/ Outage
  <2>1. UNCHANGED record /\ (container = NoContainer <=> container' = NoContainer)
    BY <1>0, <1>12 DEF StopAllHalt, Outage, IsUp, Container
  <2>2. StoppedIsClean'
    BY <1>0, <2>1 DEF StoppedIsClean, HasStatus, Installed
  <2>3. ASSUME ~ProcessEnds PROVE SParts'
    <3>1. UNCHANGED <<local, health>> /\ (UNCHANGED mode \/ (Marking /\ mode' = "marking"))
      BY <1>12, <2>3 DEF StopAllHalt, Outage, Marking
    <3>2. \A p \in Process : Orderly(p)'
      BY <1>0, <2>1, <3>1 DEF Orderly, RecordFits, ContainerFits, PlanFits, HaltFits, Marking,
         local, HasStatus, Installed
    <3>3. QED
      BY <1>0, <2>1, <2>2, <3>1, <3>2 DEF SParts, Marking, MarkIsClean, RestoresRunning,
         CheckIsCurrent, HasStatus, Installed, health
  <2>4. QED
    BY <1>2, <2>2, <2>3
<1>13. CASE StopAllMark
  <2>1. StoppedIsClean'
    BY <1>0, <1>13 DEF StopAllMark, UpdateStatus, Marking, MarkIsClean, StoppedIsClean,
       HasStatus, Installed, Instance, docker
  <2>2. QED
    BY <1>2, <1>13, <2>1 DEF StopAllMark
<1>14. CASE UNCHANGED vars
  <2>1. UNCHANGED <<record, container, mode, local, health>>
    BY <1>14 DEF vars, docker
  <2>2. QED
    BY <1>0, <1>3, <2>1 DEF SParts, Orderly, HaltFits, Marking, MarkIsClean, RestoresRunning,
       CheckIsCurrent, StoppedIsClean, HasStatus, Installed, health, local
<1>15. QED
  BY <1>1, <1>4, <1>5, <1>6, <1>7, <1>8, <1>9, <1>10, <1>11, <1>12, <1>13, <1>14
     DEF Next, Restoring, Exiting

\* The strengthened invariant holds throughout.
THEOREM StoppedInvariance == OneAtATime => (Spec => []SInv)
<1> SUFFICES ASSUME OneAtATime PROVE Spec => []SInv
  OBVIOUS
<1>1. Init => SInv
  <2> SUFFICES ASSUME Init PROVE SInv
    OBVIOUS
  <2>1. KInv
    BY InitKInv
  <2>2. StoppedIsClean
    BY DEF Init, StoppedIsClean
  <2>3. QED
    BY <2>1, <2>2 DEF Init, SInv, SParts, Orderly, RecordFits, ContainerFits, PlanFits, HaltFits,
       Holding, Starting, AfterStop, StartSteps, UndoSteps, StopSteps, Marking, MarkIsClean,
       RestoresRunning, CheckIsCurrent
<1>2. SInv /\ [Next]_vars => SInv'
  BY NextTidy, NextKnown, NextIInv DEF SInv, KInv, KParts
<1>3. QED
  BY <1>1, <1>2, PTL DEF Spec

\* While operations, health checks and the restore at boot wait for one
\* another, a plugin that stopCore saved as stopped has no container, for any
\* versions and any number of failing calls, outages, crashes and shutdowns:
\* a stop that fails returns before it saves, and the two other places that
\* write stopped, the restore loop and StopAll, leave the RuntimeInfo there.
THEOREM StoppedHasNoContainer == OneAtATime => (Spec => []StoppedIsClean)
<1>1. SInv => StoppedIsClean
  BY DEF SInv, SParts
<1>2. QED
  BY <1>1, StoppedInvariance, PTL
-----------------------------------------------------------------------------
(* One thing at a time and undisturbed, what runs is what the record says.  *)

Cleared == container = NoContainer /\ account = NoCredential /\ ~network

\* Nothing is left of a plugin that does not run.
AtRest ==
  /\ Cleared
  /\ Installed => /\ record.status \in {"pending_setup", "ready", "stopped"}
                  /\ record.info = NoCredential

\* The container is up and of the record's making.
Matches ==
  /\ Installed
  /\ network
  /\ container # NoContainer
  /\ container.up
  /\ container.dir = record.dir
  /\ record.dirty \/ container.config = record.config

InService == HasStatus({"running"}) /\ Matches

\* p would make a container of the record.
MadeOf(p) ==
  /\ Installed
  /\ container = NoContainer
  /\ inst[p].dir = record.dir
  /\ inst[p].config = record.config

\* The steps of a process that finds nothing left of the plugin.
FindsNothing == {"install", "delete", "restart", "upgradeReload", "upgrade",
                 "reinstallReload", "reinstall", "provision"}

\* What there is of the plugin when p is at its step.
Stage(p) ==
  /\ pc[p] \in {"config", "restartCheck"} => InService \/ AtRest
  /\ pc[p] \in FindsNothing => AtRest
  /\ pc[p] = "install" => inst[p].info = NoCredential
  /\ pc[p] \in {"provision", "network", "env", "pull", "containers"} => MadeOf(p)
  /\ pc[p] \in {"env", "pull", "containers"} => network
  /\ pc[p] \in {"info", "running"} => Matches
  /\ pc[p] = "stopContainers" => InService
  /\ pc[p] \in StopSteps => record.info # NoCredential
  /\ pc[p] \in {"stopAccount", "stopSave"} => ~network
  /\ pc[p] = "stopSave" => account = NoCredential
  /\ pc[p] \notin UndoSteps \union {"restore", "restoreFailed"}

\* Until the restore loop is over only dev plugins are served.
Early == mode \in {"down", "boot"}

EarlyFits(p) ==
  Early /\ pc[p] # "idle" =>
    /\ Installed => record.dev
    /\ pc[p] = "install" => inst[p].dev

EarlyIsDev == Early /\ HasStatus({"running"}) => record.dev

\* The health checker looks at what is up.
FindsUp ==
  check # "idle" => check = "inspect" /\ seen.status = "running" /\ HasStatus({"running"})

\* Nobody is at work.
NobodyWorks == \A p \in Process : pc[p] = "idle"

UParts ==
  /\ mode \in {"down", "boot", "up"}
  /\ EarlyIsDev /\ FindsUp
  /\ \A p \in Process : Stage(p) /\ EarlyFits(p)
  /\ NobodyWorks => InService \/ AtRest

UInv == SInv /\ (Undisturbed => UParts)

\* What a step of p leaves to show, while the others rest.
Builds(p) ==
  /\ Stage(p)' /\ EarlyFits(p)' /\ EarlyIsDev'
  /\ pc'[p] = "idle" => InService' \/ AtRest'

\* The rest stays in order.
LEMMA BuildsOK ==
  ASSUME SInv, UParts, NEW p \in Process, Settles(p), Builds(p), UNCHANGED mode
  PROVE  UParts'
<1>1. ASSUME NEW q \in Process, q # p PROVE Stage(q)' /\ EarlyFits(q)'
  BY <1>1 DEF Settles, Stage, EarlyFits, FindsNothing, UndoSteps, StopSteps
<1>2. FindsUp'
  BY DEF Settles, FindsUp
<1>3. NobodyWorks' => InService' \/ AtRest'
  BY DEF Builds, NobodyWorks
<1>4. QED
  BY <1>1, <1>2, <1>3 DEF UParts, Builds

\* A step counts at most one fault, outage or exit.
LEMMA OneCounts ==
  ASSUME [Next]_vars
  PROVE  \/ UNCHANGED bounds
         \/ faults' = faults + 1 /\ UNCHANGED <<outages, exits>>
         \/ outages' = outages + 1 /\ UNCHANGED <<faults, exits>>
         \/ exits' = exits + 1 /\ UNCHANGED <<faults, outages>>
<1> USE DEF Works, Fails, bounds
<1>1. ASSUME NEW p \in Process, Request(p)
      PROVE  UNCHANGED bounds
  BY <1>1 DEF Request, Install, Start, Stop, ConfigGet, Uninstall, Upgrade, ReinstallDev, Replace
<1>2. ASSUME NEW p \in Process, Continue(p)
      PROVE  UNCHANGED bounds \/ (faults' = faults + 1 /\ UNCHANGED <<outages, exits>>)
  BY <1>2 DEF Continue, StartCore, StopCore, Provision, CreateNetwork, BuildEnv, PullImages,
     StartContainers, UpdateRuntimeInfo, MarkRunning, UndoAccount, UndoContainers, UndoNetwork,
     SetFailedGet, SetFailedSave, StopContainers, StopNetwork, StopAccount, StopSave,
     SaveInstall, ConfigSave, StopThenStart, Restart, Delete, Reload, SwitchVersion, Overwrite,
     Undo, StopPluginFails, RemoveNetwork
<1>3. CASE HealthCheck
  BY <1>3 DEF HealthCheck, HealthList, HealthInspect, HealthGet, HealthSave
<1>4. CASE RestoreStart \/ RestoreFailed \/ Boot \/ Restoring
  BY <1>4 DEF RestoreStart, RestoreFailed, Boot, Restoring, RestoreList, ResetInterrupted, Restore
<1>5. CASE Shutdown \/ Exiting \/ Crash \/ Outage
  BY <1>5 DEF Shutdown, Exiting, StopAllList, StopAllHalt, StopAllMark, Crash, Outage
<1>6. CASE UNCHANGED vars
  BY <1>6 DEF vars
<1>7. QED
  BY <1>1, <1>2, <1>3, <1>4, <1>5, <1>6 DEF Next

\* A step after which nothing was disturbed disturbs nothing.
LEMMA NothingFails ==
  ASSUME IInv, [Next]_vars, Undisturbed'
  PROVE  Undisturbed /\ UNCHANGED bounds
<1>1. faults \in Nat /\ outages \in Nat /\ exits \in Nat
  BY BoundsAssumption DEF IInv, BoundsOK
<1>2. QED
  BY <1>1, OneCounts DEF Undisturbed, bounds

\* UpdateStatus of an installed plugin writes the status and nothing else.
StatusAlone(s) ==
  /\ record' # NoRecord
  /\ record'.status = s
  /\ record'.info = record.info
  /\ record'.dirty = record.dirty
  /\ record'.config = record.config
  /\ record'.dir = record.dir
  /\ record'.dev = record.dev

\* For any status.
LEMMA UpdateStatusAlone ==
  ASSUME record \in Instance, NEW s \in Statuses, UpdateStatus(s)
  PROVE  StatusAlone(s)
<1>1. record # NoRecord
  BY NullAssumption
<1>2. record' = [record EXCEPT !.status = s]
  BY <1>1 DEF UpdateStatus, Installed
<1>3. record' \in Instance
  BY <1>2, WithStatusType
<1>4. QED
  BY <1>2, <1>3, NullAssumption DEF StatusAlone, Instance

\* Undisturbed, every step of a goroutine leaves the plugin in order.
LEMMA ContinueBuilds ==
  ASSUME SInv, UParts, NEW p \in Process, Continue(p), UNCHANGED bounds
  PROVE  Builds(p)
<1>0. /\ pc \in [Process -> Steps] /\ inst \in [Process -> Instance \union {NoRecord}]
      /\ cred \in [Process -> Password] /\ plan \in [Process -> Plans]
      /\ container \in Container \union {NoContainer}
      /\ pc[p] \in Holders => inst[p] \in Instance
      /\ pc[p] \in StopSteps => plan[p] \in Thens
      /\ Installed => record \in Instance
      /\ RecordFits(p) /\ ContainerFits(p)
      /\ Stage(p) /\ EarlyFits(p) /\ EarlyIsDev
      /\ NoRecord \notin Instance
      /\ NoContainer \notin Container
  BY InstalledType, NullAssumption
     DEF SInv, SParts, Orderly, KInv, IInv, WorkOK, StoreOK, Fits, UParts
<1>1. UNCHANGED <<mode, health>>
  BY DEF Continue, StartCore, StopCore, Provision, CreateNetwork, BuildEnv, PullImages,
     StartContainers, UpdateRuntimeInfo, MarkRunning, UndoAccount, UndoContainers, UndoNetwork,
     SetFailedGet, SetFailedSave, StopContainers, StopNetwork, StopAccount, StopSave,
     SaveInstall, ConfigSave, StopThenStart, Restart, Delete, Reload, SwitchVersion, Overwrite
<1>2. /\ ~Fails
      /\ \A stage : ~Undo(p, stage)
      /\ ~StopPluginFails
  <2>1. faults \in Nat /\ UNCHANGED faults
    BY BoundsAssumption DEF SInv, KInv, IInv, BoundsOK, bounds
  <2>2. QED
    BY <2>1 DEF Fails, Undo, StopPluginFails
<1>3. RunningIsKnown
  BY DEF SInv, KInv
<1> USE <1>0, <1>1, <1>2 DEF Builds, Stage, EarlyFits, EarlyIsDev, Early, FindsNothing, InService,
      AtRest, Cleared, Matches, MadeOf, HasStatus, Installed, StopSteps, UndoSteps, docker
<1>4. CASE Provision(p)
  BY <1>4 DEF Provision
<1>5. CASE CreateNetwork(p)
  BY <1>5 DEF CreateNetwork, Goto
<1>6. CASE BuildEnv(p)
  <2>1. UpdateStatus("pulling") /\ "pulling" \in Statuses /\ MadeOf(p) /\ network
    BY <1>6 DEF BuildEnv, Statuses
  <2>2. StatusAlone("pulling")
    BY <1>0, <2>1, UpdateStatusAlone
  <2>3. QED
    BY <1>6, <2>1, <2>2 DEF BuildEnv, Goto, StatusAlone
<1>7. CASE PullImages(p)
  <2>1. UpdateStatus("starting") /\ "starting" \in Statuses /\ MadeOf(p) /\ network
    BY <1>7 DEF PullImages, Statuses
  <2>2. StatusAlone("starting")
    BY <1>0, <2>1, UpdateStatusAlone
  <2>3. QED
    BY <1>7, <2>1, <2>2 DEF PullImages, Goto, StatusAlone
<1>8. CASE StartContainers(p)
  <2>1. NewContainer(p, TRUE) \in Container
    BY <1>8, NewContainerType DEF StartContainers, Holders
  <2>2. /\ MadeOf(p) /\ network
        /\ container' = NewContainer(p, TRUE)
        /\ UNCHANGED <<record, network, inst>>
        /\ pc' = [pc EXCEPT ![p] = "info"]
    BY <1>8 DEF StartContainers, StartedContainer, Goto
  <2>3. /\ container' # NoContainer /\ container'.up
        /\ container'.dir = record.dir /\ container'.config = record.config
    BY <2>1, <2>2 DEF NewContainer
  <2>4. Matches'
    BY <2>2, <2>3
  <2>5. pc'[p] = "info"
    BY <2>2
  <2>6. Stage(p)'
    BY <2>4, <2>5
  <2>7. EarlyFits(p)' /\ EarlyIsDev'
    BY <1>8, <2>2, <2>5 DEF StartContainers
  <2>8. QED
    BY <2>5, <2>6, <2>7
<1>9. CASE UpdateRuntimeInfo(p)
  BY <1>9 DEF UpdateRuntimeInfo, Instance, Goto, Return
<1>10. CASE MarkRunning(p)
  <2>1. UpdateStatus("running") /\ "running" \in Statuses /\ Matches /\ UNCHANGED docker
    BY <1>10 DEF MarkRunning, Statuses
  <2>2. StatusAlone("running")
    BY <1>0, <2>1, UpdateStatusAlone
  <2>3. InService'
    BY <2>1, <2>2 DEF StatusAlone
  <2>4. QED
    BY <1>10, <2>2, <2>3 DEF MarkRunning, Return, StatusAlone
<1>11. CASE \/ UndoAccount(p) \/ UndoContainers(p) \/ UndoNetwork(p)
            \/ SetFailedGet(p) \/ SetFailedSave(p)
  BY <1>11 DEF UndoAccount, UndoContainers, UndoNetwork, SetFailedGet, SetFailedSave
<1>12. CASE StopContainers(p)
  BY <1>12 DEF StopContainers, Goto
<1>13. CASE StopNetwork(p)
  BY <1>13 DEF StopNetwork, RemoveNetwork, IsUp, Goto, AfterStop, ContainerFits
<1>14. CASE StopAccount(p)
  BY <1>14 DEF StopAccount, Goto, RecordFits, Holding
<1>15. CASE StopSave(p)
  BY <1>15 DEF StopSave, Stopped, Thens, Holders, Instance, Goto, Return, ContainerFits, AfterStop,
     RecordFits, Holding
<1>16. CASE SaveInstall(p)
  BY <1>16 DEF SaveInstall, Return, RecordFits
<1>17. CASE ConfigSave(p)
  <2>1. /\ inst[p] = record /\ record \in Instance /\ record' = Configured(record)
        /\ InService \/ AtRest
        /\ UNCHANGED <<docker, account>>
    BY <1>17 DEF ConfigSave, RecordFits, Holding, Holders
  <2>2. Configured(record) \in Instance
    BY <1>17, <2>1, ConfiguredType DEF ConfigSave, SInv, KInv, IInv, WorkOK, Fits
  <2>3. /\ record' # NoRecord
        /\ record'.info = record.info /\ record'.dev = record.dev /\ record'.dir = record.dir
        /\ record.status = "running" => record'.status = "running" /\ record'.dirty
        /\ record'.status \in {record.status, "ready"}
        /\ record'.status = "running" => record.status = "running"
    BY <2>1, <2>2 DEF Configured, Instance
  <2>4. InService' \/ AtRest'
    <3>1. CASE InService
      BY <2>1, <2>3, <3>1
    <3>2. CASE AtRest
      BY <2>1, <2>3, <3>2
    <3>3. QED
      BY <2>1, <3>1, <3>2
  <2>5. EarlyIsDev'
    BY <1>17, <2>1, <2>3 DEF ConfigSave
  <2>6. CASE Return(p)
    BY <2>4, <2>5, <2>6 DEF Return
  <2>7. CASE ~record'.dev /\ record'.status # "running" /\ GotoWith(p, "provision", record')
    BY <1>17, <2>1, <2>3, <2>4, <2>5, <2>7 DEF GotoWith, ConfigSave
  <2>8. CASE Goto(p, "restartCheck")
    BY <1>17, <2>1, <2>3, <2>4, <2>5, <2>8 DEF Goto, ConfigSave
  <2>9. QED
    BY <1>17, <2>1, <2>6, <2>7, <2>8 DEF ConfigSave
<1>18. CASE StopThenStart(p)
  BY <1>3, <1>18 DEF StopThenStart, BeginStop, Return, RunningIsKnown
<1>19. CASE Restart(p)
  BY <1>19 DEF Restart, GotoWith, Return
<1>20. CASE Delete(p)
  BY <1>20 DEF Delete, Return
<1>21. CASE Reload(p, "upgradeReload", "upgrade") \/ Reload(p, "reinstallReload", "reinstall")
  BY <1>21 DEF Reload, GotoWith, Return
<1>22. CASE SwitchVersion(p)
  <2>1. inst[p] \in Instance /\ inst[p] = record
    BY <1>22 DEF SwitchVersion, Holders, RecordFits, Holding
  <2>2. /\ Upgraded(p).info = record.info
        /\ Upgraded(p).dev = record.dev
        /\ Upgraded(p).status \in {record.status, "ready", "stopped"}
    BY <2>1 DEF Upgraded, Instance
  <2>3. Upgraded(p) # NoRecord
    BY <1>22, <2>1, UpgradedType DEF SwitchVersion, SInv, KInv, IInv, WorkOK, Fits, Switching
  <2>4. QED
    BY <1>22, <2>1, <2>2, <2>3 DEF SwitchVersion, Return, GotoWith
<1>23. CASE Overwrite(p)
  BY <1>23 DEF Overwrite, Return
<1>24. QED
  BY <1>4, <1>5, <1>6, <1>7, <1>8, <1>9, <1>10, <1>11, <1>12, <1>13, <1>14, <1>15, <1>16, <1>17,
     <1>18, <1>19, <1>20, <1>21, <1>22, <1>23 DEF Continue, StartCore, StopCore

\* So does taking a request.
LEMMA RequestBuilds ==
  ASSUME OneAtATime, SInv, UParts, NEW p \in Process, Request(p)
  PROVE  Builds(p) /\ UNCHANGED mode
<1>0. /\ pc \in [Process -> Steps] /\ inst \in [Process -> Instance \union {NoRecord}]
      /\ Installed => record \in Instance
      /\ RunningIsKnown /\ EarlyIsDev
      /\ mode \in {"down", "boot", "up"}
  BY InstalledType DEF SInv, KInv, IInv, WorkOK, UParts
<1>1. UNCHANGED <<record, docker, account, mode, health>> /\ NothingUnderWay
  BY DEF Request, Install, Start, Stop, ConfigGet, Uninstall, Upgrade, ReinstallDev, Replace, Call
<1>2. InService \/ AtRest
  BY <1>1 DEF UParts, NobodyWorks, NothingUnderWay
<1> USE <1>0, <1>1, <1>2 DEF Builds, Stage, EarlyFits, EarlyIsDev, Early, FindsNothing, InService,
      AtRest, Cleared, Matches, MadeOf, HasStatus, Installed, StopSteps, UndoSteps, docker,
      Call, Serving
<1>3. CASE Install(p)
  BY <1>3 DEF Install, GotoWith, New
<1>4. CASE Start(p)
  BY <1>4 DEF Start, GotoWith, Startable
<1>5. CASE Stop(p)
  BY <1>5 DEF Stop, BeginStop, RunningIsKnown
<1>6. CASE ConfigGet(p)
  BY <1>6 DEF ConfigGet, GotoWith
<1>7. CASE Uninstall(p)
  BY <1>7 DEF Uninstall, BeginStop, Goto, RunningIsKnown
<1>8. CASE Upgrade(p)
  BY <1>8 DEF Upgrade, Replace, BeginStop, RunningIsKnown
<1>9. CASE ReinstallDev(p)
  BY <1>9 DEF ReinstallDev, Replace, BeginStop, RunningIsKnown
<1>10. QED
  BY <1>3, <1>4, <1>5, <1>6, <1>7, <1>8, <1>9 DEF Request

\* Undisturbed, every step leaves the plugin in order.
LEMMA NextBuilds ==
  ASSUME OneAtATime, SInv, UParts, [Next]_vars, UNCHANGED bounds
  PROVE  UParts'
<1>0. /\ KInv /\ Alone /\ FindsUp /\ EarlyIsDev
      /\ mode \in {"down", "boot", "up"}
      /\ \A p \in Process : Stage(p) /\ EarlyFits(p)
      /\ NobodyWorks => InService \/ AtRest
      /\ Restorer \in Process
      /\ faults \in Nat /\ outages \in Nat /\ exits \in Nat
      /\ UNCHANGED <<faults, outages, exits>>
  BY BoundsAssumption DEF SInv, KInv, IInv, BoundsOK, UParts, Process, bounds
<1>1. ASSUME NEW p \in Process, Request(p) PROVE UParts'
  BY <1>0, <1>1, RequestSettles, RequestBuilds, BuildsOK
<1>2. ASSUME NEW p \in Process, Continue(p) PROVE UParts'
  <2>1. UNCHANGED mode
    BY <1>2 DEF Continue, StartCore, StopCore, Provision, CreateNetwork, BuildEnv, PullImages,
     StartContainers, UpdateRuntimeInfo, MarkRunning, UndoAccount, UndoContainers, UndoNetwork,
     SetFailedGet, SetFailedSave, StopContainers, StopNetwork, StopAccount, StopSave,
     SaveInstall, ConfigSave, StopThenStart, Restart, Delete, Reload, SwitchVersion, Overwrite
  <2>2. QED
    BY <1>0, <1>2, <2>1, ContinueSettles, ContinueBuilds, BuildsOK
\* The steps that change neither the plugin nor a process.
<1>3. ASSUME UNCHANGED <<record, docker, account, local>>, mode' \in {"down", "boot", "up"},
             EarlyIsDev', FindsUp', Early' => Early
      PROVE  UParts'
  BY <1>0, <1>3 DEF UParts, Stage, EarlyFits, FindsNothing, InService, AtRest, Cleared, Matches,
     MadeOf, NobodyWorks, HasStatus, Installed, docker, local
<1>4. CASE Boot
  <2>1. UNCHANGED <<record, docker, account, local, check, seen>> /\ mode' = "boot" /\ Early
    BY <1>4 DEF Boot, Early, health
  <2>2. EarlyIsDev' /\ FindsUp'
    BY <1>0, <2>1 DEF EarlyIsDev, FindsUp, HasStatus, Installed
  <2>3. QED
    BY <1>3, <2>1, <2>2
<1>5. CASE RestoreList
  <2>1. InService \/ AtRest
    BY <1>0, <1>5 DEF RestoreList, NobodyWorks, NothingUnderWay
  <2>2. ~HasStatus({"pulling", "starting"}) /\ (HasStatus({"running"}) => record.dev)
    BY <1>0, <1>5, <2>1 DEF RestoreList, InService, AtRest, HasStatus, EarlyIsDev, Early
  <2>3. UNCHANGED <<record, docker, account, local, check, seen>> /\ mode' = "up"
    BY <1>5, <2>2 DEF RestoreList, health
  <2>4. EarlyIsDev' /\ FindsUp' /\ ~Early'
    BY <1>0, <2>3 DEF EarlyIsDev, Early, FindsUp, HasStatus, Installed
  <2>5. QED
    BY <1>3, <2>3, <2>4
<1>6. CASE HealthCheck
  <2>1. ~HealthGet /\ ~HealthSave
    BY <1>0 DEF FindsUp, HealthGet, HealthSave
  <2>2. InService \/ AtRest
    BY <1>0, <1>6, <2>1 DEF HealthCheck, HealthList, HealthInspect, NothingUnderWay, NobodyWorks,
       Alone
  <2>3. UNCHANGED <<record, docker, account, mode, local>>
    BY <1>6, <2>1 DEF HealthCheck, HealthList, HealthInspect
  <2>4. CASE HealthList
    BY <1>0, <1>3, <2>2, <2>3, <2>4 DEF HealthList, InService, AtRest, FindsUp, EarlyIsDev, Early,
       HasStatus, Installed
  <2>5. CASE HealthInspect
    <3>1. seen.status = "running" /\ IsUp /\ ~ShuttingDown
      BY <1>0, <2>2, <2>5 DEF HealthInspect, FindsUp, InService, AtRest, Matches, IsUp, HasStatus,
         ShuttingDown
    <3>2. ~Fails
      BY <1>0 DEF Fails
    <3>3. check' = "idle"
      BY <2>5, <3>1, <3>2 DEF HealthInspect
    <3>4. QED
      BY <1>0, <1>3, <2>3, <3>3 DEF FindsUp, EarlyIsDev, Early, HasStatus, Installed
  <2>6. QED
    BY <1>6, <2>1, <2>4, <2>5 DEF HealthCheck
<1>7. CASE UNCHANGED vars
  <2>1. UNCHANGED <<record, docker, account, local, mode, check, seen>>
    BY <1>7 DEF vars, health
  <2>2. EarlyIsDev' /\ FindsUp' /\ (Early' => Early)
    BY <1>0, <2>1 DEF EarlyIsDev, Early, FindsUp, HasStatus, Installed
  <2>3. QED
    BY <1>0, <1>3, <2>1, <2>2
<1>8. ~RestoreStart /\ ~RestoreFailed
  BY <1>0 DEF RestoreStart, RestoreFailed, Stage
<1>9. ~ResetInterrupted /\ ~Restore /\ ~Exiting
  BY <1>0 DEF ResetInterrupted, Restore, Exiting, StopAllList, StopAllHalt, StopAllMark
<1>10. ~Shutdown /\ ~Crash /\ ~Outage
  BY <1>0 DEF Shutdown, Crash, Outage
<1>11. QED
  BY <1>1, <1>2, <1>4, <1>5, <1>6, <1>7, <1>8, <1>9, <1>10 DEF Next, Restoring

\* The invariant of a plugin that nothing disturbs holds throughout.
THEOREM UndisturbedInvariance == OneAtATime => (Spec => []UInv)
<1> SUFFICES ASSUME OneAtATime PROVE Spec => []UInv
  OBVIOUS
<1>1. Init => (Undisturbed => UParts)
  <2> SUFFICES ASSUME Init PROVE UParts
    OBVIOUS
  <2>1. ASSUME NEW v \in Version, NEW dev \in BOOLEAN
        PROVE  ReadyRecord(v, dev).status = "ready" /\ ReadyRecord(v, dev).info = NoCredential
    BY DEF ReadyRecord, New
  <2>2. AtRest /\ ~HasStatus({"running"})
    BY <2>1 DEF Init, AtRest, Cleared, HasStatus, Installed
  <2>3. QED
    BY <2>2 DEF Init, UParts, EarlyIsDev, FindsUp, Stage, EarlyFits, FindsNothing, UndoSteps,
       StopSteps
<1>2. ASSUME UInv, SInv', [Next]_vars PROVE UInv'
  <2>1. ASSUME Undisturbed' PROVE UParts'
    <3>1. Undisturbed /\ UNCHANGED bounds
      BY <1>2, <2>1, NothingFails DEF UInv, SInv, KInv
    <3>2. QED
      BY <1>2, <3>1, NextBuilds DEF UInv
  <2>2. QED
    BY <1>2, <2>1 DEF UInv
<1>3. Spec => []SInv
  BY StoppedInvariance
<1>4. SInv /\ (Undisturbed => UParts) => UInv
  BY DEF UInv
<1>5. UInv /\ SInv' /\ [Next]_vars => UInv'
  BY <1>2
<1>6. QED
  BY <1>1, <1>3, <1>4, <1>5, PTL DEF Spec

\* While operations, health checks and the restore at boot wait for one
\* another and no call fails, no container changes by itself and the daemon
\* stays up, the container of a running plugin is of the record's version and
\* configuration (unless marked dirty) and nothing is left of a plugin that
\* was uninstalled, for any versions, any configuration they require and any
\* sequence of installs, starts, stops, saves, upgrades and reinstalls.
THEOREM UndisturbedRunsAsRecorded == OneAtATime => (Spec => []UndisturbedIsAsRecorded)
<1>1. UInv => UndisturbedIsAsRecorded
  <2> SUFFICES ASSUME UInv, Undisturbed PROVE RunsAsRecorded /\ UninstallIsFull
    BY DEF UndisturbedIsAsRecorded
  <2>1. Resting => InService \/ AtRest
    BY DEF UInv, UParts, Resting, NothingUnderWay, NobodyWorks
  <2>2. QED
    BY <2>1 DEF RunsAsRecorded, UninstallIsFull, Serves, InService, Matches, AtRest, Cleared,
       HasStatus, Installed
<1>2. QED
  BY <1>1, UndisturbedInvariance, PTL
-----------------------------------------------------------------------------
(* One thing at a time and without failing calls, there is one password.    *)

\* A plugin that is uninstalled while it is failed keeps its container and
\* drops its password, and so does a reinstalled one: the next start gives the
\* broker a new password and the container keeps the old one.
DropsNoPassword ==
  /\ "reinstall" \notin Operations
  /\ ~({"install", "uninstall"} \subseteq Operations)

\* The container, the broker and the record hold one password.
Agree ==
  /\ Installed /\ container # NoContainer =>
       /\ container.cred = account
       /\ account = record.info
       /\ record.info # NoCredential
  /\ ~Installed /\ "install" \in Operations => container = NoContainer

\* The steps with a password on its way to the record.
Carrying == {"network", "env", "pull", "containers", "info"}

PasswordFits(p) ==
  /\ IF pc[p] \in Carrying
       THEN /\ account = cred[p]
            /\ container # NoContainer => container.cred = cred[p]
            /\ Installed
       ELSE pc[p] # "idle" => Agree
  /\ pc[p] = "provision" => Installed /\ inst[p].info = record.info
  /\ pc[p] = "running" => Installed
  /\ pc[p] = "install" => "install" \in Operations
  /\ \/ pc[p] = "delete"
     \/ pc[p] \in StopSteps /\ plan[p] = "delete"
     => "uninstall" \in Operations
  /\ pc[p] \notin UndoSteps \union {"reinstall", "reinstallReload"}
  /\ pc[p] \in StopSteps => plan[p] # "reinstallReload"

WithoutFault == faults = 0 /\ exits = 0

PParts ==
  /\ \A p \in Process : PasswordFits(p)
  /\ NobodyWorks => Agree
  /\ mode \in {"down", "boot", "reset", "restore", "up"}

PInv == SInv /\ (WithoutFault => PParts)

\* What a step of p leaves to show, while the others rest.
Carries(p) == PasswordFits(p)' /\ (pc'[p] = "idle" => Agree')

\* The rest stays in order.
LEMMA CarriesOK ==
  ASSUME SInv, PParts, NEW p \in Process, Settles(p), Carries(p),
         mode' \in {"down", "boot", "reset", "restore", "up"}
  PROVE  PParts'
<1>1. ASSUME NEW q \in Process, q # p PROVE PasswordFits(q)'
  BY <1>1 DEF Settles, PasswordFits, Carrying, UndoSteps, StopSteps
<1>2. NobodyWorks' => Agree'
  BY DEF Carries, NobodyWorks
<1>3. QED
  BY <1>1, <1>2 DEF PParts, Carries

\* Without failing calls every step of a goroutine keeps the passwords
\* together.
LEMMA ContinueCarries ==
  ASSUME DropsNoPassword, SInv, PParts, NEW p \in Process, Continue(p), UNCHANGED faults
  PROVE  Carries(p)
<1>0. /\ pc \in [Process -> Steps] /\ inst \in [Process -> Instance \union {NoRecord}]
      /\ cred \in [Process -> Password] /\ plan \in [Process -> Plans]
      /\ container \in Container \union {NoContainer}
      /\ pc[p] \in Holders => inst[p] \in Instance
      /\ pc[p] \in StopSteps => plan[p] \in Thens
      /\ Installed => record \in Instance
      /\ PasswordFits(p)
      /\ NoRecord \notin Instance
      /\ NoContainer \notin Container
  BY InstalledType, NullAssumption
     DEF SInv, SParts, KInv, IInv, WorkOK, StoreOK, Fits, PParts
<1>1. RecordFits(p) /\ ContainerFits(p) /\ Held(p)
  BY DEF SInv, SParts, Orderly, KInv, AllHeld
<1>2. /\ ~Fails
      /\ \A stage : ~Undo(p, stage)
      /\ ~StopPluginFails
  <2>1. faults \in Nat
    BY BoundsAssumption DEF SInv, KInv, IInv, BoundsOK
  <2>2. QED
    BY <2>1 DEF Fails, Undo, StopPluginFails
<1>3. ASSUME NEW s \in Statuses, UpdateStatus(s), Installed PROVE StatusAlone(s)
  BY <1>0, <1>3, UpdateStatusAlone
<1> USE <1>0, <1>2 DEF Carries, PasswordFits, Carrying, Agree, Installed, StopSteps, UndoSteps, docker
<1>4. CASE Provision(p)
  BY <1>4 DEF Provision
<1>5. CASE CreateNetwork(p)
  BY <1>5 DEF CreateNetwork, Goto
<1>6. CASE BuildEnv(p)
  <2>1. StatusAlone("pulling")
    BY <1>3, <1>6 DEF BuildEnv, Statuses
  <2>2. QED
    BY <1>6, <2>1 DEF BuildEnv, Goto, StatusAlone
<1>7. CASE PullImages(p)
  <2>1. StatusAlone("starting")
    BY <1>3, <1>7 DEF PullImages, Statuses
  <2>2. QED
    BY <1>7, <2>1 DEF PullImages, Goto, StatusAlone
<1>8. CASE StartContainers(p)
  <2>1. container' = StartedContainer(p)
    BY <1>8 DEF StartContainers
  <2>2. container'.cred = cred[p]
    BY <1>8, <2>1 DEF StartContainers, StartedContainer, NewContainer, Container
  <2>3. QED
    BY <1>8, <2>2 DEF StartContainers, Goto
<1>9. CASE UpdateRuntimeInfo(p)
  <2>1. cred[p] # NoCredential /\ Installed
    BY <1>1, <1>9 DEF UpdateRuntimeInfo, Held
  <2>2. /\ record' = [record EXCEPT !.info = cred[p]]
        /\ pc' = [pc EXCEPT ![p] = "running"] /\ UNCHANGED <<cred, inst, plan, container, account>>
    BY <1>9, <2>1 DEF UpdateRuntimeInfo, Goto
  <2>3. record' # NoRecord /\ record'.info = cred[p]
    BY <2>1, <2>2, WithInfoType DEF Instance
  <2>4. QED
    BY <1>9, <2>1, <2>2, <2>3 DEF UpdateRuntimeInfo
<1>10. CASE MarkRunning(p)
  <2>1. StatusAlone("running")
    BY <1>3, <1>10 DEF MarkRunning, Statuses
  <2>2. QED
    BY <1>10, <2>1 DEF MarkRunning, Return, StatusAlone
<1>11. CASE \/ UndoAccount(p) \/ UndoContainers(p) \/ UndoNetwork(p)
            \/ SetFailedGet(p) \/ SetFailedSave(p)
            \/ Reload(p, "reinstallReload", "reinstall") \/ Overwrite(p)
  BY <1>11 DEF UndoAccount, UndoContainers, UndoNetwork, SetFailedGet, SetFailedSave, Reload,
     Overwrite
<1>12. CASE StopContainers(p)
  BY <1>12 DEF StopContainers, Goto
<1>13. CASE StopNetwork(p)
  BY <1>13 DEF StopNetwork, Goto
<1>14. CASE StopAccount(p)
  BY <1>1, <1>14 DEF StopAccount, Goto, ContainerFits, AfterStop
<1>15. CASE StopSave(p)
  BY <1>1, <1>15 DEF StopSave, Thens, Goto, Return, ContainerFits, AfterStop
<1>16. CASE SaveInstall(p)
  BY <1>1, <1>16 DEF SaveInstall, Return, RecordFits
<1>17. CASE ConfigSave(p)
  <2>1. inst[p] = record /\ record' = Configured(record)
    BY <1>1, <1>17 DEF ConfigSave, RecordFits, Holding
  <2>2. Configured(record) \in Instance
    BY <1>17, <2>1, ConfiguredType DEF ConfigSave, SInv, KInv, IInv, WorkOK, Fits, Holders
  <2>3. record' # NoRecord /\ record # NoRecord /\ record'.info = record.info
    BY <1>17, <2>1, <2>2 DEF ConfigSave, Configured, Instance, Holders
  <2>4. QED
    BY <1>17, <2>1, <2>3 DEF ConfigSave, Goto, GotoWith, Return
<1>18. CASE StopThenStart(p)
  BY <1>18 DEF StopThenStart, BeginStop, Return
<1>19. CASE Restart(p)
  BY <1>19 DEF Restart, GotoWith, Return
<1>20. CASE Delete(p)
  BY <1>20 DEF Delete, Return, DropsNoPassword
<1>21. CASE Reload(p, "upgradeReload", "upgrade")
  BY <1>21 DEF Reload, GotoWith, Return
<1>22. CASE SwitchVersion(p)
  <2>1. inst[p] \in Instance /\ inst[p] = record
    BY <1>1, <1>22 DEF SwitchVersion, Holders, RecordFits, Holding
  <2>2. Upgraded(p).info = record.info
    BY <2>1 DEF Upgraded, Instance
  <2>3. Upgraded(p) # NoRecord
    BY <1>22, <2>1, UpgradedType DEF SwitchVersion, SInv, KInv, IInv, WorkOK, Fits, Switching
  <2>4. QED
    BY <1>22, <2>1, <2>2, <2>3 DEF SwitchVersion, Return, GotoWith
<1>23. QED
  BY <1>4, <1>5, <1>6, <1>7, <1>8, <1>9, <1>10, <1>11, <1>12, <1>13, <1>14, <1>15, <1>16, <1>17,
     <1>18, <1>19, <1>20, <1>21, <1>22 DEF Continue, StartCore, StopCore

\* So does taking a request.
LEMMA RequestCarries ==
  ASSUME OneAtATime, DropsNoPassword, SInv, PParts, NEW p \in Process, Request(p)
  PROVE  Carries(p) /\ UNCHANGED mode
<1>0. /\ pc \in [Process -> Steps] /\ inst \in [Process -> Instance \union {NoRecord}]
      /\ plan \in [Process -> Plans]
      /\ pc[p] = "idle" => plan[p] = "none"
  BY DEF SInv, SParts, Orderly, PlanFits, KInv, IInv, WorkOK
<1>1. UNCHANGED <<record, docker, account, mode, health>> /\ NothingUnderWay
  BY DEF Request, Install, Start, Stop, ConfigGet, Uninstall, Upgrade, ReinstallDev, Replace, Call
<1>2. Agree
  BY <1>1 DEF PParts, NobodyWorks, NothingUnderWay
<1>3. Agree'
  BY <1>1, <1>2 DEF Agree, Installed, docker
<1> USE <1>0, <1>1, <1>3 DEF Carries, PasswordFits, Carrying, Installed, StopSteps, UndoSteps,
      docker, Call
<1>4. CASE Install(p)
  BY <1>4 DEF Install, GotoWith
<1>5. CASE Start(p)
  BY <1>5 DEF Start, GotoWith, HasStatus
<1>6. CASE Stop(p)
  BY <1>6 DEF Stop, BeginStop
<1>7. CASE ConfigGet(p)
  BY <1>7 DEF ConfigGet, GotoWith
<1>8. CASE Uninstall(p)
  BY <1>8 DEF Uninstall, BeginStop, Goto
<1>9. CASE Upgrade(p)
  BY <1>9 DEF Upgrade, Replace, BeginStop
<1>10. CASE ReinstallDev(p)
  BY <1>10 DEF ReinstallDev, DropsNoPassword
<1>11. QED
  BY <1>4, <1>5, <1>6, <1>7, <1>8, <1>9, <1>10 DEF Request

\* Without failing calls and exits, every step keeps the passwords together.
LEMMA NextCarries ==
  ASSUME OneAtATime, DropsNoPassword, SInv, PParts, [Next]_vars, UNCHANGED <<faults, exits>>
  PROVE  PParts'
<1>0. /\ KInv /\ Alone
      /\ mode \in {"down", "boot", "reset", "restore", "up"}
      /\ \A p \in Process : PasswordFits(p)
      /\ NobodyWorks => Agree
      /\ Restorer \in Process
      /\ pc \in [Process -> Steps] /\ inst \in [Process -> Instance \union {NoRecord}]
      /\ Installed => record \in Instance
      /\ container \in Container \union {NoContainer}
      /\ NoContainer \notin Container
      /\ faults \in Nat /\ exits \in Nat
  BY BoundsAssumption, NullAssumption, InstalledType
     DEF SInv, KInv, IInv, StoreOK, WorkOK, BoundsOK, PParts, Process
<1>1. ASSUME NEW p \in Process, Request(p) PROVE PParts'
  BY <1>0, <1>1, RequestSettles, RequestCarries, CarriesOK DEF SInv
<1>2. ASSUME NEW p \in Process, Continue(p) PROVE PParts'
  <2>1. UNCHANGED mode
    BY <1>2 DEF Continue, StartCore, StopCore, Provision, CreateNetwork, BuildEnv, PullImages,
     StartContainers, UpdateRuntimeInfo, MarkRunning, UndoAccount, UndoContainers, UndoNetwork,
     SetFailedGet, SetFailedSave, StopContainers, StopNetwork, StopAccount, StopSave,
     SaveInstall, ConfigSave, StopThenStart, Restart, Delete, Reload, SwitchVersion, Overwrite
  <2>2. QED
    BY <1>0, <1>2, <2>1, ContinueSettles, ContinueCarries, CarriesOK
<1>3. CASE RestoreStart
  <2>1. PasswordFits(Restorer) /\ UNCHANGED <<record, docker, account, mode>>
    BY <1>0, <1>3 DEF RestoreStart
  <2>2. Carries(Restorer)
    BY <1>0, <1>3, <2>1 DEF RestoreStart, Goto, GotoWith, Carries, PasswordFits, Carrying, Agree,
       HasStatus, Installed, StopSteps, UndoSteps, docker
  <2>3. QED
    BY <1>0, <1>3, <2>1, <2>2, RestoreSettles, CarriesOK
<1>4. CASE RestoreFailed \/ Restore \/ ResetInterrupted
  <2>1. PICK s \in {"failed", "stopped"} : UpdateStatus(s)
    BY <1>4 DEF RestoreFailed, Restore, ResetInterrupted
  <2>2. UNCHANGED <<docker, account>>
    BY <1>4 DEF RestoreFailed, Restore, ResetInterrupted
  <2>3. (Installed <=> Installed') /\ (Installed => record'.info = record.info)
    <3>1. CASE Installed
      BY <1>0, <2>1, <3>1, UpdateStatusAlone DEF StatusAlone, Statuses, Installed
    <3>2. CASE ~Installed
      BY <2>1, <3>2 DEF UpdateStatus, Installed
    <3>3. QED
      BY <3>1, <3>2
  <2>4. Agree
    BY <1>0, <1>4 DEF RestoreFailed, Restore, ResetInterrupted, PasswordFits, Carrying, Alone,
       NobodyWorks
  <2>5. Agree'
    BY <2>2, <2>3, <2>4 DEF Agree, docker
  <2>6. CASE RestoreFailed \/ Restore
    <3>1. Carries(Restorer)
      BY <1>0, <2>5, <2>6 DEF RestoreFailed, Restore, Return, Goto, Carries, PasswordFits, Carrying,
         StopSteps, UndoSteps
    <3>2. mode' \in {"down", "boot", "reset", "restore", "up"}
      BY <1>0, <2>6 DEF RestoreFailed, Restore
    <3>3. QED
      BY <1>0, <2>6, <3>1, <3>2, RestoreSettles, CarriesOK
  <2>7. CASE ResetInterrupted
    <3>1. \A p \in Process : pc[p] = "idle"
      BY <1>0, <2>7 DEF ResetInterrupted, Alone
    <3>2. \A p \in Process : PasswordFits(p)'
      BY <2>7, <3>1 DEF ResetInterrupted, PasswordFits, Carrying, StopSteps, UndoSteps, local
    <3>3. QED
      BY <2>5, <2>7, <3>2 DEF ResetInterrupted, PParts
  <2>8. QED
    BY <1>4, <2>6, <2>7
\* The steps that move no process.
<1>5. ASSUME UNCHANGED <<record, account, local>>,
             mode' \in {"down", "boot", "reset", "restore", "up"},
             \/ UNCHANGED container
             \/ container # NoContainer /\ container' = [container EXCEPT !.up = ~container.up]
      PROVE  PParts'
  <2>1. /\ container = NoContainer <=> container' = NoContainer
        /\ container # NoContainer => container'.cred = container.cred
    BY <1>0, <1>5 DEF Container
  <2>2. Agree <=> Agree'
    BY <1>5, <2>1 DEF Agree, Installed
  <2>3. NobodyWorks <=> NobodyWorks'
    BY <1>5 DEF NobodyWorks, local
  <2>4. ASSUME NEW p \in Process PROVE PasswordFits(p)'
    BY <1>0, <1>5, <2>1, <2>2 DEF PasswordFits, Installed, local
  <2>5. QED
    BY <1>0, <1>5, <2>2, <2>3, <2>4 DEF PParts
<1>6. CASE Boot \/ RestoreList \/ HealthList \/ HealthInspect \/ HealthGet \/ Outage
  <2>1. UNCHANGED <<record, account, local>>
    BY <1>6 DEF Boot, RestoreList, HealthList, HealthInspect, HealthGet, Outage
  <2>2. mode' \in {"down", "boot", "reset", "restore", "up"}
    BY <1>0, <1>6 DEF Boot, RestoreList, HealthList, HealthInspect, HealthGet, Outage
  <2>3. \/ UNCHANGED container
        \/ container # NoContainer /\ container' = [container EXCEPT !.up = ~container.up]
    BY <1>6 DEF Boot, RestoreList, HealthList, HealthInspect, HealthGet, Outage, docker
  <2>4. QED
    BY <1>5, <2>1, <2>2, <2>3
<1>7. CASE HealthSave
  <2>1. /\ seen = record /\ record \in Instance
        /\ record' = [record EXCEPT !.status = IF check = "downSave" THEN "failed" ELSE "running"]
        /\ UNCHANGED <<container, account, mode, local>>
    BY <1>0, <1>7 DEF HealthSave, SInv, SParts, CheckIsCurrent, KInv, IInv, HealthOK, docker
  <2>2. /\ record' \in Instance
        /\ record'.info = record.info
    BY <2>1, WithStatusType DEF Instance, Statuses
  <2>3. Installed /\ Installed'
    BY <2>1, <2>2, NullAssumption DEF Installed
  <2>4. \A p \in Process : pc[p] = "idle"
    BY <1>0, <1>7 DEF HealthSave, Alone
  <2>5. Agree'
    BY <1>0, <2>1, <2>2, <2>3, <2>4 DEF Agree, NobodyWorks
  <2>6. \A p \in Process : PasswordFits(p)'
    BY <2>1, <2>4 DEF PasswordFits, Carrying, StopSteps, UndoSteps, local
  <2>7. QED
    BY <1>0, <2>1, <2>5, <2>6 DEF PParts
<1>8. CASE UNCHANGED vars
  BY <1>0, <1>5, <1>8 DEF vars, docker
<1>9. ~Shutdown /\ ~Crash /\ ~Exiting
  BY <1>0 DEF Shutdown, Crash, Exiting, StopAllList, StopAllHalt, StopAllMark
<1>10. QED
  BY <1>1, <1>2, <1>3, <1>4, <1>6, <1>7, <1>8, <1>9 DEF Next, Restoring, HealthCheck

\* The invariant of the passwords holds throughout.
THEOREM PasswordInvariance == OneAtATime /\ DropsNoPassword => (Spec => []PInv)
<1> SUFFICES ASSUME OneAtATime, DropsNoPassword PROVE Spec => []PInv
  OBVIOUS
<1>1. Init => (WithoutFault => PParts)
  <2> SUFFICES ASSUME Init PROVE PParts
    OBVIOUS
  <2>1. Agree
    BY DEF Init, Agree
  <2>2. QED
    BY <2>1 DEF Init, PParts, PasswordFits, Carrying, StopSteps, UndoSteps
<1>2. ASSUME PInv, SInv', [Next]_vars PROVE PInv'
  <2>1. ASSUME WithoutFault' PROVE PParts'
    <3>0. faults \in Nat /\ exits \in Nat
      BY <1>2, BoundsAssumption DEF PInv, SInv, KInv, IInv, BoundsOK
    <3>1. WithoutFault /\ UNCHANGED <<faults, exits>>
      BY <1>2, <2>1, <3>0, OneCounts DEF WithoutFault, bounds
    <3>2. QED
      BY <1>2, <3>1, NextCarries DEF PInv
  <2>2. QED
    BY <1>2, <2>1 DEF PInv
<1>3. Spec => []SInv
  BY StoppedInvariance
<1>4. SInv /\ (WithoutFault => PParts) => PInv
  BY DEF PInv
<1>5. PInv /\ SInv' /\ [Next]_vars => PInv'
  BY <1>2
<1>6. QED
  BY <1>1, <1>3, <1>4, <1>5, PTL DEF Spec

\* While operations, health checks and the restore at boot wait for one
\* another, no call fails and the daemon stays up, the container of a running
\* plugin, the broker and the record hold one password, whatever containers
\* are stopped and started from outside, whatever the health checker makes of
\* it and whatever is configured and upgraded.  Provision asks the broker for
\* the password of the record while there is one, and only stopCore, which
\* removes the container first, drops it.
THEOREM OnePassword ==
  OneAtATime /\ DropsNoPassword => (Spec => [](faults = 0 => CredentialsAgree))
<1> SUFFICES ASSUME OneAtATime, DropsNoPassword
             PROVE  Spec => [](faults = 0 => CredentialsAgree)
  OBVIOUS
<1>1. PInv => (faults = 0 => CredentialsAgree)
  <2> SUFFICES ASSUME PInv, faults = 0, exits = 0, Serves
               PROVE  container.cred = account /\ account = record.info
    BY DEF CredentialsAgree
  <2>1. Agree
    BY DEF PInv, PParts, WithoutFault, Serves, Resting, NothingUnderWay, NobodyWorks
  <2>2. QED
    BY <2>1 DEF Agree, Serves, HasStatus, IsUp
<1>2. Spec => []PInv
  BY PasswordInvariance
<1>3. QED
  BY <1>1, <1>2, PTL
=============================================================================

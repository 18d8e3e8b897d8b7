------------------------- MODULE ProvisioningProofs -------------------------
(***************************************************************************)
(* Theorems about Provisioning, for any versions and queues, any           *)
(* passwords, and any bound on the calls that fail and on the restarts.    *)
(***************************************************************************)
EXTENDS Provisioning, TLAPS

\* The steps of startCore, of the undoing of it and of stopCore, and what undoing ends with.
StartPcs == {"health", "createUser", "syncUser", "permissions", "queue", "bind", "redis",
             "containers", "saveInfo", "running"}
UndoPcs  == {"dropAcl", "dropUser"}
StopEnds == {"stopped", "upgrade", "delete"}
FailEnds == {"idle", "setFailed"}

Job == [pc     : StartPcs \cup UndoPcs \cup StopEnds \cup FailEnds,
        inst   : Instance \cup {NoRecord},
        todo   : Seq(Binding),
        rabbit : Password \cup {NoPassword},
        redis  : Password \cup {NoPassword},
        next   : StopEnds \cup FailEnds]

TypeOK ==
  /\ job \in Job
  /\ user \in Password \cup {NoPassword} /\ permitted \in BOOLEAN
  /\ acl \subseteq Password
  /\ record \in Instance \cup {NoRecord}
  /\ daemon \in {"down", "bootstrap", "router", "restore", "up"}
  /\ unsynced \in BOOLEAN /\ kept \in BOOLEAN

\* The instance a start has in hand is the record, as far as it matters: nothing else
\* touches it meanwhile.
InHand ==
  /\ daemon # "up" => job = Idle
  /\ job.pc # "idle" => record # NoRecord
  /\ job.pc \in StartPcs =>
       /\ job.inst # NoRecord
       /\ job.inst.version = record.version
       /\ record.status # "running"
       /\ job.pc # "running" => Held = record.info
  /\ job.pc \in UndoPcs /\ job.next \in FailEnds => record.status # "running"
  /\ record # NoRecord /\ record.status = "running" => record.info # NoInfo

\* How far a start is: behind each of these steps a call has been answered.
HasUser        == {"permissions", "queue", "bind", "redis", "containers", "saveInfo", "running"}
HasPermissions == HasUser \ {"permissions"}
HasRedis       == {"containers", "saveInfo", "running"}

Progress ==
  /\ job.pc \in {"createUser", "queue", "bind"} => Held = NoInfo
  /\ job.pc = "syncUser" => Held # NoInfo
  /\ job.pc \in HasUser => job.rabbit \in Password /\ user = job.rabbit
  /\ job.pc \in HasPermissions => permitted
  /\ job.pc \in HasRedis => job.redis \in Password /\ (unsynced \/ job.redis \in acl)
  /\ job.pc = "running" => record.info = [rabbit |-> job.rabbit, redis |-> job.redis]

\* RuntimeInfo stands for queues that are there; on the way to it, each is there or to come.
IsBound(b) == b \in bindings /\ b.queue \in queues
Remains(b) == \E j \in DOMAIN job.todo : job.todo[j] = b

QueuesInOrder ==
  /\ record # NoRecord /\ record.info # NoInfo /\ ~kept => QueuesBound
  /\ job.pc \in {"queue", "bind"} =>
       /\ job.todo # <<>>
       /\ \A i \in DOMAIN QueuesOf(record.version) :
             IsBound(QueuesOf(record.version)[i]) \/ Remains(QueuesOf(record.version)[i])
  /\ job.pc = "bind" => Head(job.todo).queue \in queues
  /\ job.pc \in {"redis", "containers", "saveInfo"} /\ Held = NoInfo => QueuesBound

IInv == TypeOK /\ InHand /\ Progress /\ RecordIsAccepted /\ QueuesInOrder

-----------------------------------------------------------------------------
(* What the operators of the model return. *)

\* The queues of a version are a list of bindings, and one is there always.
LEMMA QueuesOfType ==
  ASSUME NEW v \in Version
  PROVE  QueuesOf(v) \in Seq(Binding) /\ QueuesOf(v) # <<>>
<1>1. Queues[v] \in Seq(Binding)
  BY ProvisioningAssumption
<1>2. ActionsQueue \in Binding
  BY DEF Binding
<1>3. QED
  BY <1>1, <1>2 DEF QueuesOf

\* Nothing under way is a job.
LEMMA IdleType == Idle \in Job
BY DEF Idle, Job, FailEnds

\* So is one that has just begun with an instance.
LEMMA BeginType ==
  ASSUME NEW i \in Instance, Begin(i)
  PROVE  job' \in Job /\ job' = [Idle EXCEPT !.pc = "health", !.inst = i]
BY IdleType DEF Begin, Job, StartPcs

\* It is at its first step.
LEMMA BeginIs ==
  ASSUME NEW i, Begin(i)
  PROVE  job'.pc = "health" /\ job'.inst = i
BY DEF Begin, Idle

\* An instance of another status is one still.
LEMMA StatusType ==
  ASSUME NEW i \in Instance, NEW s \in {"ready", "starting", "running", "stopped", "failed"}
  PROVE  [i EXCEPT !.status = s] \in Instance
BY DEF Instance

\* Nothing that is bound is ever unbound.
Keeps == bindings \subseteq bindings' /\ queues \subseteq queues'

\* So the queues of a version stay.
LEMMA QueuesStay ==
  ASSUME QueuesBound, Keeps, record'.version = record.version
  PROVE  QueuesBound'
BY DEF QueuesBound, Keeps

-----------------------------------------------------------------------------
(* Every action keeps every part: first the types. *)

\* Setting the user, the way both starts do.
LEMMA PutUserTypes ==
  ASSUME TypeOK, NEW c \in Password, PutUser(c)
  PROVE  TypeOK'
BY IdleType DEF TypeOK, PutUser, Attempted, Return, Job, StartPcs

\* The steps of startCore keep the types.
LEMMA StartStepTypes == IInv /\ StartStep => TypeOK'
<1> SUFFICES ASSUME IInv, StartStep PROVE TypeOK'
  OBVIOUS
<1> USE DEF IInv, TypeOK, broker, counts, At
<1>1. CASE HealthCheck
  BY <1>1, IdleType DEF HealthCheck, NextAfterHealth, Goto, Return, Job, StartPcs
<1>2. CASE CreateUser
  BY <1>2, PutUserTypes DEF CreateUser
<1>3. CASE SetUserPassword
  <2>1. Held.rabbit \in Password
    BY <1>3 DEF SetUserPassword, InHand, Progress, StartPcs, Held, Job, Instance, Credentials
  <2>2. QED
    BY <1>3, <2>1, PutUserTypes DEF SetUserPassword
<1>4. CASE SetPermissions
  <2>1. job.inst.version \in Version
    BY <1>4 DEF SetPermissions, InHand, StartPcs, Job, Instance
  <2>2. QueuesOf(job.inst.version) \in Seq(Binding)
    BY <2>1, QueuesOfType
  <2>3. job' \in Job
    BY <1>4, <2>2, IdleType DEF SetPermissions, Return, Job, StartPcs
  <2>4. QED
    BY <1>4, <2>3 DEF SetPermissions, Attempted
<1>5. CASE DeclareQueue
  BY <1>5, IdleType DEF DeclareQueue, Goto, Return, Job, StartPcs, Attempted
<1>6. CASE BindQueue
  <2>1. job.todo \in Seq(Binding) /\ job.todo # <<>>
    BY <1>6 DEF BindQueue, QueuesInOrder, Job
  <2>2. Tail(job.todo) \in Seq(Binding)
    BY <2>1
  <2>3. job' \in Job
    BY <1>6, <2>2, IdleType DEF BindQueue, Bound, Return, Job, StartPcs
  <2>4. QED
    BY <1>6, <2>3 DEF BindQueue
<1>7. CASE ProvisionPlugin
  BY <1>7, IdleType DEF ProvisionPlugin, WithRedis, setUser, Return, Job, StartPcs, Attempted
<1>8. CASE SyncPlugin
  BY <1>8 DEF SyncPlugin, WithRedis, setUser, Job, StartPcs, Attempted, InHand, Held, Instance,
    Credentials
<1>9. CASE StartContainers
  <2>1. record \in Instance
    BY <1>9 DEF StartContainers, InHand
  <2>2. record' \in Instance
    BY <1>9, <2>1, StatusType DEF StartContainers
  <2>3. job' \in Job
    BY <1>9 DEF StartContainers, Goto, Job, StartPcs, UndoPcs, FailEnds
  <2>4. QED
    BY <1>9, <2>2, <2>3 DEF StartContainers
<1>10. CASE UpdateRuntimeInfo
  BY <1>10, IdleType DEF UpdateRuntimeInfo, Goto, Return, Job, StartPcs, InHand, Instance,
    Credentials, Progress, HasUser, HasRedis
<1>11. CASE MarkRunning
  BY <1>11, IdleType, StatusType DEF MarkRunning, Return, InHand
<1>12. QED
  BY <1>1, <1>2, <1>3, <1>4, <1>5, <1>6, <1>7, <1>8, <1>9, <1>10, <1>11 DEF StartStep

\* So do those of stopCore and of the undoing of a start.
LEMMA StopStepTypes == IInv /\ StopStep => TypeOK'
<1> SUFFICES ASSUME IInv, StopStep PROVE TypeOK'
  OBVIOUS
<1> USE DEF IInv, TypeOK, broker, counts, At
<1>1. CASE DropAcl
  BY <1>1 DEF DropAcl, Attempted, Goto, Job, UndoPcs
<1>2. CASE Teardown
  <2>1. job' \in Job
    BY <1>2, IdleType DEF Teardown, Goto, Return, Job
  <2>2. QED
    BY <1>2, <2>1 DEF Teardown, DeleteUser, Attempted
<1>3. CASE SetFailed
  BY <1>3, IdleType, StatusType DEF SetFailed, Return, InHand
<1>4. CASE SaveStopped
  BY <1>4, IdleType DEF SaveStopped, Return, InHand, Instance
<1>5. CASE SwitchVersion
  <2>1. record' \in Instance
    BY <1>5 DEF SwitchVersion, Instance
  <2>2. job' \in Job
    BY <1>5, <2>1, IdleType, BeginType DEF SwitchVersion, Return, Begin
  <2>3. QED
    BY <1>5, <2>1, <2>2 DEF SwitchVersion
<1>6. CASE Delete
  BY <1>6, IdleType DEF Delete, Return
<1>7. QED
  BY <1>1, <1>2, <1>3, <1>4, <1>5, <1>6 DEF StopStep

\* A stop that has begun, or could not.
LEMMA BeginStopTypes ==
  ASSUME TypeOK, NEW n \in StopEnds, record # NoRecord, BeginStop(n)
  PROVE  job' \in Job
BY IdleType DEF TypeOK, BeginStop, Job, UndoPcs, Idle

\* The other steps: of the boot, the operations that begin, and what ends the daemon or Redis.
OtherStep ==
  \/ Boot \/ Bootstrap \/ StartRouter \/ Restore
  \/ Install \/ Start \/ Stop \/ Upgrade \/ Uninstall \/ MarkFailed
  \/ Shutdown \/ Crash \/ RedisRestarts

\* And all the others.
LEMMA OtherStepTypes == IInv /\ OtherStep => TypeOK'
<1> SUFFICES ASSUME IInv, OtherStep PROVE TypeOK'
  OBVIOUS
<1> USE DEF IInv, TypeOK, broker, counts, At, Rest
<1>1. CASE Boot \/ Bootstrap \/ StartRouter
  BY <1>1 DEF Boot, Bootstrap, StartRouter, Works, Fails, Attempted
<1>2. CASE Restore
  <2>1. record' \in Instance \cup {NoRecord}
    BY <1>2, StatusType DEF Restore
  <2>2. job' \in Job
    BY <1>2, StatusType, BeginType DEF Restore, Begin
  <2>3. QED
    BY <1>2, <2>1, <2>2 DEF Restore
<1>3. CASE Install
  <2>1. record' \in Instance
    BY <1>3 DEF Install, Instance
  <2>2. QED
    BY <1>3, <2>1 DEF Install
<1>4. CASE Start
  BY <1>4, BeginType DEF Start, Begin
<1>5. CASE Stop
  BY <1>5, BeginStopTypes DEF Stop, StopEnds
<1>6. CASE Upgrade
  <2>1. CASE BeginStop("upgrade") /\ UNCHANGED <<record, kept>>
    BY <1>6, <2>1, BeginStopTypes DEF Upgrade, StopEnds
  <2>2. CASE ~(BeginStop("upgrade") /\ UNCHANGED <<record, kept>>)
    <3>1. record' \in Instance /\ kept' \in BOOLEAN /\ job' = job
      BY <1>6, <2>2 DEF Upgrade, Instance
    <3>2. QED
      BY <1>6, <3>1 DEF Upgrade
  <2>3. QED
    BY <2>1, <2>2
<1>7. CASE Uninstall
  BY <1>7, BeginStopTypes DEF Uninstall, StopEnds
<1>8. CASE MarkFailed
  BY <1>8, StatusType DEF MarkFailed
<1>9. CASE Shutdown \/ Crash \/ RedisRestarts
  BY <1>9, IdleType DEF Shutdown, Crash, RedisRestarts, Return
<1>10. QED
  BY <1>1, <1>2, <1>3, <1>4, <1>5, <1>6, <1>7, <1>8, <1>9 DEF OtherStep

-----------------------------------------------------------------------------
(* Then: the instance in hand is the record. *)

\* A start that goes on with the instance it has.
LEMMA StartGoesOn ==
  ASSUME InHand, job.pc \in StartPcs \ {"running"}, job'.pc \in StartPcs \ {"running"},
         job'.inst = job.inst, UNCHANGED <<record, daemon>>
  PROVE  InHand'
BY DEF InHand, Held, StartPcs, UndoPcs, FailEnds, Idle

\* Whatever was under way is over.
LEMMA IsOver == InHand /\ Return /\ UNCHANGED record => InHand'
BY DEF InHand, Return, Idle, StartPcs, UndoPcs

\* The steps of startCore.
LEMMA StartStepInHand == IInv /\ StartStep => InHand'
<1> SUFFICES ASSUME IInv, StartStep PROVE InHand'
  OBVIOUS
<1> USE DEF IInv, At
<1>1. job \in Job /\ record \in Instance /\ job.pc \in StartPcs /\ daemon = "up"
  BY DEF TypeOK, InHand, Idle, StartPcs, StartStep, HealthCheck, CreateUser, SetUserPassword,
    SetPermissions, DeclareQueue, BindQueue, ProvisionPlugin, SyncPlugin, StartContainers,
    UpdateRuntimeInfo, MarkRunning
<1>2. CASE HealthCheck
  BY <1>1, <1>2, StartGoesOn, IsOver DEF HealthCheck, NextAfterHealth, Goto, Job, StartPcs
<1>3. CASE CreateUser \/ SetUserPassword
  BY <1>1, <1>3, StartGoesOn, IsOver DEF CreateUser, SetUserPassword, PutUser, Job, StartPcs
<1>4. CASE SetPermissions
  BY <1>1, <1>4, StartGoesOn, IsOver DEF SetPermissions, Job, StartPcs
<1>5. CASE DeclareQueue
  BY <1>1, <1>5, StartGoesOn, IsOver DEF DeclareQueue, Goto, Job, StartPcs
<1>6. CASE BindQueue
  BY <1>1, <1>6, StartGoesOn, IsOver DEF BindQueue, Bound, Job, StartPcs
<1>7. CASE ProvisionPlugin \/ SyncPlugin
  BY <1>1, <1>7, StartGoesOn, IsOver DEF ProvisionPlugin, SyncPlugin, WithRedis, Job, StartPcs
<1>8. CASE StartContainers
  <2>1. /\ record' \in Instance /\ record'.status # "running"
        /\ record'.version = record.version /\ record'.info = record.info
    BY <1>1, <1>8 DEF StartContainers, InHand, Instance
  <2>2. /\ job'.pc \in {"saveInfo", "dropAcl"} /\ job'.inst = job.inst /\ daemon' = "up"
        /\ job'.next \in FailEnds \/ job'.pc = "saveInfo"
    BY <1>1, <1>8 DEF StartContainers, Goto, Job, FailEnds
  <2>3. job.inst # NoRecord /\ job.inst.version = record.version /\ Held = record.info
    BY <1>1, <1>8 DEF StartContainers, InHand
  <2>4. QED
    BY <2>1, <2>2, <2>3, ProvisioningAssumption DEF InHand, Held, StartPcs, UndoPcs
<1>9. CASE UpdateRuntimeInfo
  <2>1. CASE Goto("running") /\ UNCHANGED daemon
    <3>1. record' \in Instance /\ record'.status = record.status /\ record'.version = record.version
      BY <1>1, <1>9, <2>1 DEF UpdateRuntimeInfo, Goto, Instance, Credentials, Progress, HasUser,
        HasRedis, Return, Idle, Job
    <3>2. QED
      BY <1>1, <1>9, <2>1, <3>1, ProvisioningAssumption
        DEF UpdateRuntimeInfo, InHand, Goto, Job, StartPcs, UndoPcs
  <2>2. CASE ~(Goto("running") /\ UNCHANGED daemon)
    BY <1>9, <2>2, IsOver DEF UpdateRuntimeInfo
  <2>3. QED
    BY <2>1, <2>2
<1>10. CASE MarkRunning
  BY <1>1, <1>10, ProvisioningAssumption DEF MarkRunning, InHand, Progress, Instance, Credentials,
    HasUser, HasRedis, Return, Idle, StartPcs, UndoPcs
<1>11. QED
  BY <1>2, <1>3, <1>4, <1>5, <1>6, <1>7, <1>8, <1>9, <1>10 DEF StartStep

\* Those of stopCore and of the undoing.
LEMMA StopStepInHand == IInv /\ StopStep => InHand'
<1> SUFFICES ASSUME IInv, StopStep PROVE InHand'
  OBVIOUS
<1> USE DEF IInv, InHand, broker, counts, At, Goto, Return, Idle, StartPcs, UndoPcs, FailEnds, Held
<1> job \in Job /\ record \in Instance
  BY DEF TypeOK, StopStep, DropAcl, Teardown, SetFailed, SaveStopped, SwitchVersion, Delete
<1> USE DEF Job, StopEnds
<1>1. CASE DropAcl
  BY <1>1 DEF DropAcl
<1>2. CASE Teardown
  <2>1. CASE job.next = "idle"
    BY <1>2, <2>1, IsOver DEF Teardown
  <2>2. CASE job.next # "idle"
    <3>1. job'.pc = job.next /\ UNCHANGED <<record, daemon>> /\ daemon = "up"
      BY <1>2, <2>2 DEF Teardown
    <3>2. QED
      BY <1>2, <2>2, <3>1 DEF Teardown
  <2>3. QED
    BY <2>1, <2>2
<1>3. CASE SetFailed \/ SaveStopped
  <2>1. record'.status # "running"
    BY <1>3 DEF SetFailed, SaveStopped, Instance
  <2>2. QED
    BY <1>3, <2>1 DEF SetFailed, SaveStopped
<1>4. CASE SwitchVersion
  <2>1. record' \in Instance /\ record'.status # "running"
    BY <1>4 DEF SwitchVersion, Instance
  <2>2. CASE job' = Idle
    BY <1>4, <2>1, <2>2, ProvisioningAssumption DEF SwitchVersion
  <2>3. CASE Begin(record')
    BY <1>4, <2>1, <2>3, ProvisioningAssumption DEF SwitchVersion, Begin
  <2>4. QED
    BY <1>4, <2>2, <2>3 DEF SwitchVersion, Begin
<1>5. CASE Delete
  BY <1>5 DEF Delete
<1>6. QED
  BY <1>1, <1>2, <1>3, <1>4, <1>5 DEF StopStep

\* The others.
LEMMA OtherStepInHand == IInv /\ OtherStep => InHand'
<1> SUFFICES ASSUME IInv, OtherStep PROVE InHand'
  OBVIOUS
<1> USE DEF IInv, InHand, broker, counts, At, Rest, Goto, Return, Idle, StartPcs, UndoPcs,
      FailEnds, Held
<1> job \in Job /\ record \in Instance \cup {NoRecord}
  BY DEF TypeOK
<1> USE DEF Job, StopEnds
<1>1. CASE Boot \/ Bootstrap \/ StartRouter
  BY <1>1 DEF Boot, Bootstrap, StartRouter
<1>2. CASE Restore
  <2>1. CASE record # NoRecord /\ record.status = "running"
    <3>1. record' \in Instance /\ record'.status = "stopped" /\ Begin(record')
      BY <1>2, <2>1 DEF Restore, Instance
    <3>2. QED
      BY <1>2, <3>1, ProvisioningAssumption DEF Restore, Begin
  <2>2. CASE ~(record # NoRecord /\ record.status = "running")
    BY <1>2, <2>2, ProvisioningAssumption DEF Restore, Instance
  <2>3. QED
    BY <2>1, <2>2
<1>3. CASE Install
  BY <1>3 DEF Install, Instance
<1>4. CASE Start
  BY <1>4 DEF Start, Begin
<1>5. CASE Stop
  BY <1>5 DEF Stop, BeginStop
<1>6. CASE Upgrade
  <2>1. CASE BeginStop("upgrade") /\ UNCHANGED <<record, kept>>
    BY <1>6, <2>1 DEF Upgrade, BeginStop
  <2>2. CASE ~(BeginStop("upgrade") /\ UNCHANGED <<record, kept>>)
    <3>1. record' \in Instance /\ record'.status # "running" /\ job' = job
      BY <1>6, <2>2 DEF Upgrade, Instance
    <3>2. QED
      BY <1>6, <3>1, ProvisioningAssumption DEF Upgrade
  <2>3. QED
    BY <2>1, <2>2
<1>7. CASE Uninstall
  BY <1>7 DEF Uninstall, BeginStop
<1>8. CASE MarkFailed
  BY <1>8, ProvisioningAssumption DEF MarkFailed, Instance
<1>9. CASE Shutdown \/ Crash
  BY <1>9 DEF Shutdown, Crash
<1>10. CASE RedisRestarts
  BY <1>10 DEF RedisRestarts
<1>11. QED
  BY <1>1, <1>2, <1>3, <1>4, <1>5, <1>6, <1>7, <1>8, <1>9, <1>10 DEF OtherStep

-----------------------------------------------------------------------------
(* How far a start is. *)

\* With the user set, its password is the one in hand.
LEMMA PutUserProgress ==
  ASSUME IInv, NEW c \in Password, PutUser(c),
         job.pc \in {"createUser", "syncUser"},
         Held # NoInfo => c = Held.rabbit
  PROVE  Progress'
<1> USE DEF IInv, HasUser, HasPermissions, HasRedis, Held
<1>1. job \in Job
  BY DEF TypeOK
<1>2. CASE job' = [job EXCEPT !.pc = "permissions", !.rabbit = c] /\ user' = c
  BY <1>1, <1>2 DEF Progress, PutUser, Job
<1>3. CASE Return
  BY <1>3 DEF Progress, Return, Idle
<1>4. QED
  BY <1>2, <1>3 DEF PutUser

\* Nothing is said of what is over.
LEMMA OverProgress == job'.pc \notin StartPcs => Progress'
BY DEF Progress, StartPcs, HasUser, HasPermissions, HasRedis

\* Every call of startCore that is answered is behind it.
LEMMA StartStepProgress == IInv /\ StartStep => Progress'
<1> SUFFICES ASSUME IInv, StartStep PROVE Progress'
  OBVIOUS
<1> USE DEF IInv, At, HasUser, HasPermissions, HasRedis, Held, broker
<1>1. job \in Job /\ record \in Instance /\ job.pc \in StartPcs
  BY DEF TypeOK, InHand, Idle, StartPcs, StartStep, HealthCheck, CreateUser, SetUserPassword,
    SetPermissions, DeclareQueue, BindQueue, ProvisionPlugin, SyncPlugin, StartContainers,
    UpdateRuntimeInfo, MarkRunning
<1>2. Return => Progress'
  BY OverProgress DEF Return, Idle, StartPcs
<1>3. CASE HealthCheck
  BY <1>1, <1>2, <1>3 DEF HealthCheck, NextAfterHealth, Goto, Progress, Job
<1>4. CASE CreateUser
  BY <1>4, PutUserProgress DEF CreateUser, Progress
<1>5. CASE SetUserPassword
  <2>1. Held.rabbit \in Password
    BY <1>1, <1>5 DEF SetUserPassword, InHand, Progress, StartPcs, Job, Instance, Credentials
  <2>2. QED
    BY <1>5, <2>1, PutUserProgress DEF SetUserPassword
<1>6. CASE SetPermissions
  BY <1>1, <1>2, <1>6 DEF SetPermissions, Progress, Job
<1>7. CASE DeclareQueue
  BY <1>1, <1>2, <1>7 DEF DeclareQueue, Goto, Progress, Job
<1>8. CASE BindQueue
  BY <1>1, <1>2, <1>8 DEF BindQueue, Bound, Progress, Job
<1>9. CASE ProvisionPlugin
  BY <1>1, <1>2, <1>9 DEF ProvisionPlugin, WithRedis, setUser, Progress, Job
<1>10. CASE SyncPlugin
  <2>1. Held.redis \in Password
    BY <1>1, <1>10 DEF SyncPlugin, InHand, StartPcs, Job, Instance, Credentials
  <2>2. unsynced' \/ Held.redis \in acl'
    BY <1>10 DEF SyncPlugin, setUser
  <2>3. QED
    BY <1>1, <1>10, <2>1, <2>2 DEF SyncPlugin, WithRedis, Progress, Job
<1>11. CASE StartContainers
  <2>1. CASE Goto("saveInfo")
    BY <1>1, <1>11, <2>1 DEF StartContainers, Goto, Progress, Job
  <2>2. CASE job'.pc = "dropAcl"
    BY <2>2, OverProgress DEF StartPcs
  <2>3. QED
    BY <1>1, <1>11, <2>1, <2>2 DEF StartContainers, Job
<1>12. CASE UpdateRuntimeInfo
  <2>1. CASE Goto("running")
    BY <1>1, <1>12, <2>1 DEF UpdateRuntimeInfo, Goto, Progress, Job, Instance, Return, Idle
  <2>2. QED
    BY <1>2, <1>12, <2>1 DEF UpdateRuntimeInfo
<1>13. CASE MarkRunning
  BY <1>2, <1>13 DEF MarkRunning
<1>14. QED
  BY <1>3, <1>4, <1>5, <1>6, <1>7, <1>8, <1>9, <1>10, <1>11, <1>12, <1>13 DEF StartStep

\* Nothing else touches what a start has been given, but a Redis that restarts.
LEMMA OtherStepProgress == IInv /\ (StopStep \/ OtherStep) => Progress'
<1> SUFFICES ASSUME IInv, StopStep \/ OtherStep PROVE Progress'
  OBVIOUS
<1> USE DEF IInv, At, Rest, broker, counts, StartPcs
<1>1. job \in Job /\ record \in Instance \cup {NoRecord}
  BY DEF TypeOK
<1>2. CASE StopStep
  <2>1. CASE SwitchVersion
    <3>1. Begin(record') \/ Return
      BY <2>1 DEF SwitchVersion
    <3>2. job'.pc \in {"health", "idle"}
      BY <3>1, BeginIs DEF Return, Idle
    <3>3. QED
      BY <3>2 DEF Progress, HasUser, HasPermissions, HasRedis
  <2>2. CASE ~SwitchVersion
    <3>1. CASE Teardown
      <4>1. job'.pc \in StopEnds \cup FailEnds
        BY <1>1, <3>1 DEF Teardown, Goto, Return, Idle, Job, FailEnds
      <4>2. QED
        BY <4>1, OverProgress DEF StopEnds, FailEnds
    <3>2. CASE DropAcl \/ SetFailed \/ SaveStopped \/ Delete
      <4>1. job'.pc \in {"dropUser", "idle"}
        BY <1>1, <3>2 DEF DropAcl, SetFailed, SaveStopped, Delete, Goto, Return, Idle, Job
      <4>2. QED
        BY <4>1, OverProgress
    <3>3. QED
      BY <1>2, <2>2, <3>1, <3>2 DEF StopStep
  <2>3. QED
    BY <2>1, <2>2
<1>3. CASE Restore \/ Start
  <2>1. job'.pc \in {"health", "idle"}
    <3>1. daemon # "up" => job.pc = "idle"
      BY DEF InHand, Idle
    <3>2. QED
      BY <1>3, <3>1 DEF Restore, Start, Begin, Idle
  <2>2. QED
    BY <2>1 DEF Progress, HasUser, HasPermissions, HasRedis
<1>4. CASE RedisRestarts
  BY <1>4 DEF RedisRestarts, Progress, HasUser, HasPermissions, HasRedis, Held
<1>5. CASE Boot \/ Bootstrap \/ StartRouter
  <2>1. job'.pc = "idle"
    BY <1>5 DEF Boot, Bootstrap, StartRouter, InHand, Idle
  <2>2. QED
    BY <2>1, OverProgress
<1>6. CASE Install \/ Stop \/ Upgrade \/ Uninstall \/ MarkFailed \/ Shutdown \/ Crash
  <2>1. job'.pc \in {"idle", "dropAcl"}
    <3>1. CASE Stop \/ Upgrade \/ Uninstall
      BY <3>1 DEF Stop, Upgrade, Uninstall, BeginStop, Idle
    <3>2. CASE Install \/ MarkFailed \/ Shutdown \/ Crash
      BY <3>2 DEF Install, MarkFailed, Shutdown, Crash, Return, Idle
    <3>3. QED
      BY <1>6, <3>1, <3>2
  <2>2. QED
    BY <2>1, OverProgress
<1>7. QED
  BY <1>2, <1>3, <1>4, <1>5, <1>6 DEF OtherStep

-----------------------------------------------------------------------------
(* What the record of a running plugin says is accepted. *)

\* Only the last step of a start makes a plugin serve.
LEMMA StartStepAccepted == IInv /\ StartStep => RecordIsAccepted'
<1> SUFFICES ASSUME IInv, StartStep PROVE RecordIsAccepted'
  OBVIOUS
<1> USE DEF IInv, At, Rest, Serving, broker
<1>1. job \in Job /\ record \in Instance /\ job.pc \in StartPcs /\ record.status # "running"
  BY DEF TypeOK, InHand, Idle, StartPcs, StartStep, HealthCheck, CreateUser, SetUserPassword,
    SetPermissions, DeclareQueue, BindQueue, ProvisionPlugin, SyncPlugin, StartContainers,
    UpdateRuntimeInfo, MarkRunning
<1>2. CASE MarkRunning
  BY <1>1, <1>2 DEF MarkRunning, Progress, RecordIsAccepted, HasUser, HasPermissions, HasRedis,
    Instance
<1>3. CASE StartContainers \/ UpdateRuntimeInfo
  <2>1. record'.status # "running" \/ job'.pc # "idle"
    BY <1>1, <1>3 DEF StartContainers, UpdateRuntimeInfo, Goto, Instance, Job
  <2>2. QED
    BY <2>1 DEF RecordIsAccepted
<1>4. CASE ~(MarkRunning \/ StartContainers \/ UpdateRuntimeInfo)
  <2>1. record' = record
    BY <1>4 DEF StartStep, HealthCheck, CreateUser, SetUserPassword, PutUser, SetPermissions,
      DeclareQueue, BindQueue, ProvisionPlugin, SyncPlugin
  <2>2. QED
    BY <1>1, <2>1 DEF RecordIsAccepted
<1>5. QED
  BY <1>2, <1>3, <1>4

\* Nothing is taken back while the record says running and nobody is at work.
LEMMA OtherStepAccepted == IInv /\ (StopStep \/ OtherStep) => RecordIsAccepted'
<1> SUFFICES ASSUME IInv, StopStep \/ OtherStep PROVE RecordIsAccepted'
  OBVIOUS
<1> USE DEF IInv, At, Rest, Serving, broker, counts, RecordIsAccepted
<1>1. job \in Job /\ record \in Instance \cup {NoRecord}
  BY DEF TypeOK
<1>2. CASE DropAcl
  BY <1>1, <1>2 DEF DropAcl, Goto, Job
<1>3. CASE Teardown
  BY <1>1, <1>3 DEF Teardown, Goto, Return, Job, Idle, InHand, UndoPcs, FailEnds
<1>4. CASE SetFailed \/ SaveStopped \/ SwitchVersion \/ Delete
  <2>1. CASE record' = NoRecord
    BY <2>1
  <2>2. CASE record' # NoRecord
    <3>1. record'.status # "running"
      <4>1. CASE SwitchVersion
        BY <4>1 DEF SwitchVersion
      <4>2. CASE SetFailed \/ SaveStopped
        BY <1>1, <4>2, <2>2 DEF SetFailed, SaveStopped, Instance, InHand
      <4>3. QED
        BY <1>4, <2>2, <4>1, <4>2 DEF Delete
    <3>2. QED
      BY <3>1
  <2>3. QED
    BY <2>1, <2>2
<1>5. CASE Boot \/ Bootstrap \/ StartRouter \/ Shutdown \/ Crash
  BY <1>5 DEF Boot, Bootstrap, StartRouter, Shutdown, Crash
<1>6. CASE Restore
  BY <1>1, <1>6 DEF Restore, Instance
<1>7. CASE Install \/ MarkFailed \/ Start
  BY <1>1, <1>7 DEF Install, MarkFailed, Start, Instance
<1>8. CASE Stop \/ Upgrade \/ Uninstall
  <2>1. job' = job \/ job'.pc = "dropAcl"
    BY <1>8 DEF Stop, Upgrade, Uninstall, BeginStop, Idle
  <2>2. record' = record \/ record' = NoRecord \/ record'.status # "running"
    BY <1>1, <1>8 DEF Stop, Upgrade, Uninstall, Instance
  <2>3. UNCHANGED <<user, permitted, acl, unsynced, daemon>>
    BY <1>8 DEF Stop, Upgrade, Uninstall
  <2>4. QED
    BY <2>1, <2>2, <2>3
<1>9. CASE RedisRestarts
  BY <1>9 DEF RedisRestarts
<1>10. QED
  BY <1>2, <1>3, <1>4, <1>5, <1>6, <1>7, <1>8, <1>9 DEF StopStep, OtherStep

-----------------------------------------------------------------------------
(* The queues. *)

\* Every step keeps what is bound.
LEMMA StepKeeps == [Next]_vars => Keeps
<1>1. StartStep => Keeps
  BY DEF Keeps, StartStep, HealthCheck, CreateUser, SetUserPassword, PutUser, SetPermissions,
    DeclareQueue, BindQueue, Attempted, ProvisionPlugin, SyncPlugin, StartContainers,
    UpdateRuntimeInfo, MarkRunning, broker
<1>2. StopStep => Keeps
  BY DEF Keeps, StopStep, DropAcl, Teardown, SetFailed, SaveStopped, SwitchVersion, Delete, broker
<1>3. OtherStep => Keeps
  BY DEF Keeps, OtherStep, Boot, Bootstrap, StartRouter, Restore, Install, Start, Stop, Upgrade,
    Uninstall, MarkFailed, Shutdown, Crash, RedisRestarts, broker
<1>4. UNCHANGED vars => Keeps
  BY DEF Keeps, vars, broker
<1>5. QED
  BY <1>1, <1>2, <1>3, <1>4 DEF Next, OtherStep

\* The first part, when the record stays, or its RuntimeInfo is gone.
InfoMeansQueues == record # NoRecord /\ record.info # NoInfo /\ ~kept => QueuesBound

\* It stays with the RuntimeInfo, the version and the exception.
LEMMA InfoStays ==
  ASSUME InfoMeansQueues, Keeps, record # NoRecord, kept' = kept,
         record'.version = record.version, record'.info = record.info
  PROVE  InfoMeansQueues'
BY QueuesStay DEF InfoMeansQueues

\* With nothing more to do, the first part is all.
LEMMA OverQueues ==
  ASSUME InfoMeansQueues', job'.pc \notin {"queue", "bind", "redis", "containers", "saveInfo"}
  PROVE  QueuesInOrder'
BY DEF QueuesInOrder, InfoMeansQueues

\* What is to come, when the first of it is done.
LEMMA RemainsAfterHead ==
  ASSUME job \in Job, job.todo # <<>>, job'.todo = Tail(job.todo), NEW b, Remains(b)
  PROVE  b = Head(job.todo) \/ Remains(b)'
<1>1. job.todo \in Seq(Binding)
  BY DEF Job
<1>2. PICK j \in DOMAIN job.todo : job.todo[j] = b
  BY DEF Remains
<1>3. CASE j = 1
  BY <1>1, <1>2, <1>3
<1>4. CASE j # 1
  <2>1. j \in 2 .. Len(job.todo)
    BY <1>1, <1>2, <1>4
  <2>2. j - 1 \in DOMAIN job'.todo /\ job'.todo[j - 1] = b
    BY <1>1, <1>2, <2>1
  <2>3. QED
    BY <2>2 DEF Remains
<1>5. QED
  BY <1>3, <1>4

\* A queue that has been bound, with the others to come.
LEMMA BoundQueues ==
  ASSUME IInv, Keeps, At("bind"), Bound, Head(job.todo) \in bindings',
         UNCHANGED <<record, kept>>
  PROVE  QueuesInOrder'
<1> USE DEF IInv, At
<1>1. /\ job \in Job /\ record \in Instance /\ job.todo \in Seq(Binding) /\ job.todo # <<>>
      /\ Head(job.todo).queue \in queues /\ Held = NoInfo /\ record.info = NoInfo
  BY DEF TypeOK, InHand, QueuesInOrder, Job, Progress, StartPcs
<1>2. job'.todo = Tail(job.todo) /\ job'.inst = job.inst
      /\ job'.pc = IF Len(job.todo) = 1 THEN "redis" ELSE "queue"
  BY <1>1 DEF Bound, Job
<1>3. ASSUME NEW i \in DOMAIN QueuesOf(record.version)
      PROVE  IsBound(QueuesOf(record.version)[i])' \/ Remains(QueuesOf(record.version)[i])'
  BY <1>1, <1>2, RemainsAfterHead DEF QueuesInOrder, IsBound, Keeps
<1>4. CASE Len(job.todo) = 1
  <2>1. ASSUME NEW b PROVE ~Remains(b)'
    BY <1>1, <1>2, <1>4 DEF Remains
  <2>2. QueuesBound'
    BY <1>3, <2>1 DEF QueuesBound, IsBound
  <2>3. QED
    BY <1>1, <1>2, <1>4, <2>2 DEF QueuesInOrder
<1>5. CASE Len(job.todo) # 1
  <2>1. Len(Tail(job.todo)) = Len(job.todo) - 1 /\ Len(job.todo) > 0
    BY <1>1
  <2>2. Len(job'.todo) # 0
    BY <1>1, <1>2, <1>5, <2>1
  <2>3. job'.todo # <<>>
    BY <2>2
  <2>4. QED
    BY <1>1, <1>2, <1>3, <1>5, <2>3 DEF QueuesInOrder
<1>6. QED
  BY <1>4, <1>5

\* The steps of startCore.
LEMMA StartStepQueues == IInv /\ StartStep => QueuesInOrder'
<1> SUFFICES ASSUME IInv, StartStep PROVE QueuesInOrder'
  OBVIOUS
<1> USE DEF IInv, At, broker
<1>1. /\ job \in Job /\ record \in Instance /\ job.pc \in StartPcs
      /\ job.inst.version = record.version /\ (job.pc # "running" => Held = record.info)
  BY DEF TypeOK, InHand, Idle, StartPcs, StartStep, HealthCheck, CreateUser, SetUserPassword,
    SetPermissions, DeclareQueue, BindQueue, ProvisionPlugin, SyncPlugin, StartContainers,
    UpdateRuntimeInfo, MarkRunning
<1>2. Keeps /\ record # NoRecord
  BY <1>1, StepKeeps, ProvisioningAssumption DEF Next
<1>3. InfoMeansQueues
  BY DEF QueuesInOrder, InfoMeansQueues
<1>4. ASSUME UNCHANGED <<record, kept>>
      PROVE  InfoMeansQueues'
  BY <1>2, <1>3, <1>4, InfoStays
<1>5. ASSUME UNCHANGED <<record, kept>>, Return
      PROVE  QueuesInOrder'
  BY <1>4, <1>5, OverQueues DEF Return, Idle
<1>6. CASE HealthCheck
  <2>1. CASE Goto(NextAfterHealth)
    BY <1>1, <1>4, <1>6, <2>1, OverQueues DEF HealthCheck, NextAfterHealth, Goto, Job
  <2>2. QED
    BY <1>5, <1>6, <2>1 DEF HealthCheck
<1>7. CASE CreateUser \/ SetUserPassword
  <2>1. CASE job'.pc = "permissions"
    BY <1>4, <1>7, <2>1, OverQueues DEF CreateUser, SetUserPassword, PutUser
  <2>2. QED
    BY <1>1, <1>5, <1>7, <2>1 DEF CreateUser, SetUserPassword, PutUser, Job
<1>8. CASE SetPermissions
  <2>1. CASE Held # NoInfo /\ job' = [job EXCEPT !.pc = "redis"]
    BY <1>1, <1>4, <1>8, <2>1 DEF SetPermissions, QueuesInOrder, InfoMeansQueues, Job, Held
  <2>2. CASE job' = [job EXCEPT !.pc = "queue", !.todo = QueuesOf(job.inst.version)]
    <3>1. QueuesOf(record.version) # <<>> /\ record' = record
      BY <1>1, <1>8, QueuesOfType DEF SetPermissions, Instance
    <3>2. job'.pc = "queue" /\ job'.todo = QueuesOf(record.version)
      BY <1>1, <2>2 DEF Job
    <3>3. QED
      BY <1>4, <1>8, <3>1, <3>2 DEF SetPermissions, QueuesInOrder, InfoMeansQueues, Remains
  <2>3. QED
    BY <1>5, <1>8, <2>1, <2>2 DEF SetPermissions
<1>9. CASE DeclareQueue
  <2>1. CASE Goto("bind") /\ queues' = queues \cup {Head(job.todo).queue}
    <3>1. job'.pc = "bind" /\ job'.todo = job.todo /\ UNCHANGED <<record, kept, bindings>>
      BY <1>1, <1>9, <2>1 DEF DeclareQueue, Goto, Job
    <3>2. QED
      BY <1>4, <1>9, <2>1, <3>1
        DEF DeclareQueue, QueuesInOrder, InfoMeansQueues, IsBound, Remains
  <2>2. QED
    BY <1>5, <1>9, <2>1 DEF DeclareQueue
<1>10. CASE BindQueue
  <2>1. CASE Bound /\ Head(job.todo) \in bindings'
    BY <1>2, <1>10, <2>1, BoundQueues DEF BindQueue
  <2>2. QED
    BY <1>5, <1>10, <2>1 DEF BindQueue
<1>11. CASE ProvisionPlugin \/ SyncPlugin
  <2>1. CASE job'.pc = "containers" /\ job'.inst = job.inst
    <3>1. Held = NoInfo => QueuesBound'
      BY <1>2, <1>11, QueuesStay DEF ProvisionPlugin, SyncPlugin, QueuesInOrder
    <3>2. QED
      BY <1>4, <1>11, <2>1, <3>1 DEF ProvisionPlugin, SyncPlugin, QueuesInOrder, InfoMeansQueues, Held
  <2>2. QED
    BY <1>1, <1>5, <1>11, <2>1 DEF ProvisionPlugin, SyncPlugin, WithRedis, Job
<1>12. CASE StartContainers
  <2>1. /\ record' # NoRecord /\ record'.version = record.version /\ record'.info = record.info
        /\ kept' = kept
    BY <1>1, <1>2, <1>12, StatusType, ProvisioningAssumption DEF StartContainers, Instance
  <2>2. InfoMeansQueues'
    BY <1>2, <1>3, <2>1, InfoStays
  <2>3. CASE job'.pc = "saveInfo" /\ job'.inst = job.inst
    <3>1. Held = NoInfo => QueuesBound'
      BY <1>2, <1>12, <2>1, QueuesStay DEF StartContainers, QueuesInOrder
    <3>2. QED
      BY <2>2, <2>3, <3>1 DEF QueuesInOrder, InfoMeansQueues, Held
  <2>4. QED
    BY <1>1, <1>12, <2>2, <2>3, OverQueues DEF StartContainers, Goto, Job
<1>13. CASE UpdateRuntimeInfo
  <2>1. CASE Goto("running") /\ record' = [record EXCEPT !.info = [rabbit |-> job.rabbit, redis |-> job.redis]]
    <3>1. ~kept => QueuesBound
      BY <1>1, <1>2, <1>3, <1>13 DEF UpdateRuntimeInfo, QueuesInOrder, InfoMeansQueues
    <3>2. record'.version = record.version /\ kept' = kept
      BY <1>1, <1>13, <2>1 DEF UpdateRuntimeInfo, Instance
    <3>3. InfoMeansQueues'
      BY <1>2, <3>1, <3>2, QueuesStay DEF InfoMeansQueues
    <3>4. QED
      BY <1>1, <2>1, <3>3, OverQueues DEF Goto, Job
  <2>2. QED
    BY <1>5, <1>13, <2>1 DEF UpdateRuntimeInfo
<1>14. CASE MarkRunning
  <2>1. CASE record' = [record EXCEPT !.status = "running"]
    <3>1. record' # NoRecord /\ record'.version = record.version /\ record'.info = record.info
      BY <1>1, <1>2, <2>1, StatusType, ProvisioningAssumption DEF Instance
    <3>2. InfoMeansQueues'
      BY <1>2, <1>3, <1>14, <3>1, InfoStays DEF MarkRunning
    <3>3. QED
      BY <1>14, <3>2, OverQueues DEF MarkRunning, Return, Idle
  <2>2. QED
    BY <1>5, <1>14, <2>1 DEF MarkRunning
<1>15. QED
  BY <1>6, <1>7, <1>8, <1>9, <1>10, <1>11, <1>12, <1>13, <1>14 DEF StartStep

\* The others never enter the part in which queues are made.
LEMMA OtherStepQueues == IInv /\ (StopStep \/ OtherStep) => QueuesInOrder'
<1> SUFFICES ASSUME IInv, StopStep \/ OtherStep PROVE QueuesInOrder'
  OBVIOUS
<1> USE DEF IInv, At, Rest, broker, counts
<1>1. job \in Job /\ record \in Instance \cup {NoRecord}
  BY DEF TypeOK
<1>2. Keeps /\ InfoMeansQueues
  BY StepKeeps DEF Next, OtherStep, QueuesInOrder, InfoMeansQueues
<1>3. CASE RedisRestarts
  BY <1>3 DEF RedisRestarts, QueuesInOrder, IsBound, Remains, QueuesBound, Held
<1>4. CASE ~RedisRestarts
  <2>1. InfoMeansQueues'
    <3>1. CASE record' = NoRecord
      BY <3>1 DEF InfoMeansQueues
    <3>2. CASE record # NoRecord /\ UNCHANGED <<record, kept>>
      BY <1>2, <3>2, InfoStays
    <3>3. CASE Upgrade /\ ~UNCHANGED <<record, kept>>
      <4>1. kept' = (record'.info # NoInfo)
        BY <1>1, <3>3 DEF Upgrade, Instance
      <4>2. QED
        BY <4>1 DEF InfoMeansQueues
    <3>4. CASE Restore \/ MarkFailed \/ SetFailed
      BY <1>1, <1>2, <3>4, InfoStays DEF Restore, MarkFailed, SetFailed, InHand, Instance, InfoMeansQueues
    <3>5. CASE Install \/ SaveStopped \/ SwitchVersion
      <4>1. record'.info = NoInfo
        <5>1. CASE SaveStopped
          BY <1>1, <5>1 DEF SaveStopped, InHand, Instance
        <5>2. CASE Install \/ SwitchVersion
          BY <5>2 DEF Install, SwitchVersion
        <5>3. QED
          BY <3>5, <5>1, <5>2
      <4>2. QED
        BY <4>1 DEF InfoMeansQueues
    <3>6. CASE ~(Upgrade \/ Restore \/ MarkFailed \/ SetFailed \/ Install \/ SaveStopped \/ SwitchVersion)
      <4>1. record' = NoRecord \/ UNCHANGED <<record, kept>>
        BY <3>6 DEF StopStep, OtherStep, DropAcl, Teardown, Delete, Boot, Bootstrap, StartRouter, Start,
          Stop, Uninstall, Shutdown, Crash, RedisRestarts
      <4>2. QED
        BY <3>1, <3>2, <4>1
    <3>7. QED
      BY <3>1, <3>2, <3>3, <3>4, <3>5, <3>6
  <2>2. job'.pc \notin {"queue", "bind", "redis", "containers", "saveInfo"}
    <3>1. CASE SwitchVersion
      <4>1. Begin(record') \/ Return
        BY <3>1 DEF SwitchVersion
      <4>2. QED
        BY <4>1, BeginIs DEF Return, Idle
    <3>2. CASE Restore \/ Start
      <4>1. daemon # "up" => job.pc = "idle"
        BY DEF InHand, Idle
      <4>2. QED
        BY <3>2, <4>1, BeginIs DEF Restore, Start
    <3>3. CASE Teardown
      BY <1>1, <3>3 DEF Teardown, Goto, Return, Idle, Job, StopEnds, FailEnds
    <3>4. CASE DropAcl \/ SetFailed \/ SaveStopped \/ Delete
      BY <1>1, <3>4 DEF DropAcl, SetFailed, SaveStopped, Delete, Goto, Return, Idle, Job
    <3>5. CASE Boot \/ Bootstrap \/ StartRouter
      BY <3>5 DEF Boot, Bootstrap, StartRouter, InHand, Idle
    <3>6. CASE Stop \/ Upgrade \/ Uninstall
      BY <3>6 DEF Stop, Upgrade, Uninstall, BeginStop, Idle
    <3>7. CASE Install \/ MarkFailed \/ Shutdown \/ Crash
      BY <3>7 DEF Install, MarkFailed, Shutdown, Crash, Return, Idle
    <3>8. QED
      BY <1>4, <3>1, <3>2, <3>3, <3>4, <3>5, <3>6, <3>7 DEF StopStep, OtherStep
  <2>3. QED
    BY <2>1, <2>2, OverQueues
<1>5. QED
  BY <1>3, <1>4

-----------------------------------------------------------------------------
\* It holds at first,
LEMMA InitIInv == Init => IInv
<1> SUFFICES ASSUME Init PROVE IInv
  OBVIOUS
<1>1. TypeOK
  BY IdleType DEF Init, TypeOK
<1>2. job.pc = "idle" /\ record = NoRecord /\ job = Idle
  BY DEF Init, Idle
<1>3. InHand /\ Progress
  BY <1>2 DEF InHand, Progress, StartPcs, UndoPcs, HasUser, HasPermissions, HasRedis
<1>4. RecordIsAccepted /\ QueuesInOrder
  BY <1>2 DEF RecordIsAccepted, QueuesInOrder, Serving
<1>5. QED
  BY <1>1, <1>3, <1>4 DEF IInv

\* when nothing happens,
LEMMA StutterIInv == IInv /\ UNCHANGED vars => IInv'
BY DEF vars, broker, counts, IInv, TypeOK, InHand, Progress, RecordIsAccepted, Serving, Rest, At, QueuesInOrder,
  QueuesBound, IsBound, Remains, Held

\* and after every step.
LEMMA NextIInv == IInv /\ [Next]_vars => IInv'
<1> SUFFICES ASSUME IInv, [Next]_vars PROVE IInv'
  OBVIOUS
<1>1. CASE StartStep
  BY <1>1, StartStepTypes, StartStepInHand, StartStepProgress, StartStepAccepted, StartStepQueues
    DEF IInv
<1>2. CASE StopStep
  BY <1>2, StopStepTypes, StopStepInHand, OtherStepProgress, OtherStepAccepted, OtherStepQueues
    DEF IInv
<1>3. CASE OtherStep
  BY <1>3, OtherStepTypes, OtherStepInHand, OtherStepProgress, OtherStepAccepted, OtherStepQueues
    DEF IInv
<1>4. CASE UNCHANGED vars
  BY <1>4, StutterIInv
<1>5. QED
  BY <1>1, <1>2, <1>3, <1>4 DEF Next, OtherStep

\* The inductive invariant holds.
LEMMA Invariance == Spec => []IInv
<1>1. QED
  BY InitIInv, NextIInv, PTL DEF Spec

\* What the services accept, what the record and the operation under way hold are of
\* their types at every step.
THEOREM TypeCorrect == Spec => []TypeOK
<1>1. IInv => TypeOK
  BY DEF IInv
<1>2. QED
  BY <1>1, Invariance, PTL

\* The record of a running plugin says what RabbitMQ and Redis accept, whatever failed, in
\* which order and how often, and wherever the daemon died (startCore, stopCore).
THEOREM Accepted == Spec => []RecordIsAccepted
<1>1. IInv => RecordIsAccepted
  BY DEF IInv
<1>2. QED
  BY <1>1, Invariance, PTL

\* A running plugin has the queues of its version, however often provisioning broke off,
\* unless its version was changed under a RuntimeInfo (Provision, startCore).
THEOREM Queued == Spec => []QueuesOfItsVersion
<1>1. IInv => QueuesOfItsVersion
  BY DEF IInv, InHand, QueuesInOrder, QueuesOfItsVersion, Serving
<1>2. QED
  BY <1>1, Invariance, PTL
=============================================================================

---------------------------- MODULE Provisioning ----------------------------
(***************************************************************************)
(* What a plugin is given in RabbitMQ and Redis, call by call: the shared  *)
(* exchanges, its user and permissions, its queues and their bindings, its *)
(* ACL user (pkg/broker, pkg/redisacl, and the calls startCore, stopCore   *)
(* and the boot make to them). Any call may fail, with or without effect,  *)
(* the daemon may die between two, and Redis keeps its ACL users in memory *)
(* only. PluginLifecycle takes all this in one step, Provision; containers *)
(* and operations that overlap are left to it.                             *)
(***************************************************************************)
EXTENDS Integers, Sequences, FiniteSets

CONSTANTS
    Version,
    Queues,        \* per version: its provider capabilities, each with queue and topic
    Password,
    NoPassword, NoInfo, NoRecord,
    MaxFaults,     \* BOUND: calls that fail
    MaxRestarts    \* BOUND: crashes of the daemon and restarts of Redis

\* RuntimeInfo, and what PluginInstance holds of a plugin besides it.
Credentials == [rabbit : Password, redis : Password]
Instance == [status : {"ready", "starting", "running", "stopped", "failed"},
             version : Version, info : Credentials \cup {NoInfo}]

SharedExchanges == <<"griffino.plugins", "griffino.router">>
RouterExchanges == {"griffino.router", "griffino.actions"}

\* The queue of the actions triggered by users; the same for every version.
ActionsQueue == [queue |-> "action", exchange |-> "griffino.actions", topic |-> "action.#"]

\* The queues Provision declares and binds for a manifest, in its order.
QueuesOf(v) == Append(Queues[v], ActionsQueue)

\* A queue bound to a topic: all that are ever made.
Binding ==
    {ActionsQueue} \cup UNION {{Queues[v][i] : i \in DOMAIN Queues[v]} : v \in Version}

ASSUME ProvisioningAssumption ==
    /\ MaxFaults \in Nat /\ MaxRestarts \in Nat
    /\ \A v \in Version :
          /\ Queues[v] \in Seq(Binding)
          /\ \A i \in DOMAIN Queues[v] : Queues[v][i].exchange = "griffino.plugins"
    /\ NoPassword \notin Password /\ NoInfo \notin Credentials /\ NoRecord \notin Instance

VARIABLES
    exchanges, queues, bindings,  \* RabbitMQ: durable
    user, permitted,              \* RabbitMQ: the password of the plugin's user, its permissions
    acl,                          \* Redis: the passwords of the plugin's user
    record,                       \* PluginInstance
    daemon,                       \* "down", "bootstrap", "router", "restore" or "up"
    job,                          \* the operation under way
    faults, restarts,
    unsynced,  \* AUXILIARY: Redis restarted, or SyncPlugin failed, since it was last in step
    kept       \* AUXILIARY: the version was changed under a RuntimeInfo

broker == <<exchanges, queues, bindings, user, permitted>>
counts == <<faults, restarts>>
vars == <<broker, acl, record, daemon, job, counts, unsynced, kept>>

-----------------------------------------------------------------------------
Idle == [pc |-> "idle", inst |-> NoRecord, todo |-> <<>>, rabbit |-> NoPassword,
         redis |-> NoPassword, next |-> "idle"]

At(pc) == job.pc = pc
Goto(pc) == job' = [job EXCEPT !.pc = pc]
Return == job' = Idle

Works == UNCHANGED faults
Fails == faults < MaxFaults /\ faults' = faults + 1

\* A call that failed may have had its effect all the same.
Attempted(effect, nothing) == Fails /\ (effect \/ nothing)

Held == job.inst.info

InUse(field, accepted) ==
    accepted \cup {job[field]}
        \cup {i.info[field] : i \in {r \in {record, job.inst} \ {NoRecord} : r.info # NoInfo}}

-----------------------------------------------------------------------------
(***************************************************************************)
(* The boot: broker.Bootstrap ends it when a declaration fails; a Router   *)
(* that does not start is only logged.                                     *)
(***************************************************************************)
Boot ==
    /\ daemon = "down" /\ daemon' = "bootstrap"
    /\ UNCHANGED <<broker, acl, record, job, counts, unsynced, kept>>

Undeclared == SelectSeq(SharedExchanges, LAMBDA x : x \notin exchanges)

Bootstrap ==
    /\ daemon = "bootstrap"
    /\ IF Undeclared = <<>>
       THEN daemon' = "router" /\ Works /\ UNCHANGED exchanges
       ELSE LET declared == exchanges' = exchanges \cup {Head(Undeclared)}
            IN  \/ Works /\ declared /\ UNCHANGED daemon
                \/ Attempted(declared, UNCHANGED exchanges) /\ daemon' = "down"
    /\ UNCHANGED <<queues, bindings, user, permitted, acl, record, job, restarts, unsynced, kept>>

StartRouter ==
    /\ daemon = "router" /\ daemon' = "restore"
    /\ \/ Works /\ exchanges' = exchanges \cup RouterExchanges
       \/ Fails /\ UNCHANGED exchanges
    /\ UNCHANGED <<queues, bindings, user, permitted, acl, record, job, restarts, unsynced, kept>>

\* startCore with the instance in hand.
Begin(inst) == job' = [Idle EXCEPT !.pc = "health", !.inst = inst]

\* Interrupted starts are failed, running plugins are started again.
Restore ==
    /\ daemon = "restore" /\ daemon' = "up"
    /\ IF record # NoRecord /\ record.status = "running"
       THEN /\ record' = [record EXCEPT !.status = "stopped"]
            /\ Begin(record')
       ELSE /\ record' = IF record # NoRecord /\ record.status = "starting"
                         THEN [record EXCEPT !.status = "failed"] ELSE record
            /\ UNCHANGED job
    /\ UNCHANGED <<broker, acl, counts, unsynced, kept>>

-----------------------------------------------------------------------------
Rest == daemon = "up" /\ At("idle")

Install ==
    /\ Rest /\ record = NoRecord
    /\ \E v \in Version : record' = [status |-> "ready", version |-> v, info |-> NoInfo]
    /\ kept' = FALSE
    /\ UNCHANGED <<broker, acl, daemon, job, counts, unsynced>>

Start ==
    /\ Rest /\ record # NoRecord /\ record.status \in {"ready", "stopped", "failed"}
    /\ Begin(record)
    /\ UNCHANGED <<broker, acl, record, daemon, counts, unsynced, kept>>

\* The record's credentials are synced; without any, everything is provisioned.
NextAfterHealth == IF Held # NoInfo THEN "syncUser" ELSE "createUser"

HealthCheck ==
    /\ At("health")
    /\ \/ Works /\ Goto(NextAfterHealth)
       \/ Fails /\ Return
    /\ UNCHANGED <<broker, acl, record, daemon, restarts, unsynced, kept>>

PutUser(password) ==
    /\ \/ /\ Works /\ user' = password
          /\ job' = [job EXCEPT !.pc = "permissions", !.rabbit = password]
       \/ Attempted(user' = password, UNCHANGED user) /\ Return
    /\ UNCHANGED <<exchanges, queues, bindings, permitted, acl, record, daemon, restarts,
                   unsynced, kept>>

CreateUser ==
    /\ At("createUser")
    /\ \E c \in Password \ InUse("rabbit", {user}) : PutUser(c)

SetUserPassword == At("syncUser") /\ PutUser(Held.rabbit)

\* Both ways set the permissions; only the first goes on to the queues.
SetPermissions ==
    /\ At("permissions")
    /\ \/ /\ Works /\ permitted' = TRUE
          /\ job' = IF Held # NoInfo THEN [job EXCEPT !.pc = "redis"]
                    ELSE [job EXCEPT !.pc = "queue", !.todo = QueuesOf(job.inst.version)]
       \/ Attempted(permitted' = TRUE, UNCHANGED permitted) /\ Return
    /\ UNCHANGED <<exchanges, queues, bindings, user, acl, record, daemon, restarts, unsynced, kept>>

DeclareQueue ==
    /\ At("queue")
    /\ LET declared == queues' = queues \cup {Head(job.todo).queue}
       IN  \/ Works /\ declared /\ Goto("bind")
           \/ Attempted(declared, UNCHANGED queues) /\ Return
    /\ UNCHANGED <<exchanges, bindings, user, permitted, acl, record, daemon, restarts, unsynced, kept>>

Bound ==
    job' = [job EXCEPT !.todo = Tail(@), !.pc = IF Len(job.todo) = 1 THEN "redis" ELSE "queue"]

\* MUTANT: a binding that fails is logged, and the next queue taken
IgnoresBindError ==
    /\ At("bind")
    /\ \/ /\ Works /\ Head(job.todo).exchange \in exchanges
          /\ bindings' = bindings \cup {Head(job.todo)}
       \/ Works /\ Head(job.todo).exchange \notin exchanges /\ UNCHANGED bindings
       \/ Fails /\ UNCHANGED bindings
    /\ Bound
    /\ UNCHANGED <<exchanges, queues, user, permitted, acl, record, daemon, restarts, unsynced, kept>>

\* RabbitMQ refuses a binding to an exchange it does not have.
BindQueue ==
    /\ At("bind")
    /\ LET bound == bindings' = bindings \cup {Head(job.todo)}
       IN  \/ Works /\ Head(job.todo).exchange \in exchanges /\ bound /\ Bound
           \/ Works /\ Head(job.todo).exchange \notin exchanges /\ UNCHANGED bindings /\ Return
           \/ Attempted(Head(job.todo).exchange \in exchanges /\ bound, UNCHANGED bindings) /\ Return
    /\ UNCHANGED <<exchanges, queues, user, permitted, acl, record, daemon, restarts, unsynced, kept>>

\* ACL SETUSER adds a password to those the user has.
setUser(password) == acl' = acl \cup {password}

WithRedis(password) == job' = [job EXCEPT !.pc = "containers", !.redis = password]

ProvisionPlugin ==
    /\ At("redis") /\ Held = NoInfo
    /\ \E c \in Password \ InUse("redis", acl) :
          \/ Works /\ setUser(c) /\ unsynced' = FALSE /\ WithRedis(c)
          \/ Attempted(setUser(c), UNCHANGED acl) /\ UNCHANGED unsynced /\ Return
    /\ UNCHANGED <<broker, record, daemon, restarts, kept>>

\* MUTANT: a user that was made before is taken to be there still
TrustsRedis ==
    /\ At("redis") /\ Held # NoInfo
    /\ WithRedis(Held.redis)
    /\ UNCHANGED <<broker, acl, record, daemon, counts, unsynced, kept>>

\* A failure is only logged.
SyncPlugin ==
    /\ At("redis") /\ Held # NoInfo
    /\ WithRedis(Held.redis)
    /\ \/ Works /\ setUser(Held.redis) /\ unsynced' = FALSE
       \/ Attempted(setUser(Held.redis), UNCHANGED acl) /\ unsynced' = TRUE
    /\ UNCHANGED <<broker, record, daemon, restarts, kept>>

\* Network, environment, images and containers; what fails before the images does not touch
\* the status. cleanupProvisionedResources comes first in either case.
StartContainers ==
    /\ At("containers")
    /\ \/ Works /\ record' = [record EXCEPT !.status = "starting"] /\ Goto("saveInfo")
       \/ /\ Fails
          /\ \/ job' = [job EXCEPT !.pc = "dropAcl", !.next = "idle"] /\ UNCHANGED record
             \/ /\ job' = [job EXCEPT !.pc = "dropAcl", !.next = "setFailed"]
                /\ record' = [record EXCEPT !.status = "starting"]
    /\ UNCHANGED <<broker, acl, daemon, restarts, unsynced, kept>>

UpdateRuntimeInfo ==
    /\ At("saveInfo")
    /\ \/ /\ Works
          /\ record' = [record EXCEPT !.info = [rabbit |-> job.rabbit, redis |-> job.redis]]
          /\ Goto("running")
       \/ Fails /\ Return /\ UNCHANGED record
    /\ UNCHANGED <<broker, acl, daemon, restarts, unsynced, kept>>

MarkRunning ==
    /\ At("running")
    /\ \/ Works /\ record' = [record EXCEPT !.status = "running"]
       \/ Fails /\ UNCHANGED record
    /\ Return
    /\ UNCHANGED <<broker, acl, daemon, restarts, unsynced, kept>>

-----------------------------------------------------------------------------
(***************************************************************************)
(* Taking it all back: cleanupProvisionedResources after a failed start,   *)
(* and stopCore. Their failures are only logged; the queues stay.          *)
(***************************************************************************)
DropAcl ==
    /\ At("dropAcl")
    /\ \/ Works /\ acl' = {}
       \/ Attempted(acl' = {}, UNCHANGED acl)
    /\ Goto("dropUser")
    /\ UNCHANGED <<broker, record, daemon, restarts, unsynced, kept>>

DeleteUser == user' = NoPassword /\ permitted' = FALSE

Teardown ==
    /\ At("dropUser")
    /\ \/ Works /\ DeleteUser
       \/ Attempted(DeleteUser, UNCHANGED <<user, permitted>>)
    /\ IF job.next = "idle" THEN Return ELSE Goto(job.next)
    /\ UNCHANGED <<exchanges, queues, bindings, acl, record, daemon, restarts, unsynced, kept>>

SetFailed ==
    /\ At("setFailed")
    /\ record' = [record EXCEPT !.status = "failed"]
    /\ Return
    /\ UNCHANGED <<broker, acl, daemon, counts, unsynced, kept>>

\* stopCore: what comes after a container that was stopped; one that was not ends it.
BeginStop(next) ==
    /\ record.status = "running"
    /\ \/ Works /\ job' = [Idle EXCEPT !.pc = "dropAcl", !.inst = record, !.next = next]
       \/ Fails /\ UNCHANGED job

Stop ==
    /\ Rest /\ record # NoRecord
    /\ BeginStop("stopped")
    /\ UNCHANGED <<broker, acl, record, daemon, restarts, unsynced, kept>>

SaveStopped ==
    /\ At("stopped")
    /\ record' = [record EXCEPT !.status = "stopped", !.info = NoInfo]
    /\ Return
    /\ kept' = FALSE
    /\ UNCHANGED <<broker, acl, daemon, counts, unsynced>>

\* A plugin that is not running is only given its new version.
Upgrade ==
    /\ Rest /\ record # NoRecord
    /\ \/ BeginStop("upgrade") /\ UNCHANGED <<record, kept>>
       \/ /\ record.status \in {"ready", "stopped", "failed"}
          /\ \E v \in Version \ {record.version} :
                record' = [record EXCEPT !.version = v,
                                         !.status = IF @ = "failed" THEN "ready" ELSE @]
          /\ kept' = (record.info # NoInfo)
          /\ Works /\ UNCHANGED job
    /\ UNCHANGED <<broker, acl, daemon, restarts, unsynced>>

\* The record of the stopped plugin, then the new version, then the start unless its
\* configuration has to be reviewed.
SwitchVersion ==
    /\ At("upgrade")
    /\ \E v \in Version \ {record.version}, compatible \in BOOLEAN :
          /\ record' = [status |-> IF compatible THEN "stopped" ELSE "ready", version |-> v,
                        info |-> NoInfo]
          /\ IF compatible THEN Begin(record') ELSE Return
    /\ kept' = FALSE
    /\ UNCHANGED <<broker, acl, daemon, counts, unsynced>>

Uninstall ==
    /\ Rest /\ record # NoRecord
    /\ \/ BeginStop("delete") /\ UNCHANGED record
       \/ record.status # "running" /\ record' = NoRecord /\ Works /\ UNCHANGED job
    /\ UNCHANGED <<broker, acl, daemon, restarts, unsynced, kept>>

Delete ==
    /\ At("delete")
    /\ record' = NoRecord
    /\ Return
    /\ UNCHANGED <<broker, acl, daemon, counts, unsynced, kept>>

\* The health checker finds the container of a running plugin down.
MarkFailed ==
    /\ Rest /\ record # NoRecord /\ record.status = "running"
    /\ record' = [record EXCEPT !.status = "failed"]
    /\ UNCHANGED <<broker, acl, daemon, job, counts, unsynced, kept>>

-----------------------------------------------------------------------------
\* SIGINT: the system containers are stopped too, and Redis forgets its ACL users.
Shutdown ==
    /\ daemon = "up" /\ daemon' = "down"
    /\ Return /\ acl' = {}
    /\ UNCHANGED <<broker, record, counts, unsynced, kept>>

Crash ==
    /\ daemon # "down" /\ daemon' = "down"
    /\ restarts < MaxRestarts /\ restarts' = restarts + 1
    /\ Return
    /\ UNCHANGED <<broker, acl, record, faults, unsynced, kept>>

RedisRestarts ==
    /\ restarts < MaxRestarts /\ restarts' = restarts + 1
    /\ acl' = {} /\ unsynced' = TRUE
    /\ UNCHANGED <<broker, record, daemon, job, faults, kept>>

Init ==
    /\ exchanges = {} /\ queues = {} /\ bindings = {}
    /\ user = NoPassword /\ permitted = FALSE
    /\ acl = {}
    /\ record = NoRecord
    /\ daemon = "down"
    /\ job = Idle
    /\ faults = 0 /\ restarts = 0
    /\ unsynced = FALSE /\ kept = FALSE

StartStep ==
    HealthCheck \/ CreateUser \/ SetUserPassword \/ SetPermissions \/ DeclareQueue \/ BindQueue
        \/ ProvisionPlugin \/ SyncPlugin \/ StartContainers \/ UpdateRuntimeInfo \/ MarkRunning

StopStep == DropAcl \/ Teardown \/ SetFailed \/ SaveStopped \/ SwitchVersion \/ Delete

Next ==
    \/ Boot \/ Bootstrap \/ StartRouter \/ Restore
    \/ Install \/ Start \/ Stop \/ Upgrade \/ Uninstall \/ MarkFailed
    \/ StartStep \/ StopStep
    \/ Shutdown \/ Crash \/ RedisRestarts

Spec == Init /\ [][Next]_vars

-----------------------------------------------------------------------------
Serving == Rest /\ record # NoRecord /\ record.status = "running"

(***************************************************************************)
(* Whatever call failed, wherever the daemon died, and after every restart *)
(* that emptied Redis: what the record of a running plugin says is what    *)
(* both services accept, and its user has its permissions. Excepted is the *)
(* failure startCore only logs, and a Redis that restarted under a running *)
(* plugin: nobody syncs it then (startCore, SyncCredentials, SyncPlugin).  *)
(***************************************************************************)
RecordIsAccepted ==
    Serving =>
        /\ user = record.info.rabbit /\ permitted
        /\ unsynced \/ record.info.redis \in acl

(***************************************************************************)
(* A running plugin has the queues of its version, bound to their topics,  *)
(* however often provisioning broke off in the middle, unless its version  *)
(* was changed under credentials that were then only synced (startCore).   *)
(***************************************************************************)
QueuesBound == \A i \in DOMAIN QueuesOf(record.version) :
    /\ QueuesOf(record.version)[i] \in bindings
    /\ QueuesOf(record.version)[i].queue \in queues

QueuesOfItsVersion == Serving /\ ~kept => QueuesBound

\* "creates the required RabbitMQ resources based on the plugin manifest's capabilities"
\* (provisioner.go:62): a running plugin has them, upgraded from failed or not.
RunningHasItsQueues == Serving => QueuesBound

\* "Teardown cleans up all RabbitMQ resources for the plugin" (provisioner.go:132): when no
\* call ever failed, nothing of a plugin that is stopped is left.
TeardownIsFull ==
    Rest /\ record # NoRecord /\ record.status = "stopped" /\ faults = 0 => queues = {}
=============================================================================

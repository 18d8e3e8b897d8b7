------------------------------ MODULE Bootstrap ------------------------------
(***************************************************************************)
(* From the start of the daemon to the moment it serves, and its shutdown  *)
(* (internal/cli/daemon.go): the key file and the database are opened      *)
(* (internal/store, internal/crypto), RabbitMQ and Redis are brought up as *)
(* containers (internal/system), conflicts over their names are put to the *)
(* operator, and the daemon connects.                                      *)
(*                                                                         *)
(* A step is one write to the key file, one transaction of BoltDB, or one  *)
(* call to Docker that changes something. Between any two of them the      *)
(* process may die: SIGINT is only caught once the daemon serves. Docker   *)
(* and its containers live on, and so do both files.                       *)
(***************************************************************************)
EXTENDS Integers

CONSTANTS
    Proc,          \* daemon processes; a process that ended may be launched again
    NoKey, Partial,\* no key file; one that was created but not written in full
    Plain,         \* what secrets stored before there was encryption are sealed with
    Nobody,
    MaxSecrets,    \* BOUND: times passwords are generated
    MaxFaults,     \* BOUND: failed calls, crashes, signals
    MaxMeddling,   \* BOUND: changes to containers and ports from outside
    MaxRefusals    \* BOUND: answers other than "remove" to the conflict prompt

ASSUME BootstrapAssumption ==
    /\ {MaxSecrets, MaxFaults, MaxMeddling, MaxRefusals} \subseteq Nat /\ MaxSecrets >= 2
    /\ {NoKey, Partial, Plain, Nobody} \cap Proc = {} /\ NoKey # Partial

VARIABLES
    keyFile,    \* secret.key: absent, partial, or the key of the process that wrote it
    lock,       \* the process that has griffino.db open
    db,         \* the system state it holds
    network,    \* whether griffino_system exists
    container,  \* what has the name of each of the two containers
    image,      \* images present
    taken,      \* services whose stored port another program listens on
    proc,       \* the processes
    minted,     \* passwords generated so far: a new one is the next number
    faults, meddled, refusals,
    raced,      \* auxiliary: two processes created the key file at once
    missed,     \* auxiliary: a process ended between storing a new Redis password
                \* and saying so
    told,       \* auxiliary: somebody was told to delete the old Redis container
    lost        \* auxiliary: the database was lost while its containers were not

fileVars == <<keyFile, lock, db>>
dockerVars == <<network, container, image, taken>>
boundVars == <<minted, faults, meddled, refusals>>
auxVars == <<raced, missed, told, lost>>
vars == <<fileVars, dockerVars, proc, boundVars, auxVars>>

Service == {"rabbitmq", "redis"}
Secret == 0..MaxSecrets
NoState == [mq |-> 0, redis |-> 0, sealed |-> Plain, renamed |-> {}]
NoContainer == [owner |-> "nobody", up |-> FALSE, joined |-> FALSE, secret |-> 0]
Foreign(up) == [NoContainer EXCEPT !.owner = "other", !.up = up]
Ours(up, secret) == [owner |-> "griffino", up |-> up, joined |-> TRUE, secret |-> secret]
\* key: the cipher's; state: sysState as ensureSystemConfig returned it; at: the service
\* being ensured; disturbed: auxiliary, something was changed under this process.
OffProc == [pc |-> "off", key |-> NoKey, state |-> NoState, at |-> "rabbitmq",
            unjoined |-> {}, disturbed |-> FALSE]

PCs == {"off", "readKey", "createKey", "writeKey", "open", "network", "config", "warn",
        "find", "start", "join", "pull", "create", "startNew", "joinNew", "conflict",
        "wait", "connect", "serving", "stopping"}

At(p, pc) == proc[p].pc = pc
Goto(p, pc) == proc' = [proc EXCEPT ![p].pc = pc]
On(p) == proc[p].at
Wanted(p, r) == IF r = "rabbitmq" THEN proc[p].state.mq ELSE proc[p].state.redis

\* The process ends; the kernel closes its database.
Ends(p) ==
    /\ proc' = [proc EXCEPT ![p] = OffProc]
    /\ lock' = IF lock = p THEN Nobody ELSE lock
    /\ missed' = (missed \/ At(p, "warn"))
Fault == faults < MaxFaults /\ faults' = faults + 1

-----------------------------------------------------------------------------
(***************************************************************************)
(* store.New: the key first, then the database with its exclusive lock.    *)
(***************************************************************************)
Launch(p) ==
    /\ At(p, "off")
    /\ Goto(p, "readKey")
    /\ UNCHANGED <<fileVars, dockerVars, boundVars, auxVars>>

\* LoadOrCreateKey: a file of the wrong size is an error.
ReadKey(p) ==
    /\ At(p, "readKey")
    /\ \/ /\ keyFile = Partial
          /\ Ends(p)
       \/ /\ keyFile = NoKey
          /\ Goto(p, "createKey")
          /\ UNCHANGED <<lock, missed>>
       \/ /\ keyFile \in Proc
          /\ proc' = [proc EXCEPT ![p].pc = "open", ![p].key = keyFile]
          /\ UNCHANGED <<lock, missed>>
    /\ UNCHANGED <<keyFile, db, dockerVars, boundVars, raced, told, lost>>

\* os.WriteFile truncates whatever has come to be there, ...
CreateKey(p) ==
    /\ At(p, "createKey")
    /\ keyFile' = Partial
    /\ raced' = (raced \/ keyFile # NoKey)
    /\ Goto(p, "writeKey")
    /\ UNCHANGED <<lock, db, dockerVars, boundVars, missed, told, lost>>

\* MUTANT: LoadOrCreateKey that does not look at the error of WriteFile
KeepsUnwrittenKey(p) ==
    /\ At(p, "writeKey")
    /\ proc' = [proc EXCEPT ![p].pc = "open", ![p].key = p]
    /\ \/ keyFile' = p /\ UNCHANGED faults
       \/ Fault /\ UNCHANGED keyFile
    /\ UNCHANGED <<lock, db, dockerVars, minted, meddled, refusals, auxVars>>

\* ... and then writes the key; a disk that is full is an error.
WriteKey(p) ==
    /\ At(p, "writeKey")
    /\ \/ /\ keyFile' = p
          /\ proc' = [proc EXCEPT ![p].pc = "open", ![p].key = p]
          /\ UNCHANGED <<lock, faults, missed>>
       \/ /\ Fault
          /\ Ends(p)
          /\ UNCHANGED keyFile
    /\ UNCHANGED <<db, dockerVars, minted, meddled, refusals, raced, told, lost>>

\* MUTANT: a database opened without its lock
OpensUnlocked(p) ==
    /\ At(p, "open")
    /\ lock' = p
    /\ Goto(p, "network")
    /\ UNCHANGED <<keyFile, db, dockerVars, boundVars, auxVars>>

\* bolt.Open waits a second for the lock.
Open(p) ==
    /\ At(p, "open")
    /\ \/ /\ lock = Nobody
          /\ lock' = p
          /\ Goto(p, "network")
          /\ UNCHANGED missed
       \/ /\ lock # Nobody
          /\ Ends(p)
    /\ UNCHANGED <<keyFile, db, dockerVars, boundVars, raced, told, lost>>

\* decryptSystemState: legacy plaintext is read as it is.
Readable(p) == db.sealed \in {Plain, proc[p].key}

-----------------------------------------------------------------------------
(***************************************************************************)
(* Manager.Bootstrap. A call that fails is an error of the daemon command, *)
(* which ends the process.                                                 *)
(***************************************************************************)
CallFails(p) ==
    /\ \/ proc[p].pc \in {"network", "find", "start", "create", "startNew", "joinNew", "wait", "connect"}
       \/ At(p, "pull") /\ On(p) \notin image
    /\ Fault
    /\ Ends(p)
    /\ UNCHANGED <<keyFile, db, dockerVars, minted, meddled, refusals, raced, told, lost>>

EnsureNetwork(p) ==
    /\ At(p, "network")
    /\ network' = TRUE
    /\ Goto(p, "config")
    /\ UNCHANGED <<fileVars, container, image, taken, boundVars, auxVars>>

\* A password not used before.
GenerateSecret == minted + 1

\* ensureSystemConfig when there is a state: only a missing Redis password is made up.
Found(p) == db.mq # 0
Upgraded(p) == [db EXCEPT !.redis = GenerateSecret, !.sealed = proc[p].key]
\* ... and when there is none: two passwords, and ports nobody listens on.
FindAvailablePorts == taken' = {}
Generated(p) == [mq |-> GenerateSecret, redis |-> GenerateSecret, sealed |-> proc[p].key,
                 renamed |-> {}]

\* MUTANT: an upgrade of the database that says nothing
UsesConfigSilently(p, state, pc) ==
    /\ db' = state
    /\ proc' = [proc EXCEPT ![p].state = state, ![p].at = "rabbitmq", ![p].pc = "find"]

UseConfig(p, state, pc) ==
    /\ db' = state
    /\ proc' = [proc EXCEPT ![p].state = state, ![p].at = "rabbitmq", ![p].pc = pc]

EnsureConfig(p) ==
    /\ At(p, "config")
    /\ \/ /\ ~Readable(p)
          /\ Ends(p)
          /\ UNCHANGED <<db, taken, minted>>
       \/ /\ Readable(p) /\ Found(p) /\ db.redis # 0
          /\ UseConfig(p, db, "find")
          /\ UNCHANGED <<lock, missed, taken, minted>>
       \/ /\ Readable(p) /\ Found(p) /\ db.redis = 0
          /\ UseConfig(p, Upgraded(p), "warn")
          /\ minted' = minted + 1
          /\ UNCHANGED <<lock, missed, taken>>
       \/ /\ Readable(p) /\ ~Found(p)
          /\ UseConfig(p, Generated(p), "find")
          /\ minted' = minted + 1
          /\ FindAvailablePorts
          /\ UNCHANGED <<lock, missed>>
    /\ UNCHANGED <<keyFile, network, container, image, faults, meddled, refusals, raced, told, lost>>

WarnUpgrade(p) ==
    /\ At(p, "warn")
    /\ told' = TRUE
    /\ Goto(p, "find")
    /\ UNCHANGED <<fileVars, dockerVars, boundVars, raced, missed, lost>>

-----------------------------------------------------------------------------
(***************************************************************************)
(* ensureRabbitMQ and then ensureRedis: first ensureContainerStarted, ...  *)
(***************************************************************************)
NextPc(p) == IF On(p) = "rabbitmq" THEN "find" ELSE "wait"
ServiceDone(p, unjoined) ==
    proc' = [proc EXCEPT ![p].pc = NextPc(p), ![p].at = "redis", ![p].unjoined = unjoined]

\* MUTANT: ensureContainerStarted without All: true
FindsRunningOnly(p) ==
    LET c == container[On(p)]
    IN /\ At(p, "find")
       /\ Goto(p, IF ~c.up THEN "pull" ELSE IF c.owner = "other" THEN "conflict" ELSE "join")
       /\ UNCHANGED <<fileVars, dockerVars, boundVars, auxVars>>

\* MUTANT: the label is not checked
FindsByName(p) ==
    LET c == container[On(p)]
    IN /\ At(p, "find")
       /\ Goto(p, IF c.owner = "nobody" THEN "pull" ELSE IF c.up THEN "join" ELSE "start")
       /\ UNCHANGED <<fileVars, dockerVars, boundVars, auxVars>>

Find(p) ==
    LET c == container[On(p)]
    IN /\ At(p, "find")
       /\ Goto(p, CASE c.owner = "nobody" -> "pull"
                    [] c.owner = "other" -> "conflict"
                    [] c.owner = "griffino" -> IF c.up THEN "join" ELSE "start")
       /\ UNCHANGED <<fileVars, dockerVars, boundVars, auxVars>>

\* ContainerStart binds the ports the container was created with.
CanStart(p) == container[On(p)].owner = "griffino" /\ On(p) \notin taken

StartContainer(p, next) ==
    \/ /\ CanStart(p)
       /\ container' = [container EXCEPT ![On(p)].up = TRUE]
       /\ Goto(p, next)
       /\ UNCHANGED <<lock, missed>>
    \/ /\ ~CanStart(p)
       /\ Ends(p)
       /\ UNCHANGED container

Start(p) ==
    /\ At(p, "start")
    /\ StartContainer(p, "join")
    /\ UNCHANGED <<keyFile, db, network, image, taken, boundVars, raced, told, lost>>

\* ... ensureInSystemNetwork, whose failure is a warning, ...
Join(p) ==
    /\ At(p, "join")
    /\ \/ /\ container' = [container EXCEPT ![On(p)].joined = @ \/ container[On(p)].owner # "nobody"]
          /\ ServiceDone(p, proc[p].unjoined)
          /\ UNCHANGED faults
       \/ /\ Fault
          /\ ServiceDone(p, proc[p].unjoined \cup {On(p)})
          /\ UNCHANGED container
    /\ UNCHANGED <<fileVars, network, image, taken, minted, meddled, refusals, auxVars>>

\* ... or else pullImageIfNotExists, which takes a stream that breaks off for its end, ...
Pull(p) ==
    /\ At(p, "pull")
    /\ \/ /\ image' = image \cup {On(p)}
          /\ UNCHANGED faults
       \/ /\ On(p) \notin image
          /\ Fault
          /\ UNCHANGED image
    /\ Goto(p, "create")
    /\ UNCHANGED <<fileVars, network, container, taken, minted, meddled, refusals, auxVars>>

\* ... and ContainerCreate, ContainerStart and NetworkConnect.
CanCreate(p) == On(p) \in image /\ container[On(p)].owner = "nobody"
Created(p) == [Ours(FALSE, Wanted(p, On(p))) EXCEPT !.joined = FALSE]

Create(p) ==
    /\ At(p, "create")
    /\ \/ /\ CanCreate(p)
          /\ container' = [container EXCEPT ![On(p)] = Created(p)]
          /\ Goto(p, "startNew")
          /\ UNCHANGED <<lock, missed>>
       \/ /\ ~CanCreate(p)
          /\ Ends(p)
          /\ UNCHANGED container
    /\ UNCHANGED <<keyFile, db, network, image, taken, boundVars, raced, told, lost>>

StartNew(p) ==
    /\ At(p, "startNew")
    /\ StartContainer(p, "joinNew")
    /\ UNCHANGED <<keyFile, db, network, image, taken, boundVars, raced, told, lost>>

JoinNew(p) ==
    /\ At(p, "joinNew")
    /\ \/ /\ container[On(p)].owner = "griffino"
          /\ container' = [container EXCEPT ![On(p)].joined = TRUE]
          /\ ServiceDone(p, proc[p].unjoined)
          /\ UNCHANGED <<lock, missed>>
       \/ /\ container[On(p)].owner # "griffino"
          /\ Ends(p)
          /\ UNCHANGED container
    /\ UNCHANGED <<keyFile, db, network, image, taken, boundVars, raced, told, lost>>

-----------------------------------------------------------------------------
(***************************************************************************)
(* bootstrapWithConflictHandling: Bootstrap starts over after an answer.   *)
(***************************************************************************)
\* ContainerRemove fails if the container went in the meantime.
RemoveForeign(p) ==
    /\ At(p, "conflict")
    /\ \/ /\ container[On(p)].owner = "other"
          /\ container' = [container EXCEPT ![On(p)] = NoContainer]
          /\ Goto(p, "network")
          /\ UNCHANGED <<lock, missed>>
       \/ /\ container[On(p)].owner # "other"
          /\ Ends(p)
          /\ UNCHANGED container
    /\ UNCHANGED <<keyFile, db, network, image, taken, boundVars, raced, told, lost>>

Refuse == refusals < MaxRefusals /\ refusals' = refusals + 1

\* UpdateContainerName
UseCustomName(p) ==
    /\ At(p, "conflict")
    /\ Refuse
    /\ db' = [db EXCEPT !.renamed = @ \cup {On(p)}, !.sealed = proc[p].key]
    /\ Goto(p, "network")
    /\ UNCHANGED <<keyFile, lock, dockerVars, minted, faults, meddled, auxVars>>

\* "Exit", an empty name, or no terminal to ask on
Exit(p) ==
    /\ At(p, "conflict")
    /\ Refuse
    /\ Ends(p)
    /\ UNCHANGED <<keyFile, db, dockerVars, minted, faults, meddled, raced, told, lost>>

-----------------------------------------------------------------------------
(***************************************************************************)
(* The rest of the daemon command.                                         *)
(***************************************************************************)
\* waitForRabbitMQ, for 60 seconds, with the administrator's password.
Answers(p) ==
    LET c == container["rabbitmq"]
    IN c.owner = "griffino" /\ c.up /\ c.secret = Wanted(p, "rabbitmq")

WaitForRabbitMQ(p) ==
    /\ At(p, "wait")
    /\ \/ /\ Answers(p)
          /\ Goto(p, "connect")
          /\ UNCHANGED <<lock, missed>>
       \/ /\ ~Answers(p)
          /\ Ends(p)
    /\ UNCHANGED <<keyFile, db, dockerVars, boundVars, raced, told, lost>>

\* broker.Bootstrap, the scheduler's connection and the first administrator; a router
\* that cannot start is only logged, and the Redis client connects when it is first used.
Connect(p) ==
    /\ At(p, "connect")
    /\ \/ /\ Answers(p)
          /\ Goto(p, "serving")
          /\ UNCHANGED <<lock, missed>>
       \/ /\ ~Answers(p)
          /\ Ends(p)
    /\ UNCHANGED <<keyFile, db, dockerVars, boundVars, raced, told, lost>>

Signal(p) ==
    /\ At(p, "serving")
    /\ Fault
    /\ Goto(p, "stopping")
    /\ UNCHANGED <<fileVars, dockerVars, minted, meddled, refusals, auxVars>>

\* Manager.Shutdown stops what has the two names, and goes on when it cannot.
Shutdown(p) ==
    /\ At(p, "stopping")
    /\ \E stopped \in SUBSET Service :
          /\ stopped # Service => faults < MaxFaults
          /\ faults' = faults + (IF stopped = Service THEN 0 ELSE 1)
          /\ container' = [r \in Service |->
                IF r \in stopped THEN [container[r] EXCEPT !.up = FALSE] ELSE container[r]]
    /\ Ends(p)
    /\ UNCHANGED <<keyFile, db, network, image, taken, minted, meddled, refusals, raced, told, lost>>

Crash(p) ==
    /\ ~At(p, "off")
    /\ Fault
    /\ Ends(p)
    /\ UNCHANGED <<keyFile, db, dockerVars, minted, meddled, refusals, raced, told, lost>>

-----------------------------------------------------------------------------
(***************************************************************************)
(* The machine: what other programs and the operator do.                   *)
(***************************************************************************)
Meddle ==
    /\ meddled < MaxMeddling /\ meddled' = meddled + 1
    /\ proc' = [p \in Proc |-> IF lock = p THEN [proc[p] EXCEPT !.disturbed = TRUE] ELSE proc[p]]
    /\ UNCHANGED <<keyFile, network, image, minted, faults, refusals, raced, missed, told>>

MeddleWith(r) ==
    /\ Meddle
    /\ LET c == container[r]
       IN container' \in {[container EXCEPT ![r] = new] :
             new \in ({NoContainer, [c EXCEPT !.up = FALSE]} \cup
                      IF c.owner = "nobody" THEN {Foreign(TRUE)} ELSE {}) \ {c}}
    /\ UNCHANGED <<lock, db, taken, lost>>

\* Another program listens on the port a stopped container would bind.
TakePort(r) ==
    /\ ~container[r].up /\ r \notin taken
    /\ Meddle
    /\ taken' = taken \cup {r}
    /\ UNCHANGED <<lock, db, container, lost>>

\* The operator deletes griffino.db, or restores the machine without it.
LoseDatabase ==
    /\ lock = Nobody /\ db.mq # 0 /\ minted < MaxSecrets
    /\ Meddle
    /\ db' = NoState
    /\ lost' = TRUE
    /\ UNCHANGED <<lock, taken, container>>

-----------------------------------------------------------------------------
\* A machine without Griffino, one where another program has one of the names, and one
\* with an installation from before Redis had a password and secrets were encrypted.
Init ==
    /\ keyFile = NoKey /\ lock = Nobody
    /\ \/ /\ db = NoState /\ minted = 0 /\ network = FALSE /\ image = {}
          /\ \E theirs \in SUBSET Service :
                container = [r \in Service |-> IF r \in theirs THEN Foreign(TRUE) ELSE NoContainer]
       \/ /\ db = [NoState EXCEPT !.mq = 1] /\ minted = 1 /\ network = TRUE /\ image = Service
          /\ \E up \in BOOLEAN :
                container = [r \in Service |-> Ours(up, IF r = "rabbitmq" THEN 1 ELSE 0)]
    /\ taken = {}
    /\ proc = [p \in Proc |-> OffProc]
    /\ faults = 0 /\ meddled = 0 /\ refusals = 0
    /\ raced = FALSE /\ missed = FALSE /\ told = FALSE /\ lost = FALSE

Step(p) ==
    \/ ReadKey(p) \/ CreateKey(p) \/ WriteKey(p) \/ Open(p)
    \/ EnsureNetwork(p) \/ EnsureConfig(p) \/ WarnUpgrade(p)
    \/ Find(p) \/ Start(p) \/ Join(p) \/ Pull(p) \/ Create(p) \/ StartNew(p) \/ JoinNew(p)
    \/ RemoveForeign(p)
    \/ WaitForRabbitMQ(p) \/ Connect(p) \/ Shutdown(p)

Next ==
    \/ \E p \in Proc :
          Launch(p) \/ Step(p) \/ CallFails(p) \/ Crash(p) \/ Signal(p) \/ UseCustomName(p) \/ Exit(p)
    \/ \E r \in Service : MeddleWith(r) \/ TakePort(r)
    \/ LoseDatabase

Spec == Init /\ [][Next]_vars

\* A process that runs goes on, calls to Docker return, the prompt is answered in the end,
\* and the operator or the service manager launches a daemon that ended.
FairSpec == Spec /\ \A p \in Proc : WF_vars(Step(p)) /\ WF_vars(Launch(p))

-----------------------------------------------------------------------------
(***************************************************************************)
(* Properties.                                                             *)
(***************************************************************************)
TypeOK ==
    /\ keyFile \in {NoKey, Partial} \cup Proc
    /\ lock \in Proc \cup {Nobody}
    /\ db \in [mq : Secret, redis : Secret, sealed : {Plain} \cup Proc, renamed : SUBSET Service]
    /\ network \in BOOLEAN
    /\ container \in [Service -> [owner : {"nobody", "other", "griffino"}, up : BOOLEAN,
                                  joined : BOOLEAN, secret : Secret]]
    /\ image \subseteq Service /\ taken \subseteq Service
    /\ \A p \in Proc :
          /\ proc[p].pc \in PCs
          /\ proc[p].key \in {NoKey} \cup Proc
          /\ proc[p].at \in Service
          /\ proc[p].unjoined \subseteq Service
          /\ (lock = p) = (proc[p].pc \notin {"off", "readKey", "createKey", "writeKey", "open"})

Serving(p) == At(p, "serving")

\* What is encrypted in the database can be decrypted with the key that is in the file, unless
\* two processes found no file and both created one: the one that got the database encrypts
\* with the key the other one overwrote (LoadOrCreateKey, before bolt.Open's lock).
KeyOpensDatabase ==
    db.sealed # Plain /\ ~raced => keyFile = db.sealed

\* A Redis container with another password than the daemon's, so that every call to it is
\* refused: somebody was told to delete it, unless the daemon that made the password up died
\* before it said so, or the database was lost. Nothing in the boot tries that password.
MismatchExplained == told \/ missed \/ lost

\* A daemon that serves has brought up both containers as its own, running, with the
\* passwords it uses, and in the system network except where joining failed and was passed
\* over, provided nobody else changed them while it ran (Bootstrap, waitForRabbitMQ).
ServesItsOwn ==
    \A p \in Proc : Serving(p) /\ ~proc[p].disturbed =>
        /\ container["rabbitmq"].secret = db.mq
        /\ container["redis"].secret = db.redis \/ MismatchExplained
        /\ \A r \in Service :
              /\ container[r].owner = "griffino" /\ container[r].up
              /\ container[r].joined \/ r \in proc[p].unjoined

\* Another program's container is left alone: it is removed when the operator chose so at
\* the prompt; stopping it by its name, or connecting it to the network, only happens to a
\* daemon whose own container it took the place of.
ForeignIsLeftAlone ==
    [][\A r \in Service : container[r].owner = "other" /\ container'[r] # container[r] =>
          \/ meddled' > meddled
          \/ \E p \in Proc : At(p, "conflict") /\ On(p) = r
          \/ \E p \in Proc : proc[p].disturbed /\ container'[r].owner = "other"
      ]_vars

\* What a launch cannot mend: a key file cut short by a crash, a key overwritten in a race, a
\* port that somebody else took, and a broker container that outlived its database.
Hopeless ==
    \/ keyFile = Partial
    \/ db.sealed \notin {Plain, keyFile}
    \/ taken # {}
    \/ container["rabbitmq"].owner = "griffino" /\ container["rabbitmq"].secret # db.mq

\* Whatever call failed and wherever the daemon died, launching it again, and letting it
\* remove what is in its way, leads to one that serves, except from the states above.
BootHeals == []<>(Hopeless \/ \E p \in Proc : Serving(p))

\* Once the operator gave a custom name for a container, the daemon does not stop at the
\* conflict over the default name again (resolveContainerConflict's second option).
CustomNameIsUsed ==
    \A p \in Proc : At(p, "conflict") => On(p) \notin db.renamed
=============================================================================

-------------------------- MODULE BootstrapProofs --------------------------
(***************************************************************************)
(* Theorems about Bootstrap, for any number of daemon processes and any    *)
(* bound on the failures, the changes from outside and the refusals.       *)
(***************************************************************************)
EXTENDS Bootstrap, TLAPS

State     == [mq : Secret, redis : Secret, sealed : {Plain} \cup Proc, renamed : SUBSET Service]
Process   == [pc : PCs, key : {NoKey} \cup Proc, state : State, at : Service,
              unjoined : SUBSET Service, disturbed : BOOLEAN]
Container == [owner : {"nobody", "other", "griffino"}, up : BOOLEAN, joined : BOOLEAN,
              secret : Secret]

\* How far a process is: without a key, without the database, without its configuration.
Keyless      == {"off", "readKey", "createKey", "writeKey"}
Lockless     == Keyless \cup {"open"}
Unconfigured == Lockless \cup {"network", "config"}

Types ==
  /\ proc \in [Proc -> Process]
  /\ keyFile \in {NoKey, Partial} \cup Proc
  /\ lock \in Proc \cup {Nobody}
  /\ db \in State
  /\ network \in BOOLEAN
  /\ container \in [Service -> Container]
  /\ image \subseteq Service /\ taken \subseteq Service
  /\ minted \in Secret /\ meddled \in Nat
  /\ {raced, missed, told, lost} \subseteq BOOLEAN

\* The lock is the database's, and its holder alone gets beyond it.
LockInOrder ==
  \A p \in Proc : /\ (lock = p) = (proc[p].pc \notin Lockless)
                  /\ proc[p].pc \in Lockless => On(p) = "rabbitmq"

\* Without a race the key of every process is that of the file, and one process writes it.
KeyInOrder ==
  /\ \A p \in Proc : (proc[p].key = NoKey) = (proc[p].pc \in Keyless)
  /\ ~raced =>
       /\ \A p \in Proc : proc[p].key # NoKey => keyFile = proc[p].key
       /\ \A p \in Proc : At(p, "writeKey") => keyFile = Partial
       /\ \A p, q \in Proc : At(p, "writeKey") /\ At(q, "writeKey") => p = q
  /\ KeyOpensDatabase

\* What a process works with is what the database holds.
StateInOrder ==
  /\ db.mq = 0 => db.redis = 0
  /\ db.redis = 0 => minted < MaxSecrets
  /\ \A p \in Proc : proc[p].pc \notin Unconfigured =>
        proc[p].state = db /\ db.mq # 0 /\ db.redis # 0

\* Redis has the password of the database, or it can be told why not.
RedisInOrder ==
  /\ db.mq = 0 /\ ~lost => container["redis"].owner # "griffino"
  /\ container["redis"].owner = "griffino" /\ ~MismatchExplained =>
        container["redis"].secret = db.redis \/ \E p \in Proc : At(p, "warn")

\* What a process that nobody disturbed has done to the containers so far.
IsOurs(r)     == container[r].owner = "griffino"
IsUp(r)       == IsOurs(r) /\ container[r].up
IsReady(p, r) == IsUp(r) /\ (container[r].joined \/ r \in proc[p].unjoined)
AllReady      == {"wait", "connect", "serving", "stopping"}

HasDone(p) ==
  /\ On(p) = "redis" => IsReady(p, "rabbitmq")
  /\ proc[p].pc \in {"start", "startNew"} => IsOurs(On(p))
  /\ proc[p].pc \in {"join", "joinNew"} => IsUp(On(p))
  /\ proc[p].pc \in AllReady => On(p) = "redis" /\ IsReady(p, "redis")
  /\ proc[p].pc \in {"serving", "stopping"} => container["rabbitmq"].secret = db.mq

ContainersInOrder == \A p \in Proc : lock = p /\ ~proc[p].disturbed => HasDone(p)

IInv == Types /\ LockInOrder /\ KeyInOrder /\ StateInOrder /\ RedisInOrder /\ ContainersInOrder

-----------------------------------------------------------------------------
(* What the ways to go on do to the processes. *)

\* The initial state of the database and of a process.
LEMMA StartTypes == NoState \in State /\ OffProc \in Process
BY BootstrapAssumption DEF NoState, OffProc, State, Process, Secret, PCs, Service

\* The other processes stay as they are.
Others(p) == \A q \in Proc \ {p} : proc'[q] = proc[q]

\* What a process may keep of its own.
KeyStays(p)   == proc'[p].key = proc[p].key /\ proc'[p].disturbed = proc[p].disturbed
StateStays(p) == proc'[p].state = proc[p].state
PlaceStays(p) == proc'[p].at = proc[p].at /\ proc'[p].unjoined = proc[p].unjoined

\* Only the step of a process changes.
LEMMA GotoEffect ==
  ASSUME Types, NEW p \in Proc, NEW pc \in PCs, Goto(p, pc)
  PROVE  /\ proc' \in [Proc -> Process] /\ Others(p)
         /\ proc'[p].pc = pc /\ KeyStays(p) /\ StateStays(p) /\ PlaceStays(p)
<1> DEFINE r == [proc[p] EXCEPT !.pc = pc]
<1>1. proc[p] \in Process
  BY DEF Types
<1>2. /\ r \in Process /\ r.pc = pc /\ r.key = proc[p].key /\ r.disturbed = proc[p].disturbed
      /\ r.state = proc[p].state /\ r.at = proc[p].at /\ r.unjoined = proc[p].unjoined
  BY <1>1 DEF Process
<1>3. proc' = [proc EXCEPT ![p] = r]
  BY DEF Goto, Types
<1> HIDE DEF r
<1>4. QED
  BY <1>2, <1>3 DEF Types, Others, KeyStays, StateStays, PlaceStays

\* A process that ends leaves nothing but what it did not say.
LEMMA EndsEffect ==
  ASSUME Types, NEW p \in Proc, Ends(p)
  PROVE  /\ proc' \in [Proc -> Process] /\ Others(p) /\ proc'[p] = OffProc
         /\ lock' \in Proc \cup {Nobody} /\ missed' \in BOOLEAN
BY StartTypes DEF Types, Ends, Others

\* A process that is through with a service.
LEMMA ServiceDoneEffect ==
  ASSUME Types, NEW p \in Proc, NEW u \in SUBSET Service, ServiceDone(p, u)
  PROVE  /\ proc' \in [Proc -> Process] /\ Others(p)
         /\ proc'[p].pc = NextPc(p) /\ proc'[p].at = "redis" /\ proc'[p].unjoined = u
         /\ KeyStays(p) /\ StateStays(p)
<1> DEFINE r == [proc[p] EXCEPT !.pc = NextPc(p), !.at = "redis", !.unjoined = u]
<1>1. proc[p] \in Process /\ "redis" \in Service /\ NextPc(p) \in PCs
  BY DEF Types, Service, NextPc, PCs
<1>2. /\ r \in Process /\ r.pc = NextPc(p) /\ r.at = "redis" /\ r.unjoined = u
      /\ r.key = proc[p].key /\ r.disturbed = proc[p].disturbed /\ r.state = proc[p].state
  BY <1>1 DEF Process
<1>3. proc' = [proc EXCEPT ![p] = r]
  BY DEF ServiceDone, Types
<1> HIDE DEF r
<1>4. QED
  BY <1>2, <1>3 DEF Types, Others, KeyStays, StateStays

\* One that has its configuration.
LEMMA UseConfigEffect ==
  ASSUME Types, NEW p \in Proc, NEW s \in State, NEW pc \in PCs, UseConfig(p, s, pc)
  PROVE  /\ proc' \in [Proc -> Process] /\ Others(p) /\ db' = s
         /\ proc'[p].pc = pc /\ proc'[p].state = s /\ proc'[p].at = "rabbitmq" /\ KeyStays(p)
<1> DEFINE r == [proc[p] EXCEPT !.state = s, !.at = "rabbitmq", !.pc = pc]
<1>1. proc[p] \in Process /\ "rabbitmq" \in Service
  BY DEF Types, Service
<1>2. /\ r \in Process /\ r.pc = pc /\ r.at = "rabbitmq" /\ r.state = s
      /\ r.key = proc[p].key /\ r.disturbed = proc[p].disturbed
  BY <1>1 DEF Process
<1>3. proc' = [proc EXCEPT ![p] = r]
  BY DEF UseConfig, Types
<1> HIDE DEF r
<1>4. QED
  BY <1>2, <1>3 DEF Types, Others, UseConfig, KeyStays

\* One that has read or written the key.
LEMMA OpenEffect ==
  ASSUME Types, NEW p \in Proc, NEW key \in Proc,
         proc' = [proc EXCEPT ![p].pc = "open", ![p].key = key]
  PROVE  /\ proc' \in [Proc -> Process] /\ Others(p)
         /\ proc'[p].pc = "open" /\ proc'[p].key = key /\ StateStays(p) /\ PlaceStays(p)
<1> DEFINE r == [proc[p] EXCEPT !.pc = "open", !.key = key]
<1>1. proc[p] \in Process /\ "open" \in PCs
  BY DEF Types, PCs
<1>2. /\ r \in Process /\ r.pc = "open" /\ r.key = key
      /\ r.state = proc[p].state /\ r.at = proc[p].at /\ r.unjoined = proc[p].unjoined
  BY <1>1 DEF Process
<1>3. proc' = [proc EXCEPT ![p] = r]
  BY DEF Types
<1> HIDE DEF r
<1>4. QED
  BY <1>2, <1>3 DEF Types, Others, StateStays, PlaceStays

-----------------------------------------------------------------------------
(* The types. *)

\* The states that ensureSystemConfig saves are states.
LEMMA ConfigTypes ==
  ASSUME IInv, NEW p \in Proc, At(p, "config")
  PROVE  /\ db.redis = 0 => Upgraded(p) \in State /\ minted + 1 \in Secret
         /\ ~Found(p) => Generated(p) \in State /\ minted + 1 \in Secret
<1>1. proc[p].key \in Proc
  BY DEF IInv, KeyInOrder, Types, Process, At, Keyless
<1>2. db.redis = 0 => minted + 1 \in Secret
  BY BootstrapAssumption DEF IInv, StateInOrder, Types, Secret
<1>3. ~Found(p) => minted + 1 \in Secret
  BY <1>2 DEF IInv, StateInOrder, Found
<1>4. QED
  BY <1>1, <1>2, <1>3 DEF Upgraded, Generated, GenerateSecret, State, IInv, Types

\* So is what ensureSystemConfig goes on with: what there was, or a state with new passwords.
NewState(p, s, pc) ==
  /\ s.sealed = proc[p].key
  /\ minted' = minted + 1 /\ minted + 1 \in Secret
  /\ db.redis = 0 /\ (pc = "warn" \/ db.mq = 0)

\* EnsureConfig of a file that can be read keeps its record, or seals a new one with the process'
\* own key; either way the process goes on with passwords for both services.
LEMMA EnsureConfigEffect ==
  ASSUME IInv, NEW p \in Proc, EnsureConfig(p), Readable(p)
  PROVE  \E s \in State, pc \in {"find", "warn"} :
            /\ UseConfig(p, s, pc) /\ s.mq # 0 /\ s.redis # 0
            /\ (s = db /\ minted' = minted) \/ NewState(p, s, pc)
            /\ UNCHANGED <<lock, missed, keyFile, network, container, image, meddled, raced, told, lost>>
            /\ taken' \subseteq taken
<1> USE DEF IInv, Types, EnsureConfig, Found, FindAvailablePorts, NewState, State, Secret
<1>1. minted + 1 # 0
  OBVIOUS
<1>2. CASE Found(p) /\ db.redis # 0
  BY <1>2
<1>3. CASE Found(p) /\ db.redis = 0
  <2>1. UseConfig(p, Upgraded(p), "warn") /\ Upgraded(p) \in State /\ minted + 1 \in Secret
    BY <1>3, ConfigTypes
  <2>2. Upgraded(p).mq = db.mq /\ Upgraded(p).redis = minted + 1
        /\ Upgraded(p).sealed = proc[p].key
    BY DEF Upgraded, GenerateSecret
  <2>3. QED
    BY <1>1, <1>3, <2>1, <2>2
<1>4. CASE ~Found(p)
  <2>1. UseConfig(p, Generated(p), "find") /\ Generated(p) \in State /\ minted + 1 \in Secret
    BY <1>4, ConfigTypes
  <2>2. Generated(p).mq = minted + 1 /\ Generated(p).redis = minted + 1
        /\ Generated(p).sealed = proc[p].key
    BY DEF Generated, GenerateSecret
  <2>3. QED
    BY <1>1, <1>4, <2>1, <2>2 DEF StateInOrder
<1>5. QED
  BY <1>2, <1>3, <1>4

\* The service a process is at.
LEMMA OnType == Types => \A p \in Proc : On(p) \in Service /\ Wanted(p, On(p)) \in Secret
BY DEF Types, On, Process, Wanted, State

\* Starting what is there.
LEMMA StartContainerTypes ==
  ASSUME Types, NEW p \in Proc, NEW next \in {"join", "joinNew"}, StartContainer(p, next)
  PROVE  /\ proc' \in [Proc -> Process] /\ lock' \in Proc \cup {Nobody} /\ missed' \in BOOLEAN
         /\ container' \in [Service -> Container]
<1>1. next \in PCs
  BY DEF PCs
<1>2. CASE CanStart(p) /\ Goto(p, next) /\ UNCHANGED <<lock, missed>>
  <2>1. container' \in [Service -> Container]
    BY <1>2, OnType DEF StartContainer, Types, Container
  <2>2. QED
    BY <1>1, <1>2, <2>1, GotoEffect DEF Types
<1>3. CASE Ends(p) /\ UNCHANGED container
  BY <1>3, EndsEffect DEF Types
<1>4. QED
  BY <1>2, <1>3 DEF StartContainer

\* The steps of the daemon keep the types.
LEMMA StepTypes ==
  ASSUME IInv, NEW p \in Proc, Step(p)
  PROVE  Types'
<1> USE DEF IInv, fileVars, dockerVars, boundVars, auxVars
<1>1. CASE ReadKey(p)
  <2>1. proc' \in [Proc -> Process] /\ lock' \in Proc \cup {Nobody} /\ missed' \in BOOLEAN
    <3>1. CASE Ends(p)
      BY <3>1, EndsEffect
    <3>2. CASE Goto(p, "createKey") /\ UNCHANGED <<lock, missed>>
      BY <3>2, GotoEffect DEF Types, PCs
    <3>3. CASE keyFile \in Proc /\ UNCHANGED <<lock, missed>>
               /\ proc' = [proc EXCEPT ![p].pc = "open", ![p].key = keyFile]
      BY <3>3, OpenEffect DEF Types
    <3>4. QED
      BY <1>1, <3>1, <3>2, <3>3 DEF ReadKey
  <2>2. QED
    BY <1>1, <2>1 DEF ReadKey, Types
<1>2. CASE CreateKey(p)
  BY <1>2, GotoEffect DEF CreateKey, Types, PCs
<1>3. CASE WriteKey(p)
  <2>1. proc' \in [Proc -> Process] /\ lock' \in Proc \cup {Nobody} /\ missed' \in BOOLEAN
    BY <1>3, EndsEffect, OpenEffect DEF WriteKey, Types
  <2>2. QED
    BY <1>3, <2>1 DEF WriteKey, Types
<1>4. CASE Open(p)
  BY <1>4, EndsEffect, GotoEffect DEF Open, Types, PCs
<1>5. CASE EnsureNetwork(p) \/ WarnUpgrade(p) \/ Find(p)
  <2>1. proc' \in [Proc -> Process]
    BY <1>5, GotoEffect, OnType DEF EnsureNetwork, WarnUpgrade, Find, Types, PCs, Container
  <2>2. QED
    BY <1>5, <2>1 DEF EnsureNetwork, WarnUpgrade, Find, Types
<1>6. CASE EnsureConfig(p)
  <2>1. CASE Readable(p)
    <3>1. PICK s \in State, pc \in {"find", "warn"} :
            /\ UseConfig(p, s, pc)
            /\ minted' \in Secret
            /\ UNCHANGED <<lock, missed, keyFile, network, container, image, meddled, raced, told, lost>>
            /\ taken' \subseteq taken
      BY <1>6, <2>1, EnsureConfigEffect DEF NewState, Types
    <3>2. proc' \in [Proc -> Process] /\ db' \in State
      BY <3>1, UseConfigEffect DEF PCs
    <3>3. QED
      BY <3>1, <3>2 DEF Types
  <2>2. CASE ~Readable(p)
    BY <1>6, <2>2, EndsEffect DEF EnsureConfig, Types
  <2>3. QED
    BY <2>1, <2>2
<1>7. CASE Start(p) \/ StartNew(p)
  BY <1>7, StartContainerTypes DEF Start, StartNew, Types
<1>8. CASE Join(p)
  <2>1. proc' \in [Proc -> Process]
    BY <1>8, ServiceDoneEffect, OnType DEF Join, Types, Process
  <2>2. container' \in [Service -> Container]
    BY <1>8, OnType DEF Join, Types, Container
  <2>3. QED
    BY <1>8, <2>1, <2>2 DEF Join, Types
<1>9. CASE Pull(p)
  BY <1>9, GotoEffect, OnType DEF Pull, Types, PCs
<1>10. CASE Create(p)
  <2>1. Created(p) \in Container
    BY OnType DEF Created, Ours, Container
  <2>2. container' \in [Service -> Container]
    BY <1>10, <2>1 DEF Create, Types
  <2>3. QED
    BY <1>10, <2>2, EndsEffect, GotoEffect DEF Create, Types, PCs
<1>11. CASE JoinNew(p)
  <2>1. proc' \in [Proc -> Process] /\ lock' \in Proc \cup {Nobody} /\ missed' \in BOOLEAN
    BY <1>11, ServiceDoneEffect, EndsEffect DEF JoinNew, Types, Process
  <2>2. container' \in [Service -> Container]
    BY <1>11, OnType DEF JoinNew, Types, Container
  <2>3. QED
    BY <1>11, <2>1, <2>2 DEF JoinNew, Types
<1>12. CASE RemoveForeign(p)
  <2>1. NoContainer \in Container
    BY BootstrapAssumption DEF NoContainer, Container, Secret
  <2>2. container' \in [Service -> Container]
    BY <1>12, <2>1 DEF RemoveForeign, Types
  <2>3. QED
    BY <1>12, <2>2, EndsEffect, GotoEffect DEF RemoveForeign, Types, PCs
<1>13. CASE WaitForRabbitMQ(p) \/ Connect(p)
  BY <1>13, EndsEffect, GotoEffect DEF WaitForRabbitMQ, Connect, Types, PCs
<1>14. CASE Shutdown(p)
  <2>1. container' \in [Service -> Container]
    <3>1. PICK stopped \in SUBSET Service : container' = [r \in Service |->
             IF r \in stopped THEN [container[r] EXCEPT !.up = FALSE] ELSE container[r]]
      BY <1>14 DEF Shutdown
    <3>2. \A r \in Service : [container[r] EXCEPT !.up = FALSE] \in Container
      BY DEF Types, Container
    <3>3. QED
      BY <3>1, <3>2 DEF Types
  <2>2. QED
    BY <1>14, <2>1, EndsEffect DEF Shutdown, Types
<1>15. QED
  BY <1>1, <1>2, <1>3, <1>4, <1>5, <1>6, <1>7, <1>8, <1>9, <1>10, <1>11, <1>12, <1>13, <1>14
  DEF Step

\* What a daemon process may do, and what happens around it.
DaemonStep(p) ==
  Launch(p) \/ Step(p) \/ CallFails(p) \/ Crash(p) \/ Signal(p) \/ UseCustomName(p) \/ Exit(p)
Meddling == (\E r \in Service : MeddleWith(r) \/ TakePort(r)) \/ LoseDatabase

\* A change from outside disturbs the process that has the lock, and nothing else of it.
Disturbs ==
  /\ proc' \in [Proc -> Process]
  /\ \A p \in Proc :
        /\ proc'[p].pc = proc[p].pc /\ proc'[p].key = proc[p].key /\ proc'[p].state = proc[p].state
        /\ proc'[p].at = proc[p].at /\ (lock = p => proc'[p].disturbed)
  /\ meddled' = meddled + 1
  /\ UNCHANGED <<keyFile, lock, network, image, minted, raced, missed, told>>

\* What the operator does to the containers only marks the daemon that is up as disturbed.
LEMMA MeddleEffect ==
  ASSUME Types, Meddle, UNCHANGED lock
  PROVE  Disturbs
<1>1. ASSUME NEW p \in Proc PROVE [proc[p] EXCEPT !.disturbed = TRUE] \in Process
  <2>1. proc[p] \in Process
    BY DEF Types
  <2>2. QED
    BY <2>1 DEF Process
<1>2. proc' \in [Proc -> Process]
  BY <1>1 DEF Meddle, Types
<1>3. ASSUME NEW p \in Proc
      PROVE  /\ proc'[p].pc = proc[p].pc /\ proc'[p].key = proc[p].key /\ proc'[p].state = proc[p].state
             /\ proc'[p].at = proc[p].at /\ (lock = p => proc'[p].disturbed)
  <2>1. proc[p] \in Process /\ proc'[p] = IF lock = p THEN [proc[p] EXCEPT !.disturbed = TRUE] ELSE proc[p]
    BY DEF Meddle, Types
  <2>2. QED
    BY <2>1 DEF Process
<1>4. QED
  BY <1>2, <1>3 DEF Disturbs, Meddle

\* What the changes from outside do to the containers and the database.
LEMMA MeddlingEffect ==
  ASSUME Types, Meddling
  PROVE  /\ Disturbs
         /\ container' \in [Service -> Container] /\ taken' \subseteq Service
         /\ \A r \in Service : container'[r].owner = "griffino" =>
               container[r].owner = "griffino" /\ container'[r].secret = container[r].secret
         /\ \/ UNCHANGED <<db, lost>>
            \/ lock = Nobody /\ db' = NoState /\ lost' = TRUE /\ minted < MaxSecrets
               /\ UNCHANGED container
<1>1. CASE \E r \in Service : MeddleWith(r)
  <2>1. PICK r \in Service : MeddleWith(r)
    BY <1>1
  <2>2. PICK new \in {NoContainer, [container[r] EXCEPT !.up = FALSE], Foreign(TRUE)} :
            container' = [container EXCEPT ![r] = new]
    BY <2>1 DEF MeddleWith
  <2>3. new \in Container /\ (new.owner = "griffino" => /\ container[r].owner = "griffino"
                                                       /\ new.secret = container[r].secret)
    <3>1. container[r] \in Container
      BY DEF Types
    <3>2. NoContainer \in Container /\ NoContainer.owner = "nobody"
      BY BootstrapAssumption DEF NoContainer, Container, Secret
    <3>3. Foreign(TRUE) \in Container /\ Foreign(TRUE).owner = "other"
      BY <3>2 DEF Foreign, Container, NoContainer
    <3>4. QED
      BY <3>1, <3>2, <3>3 DEF Container
  <2>4. QED
    BY <2>1, <2>2, <2>3, MeddleEffect DEF MeddleWith, Types
<1>2. CASE \E r \in Service : TakePort(r)
  BY <1>2, MeddleEffect DEF TakePort, Types
<1>3. CASE LoseDatabase
  BY <1>3, MeddleEffect DEF LoseDatabase, Types
<1>4. QED
  BY <1>1, <1>2, <1>3 DEF Meddling

\* Every step keeps the types.
LEMMA NextTypes == IInv /\ [Next]_vars => Types'
<1> SUFFICES ASSUME IInv, [Next]_vars PROVE Types'
  OBVIOUS
<1> USE DEF IInv, fileVars, dockerVars, boundVars, auxVars
<1>1. ASSUME NEW p \in Proc, DaemonStep(p) PROVE Types'
  <2>1. CASE Step(p)
    BY <2>1, StepTypes
  <2>2. CASE Launch(p) \/ Signal(p)
    BY <2>2, GotoEffect DEF Launch, Signal, Types, PCs
  <2>3. CASE CallFails(p) \/ Crash(p) \/ Exit(p)
    BY <2>3, EndsEffect DEF CallFails, Crash, Exit, Types
  <2>4. CASE UseCustomName(p)
    <3>1. db' \in State
      <4>1. proc[p].key \in Proc
        BY <2>4 DEF UseCustomName, KeyInOrder, Types, Process, At, Keyless
      <4>2. QED
        BY <2>4, <4>1, OnType DEF UseCustomName, Types, State
    <3>2. QED
      BY <2>4, <3>1, GotoEffect DEF UseCustomName, Types, PCs
  <2>5. QED
    BY <1>1, <2>1, <2>2, <2>3, <2>4 DEF DaemonStep
<1>2. CASE Meddling
  <2>1. /\ proc' \in [Proc -> Process] /\ container' \in [Service -> Container]
        /\ db' \in State /\ lost' \in BOOLEAN /\ taken' \subseteq Service
    BY <1>2, MeddlingEffect, StartTypes DEF Disturbs, Types
  <2>2. meddled' = meddled + 1 /\ UNCHANGED <<keyFile, lock, network, image, minted, raced, missed, told>>
    BY <1>2, MeddlingEffect DEF Disturbs
  <2>3. QED
    BY <2>1, <2>2 DEF Types
<1>3. CASE UNCHANGED vars
  BY <1>3 DEF vars, Types
<1>4. QED
  BY <1>1, <1>2, <1>3 DEF Next, DaemonStep, Meddling

-----------------------------------------------------------------------------
(* The lock and the key. *)

\* A process that has the lock goes on with it; what it saves, it seals with its key.
Runs(p) ==
  /\ proc[p].pc \notin Lockless /\ proc'[p].pc \notin Lockless
  /\ proc'[p].key = proc[p].key /\ Others(p)
  /\ db' = db \/ db'.sealed = proc[p].key
  /\ UNCHANGED <<lock, keyFile, raced>>

\* One that ends leaves the files as they are.
Dies(p) == Ends(p) /\ UNCHANGED <<keyFile, db, raced>>

\* Every step of a daemon ends it, keeps it among the steps under the lock, or is one of the five
\* that take it from the key file to bolt.Open.
LEMMA DaemonStepIs ==
  ASSUME IInv, NEW p \in Proc, DaemonStep(p)
  PROVE  Runs(p) \/ Dies(p) \/ Launch(p) \/ ReadKey(p) \/ CreateKey(p) \/ WriteKey(p) \/ Open(p)
<1> USE DEF IInv, fileVars, dockerVars, boundVars, auxVars
<1>1. proc[p] \in Process
  BY DEF Types
<1>2. ASSUME NEW pc \in PCs \ Lockless, proc[p].pc \notin Lockless, Goto(p, pc),
             db' = db \/ db'.sealed = proc[p].key, UNCHANGED <<lock, keyFile, raced>>
      PROVE  Runs(p)
  <2>1. Others(p) /\ proc'[p].pc = pc /\ proc'[p].key = proc[p].key
    BY <1>2, GotoEffect DEF KeyStays
  <2>2. QED
    BY <1>2, <2>1 DEF Runs
<1>3. CASE EnsureNetwork(p) \/ WarnUpgrade(p) \/ Find(p) \/ Pull(p) \/ Signal(p)
  BY <1>2, <1>3, OnType DEF EnsureNetwork, WarnUpgrade, Find, Pull, Signal, At, PCs, Lockless, Keyless,
    Types, Container
<1>4. CASE EnsureConfig(p)
  <2>1. CASE Readable(p)
    <3>1. PICK s \in State, pc \in {"find", "warn"} :
            /\ UseConfig(p, s, pc)
            /\ s = db \/ s.sealed = proc[p].key
            /\ UNCHANGED <<lock, keyFile, raced>>
      BY <1>4, <2>1, EnsureConfigEffect DEF NewState
    <3>2. Others(p) /\ db' = s /\ proc'[p].pc = pc /\ proc'[p].key = proc[p].key
      BY <3>1, UseConfigEffect DEF PCs, KeyStays
    <3>3. QED
      BY <1>4, <3>1, <3>2 DEF Runs, EnsureConfig, At, Lockless, Keyless
  <2>2. CASE ~Readable(p)
    BY <1>4, <2>2 DEF EnsureConfig, Dies
  <2>3. QED
    BY <2>1, <2>2
<1>5. CASE Start(p) \/ StartNew(p) \/ Create(p) \/ RemoveForeign(p) \/ WaitForRabbitMQ(p) \/ Connect(p)
  BY <1>2, <1>5 DEF Start, StartNew, StartContainer, Create, RemoveForeign, WaitForRabbitMQ, Connect, At,
    PCs, Lockless, Keyless, Dies
<1>6. ASSUME NEW u \in SUBSET Service, ServiceDone(p, u), proc[p].pc \notin Lockless,
             UNCHANGED <<lock, keyFile, raced, db>>
      PROVE  Runs(p)
  <2>1. Others(p) /\ proc'[p].pc = NextPc(p) /\ proc'[p].key = proc[p].key
    BY <1>6, ServiceDoneEffect DEF KeyStays
  <2>2. QED
    BY <1>6, <2>1 DEF Runs, NextPc, Lockless, Keyless
<1>7. CASE Join(p)
  BY <1>1, <1>6, <1>7, OnType DEF Join, Process, At, Lockless, Keyless
<1>8. CASE JoinNew(p)
  BY <1>1, <1>6, <1>8 DEF JoinNew, Process, At, Lockless, Keyless, Dies
<1>9. CASE UseCustomName(p)
  <2>1. db'.sealed = proc[p].key
    BY <1>9 DEF UseCustomName, Types, State
  <2>2. QED
    BY <1>2, <1>9, <2>1 DEF UseCustomName, At, PCs, Lockless, Keyless
<1>10. CASE Shutdown(p) \/ CallFails(p) \/ Crash(p) \/ Exit(p)
  BY <1>10 DEF Shutdown, CallFails, Crash, Exit, Dies
<1>11. QED
  BY <1>3, <1>4, <1>5, <1>7, <1>8, <1>9, <1>10 DEF DaemonStep, Step

\* Some facts of a process that ends.
LEMMA OffProcIs == OffProc.pc = "off" /\ OffProc.key = NoKey /\ OffProc.at = "rabbitmq"
BY DEF OffProc

\* The lock of griffino.db is held by exactly the process that is beyond bolt.Open.
LEMMA NextLock == IInv /\ [Next]_vars => LockInOrder'
<1> SUFFICES ASSUME IInv, [Next]_vars PROVE LockInOrder'
  OBVIOUS
<1> USE DEF IInv, fileVars, dockerVars, boundVars, auxVars
<1>1. ASSUME NEW p \in Proc, DaemonStep(p) PROVE LockInOrder'
  <2>0. proc[p] \in Process /\ Nobody \notin Proc
    BY BootstrapAssumption DEF Types
  <2>1. CASE Runs(p)
    BY <2>1 DEF Runs, LockInOrder, Others, On, Lockless
  <2>2. CASE Dies(p)
    <3>1. Others(p) /\ proc'[p] = OffProc /\ lock' = IF lock = p THEN Nobody ELSE lock
      BY <2>2, EndsEffect DEF Dies, Ends
    <3>2. QED
      BY <2>0, <3>1, OffProcIs DEF LockInOrder, Others, On, Lockless, Keyless
  <2>3. ASSUME NEW pc \in Lockless, proc[p].pc \in Lockless, Others(p), lock' = lock,
               proc'[p].pc = pc, proc'[p].at = proc[p].at
        PROVE  LockInOrder'
    BY <2>3 DEF LockInOrder, Others, On
  <2>4. CASE Launch(p) \/ CreateKey(p)
    <3>1. PICK pc \in {"readKey", "writeKey"} : Goto(p, pc) /\ lock' = lock
      BY <2>4 DEF Launch, CreateKey
    <3>2. Others(p) /\ proc'[p].pc = pc /\ proc'[p].at = proc[p].at
      BY <3>1, GotoEffect DEF PCs, PlaceStays
    <3>3. QED
      BY <2>3, <2>4, <3>1, <3>2 DEF Launch, CreateKey, At, Lockless, Keyless
  <2>5. CASE ReadKey(p) \/ WriteKey(p)
    <3>1. CASE Goto(p, "createKey") /\ lock' = lock
      <4>1. Others(p) /\ proc'[p].pc = "createKey" /\ proc'[p].at = proc[p].at
        BY <3>1, GotoEffect DEF PCs, PlaceStays
      <4>2. QED
        BY <2>3, <2>5, <3>1, <4>1 DEF ReadKey, WriteKey, At, Lockless, Keyless
    <3>2. ASSUME NEW key \in Proc, lock' = lock,
                 proc' = [proc EXCEPT ![p].pc = "open", ![p].key = key]
          PROVE  LockInOrder'
      <4>1. Others(p) /\ proc'[p].pc = "open" /\ proc'[p].at = proc[p].at
        BY <3>2, OpenEffect DEF PlaceStays
      <4>2. QED
        BY <2>3, <2>5, <3>2, <4>1 DEF ReadKey, WriteKey, At, Lockless, Keyless
    <3>3. CASE Dies(p)
      BY <2>2, <3>3
    <3>4. QED
      BY <2>5, <3>1, <3>2, <3>3 DEF ReadKey, WriteKey, Dies
  <2>6. CASE Open(p)
    <3>1. CASE Dies(p)
      BY <2>2, <3>1
    <3>2. CASE Goto(p, "network") /\ lock = Nobody /\ lock' = p
      <4>1. Others(p) /\ proc'[p].pc = "network"
        BY <3>2, GotoEffect DEF PCs
      <4>2. QED
        BY <2>0, <3>2, <4>1 DEF LockInOrder, Others, On, Lockless, Keyless
    <3>3. QED
      BY <2>6, <3>1, <3>2 DEF Open, Dies
  <2>7. QED
    BY <1>1, <2>1, <2>2, <2>4, <2>5, <2>6, DaemonStepIs
<1>2. CASE Meddling
  BY <1>2, MeddlingEffect DEF Disturbs, LockInOrder, On
<1>3. CASE UNCHANGED vars
  BY <1>3 DEF vars, LockInOrder, On
<1>4. QED
  BY <1>1, <1>2, <1>3 DEF Next, DaemonStep, Meddling

\* Each process has a key in hand from the step that read or made it to its end, and the key that
\* sealed the database is the one in the file.
LEMMA NextKey == IInv /\ [Next]_vars => KeyInOrder'
<1> SUFFICES ASSUME IInv, [Next]_vars PROVE KeyInOrder'
  OBVIOUS
<1> USE DEF IInv, KeyOpensDatabase, At
<1>0. NoKey \notin Proc /\ Partial \notin Proc /\ Plain \notin Proc /\ NoKey # Partial
  BY BootstrapAssumption
<1>1. ASSUME NEW p \in Proc, DaemonStep(p) PROVE KeyInOrder'
  <2>1. CASE Runs(p)
    <3>1. proc[p].key # NoKey
      BY <2>1 DEF Runs, KeyInOrder, Lockless
    <3>2. proc'[p].pc \notin Keyless /\ proc'[p].pc # "writeKey" /\ proc'[p].key = proc[p].key
      BY <2>1 DEF Runs, Lockless, Keyless
    <3>3. \A q \in Proc : (proc'[q].key = NoKey) = (proc'[q].pc \in Keyless)
      BY <2>1, <3>1, <3>2 DEF Runs, KeyInOrder, Others
    <3>4. ~raced /\ db'.sealed # Plain => keyFile = db'.sealed
      BY <2>1, <3>1 DEF Runs, KeyInOrder
    <3>5. QED
      BY <2>1, <3>2, <3>3, <3>4 DEF Runs, KeyInOrder, Others
  <2>2. CASE Dies(p)
    <3>1. Others(p) /\ proc'[p] = OffProc
      BY <2>2, EndsEffect DEF Dies
    <3>2. QED
      BY <2>2, <3>1, OffProcIs DEF Dies, KeyInOrder, Others, Keyless
  <2>3. CASE Launch(p)
    <3>1. Others(p) /\ proc'[p].pc = "readKey" /\ proc'[p].key = proc[p].key
      BY <2>3, GotoEffect DEF Launch, PCs, KeyStays
    <3>2. QED
      BY <2>3, <3>1 DEF Launch, KeyInOrder, Others, Keyless, fileVars, auxVars
  <2>4. CASE ReadKey(p)
    <3>1. CASE Goto(p, "createKey")
      <4>1. Others(p) /\ proc'[p].pc = "createKey" /\ proc'[p].key = proc[p].key
        BY <3>1, GotoEffect DEF PCs, KeyStays
      <4>2. QED
        BY <2>4, <4>1 DEF ReadKey, KeyInOrder, Others, Keyless
    <3>2. CASE keyFile \in Proc /\ proc' = [proc EXCEPT ![p].pc = "open", ![p].key = keyFile]
      <4>1. Others(p) /\ proc'[p].pc = "open" /\ proc'[p].key = keyFile
        BY <3>2, OpenEffect
      <4>2. QED
        <5>1. \A q \in Proc : (proc'[q].key = NoKey) = (proc'[q].pc \in Keyless)
          <6>1. proc'[p].key # NoKey /\ proc'[p].pc \notin Keyless
            BY <1>0, <3>2, <4>1 DEF Keyless
          <6>2. QED
            BY <4>1, <6>1 DEF KeyInOrder, Others
        <5>2. UNCHANGED <<keyFile, db, raced>>
          BY <2>4 DEF ReadKey
        <5>3. QED
          BY <4>1, <5>1, <5>2 DEF KeyInOrder, Others
    <3>3. QED
      BY <2>2, <2>4, <3>1, <3>2 DEF ReadKey, Dies
  <2>5. CASE CreateKey(p)
    <3>1. Others(p) /\ proc'[p].pc = "writeKey" /\ proc'[p].key = proc[p].key
      BY <2>5, GotoEffect DEF CreateKey, PCs, KeyStays
    <3>2. proc'[p].key = NoKey
      BY <2>5, <3>1 DEF CreateKey, KeyInOrder, Keyless
    <3>3. ~raced' => ~raced /\ keyFile = NoKey
      BY <2>5 DEF CreateKey
    <3>4. ~raced' => \A q \in Proc \ {p} : proc[q].pc # "writeKey" /\ proc[q].key = NoKey
      BY <1>0, <3>3 DEF KeyInOrder, Types, Process
    <3>5. ~raced' => db.sealed = Plain
      BY <1>0, <3>3 DEF KeyInOrder, Types, State
    <3>6. QED
      BY <2>5, <3>1, <3>2, <3>4, <3>5 DEF CreateKey, KeyInOrder, Others, Keyless
  <2>6. CASE WriteKey(p)
    <3>1. CASE keyFile' = p /\ proc' = [proc EXCEPT ![p].pc = "open", ![p].key = p]
      <4>1. Others(p) /\ proc'[p].pc = "open" /\ proc'[p].key = p
        BY <3>1, OpenEffect
      <4>2. ~raced => keyFile = Partial
        BY <2>6 DEF WriteKey, KeyInOrder
      <4>3. ~raced => \A q \in Proc \ {p} : proc[q].pc # "writeKey" /\ proc[q].key = NoKey
        BY <1>0, <2>6, <4>2 DEF WriteKey, KeyInOrder, Types, Process
      <4>4. ~raced => db.sealed = Plain
        BY <1>0, <4>2 DEF KeyInOrder, Types, State
      <4>5. QED
        <5>1. \A q \in Proc : (proc'[q].key = NoKey) = (proc'[q].pc \in Keyless)
          BY <1>0, <4>1 DEF KeyInOrder, Others, Keyless
        <5>2. UNCHANGED <<db, raced>>
          BY <2>6 DEF WriteKey
        <5>3. QED
          <6>1. ~raced => \A q \in Proc : proc'[q].key # NoKey => q = p
            BY <4>1, <4>3 DEF Others
          <6>2. ~raced => \A q \in Proc : proc'[q].pc # "writeKey"
            BY <4>1, <4>3 DEF Others
          <6>3. QED
            BY <3>1, <4>1, <4>4, <5>1, <5>2, <6>1, <6>2 DEF KeyInOrder
    <3>2. QED
      BY <2>2, <2>6, <3>1 DEF WriteKey, Dies
  <2>7. CASE Open(p)
    <3>1. CASE Goto(p, "network")
      <4>1. Others(p) /\ proc'[p].pc = "network" /\ proc'[p].key = proc[p].key
        BY <3>1, GotoEffect DEF PCs, KeyStays
      <4>2. QED
        BY <2>7, <4>1 DEF Open, KeyInOrder, Others, Keyless
    <3>2. QED
      BY <2>2, <2>7, <3>1 DEF Open, Dies
  <2>8. QED
    BY <1>1, <2>1, <2>2, <2>3, <2>4, <2>5, <2>6, <2>7, DaemonStepIs
<1>2. CASE Meddling
  <2>1. /\ \A p \in Proc : proc'[p].pc = proc[p].pc /\ proc'[p].key = proc[p].key
        /\ UNCHANGED <<keyFile, raced>> /\ (db' = db \/ db' = NoState)
    BY <1>2, MeddlingEffect DEF Disturbs
  <2>2. NoState.sealed = Plain
    BY DEF NoState
  <2>3. QED
    BY <2>1, <2>2 DEF KeyInOrder
<1>3. CASE UNCHANGED vars
  BY <1>3 DEF vars, fileVars, auxVars, KeyInOrder
<1>4. QED
  BY <1>1, <1>2, <1>3 DEF Next, DaemonStep, Meddling

-----------------------------------------------------------------------------
(* The database and the containers. *)

\* Who is beyond the lock is alone there.
LEMMA AloneBehindLock ==
  ASSUME IInv, NEW p \in Proc, proc[p].pc \notin Lockless
  PROVE  lock = p /\ \A q \in Proc \ {p} : proc[q].pc \in Lockless
BY BootstrapAssumption DEF IInv, LockInOrder

\* A process that goes on with the database as it is.
LEMMA StateStaysInOrder ==
  ASSUME IInv, NEW p \in Proc, UNCHANGED <<db, minted>>, Others(p),
         proc'[p].pc \in Unconfigured \/ (proc[p].pc \notin Unconfigured /\ StateStays(p))
  PROVE  StateInOrder'
BY DEF IInv, StateInOrder, Others, StateStays

\* A process that has read its configuration holds what the database holds.
LEMMA NextState == IInv /\ [Next]_vars => StateInOrder'
<1> SUFFICES ASSUME IInv, [Next]_vars PROVE StateInOrder'
  OBVIOUS
<1> USE DEF IInv, fileVars, boundVars
<1>1. ASSUME NEW p \in Proc, DaemonStep(p) PROVE StateInOrder'
  <2>1. CASE Dies(p) /\ UNCHANGED minted
    <3>1. Others(p) /\ proc'[p].pc = "off"
      BY <2>1, EndsEffect, OffProcIs DEF Dies
    <3>2. QED
      BY <2>1, <3>1, StateStaysInOrder DEF Dies, Unconfigured, Lockless, Keyless
  <2>2. ASSUME NEW pc \in PCs, Goto(p, pc), UNCHANGED <<db, minted>>,
               pc \in Unconfigured \/ proc[p].pc \notin Unconfigured
        PROVE  StateInOrder'
    BY <2>2, GotoEffect, StateStaysInOrder
  <2>3. CASE Launch(p) \/ CreateKey(p) \/ EnsureNetwork(p) \/ RemoveForeign(p)
    BY <2>1, <2>2, <2>3 DEF Launch, CreateKey, EnsureNetwork, RemoveForeign, Dies, PCs, Unconfigured, Lockless, Keyless
  <2>4. CASE ReadKey(p) \/ WriteKey(p)
    <3>1. CASE Goto(p, "createKey") /\ UNCHANGED <<db, minted>>
      BY <2>2, <3>1 DEF PCs, Unconfigured, Lockless, Keyless
    <3>2. ASSUME NEW key \in Proc, UNCHANGED <<db, minted>>,
                 proc' = [proc EXCEPT ![p].pc = "open", ![p].key = key]
          PROVE  StateInOrder'
      BY <3>2, OpenEffect, StateStaysInOrder DEF Unconfigured, Lockless
    <3>3. QED
      BY <2>1, <2>4, <3>1, <3>2 DEF ReadKey, WriteKey, Dies
  <2>5. CASE Open(p)
    BY <2>1, <2>2, <2>5 DEF Open, Dies, PCs, Unconfigured
  <2>6. CASE EnsureConfig(p)
    <3>1. CASE Readable(p)
      <4>1. PICK s \in State, pc \in {"find", "warn"} :
              /\ UseConfig(p, s, pc) /\ s.mq # 0 /\ s.redis # 0
              /\ (s = db /\ minted' = minted) \/ NewState(p, s, pc)
        BY <2>6, <3>1, EnsureConfigEffect
      <4>2. Others(p) /\ db' = s /\ proc'[p].pc = pc /\ proc'[p].state = s
        BY <4>1, UseConfigEffect DEF PCs
      <4>3. \A q \in Proc \ {p} : proc'[q].pc \in Unconfigured
        BY <2>6, <4>2, AloneBehindLock DEF EnsureConfig, At, Others, Unconfigured, Lockless, Keyless
      <4>4. QED
        BY <4>1, <4>2, <4>3 DEF StateInOrder
    <3>2. CASE ~Readable(p)
      BY <2>1, <2>6, <3>2 DEF EnsureConfig, Dies
    <3>3. QED
      BY <3>1, <3>2
  <2>7. CASE WarnUpgrade(p) \/ Find(p) \/ Start(p) \/ StartNew(p) \/ Pull(p) \/ Create(p)
             \/ WaitForRabbitMQ(p) \/ Connect(p) \/ Signal(p)
    <3>1. PICK pc \in PCs : Goto(p, pc) \/ Ends(p)
      <4>1. {"find", "pull", "conflict", "join", "start", "joinNew", "create", "startNew", "connect",
             "serving", "stopping"} \subseteq PCs
        BY DEF PCs
      <4>2. CASE Find(p)
        BY <4>1, <4>2, OnType DEF Find, Types, Container
      <4>3. CASE WarnUpgrade(p) \/ Pull(p) \/ Signal(p)
        BY <4>1, <4>3 DEF WarnUpgrade, Pull, Signal
      <4>4. CASE Start(p) \/ StartNew(p)
        BY <4>1, <4>4 DEF Start, StartNew, StartContainer
      <4>5. CASE Create(p) \/ WaitForRabbitMQ(p) \/ Connect(p)
        BY <4>1, <4>5 DEF Create, WaitForRabbitMQ, Connect
      <4>6. QED
        BY <2>7, <4>2, <4>3, <4>4, <4>5
    <3>2. proc[p].pc \notin Unconfigured /\ UNCHANGED <<db, minted, keyFile, raced>>
      BY <2>7 DEF WarnUpgrade, Find, Start, StartNew, Pull, Create, WaitForRabbitMQ, Connect,
        Signal, At, Unconfigured, Lockless, Keyless, auxVars
    <3>3. QED
      BY <2>1, <2>2, <3>1, <3>2 DEF Dies
  <2>8. CASE Join(p) \/ JoinNew(p)
    <3>1. PICK u \in SUBSET Service : ServiceDone(p, u) \/ Ends(p)
      BY <2>8, OnType DEF Join, JoinNew, Types, Process
    <3>2. proc[p].pc \notin Unconfigured /\ UNCHANGED <<db, minted, keyFile, raced>>
      BY <2>8 DEF Join, JoinNew, At, Unconfigured, Lockless, Keyless, auxVars
    <3>3. QED
      BY <2>1, <3>1, <3>2, ServiceDoneEffect, StateStaysInOrder DEF Dies
  <2>9. CASE UseCustomName(p)
    <3>1. Others(p) /\ proc'[p].pc = "network" /\ proc[p].pc \notin Lockless
      BY <2>9, GotoEffect DEF UseCustomName, PCs, At, Lockless, Keyless
    <3>2. db'.mq = db.mq /\ db'.redis = db.redis /\ minted' = minted
      BY <2>9 DEF UseCustomName, Types, State
    <3>3. \A q \in Proc : proc'[q].pc \in Unconfigured
      BY <3>1, AloneBehindLock DEF Others, Unconfigured
    <3>4. QED
      BY <3>2, <3>3 DEF StateInOrder
  <2>10. CASE Shutdown(p) \/ CallFails(p) \/ Crash(p) \/ Exit(p)
    BY <2>1, <2>10 DEF Shutdown, CallFails, Crash, Exit, Dies
  <2>11. QED
    BY <1>1, <2>3, <2>4, <2>5, <2>6, <2>7, <2>8, <2>9, <2>10 DEF DaemonStep, Step
<1>2. CASE Meddling
  <2>1. /\ \A p \in Proc : proc'[p].pc = proc[p].pc /\ proc'[p].state = proc[p].state
        /\ minted' = minted
    BY <1>2, MeddlingEffect DEF Disturbs
  <2>2. CASE db' = db
    BY <2>1, <2>2 DEF StateInOrder
  <2>3. CASE lock = Nobody /\ db' = NoState /\ minted < MaxSecrets
    <3>1. \A p \in Proc : proc'[p].pc \in Unconfigured
      BY <2>1, <2>3, BootstrapAssumption DEF LockInOrder, Unconfigured
    <3>2. QED
      BY <2>1, <2>3, <3>1 DEF StateInOrder, NoState
  <2>4. QED
    BY <1>2, <2>2, <2>3, MeddlingEffect
<1>3. CASE UNCHANGED vars
  BY <1>3 DEF vars, StateInOrder
<1>4. QED
  BY <1>1, <1>2, <1>3 DEF Next, DaemonStep, Meddling

\* What a step of a process may do to the Redis container and to what explains it.
RedisKeeps ==
  /\ container'["redis"].owner = "griffino" =>
       container["redis"].owner = "griffino" /\ container'["redis"].secret = container["redis"].secret
  /\ UNCHANGED <<db, told, lost>>

\* A step that leaves the database and the Redis container as they are keeps RedisInOrder.
LEMMA RedisStaysInOrder ==
  ASSUME IInv, NEW p \in Proc, RedisKeeps, Others(p), missed => missed',
         At(p, "warn") => missed' \/ proc'[p].pc = "warn"
  PROVE  RedisInOrder'
BY DEF IInv, RedisInOrder, RedisKeeps, Others, At, MismatchExplained

\* The container a process makes has the password of the database.
LEMMA CreatedIs ==
  ASSUME IInv, NEW p \in Proc, Create(p), CanCreate(p)
  PROVE  /\ Goto(p, "startNew") /\ UNCHANGED <<lock, missed>>
         /\ container' \in [Service -> Container]
         /\ container'[On(p)].owner = "griffino" /\ container'[On(p)].secret = Wanted(p, On(p))
         /\ \A r \in Service \ {On(p)} : container'[r] = container[r]
<1>1. Created(p) \in Container
  BY OnType DEF IInv, Created, Ours, Container
<1>2. Created(p).owner = "griffino" /\ Created(p).secret = Wanted(p, On(p))
  BY DEF Created, Ours
<1>3. container' = [container EXCEPT ![On(p)] = Created(p)] /\ Goto(p, "startNew")
      /\ UNCHANGED <<lock, missed>>
  BY DEF Create
<1>4. QED
  BY <1>1, <1>2, <1>3, OnType DEF IInv, Types

\* A Redis container of Griffino's has the password of the database, or somebody was told.
LEMMA NextRedis == IInv /\ [Next]_vars => RedisInOrder'
<1> SUFFICES ASSUME IInv, [Next]_vars PROVE RedisInOrder'
  OBVIOUS
<1> USE DEF IInv, fileVars, dockerVars, boundVars, auxVars
<1>0. "redis" \in Service
  BY DEF Service
<1>1. ASSUME NEW p \in Proc, DaemonStep(p) PROVE RedisInOrder'
  <2>1. CASE Ends(p) /\ RedisKeeps
    BY <2>1, EndsEffect, RedisStaysInOrder DEF Ends
  <2>2. ASSUME NEW pc \in PCs, Goto(p, pc), RedisKeeps, UNCHANGED missed, ~At(p, "warn")
        PROVE  RedisInOrder'
    BY <2>2, GotoEffect, RedisStaysInOrder
  <2>3. CASE Launch(p) \/ CreateKey(p) \/ Open(p) \/ EnsureNetwork(p) \/ WaitForRabbitMQ(p) \/ Connect(p)
             \/ Pull(p) \/ Signal(p)
    <3>1. (\E pc \in PCs : Goto(p, pc) /\ UNCHANGED missed) \/ Ends(p)
      BY <2>3 DEF Launch, CreateKey, Open, EnsureNetwork, WaitForRabbitMQ, Connect, Pull, Signal, PCs
    <3>2. RedisKeeps /\ ~At(p, "warn")
      BY <2>3 DEF Launch, CreateKey, Open, EnsureNetwork, WaitForRabbitMQ, Connect, Pull, Signal, At, RedisKeeps
    <3>3. QED
      BY <2>1, <2>2, <3>1, <3>2
  <2>4. CASE ReadKey(p) \/ WriteKey(p)
    <3>1. RedisKeeps /\ ~At(p, "warn")
      BY <2>4 DEF ReadKey, WriteKey, At, RedisKeeps
    <3>2. CASE Goto(p, "createKey") /\ UNCHANGED missed
      BY <2>2, <3>1, <3>2 DEF PCs
    <3>3. ASSUME NEW key \in Proc, UNCHANGED missed,
                 proc' = [proc EXCEPT ![p].pc = "open", ![p].key = key]
          PROVE  RedisInOrder'
      BY <3>1, <3>3, OpenEffect, RedisStaysInOrder
    <3>4. QED
      BY <2>1, <2>4, <3>1, <3>2, <3>3 DEF ReadKey, WriteKey
  <2>5. CASE EnsureConfig(p)
    <3>1. CASE Readable(p)
      <4>1. PICK s \in State, pc \in {"find", "warn"} :
              /\ UseConfig(p, s, pc) /\ s.mq # 0
              /\ s = db \/ (pc = "warn" \/ db.mq = 0)
              /\ UNCHANGED <<missed, container, told, lost>>
        BY <2>5, <3>1, EnsureConfigEffect DEF NewState
      <4>2. Others(p) /\ db' = s /\ proc'[p].pc = pc
        BY <4>1, UseConfigEffect DEF PCs
      <4>3. \A q \in Proc : ~At(q, "warn")
        <5>1. lock = p /\ \A q \in Proc \ {p} : proc[q].pc \in Lockless
          BY <2>5, AloneBehindLock DEF EnsureConfig, At, Lockless, Keyless
        <5>2. QED
          BY <2>5, <5>1 DEF EnsureConfig, At, Lockless, Keyless
      <4>4. QED
        BY <4>1, <4>2, <4>3 DEF RedisInOrder, MismatchExplained, At
    <3>2. CASE ~Readable(p)
      BY <2>1, <2>5, <3>2 DEF EnsureConfig, RedisKeeps
    <3>3. QED
      BY <3>1, <3>2
  <2>6. CASE WarnUpgrade(p)
    BY <2>6 DEF WarnUpgrade, RedisInOrder, MismatchExplained
  <2>7. CASE Find(p)
    <3>1. PICK pc \in PCs : Goto(p, pc)
      BY <2>7, OnType DEF Find, Types, Container, PCs
    <3>2. QED
      BY <2>2, <2>7, <3>1 DEF Find, At, RedisKeeps
  <2>8. CASE Start(p) \/ StartNew(p)
    <3>1. RedisKeeps /\ ~At(p, "warn")
      BY <1>0, <2>8, OnType DEF Start, StartNew, StartContainer, At, RedisKeeps, Types, Container
    <3>2. QED
      BY <2>1, <2>2, <2>8, <3>1 DEF Start, StartNew, StartContainer, PCs
  <2>9. CASE Join(p) \/ JoinNew(p)
    <3>1. RedisKeeps /\ ~At(p, "warn")
      BY <1>0, <2>9, OnType DEF Join, JoinNew, At, RedisKeeps, Types, Container
    <3>2. PICK u \in SUBSET Service : (ServiceDone(p, u) /\ UNCHANGED missed) \/ Ends(p)
      BY <2>9, OnType DEF Join, JoinNew, Types, Process
    <3>3. QED
      BY <2>1, <3>1, <3>2, ServiceDoneEffect, RedisStaysInOrder
  <2>10. CASE Create(p)
    <3>1. ~At(p, "warn") /\ UNCHANGED <<db, told, lost>>
      BY <2>10 DEF Create, At
    <3>2. CASE ~CanCreate(p)
      BY <2>1, <2>10, <3>1, <3>2 DEF Create, RedisKeeps
    <3>3. CASE CanCreate(p) /\ On(p) = "redis"
      <4>1. proc[p].state = db /\ db.mq # 0
        BY <2>10 DEF Create, At, StateInOrder, Unconfigured, Lockless, Keyless
      <4>2. container'["redis"].secret = db.redis
        BY <2>10, <3>3, <4>1, CreatedIs DEF Wanted
      <4>3. QED
        BY <3>1, <4>1, <4>2 DEF RedisInOrder
    <3>4. CASE CanCreate(p) /\ On(p) # "redis"
      <4>1. RedisKeeps
        BY <1>0, <2>10, <3>1, <3>4, CreatedIs DEF RedisKeeps
      <4>2. QED
        BY <2>2, <2>10, <3>1, <3>4, <4>1, CreatedIs DEF PCs
    <3>5. QED
      BY <3>2, <3>3, <3>4
  <2>11. CASE RemoveForeign(p)
    <3>1. RedisKeeps /\ ~At(p, "warn")
      BY <1>0, <2>11, OnType DEF RemoveForeign, At, RedisKeeps, Types, Container, NoContainer
    <3>2. QED
      BY <2>1, <2>2, <2>11, <3>1 DEF RemoveForeign, PCs
  <2>12. CASE UseCustomName(p)
    <3>1. Others(p) /\ proc[p].pc # "warn"
      BY <2>12, GotoEffect DEF UseCustomName, PCs, At
    <3>2. db'.mq = db.mq /\ db'.redis = db.redis /\ UNCHANGED <<container, told, lost, missed>>
      BY <2>12 DEF UseCustomName, Types, State
    <3>3. QED
      BY <3>1, <3>2 DEF RedisInOrder, MismatchExplained, At, Others
  <2>13. CASE Shutdown(p)
    <3>1. RedisKeeps
      <4>1. PICK stopped \in SUBSET Service : container' = [r \in Service |->
               IF r \in stopped THEN [container[r] EXCEPT !.up = FALSE] ELSE container[r]]
        BY <2>13 DEF Shutdown
      <4>2. container["redis"] \in Container
        BY <1>0 DEF Types
      <4>3. QED
        BY <1>0, <2>13, <4>1, <4>2 DEF Shutdown, RedisKeeps, Container
    <3>2. QED
      BY <2>1, <2>13, <3>1 DEF Shutdown
  <2>14. CASE CallFails(p) \/ Crash(p) \/ Exit(p)
    BY <2>1, <2>14 DEF CallFails, Crash, Exit, RedisKeeps
  <2>15. QED
    BY <1>1, <2>3, <2>4, <2>5, <2>6, <2>7, <2>8, <2>9, <2>10, <2>11, <2>12, <2>13, <2>14 DEF DaemonStep, Step
<1>2. CASE Meddling
  <2>1. /\ \A p \in Proc : proc'[p].pc = proc[p].pc
        /\ container'["redis"].owner = "griffino" =>
              container["redis"].owner = "griffino" /\ container'["redis"].secret = container["redis"].secret
        /\ UNCHANGED <<missed, told>>
    BY <1>0, <1>2, MeddlingEffect DEF Disturbs
  <2>2. CASE UNCHANGED <<db, lost>>
    BY <2>1, <2>2 DEF RedisInOrder, MismatchExplained, At
  <2>3. CASE lost'
    BY <2>3 DEF RedisInOrder, MismatchExplained
  <2>4. QED
    BY <1>2, <2>2, <2>3, MeddlingEffect
<1>3. CASE UNCHANGED vars
  BY <1>3 DEF vars, RedisInOrder, MismatchExplained, At
<1>4. QED
  BY <1>1, <1>2, <1>3 DEF Next, DaemonStep, Meddling

\* The process without the lock do nothing to the containers.
LEMMA OutsiderDone ==
  ASSUME IInv, NEW p \in Proc, lock # p, Others(p), UNCHANGED <<container, db>>,
         lock' \in {lock, p, Nobody}, lock' = p => proc'[p].pc = "network" /\ proc'[p].at = "rabbitmq"
  PROVE  ContainersInOrder'
<1>1. ASSUME NEW q \in Proc, lock' = q, ~proc'[q].disturbed PROVE HasDone(q)'
  <2>1. CASE q = p
    BY <1>1, <2>1 DEF HasDone, On, AllReady
  <2>2. CASE q # p
    <3>1. lock = q /\ proc'[q] = proc[q]
      BY <1>1, <2>2, BootstrapAssumption DEF Others
    <3>2. HasDone(q)
      BY <1>1, <3>1 DEF IInv, ContainersInOrder
    <3>3. QED
      BY <3>1, <3>2 DEF HasDone, On, IsReady, IsUp, IsOurs
  <2>3. QED
    BY <2>1, <2>2
<1>2. QED
  BY <1>1 DEF ContainersInOrder

\* The one with the lock is the only one to look at.
LEMMA HolderDone ==
  ASSUME IInv, NEW p \in Proc, lock = p, lock' \in {p, Nobody},
         proc'[p].disturbed = proc[p].disturbed,
         HasDone(p) /\ lock' = p => HasDone(p)'
  PROVE  ContainersInOrder'
BY BootstrapAssumption DEF IInv, ContainersInOrder

\* It goes on with the containers as they are.
LEMMA GotoDone ==
  ASSUME IInv, NEW p \in Proc, NEW pc \in PCs, lock = p, Goto(p, pc),
         UNCHANGED <<lock, container>>, db'.mq = db.mq, HasDone(p),
         pc \in {"start", "startNew"} => IsOurs(On(p)),
         pc \in {"join", "joinNew"} => IsUp(On(p)),
         pc \in AllReady => proc[p].pc \in AllReady,
         pc \in {"serving", "stopping"} => container["rabbitmq"].secret = db.mq
  PROVE  HasDone(p)' /\ proc'[p].disturbed = proc[p].disturbed
<1>1. /\ proc'[p].pc = pc /\ proc'[p].at = proc[p].at /\ proc'[p].unjoined = proc[p].unjoined
      /\ proc'[p].disturbed = proc[p].disturbed
  BY GotoEffect DEF IInv, KeyStays, PlaceStays
<1>2. QED
  BY <1>1 DEF HasDone, On, IsReady, IsUp, IsOurs

\* A container that is changed is the one of the service the process is at.
ChangesOnly(p) == \A r \in Service \ {On(p)} : container'[r] = container[r]

\* It goes on with another step at the same service.
LEMMA ChangeDone ==
  ASSUME IInv, NEW p \in Proc, NEW pc \in PCs \ AllReady, lock = p, Goto(p, pc),
         ChangesOnly(p), HasDone(p),
         pc \in {"start", "startNew"} => IsOurs(On(p))',
         pc \in {"join", "joinNew"} => IsUp(On(p))'
  PROVE  HasDone(p)' /\ proc'[p].disturbed = proc[p].disturbed
<1>1. /\ proc'[p].pc = pc /\ proc'[p].at = proc[p].at /\ proc'[p].unjoined = proc[p].unjoined
      /\ proc'[p].disturbed = proc[p].disturbed
  BY GotoEffect DEF IInv, KeyStays, PlaceStays
<1>2. On(p) = "redis" => container'["rabbitmq"] = container["rabbitmq"]
  BY DEF ChangesOnly, Service
<1>3. QED
  BY <1>1, <1>2 DEF HasDone, On, IsReady, IsUp, IsOurs, AllReady

\* It is through with a service.
LEMMA ServiceDoneDone ==
  ASSUME IInv, NEW p \in Proc, NEW u \in SUBSET Service, lock = p, ServiceDone(p, u),
         ChangesOnly(p), HasDone(p), container'[On(p)].owner = "griffino", container'[On(p)].up,
         container'[On(p)].joined \/ On(p) \in u,
         proc[p].unjoined \subseteq u
  PROVE  HasDone(p)' /\ proc'[p].disturbed = proc[p].disturbed
<1>1. /\ proc'[p].pc = NextPc(p) /\ proc'[p].at = "redis" /\ proc'[p].unjoined = u
      /\ proc'[p].disturbed = proc[p].disturbed
  BY ServiceDoneEffect DEF IInv, KeyStays
<1>2. On(p) \in Service
  BY OnType DEF IInv
<1>3. CASE On(p) = "rabbitmq"
  BY <1>1, <1>3 DEF HasDone, On, IsReady, IsUp, IsOurs, AllReady, NextPc, Service
<1>4. CASE On(p) = "redis"
  <2>1. container'["rabbitmq"] = container["rabbitmq"]
    BY <1>4 DEF ChangesOnly, Service
  <2>2. QED
    BY <1>1, <1>4, <2>1 DEF HasDone, On, IsReady, IsUp, IsOurs, AllReady, NextPc
<1>5. QED
  BY <1>2, <1>3, <1>4 DEF Service

\* What the undisturbed process under the lock has done is there: the services before its own are
\* up, and so is its own when it waits for it.
LEMMA NextContainers == IInv /\ [Next]_vars => ContainersInOrder'
<1> SUFFICES ASSUME IInv, [Next]_vars PROVE ContainersInOrder'
  OBVIOUS
<1> USE DEF IInv, fileVars, dockerVars, boundVars, auxVars, At
<1>1. ASSUME NEW p \in Proc, DaemonStep(p) PROVE ContainersInOrder'
  <2>0. /\ proc[p] \in Process /\ On(p) \in Service /\ container[On(p)] \in Container
        /\ (proc[p].pc \in Lockless => lock # p) /\ (proc[p].pc \notin Lockless => lock = p)
    BY OnType DEF Types, LockInOrder
  <2>1. CASE Dies(p) /\ lock = p
    BY <2>1, EndsEffect, BootstrapAssumption DEF Dies, Ends, ContainersInOrder, LockInOrder
  <2>2. CASE Dies(p) /\ lock # p /\ UNCHANGED container
    BY <2>2, EndsEffect, OutsiderDone, BootstrapAssumption DEF Dies, Ends
  <2>3. CASE Launch(p) \/ ReadKey(p) \/ CreateKey(p) \/ WriteKey(p) \/ Open(p)
    <3>1. lock # p /\ UNCHANGED <<container, db>>
      BY <2>0, <2>3 DEF Launch, ReadKey, CreateKey, WriteKey, Open, Lockless, Keyless
    <3>2. CASE Ends(p)
      BY <2>2, <2>3, <3>1, <3>2, EndsEffect, OutsiderDone, BootstrapAssumption DEF Ends
    <3>3. CASE lock' = lock
      <4>1. CASE Launch(p) \/ CreateKey(p)
        BY <3>1, <3>3, <4>1, GotoEffect, OutsiderDone DEF Launch, CreateKey, PCs
      <4>2. CASE Goto(p, "createKey")
        BY <3>1, <3>3, <4>2, GotoEffect, OutsiderDone DEF PCs
      <4>3. ASSUME NEW key \in Proc, proc' = [proc EXCEPT ![p].pc = "open", ![p].key = key]
            PROVE  ContainersInOrder'
        BY <3>1, <3>3, <4>3, OpenEffect, OutsiderDone
      <4>4. CASE Open(p) /\ ~Ends(p)
        BY <3>1, <3>3, <4>4 DEF Open
      <4>5. QED
        BY <2>3, <3>2, <4>1, <4>2, <4>3, <4>4 DEF ReadKey, WriteKey
    <3>4. CASE Goto(p, "network") /\ lock' = p
      BY <2>0, <2>3, <3>1, <3>4, GotoEffect, OutsiderDone DEF PCs, PlaceStays, LockInOrder, On
    <3>5. QED
      BY <2>3, <3>2, <3>3, <3>4 DEF Launch, ReadKey, CreateKey, WriteKey, Open
  <2>4. ASSUME lock = p, lock' = p, proc'[p].disturbed = proc[p].disturbed, HasDone(p) => HasDone(p)'
        PROVE  ContainersInOrder'
    BY <2>4, HolderDone
  <2>5. CASE EnsureNetwork(p) \/ WarnUpgrade(p) \/ Pull(p)
    <3>1. PICK pc \in {"config", "find", "create"} : Goto(p, pc)
      BY <2>5 DEF EnsureNetwork, WarnUpgrade, Pull
    <3>2. lock = p /\ UNCHANGED <<lock, container, db>>
      BY <2>0, <2>5 DEF EnsureNetwork, WarnUpgrade, Pull, Lockless, Keyless
    <3>3. proc'[p].disturbed = proc[p].disturbed
      BY <3>1, GotoEffect DEF PCs, KeyStays
    <3>4. HasDone(p) => HasDone(p)'
      BY <3>1, <3>2, GotoDone DEF PCs, AllReady
    <3>5. QED
      BY <2>4, <3>2, <3>3, <3>4
  <2>6. CASE Find(p)
    <3>1. PICK pc \in {"pull", "conflict", "join", "start"} :
             Goto(p, pc) /\ (pc = "start" => IsOurs(On(p))) /\ (pc = "join" => IsUp(On(p)))
      BY <2>0, <2>6 DEF Find, Container, IsOurs, IsUp
    <3>2. lock = p /\ UNCHANGED <<lock, container, db>>
      BY <2>0, <2>6 DEF Find, Lockless, Keyless
    <3>3. proc'[p].disturbed = proc[p].disturbed
      BY <3>1, GotoEffect DEF PCs, KeyStays
    <3>4. HasDone(p) => HasDone(p)'
      BY <3>1, <3>2, GotoDone DEF PCs, AllReady
    <3>5. QED
      BY <2>4, <3>2, <3>3, <3>4
  <2>7. CASE EnsureConfig(p)
    <3>1. CASE Readable(p)
      <4>1. PICK s \in State, pc \in {"find", "warn"} : UseConfig(p, s, pc) /\ lock' = lock
        BY <2>7, <3>1, EnsureConfigEffect
      <4>2. proc'[p].pc = pc /\ proc'[p].at = "rabbitmq" /\ proc'[p].disturbed = proc[p].disturbed
        BY <4>1, UseConfigEffect DEF PCs, KeyStays
      <4>3. HasDone(p)'
        BY <4>2 DEF HasDone, On, AllReady
      <4>4. lock = p
        BY <2>0, <2>7 DEF EnsureConfig, Lockless, Keyless
      <4>5. QED
        BY <2>4, <4>1, <4>2, <4>3, <4>4
    <3>2. CASE ~Readable(p)
      BY <2>0, <2>1, <2>7, <3>2 DEF EnsureConfig, Dies, Lockless, Keyless
    <3>3. QED
      BY <3>1, <3>2
  <2>8. CASE Start(p) \/ StartNew(p)
    <3>1. lock = p /\ UNCHANGED <<keyFile, db, raced>>
      BY <2>0, <2>8 DEF Start, StartNew, Lockless, Keyless
    <3>2. CASE Ends(p)
      BY <2>1, <3>1, <3>2 DEF Dies
    <3>3. CASE CanStart(p) /\ \E pc \in {"join", "joinNew"} : StartContainer(p, pc)
      <4>1. PICK pc \in {"join", "joinNew"} : Goto(p, pc) \/ Ends(p)
        BY <3>3 DEF StartContainer
      <4>2. ChangesOnly(p) /\ container'[On(p)].owner = "griffino" /\ container'[On(p)].up /\ lock' = lock
        BY <2>0, <3>3 DEF StartContainer, CanStart, ChangesOnly, Types, Container
      <4>3. CASE Goto(p, pc)
        <5>1. proc'[p].disturbed = proc[p].disturbed /\ On(p)' = On(p)
          BY <4>3, GotoEffect DEF PCs, KeyStays, PlaceStays, On
        <5>2. IsUp(On(p))'
          BY <4>2, <5>1 DEF IsUp, IsOurs
        <5>3. HasDone(p) => HasDone(p)'
          BY <3>1, <4>2, <4>3, <5>2, ChangeDone DEF PCs, AllReady
        <5>4. QED
          BY <2>4, <3>1, <4>2, <5>1, <5>3
      <4>4. QED
        BY <3>2, <4>1, <4>3
    <3>4. QED
      BY <2>8, <3>2, <3>3 DEF Start, StartNew, StartContainer
  <2>9. CASE Join(p)
    <3>1. PICK u \in SUBSET Service :
             /\ ServiceDone(p, u) /\ proc[p].unjoined \subseteq u
             /\ \/ container' = [container EXCEPT ![On(p)].joined = @ \/ container[On(p)].owner # "nobody"]
                \/ UNCHANGED container /\ On(p) \in u
      BY <2>0, <2>9 DEF Join, Process
    <3>2. lock = p /\ lock' = lock
      BY <2>0, <2>9 DEF Join, Lockless, Keyless
    <3>3. ChangesOnly(p)
      BY <2>0, <3>1 DEF ChangesOnly, Types
    <3>4. ASSUME HasDone(p) PROVE HasDone(p)'
      <4>1. container[On(p)].owner = "griffino" /\ container[On(p)].up
        BY <2>9, <3>4 DEF Join, HasDone, IsUp, IsOurs
      <4>2. container'[On(p)].owner = "griffino" /\ container'[On(p)].up /\ (container'[On(p)].joined \/ On(p) \in u)
        BY <2>0, <3>1, <4>1 DEF Types, Container
      <4>3. QED
        BY <3>1, <3>2, <3>3, <3>4, <4>2, ServiceDoneDone
    <3>5. proc'[p].disturbed = proc[p].disturbed
      BY <3>1, ServiceDoneEffect DEF KeyStays
    <3>6. QED
      BY <2>4, <3>2, <3>4, <3>5
  <2>10. CASE Create(p)
    <3>1. lock = p /\ UNCHANGED <<keyFile, db, raced>>
      BY <2>0, <2>10 DEF Create, Lockless, Keyless
    <3>2. CASE CanCreate(p)
      <4>1. /\ Goto(p, "startNew") /\ lock' = lock /\ ChangesOnly(p)
            /\ container'[On(p)].owner = "griffino"
        BY <2>10, <3>2, CreatedIs DEF ChangesOnly
      <4>2. proc'[p].disturbed = proc[p].disturbed /\ On(p)' = On(p)
        BY <4>1, GotoEffect DEF PCs, KeyStays, PlaceStays, On
      <4>3. HasDone(p) => HasDone(p)'
        BY <3>1, <4>1, <4>2, ChangeDone DEF PCs, AllReady, IsOurs
      <4>4. QED
        BY <2>4, <3>1, <4>1, <4>2, <4>3
    <3>3. CASE ~CanCreate(p)
      BY <2>1, <2>10, <3>1, <3>3 DEF Create, Dies
    <3>4. QED
      BY <3>2, <3>3
  <2>11. CASE JoinNew(p)
    <3>1. lock = p /\ UNCHANGED <<keyFile, db, raced>>
      BY <2>0, <2>11 DEF JoinNew, Lockless, Keyless
    <3>2. CASE container[On(p)].owner = "griffino"
      <4>1. /\ ServiceDone(p, proc[p].unjoined) /\ lock' = lock
            /\ container' = [container EXCEPT ![On(p)].joined = TRUE]
        BY <2>11, <3>2 DEF JoinNew
      <4>2. ChangesOnly(p) /\ container'[On(p)].owner = "griffino" /\ container'[On(p)].joined
            /\ container'[On(p)].up = container[On(p)].up
        BY <2>0, <3>2, <4>1 DEF ChangesOnly, Types, Container
      <4>3. proc[p].unjoined \in SUBSET Service
        BY <2>0 DEF Process
      <4>4. HasDone(p) => container[On(p)].up
        BY <2>11 DEF JoinNew, HasDone, IsUp
      <4>5. HasDone(p) => HasDone(p)'
        BY <3>1, <4>1, <4>2, <4>3, <4>4, ServiceDoneDone
      <4>6. proc'[p].disturbed = proc[p].disturbed
        BY <4>1, <4>3, ServiceDoneEffect DEF KeyStays
      <4>7. QED
        BY <2>4, <3>1, <4>1, <4>5, <4>6
    <3>3. CASE container[On(p)].owner # "griffino"
      BY <2>1, <2>11, <3>1, <3>3 DEF JoinNew, Dies
    <3>4. QED
      BY <3>2, <3>3
  <2>12. CASE RemoveForeign(p)
    <3>1. lock = p /\ UNCHANGED <<keyFile, db, raced>>
      BY <2>0, <2>12 DEF RemoveForeign, Lockless, Keyless
    <3>2. CASE container[On(p)].owner = "other"
      <4>1. Goto(p, "network") /\ lock' = lock /\ ChangesOnly(p)
        BY <2>0, <2>12, <3>2 DEF RemoveForeign, ChangesOnly, Types
      <4>2. proc'[p].disturbed = proc[p].disturbed
        BY <4>1, GotoEffect DEF PCs, KeyStays
      <4>3. HasDone(p) => HasDone(p)'
        BY <3>1, <4>1, ChangeDone DEF PCs, AllReady
      <4>4. QED
        BY <2>4, <3>1, <4>1, <4>2, <4>3
    <3>3. CASE container[On(p)].owner # "other"
      BY <2>1, <2>12, <3>1, <3>3 DEF RemoveForeign, Dies
    <3>4. QED
      BY <3>2, <3>3
  <2>13. CASE UseCustomName(p)
    <3>1. lock = p /\ Goto(p, "network") /\ UNCHANGED <<lock, container>> /\ db'.mq = db.mq
      BY <2>0, <2>13 DEF UseCustomName, Lockless, Keyless, Types, State
    <3>2. proc'[p].disturbed = proc[p].disturbed
      BY <3>1, GotoEffect DEF PCs, KeyStays
    <3>3. HasDone(p) => HasDone(p)'
      BY <3>1, GotoDone DEF PCs, AllReady
    <3>4. QED
      BY <2>4, <3>1, <3>2, <3>3
  <2>14. CASE WaitForRabbitMQ(p) \/ Connect(p) \/ Signal(p)
    <3>1. lock = p /\ UNCHANGED <<keyFile, db, raced, container>> /\ proc[p].pc \in AllReady
      BY <2>0, <2>14 DEF WaitForRabbitMQ, Connect, Signal, Lockless, Keyless, AllReady
    <3>2. CASE Ends(p)
      BY <2>1, <3>1, <3>2 DEF Dies
    <3>3. CASE ~Ends(p)
      <4>1. PICK pc \in {"connect", "serving", "stopping"} :
               Goto(p, pc) /\ lock' = lock /\ (pc = "serving" => Answers(p))
               /\ (pc = "stopping" => proc[p].pc = "serving")
        BY <2>14, <3>3 DEF WaitForRabbitMQ, Connect, Signal
      <4>2. proc[p].state.mq = db.mq
        BY <3>1 DEF StateInOrder, AllReady, Unconfigured, Lockless, Keyless
      <4>3. pc = "serving" => container["rabbitmq"].secret = db.mq
        BY <4>1, <4>2 DEF Answers, Wanted
      <4>4. HasDone(p) => HasDone(p)'
        <5>1. HasDone(p) /\ pc = "stopping" => container["rabbitmq"].secret = db.mq
          BY <4>1 DEF HasDone
        <5>2. QED
          BY <3>1, <4>1, <4>3, <5>1, GotoDone DEF PCs
      <4>5. proc'[p].disturbed = proc[p].disturbed
        BY <4>1, GotoEffect DEF PCs, KeyStays
      <4>6. QED
        BY <2>4, <3>1, <4>1, <4>4, <4>5
    <3>4. QED
      BY <3>2, <3>3
  <2>15. CASE Shutdown(p)
    BY <2>0, <2>1, <2>15 DEF Shutdown, Dies, Lockless, Keyless
  <2>16. CASE CallFails(p) \/ Crash(p) \/ Exit(p)
    BY <2>1, <2>2, <2>16 DEF CallFails, Crash, Exit, Dies
  <2>17. QED
    BY <1>1, <2>3, <2>5, <2>6, <2>7, <2>8, <2>9, <2>10, <2>11, <2>12, <2>13, <2>14, <2>15, <2>16
    DEF DaemonStep, Step
<1>2. CASE Meddling
  BY <1>2, MeddlingEffect DEF Disturbs, ContainersInOrder
<1>3. CASE UNCHANGED vars
  BY <1>3 DEF vars, ContainersInOrder, HasDone, On, IsReady, IsUp, IsOurs
<1>4. QED
  BY <1>1, <1>2, <1>3 DEF Next, DaemonStep, Meddling

-----------------------------------------------------------------------------
(* The theorems. *)

\* A new installation, one another program's containers are in, and one of a release without Redis.
LEMMA InitIInv == Init => IInv
<1> SUFFICES ASSUME Init PROVE IInv
  OBVIOUS
<1>0. /\ Nobody \notin Proc /\ MaxSecrets \in Nat /\ MaxSecrets >= 2
      /\ NoContainer \in Container /\ Foreign(TRUE) \in Container
      /\ \A up \in BOOLEAN : Ours(up, 0) \in Container /\ Ours(up, 1) \in Container
  <2>1. Nobody \notin Proc /\ MaxSecrets \in Nat /\ MaxSecrets >= 2
    BY BootstrapAssumption
  <2>2. 0 \in Secret /\ 1 \in Secret
    BY <2>1 DEF Secret
  <2>3. NoContainer \in Container
    BY <2>2 DEF NoContainer, Container
  <2>4. Foreign(TRUE) \in Container
    BY <2>3 DEF Foreign, Container
  <2>5. \A up \in BOOLEAN : Ours(up, 0) \in Container /\ Ours(up, 1) \in Container
    BY <2>2 DEF Ours, Container
  <2>6. QED
    BY <2>1, <2>3, <2>4, <2>5
<1>1. proc = [p \in Proc |-> OffProc] /\ lock = Nobody /\ keyFile = NoKey
  BY DEF Init
<1>2. proc \in [Proc -> Process] /\ \A p \in Proc : proc[p].pc = "off" /\ proc[p].key = NoKey /\ On(p) = "rabbitmq"
  BY <1>1, StartTypes, OffProcIs DEF On
<1>3. /\ db \in State /\ db.sealed = Plain /\ minted \in Secret
      /\ (db.mq = 0 => db.redis = 0) /\ (db.redis = 0 => minted < MaxSecrets)
      /\ network \in BOOLEAN /\ image \subseteq Service
      /\ container \in [Service -> Container]
      /\ (db.mq = 0 => container["redis"].owner # "griffino")
      /\ (container["redis"].owner = "griffino" => container["redis"].secret = db.redis)
  <2>1. NoState \in State /\ NoState.sealed = Plain /\ NoState.mq = 0 /\ NoState.redis = 0
    BY StartTypes DEF NoState
  <2>2. CASE db = NoState /\ minted = 0 /\ network = FALSE /\ image = {} /\ \E theirs \in SUBSET Service :
                container = [r \in Service |-> IF r \in theirs THEN Foreign(TRUE) ELSE NoContainer]
    <3>1. container \in [Service -> Container]
      BY <1>0, <2>2
    <3>2. container["redis"].owner # "griffino"
      BY <2>2 DEF Service, Foreign, NoContainer
    <3>3. minted = 0 /\ network = FALSE /\ image = {} /\ db = NoState
      BY <2>2
    <3>4. minted \in Secret /\ minted < MaxSecrets
      BY <1>0, <3>3 DEF Secret
    <3>5. QED
      BY <2>1, <3>1, <3>2, <3>3, <3>4
  <2>3. CASE db = [NoState EXCEPT !.mq = 1] /\ minted = 1 /\ network = TRUE /\ image = Service /\ \E up \in BOOLEAN :
                container = [r \in Service |-> Ours(up, IF r = "rabbitmq" THEN 1 ELSE 0)]
    <3>1. container \in [Service -> Container]
      BY <1>0, <2>3
    <3>2. container["redis"].secret = 0
      BY <2>3 DEF Service, Ours
    <3>3. db.mq = 1 /\ db.redis = 0 /\ db.sealed = Plain /\ db \in State
      BY <1>0, <2>1, <2>3 DEF State, Secret
    <3>4. QED
      BY <1>0, <2>3, <3>1, <3>2, <3>3 DEF Secret
  <2>4. QED
    BY <2>2, <2>3 DEF Init
<1>4. Types
  BY <1>1, <1>2, <1>3 DEF Init, Types
<1>5. LockInOrder /\ KeyInOrder /\ ContainersInOrder
  BY <1>0, <1>1, <1>2, <1>3 DEF LockInOrder, KeyInOrder, ContainersInOrder, KeyOpensDatabase, Lockless, Keyless, At
<1>6. StateInOrder /\ RedisInOrder
  BY <1>2, <1>3 DEF StateInOrder, RedisInOrder, Unconfigured, Lockless, Keyless
<1>7. QED
  BY <1>4, <1>5, <1>6 DEF IInv

\* The inductive invariant holds.
LEMMA Invariance == Spec => []IInv
<1>1. IInv /\ [Next]_vars => IInv'
  BY NextTypes, NextLock, NextKey, NextState, NextRedis, NextContainers DEF IInv
<1>2. QED
  BY <1>1, InitIInv, PTL DEF Spec

\* Files, containers and processes are of their types, and nobody gets beyond bolt.Open
\* without the lock.
THEOREM TypeCorrect == Spec => []TypeOK
<1>1. IInv => TypeOK
  BY DEF IInv, Types, LockInOrder, TypeOK, State, Process, Container, Lockless, Keyless, On
<1>2. QED
  BY <1>1, Invariance, PTL

\* Unless two processes created the key file at once, what the database holds is sealed with
\* the key in the file, wherever a process died (LoadOrCreateKey, store.New).
THEOREM KeyIsKept == Spec => []KeyOpensDatabase
<1>1. IInv => KeyOpensDatabase
  BY DEF IInv, KeyInOrder
<1>2. QED
  BY <1>1, Invariance, PTL

\* A daemon that serves, undisturbed, has both containers up as its own, with its passwords
\* (Manager.Bootstrap, waitForRabbitMQ).
THEOREM ServesOwnContainers == Spec => []ServesItsOwn
<1>1. IInv => ServesItsOwn
  <2> SUFFICES ASSUME IInv, NEW p \in Proc, Serving(p), ~proc[p].disturbed
               PROVE  /\ container["rabbitmq"].secret = db.mq
                      /\ container["redis"].secret = db.redis \/ MismatchExplained
                      /\ \A r \in Service :
                            /\ container[r].owner = "griffino" /\ container[r].up
                            /\ container[r].joined \/ r \in proc[p].unjoined
    BY DEF ServesItsOwn
  <2>1. lock = p /\ \A q \in Proc : ~At(q, "warn")
    <3>1. proc[p].pc \notin Lockless
      BY DEF Serving, At, Lockless, Keyless
    <3>2. lock = p /\ \A q \in Proc \ {p} : proc[q].pc \in Lockless
      BY <3>1, AloneBehindLock
    <3>3. QED
      BY <3>2 DEF Serving, At, Lockless, Keyless
  <2>2. HasDone(p)
    BY <2>1 DEF IInv, ContainersInOrder
  <2>3. IsReady(p, "rabbitmq") /\ IsReady(p, "redis") /\ container["rabbitmq"].secret = db.mq
    BY <2>2 DEF HasDone, Serving, At, AllReady
  <2>4. container["redis"].secret = db.redis \/ MismatchExplained
    BY <2>1, <2>3 DEF IInv, RedisInOrder, IsReady, IsUp, IsOurs
  <2>5. QED
    BY <2>3, <2>4 DEF IsReady, IsUp, IsOurs, Service
<1>2. QED
  BY <1>1, Invariance, PTL

\* One step of ForeignIsLeftAlone.
ForeignStep ==
  \A r \in Service : container[r].owner = "other" /\ container'[r] # container[r] =>
     \/ meddled' > meddled
     \/ \E p \in Proc : At(p, "conflict") /\ On(p) = r
     \/ \E p \in Proc : proc[p].disturbed /\ container'[r].owner = "other"

\* Another program's container is only removed by the operator's choice, and only touched by a
\* daemon whose own it took the place of (resolveContainerConflict, Shutdown).
THEOREM ForeignLeftAlone == Spec => ForeignIsLeftAlone
<1>1. IInv /\ [Next]_vars => ForeignStep
  <2> SUFFICES ASSUME IInv, [Next]_vars, NEW r \in Service,
                      container[r].owner = "other", container'[r] # container[r]
               PROVE  \/ meddled' > meddled
                      \/ \E p \in Proc : At(p, "conflict") /\ On(p) = r
                      \/ \E p \in Proc : proc[p].disturbed /\ container'[r].owner = "other"
    BY DEF ForeignStep
  <2> USE DEF fileVars, dockerVars, boundVars, auxVars, At
  <2>1. ASSUME NEW p \in Proc, DaemonStep(p)
        PROVE  \/ At(p, "conflict") /\ On(p) = r
               \/ proc[p].disturbed /\ container'[r].owner = "other"
    <3>0. container[r] \in Container /\ container \in [Service -> Container] /\ On(p) \in Service
      BY OnType DEF IInv, Types
    <3>1. CASE Join(p)
      <4>1. On(p) = r
        BY <3>0, <3>1 DEF Join
      <4>2. lock = p
        BY <3>1 DEF Join, IInv, LockInOrder, Lockless, Keyless
      <4>3. proc[p].disturbed
        BY <3>1, <4>1, <4>2 DEF Join, IInv, ContainersInOrder, HasDone, IsUp, IsOurs
      <4>4. container'[r].owner = "other"
        BY <3>0, <3>1, <4>1 DEF Join, Container
      <4>5. QED
        BY <4>3, <4>4
    <3>2. CASE Shutdown(p)
      <4>1. lock = p
        BY <3>2 DEF Shutdown, IInv, LockInOrder, Lockless, Keyless
      <4>2. ~proc[p].disturbed => container["rabbitmq"].owner = "griffino" /\ container["redis"].owner = "griffino"
        BY <3>2, <4>1 DEF Shutdown, IInv, ContainersInOrder, HasDone, AllReady, IsReady, IsUp, IsOurs
      <4>3. proc[p].disturbed
        BY <4>2 DEF Service
      <4>4. container'[r].owner = "other"
        <5>1. PICK stopped \in SUBSET Service : container' = [s \in Service |->
                 IF s \in stopped THEN [container[s] EXCEPT !.up = FALSE] ELSE container[s]]
          BY <3>2 DEF Shutdown
        <5>2. QED
          BY <3>0, <5>1 DEF Container
      <4>5. QED
        BY <4>3, <4>4
    <3>3. CASE RemoveForeign(p)
      BY <3>0, <3>3 DEF RemoveForeign
    <3>4. CASE Start(p) \/ StartNew(p)
      BY <3>0, <3>4 DEF Start, StartNew, StartContainer, CanStart
    <3>5. CASE Create(p) \/ JoinNew(p)
      BY <3>0, <3>5 DEF Create, CanCreate, JoinNew
    <3>6. CASE EnsureConfig(p)
      BY <3>6 DEF EnsureConfig
    <3>7. CASE Launch(p) \/ ReadKey(p) \/ CreateKey(p) \/ WriteKey(p) \/ Open(p) \/ EnsureNetwork(p)
               \/ WarnUpgrade(p) \/ Find(p) \/ Pull(p) \/ WaitForRabbitMQ(p) \/ Connect(p) \/ Signal(p)
               \/ CallFails(p) \/ Crash(p) \/ Exit(p) \/ UseCustomName(p)
      BY <3>7 DEF Launch, ReadKey, CreateKey, WriteKey, Open, EnsureNetwork, WarnUpgrade, Find, Pull,
        WaitForRabbitMQ, Connect, Signal, CallFails, Crash, Exit, UseCustomName
    <3>8. QED
      BY <2>1, <3>1, <3>2, <3>3, <3>4, <3>5, <3>6, <3>7 DEF DaemonStep, Step
  <2>2. CASE Meddling
    <3>1. meddled' = meddled + 1 /\ meddled \in Nat
      BY <2>2, MeddlingEffect DEF IInv, Disturbs, Types
    <3>2. QED
      BY <3>1
  <2>3. CASE UNCHANGED vars
    BY <2>3 DEF vars
  <2>4. QED
    BY <2>1, <2>2, <2>3 DEF Next, DaemonStep, Meddling
<1>2. QED
  BY <1>1, Invariance, PTL DEF Spec, ForeignIsLeftAlone, ForeignStep
=============================================================================

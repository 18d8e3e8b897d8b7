------------------------- MODULE TaskSchedulerProofs -------------------------
(***************************************************************************)
(* Theorems about TaskScheduler, for every Blueprint, every number of      *)
(* handlers and every bound on the faults.                                 *)
(***************************************************************************)
EXTENDS TaskScheduler, TLAPS, SequenceTheorems, FiniteSetTheorems, WellFoundedInduction

USE DEF Worker, Terminal

-----------------------------------------------------------------------------
(* Type correctness. *)

WorkType ==
  /\ pc \in [Worker -> Stages]
  /\ cur \in [Worker -> Branch]
  /\ todo \in [Worker -> Seq(Branch)]
  /\ msg \in [Worker -> Result]

\* The constants that stand for "nothing at hand" are well typed.
LEMMA NothingTypes ==
  /\ NoBranch \in Branch
  /\ FirstBranch \in Branch
  /\ NoMsg \in Result
BY BlueprintAssumption DEF NoBranch, FirstBranch, NoMsg, Branch, Result

\* Moving a worker to another stage keeps the workers' types.
LEMMA GotoType ==
  ASSUME WorkType, NEW w \in Worker, NEW stage \in Stages, Goto(w, stage)
  PROVE  WorkType'
BY DEF WorkType, Goto

\* Going on with a sequence of branches keeps the workers' types.
LEMMA ResumeType ==
  ASSUME WorkType, NEW w \in Worker, NEW rest \in Seq(Branch), Resume(w, rest)
  PROVE  WorkType'
<1>1. CASE rest = <<>>
  <2>1. <<>> \in Seq(Branch)
    BY EmptySeq
  <2>2. "idle" \in Stages
    BY DEF Stages
  <2>3. QED
    BY <1>1, <2>1, <2>2, NothingTypes DEF WorkType, Resume
<1>2. CASE rest # <<>>
  <2>1. Head(rest) \in Branch /\ Tail(rest) \in Seq(Branch)
    BY <1>2, HeadTailProperties
  <2>2. "exec" \in Stages
    BY DEF Stages
  <2>3. QED
    BY <1>2, <2>1, <2>2 DEF WorkType, Resume
<1>3. QED
  BY <1>1, <1>2

\* The branch at hand, moved to another node, in front of the siblings.
LEMMA BranchToType ==
  ASSUME WorkType, NEW w \in Worker, NEW n \in Node
  PROVE  <<BranchTo(w, n)>> \o todo[w] \in Seq(Branch)
<1>1. cur[w] \in Branch /\ todo[w] \in Seq(Branch)
  BY DEF WorkType
<1>2. BranchTo(w, n) \in Branch
  BY <1>1 DEF BranchTo, At, Branch
<1>3. <<BranchTo(w, n)>> \in Seq(Branch)
  BY <1>2
<1>4. QED
  BY <1>1, <1>3, ConcatProperties

\* Following one successor of an IF or LOOP keeps the workers' types.
LEMMA TakeSuccessorType ==
  ASSUME WorkType, NEW w \in Worker, NEW n \in Node, NEW i \in Nat,
         TakeSuccessor(w, n, i)
  PROVE  WorkType'
<1>1. CASE NextNodes[n][i] = Exit
  BY <1>1, GotoType DEF TakeSuccessor, Stages
<1>2. CASE NextNodes[n][i] # Exit /\ NextNodes[n][i] \notin Node
  BY <1>2, GotoType DEF TakeSuccessor, Stages
<1>3. CASE NextNodes[n][i] # Exit /\ NextNodes[n][i] \in Node
  <2>1. Resume(w, <<BranchTo(w, NextNodes[n][i])>> \o todo[w])
    BY <1>3 DEF TakeSuccessor
  <2>2. QED
    BY <2>1, <1>3, BranchToType, ResumeType
<1>4. QED
  BY <1>1, <1>2, <1>3

\* A fork's branches, in front of the siblings.
LEMMA ForkType ==
  ASSUME WorkType, NEW w \in Worker, minted \in Nat,
         NextNodes[At(w)] # <<>>, Resolves(At(w))
  PROVE  [i \in 1..Len(NextNodes[At(w)]) |->
            [id  |-> IF i = 1 THEN cur[w].id ELSE minted + i - 1,
             src |-> At(w), dst |-> NextNodes[At(w)][i]]] \o todo[w] \in Seq(Branch)
<1> DEFINE succ == NextNodes[At(w)]
           fork == [i \in 1..Len(succ) |->
                     [id  |-> IF i = 1 THEN cur[w].id ELSE minted + i - 1,
                      src |-> At(w), dst |-> succ[i]]]
<1>1. At(w) \in Node /\ cur[w].id \in Nat
  BY DEF WorkType, Branch, At
<1>2. succ \in Seq(NodeIds)
  BY <1>1, BlueprintAssumption
<1>3. Len(succ) \in Nat /\ DOMAIN succ = 1..Len(succ)
  BY <1>2
<1>4. \A i \in 1..Len(succ) : fork[i] \in Branch
  BY <1>1, <1>3 DEF Branch, Resolves
<1>5. fork \in Seq(Branch)
  <2> HIDE DEF fork
  <2>1. fork \in [1..Len(succ) -> Branch]
    BY <1>4 DEF fork
  <2>2. QED
    BY <2>1, <1>3, IsASeq
<1>6. todo[w] \in Seq(Branch)
  BY DEF WorkType
<1>7. QED
  BY <1>5, <1>6, ConcatProperties

\* The variables of TypeOK that are not the workers' own.
RestType ==
  /\ status \in {"none", "running"} \union Terminal
  /\ activeBranches \in Int
  /\ activeNodes \subseteq Node
  /\ joinState \in [Node -> Nat]
  /\ loopState \in [Node -> Nat]
  /\ requests \subseteq Request
  /\ results \subseteq Result
  /\ callbacks \in Seq(Terminal)
  /\ channelUp \in BOOLEAN
  /\ minted \in Nat
  /\ joined \in [Node -> SUBSET Node]
  /\ storeErrors \in 0..MaxStoreErrors
  /\ redeliveries \in 0..MaxRedeliveries
  /\ crashes \in 0..MaxCrashes

\* The two halves are the type invariant.
LEMMA TypeSplit == TypeOK <=> WorkType /\ RestType
BY DEF TypeOK, WorkType, RestType

\* The initial state is well typed.
LEMMA InitType == Init => TypeOK
<1>1. <<>> \in Seq(Branch) /\ <<>> \in Seq(Terminal)
  BY EmptySeq
<1>2. "idle" \in Stages
  BY DEF Stages
<1>3. QED
  BY <1>1, <1>2, NothingTypes, EnvironmentAssumption DEF Init, TypeOK

\* Each step of a busy handler is well typed.
LEMMA HandlerStepType ==
  ASSUME TypeOK, NEW h \in Handler, HandlerStep(h)
  PROVE  TypeOK'
<1> USE DEF task, broker, ghosts, faults
<1>0. /\ WorkType /\ RestType
      /\ At(h) \in Node
      /\ cur[h] \in Branch
      /\ todo[h] \in Seq(Branch)
      /\ NextNodes[At(h)] \in Seq(NodeIds)
      /\ h \in Worker
  BY TypeSplit, BlueprintAssumption DEF WorkType, At, Branch
<1>1. CASE RemoveActiveNode(h)
  <2>1. PICK stage \in {"fanout", "fail"} : Goto(h, stage)
    BY <1>1 DEF RemoveActiveNode
  <2>2. WorkType'
    BY <1>0, <2>1, GotoType DEF Stages
  <2>3. RestType'
    BY <1>0, <1>1 DEF RemoveActiveNode, RestType, ReleaseNode
  <2>4. QED
    BY <2>2, <2>3, TypeSplit DEF TypeOK, WorkType, RestType
<1>2. CASE EndBranch(h)
  <2>1. WorkType'
    BY <1>0, <1>2, GotoType, ResumeType DEF EndBranch, Stages
  <2>2. RestType'
    BY <1>0, <1>2 DEF EndBranch, RestType
  <2>3. QED
    BY <2>1, <2>2 DEF TypeOK, WorkType, RestType
<1>3. CASE NextNodeNotFound(h)
  <2>1. WorkType'
    BY <1>0, <1>3, GotoType DEF NextNodeNotFound, Stages
  <2>2. RestType'
    BY <1>0, <1>3 DEF NextNodeNotFound, RestType
  <2>3. QED
    BY <2>1, <2>2 DEF TypeOK, WorkType, RestType
<1>4. CASE ForkBranches(h)
  <2>1. minted \in Nat
    BY <1>0 DEF RestType
  <2>2. WorkType'
    BY <1>0, <1>4, <2>1, ForkType, ResumeType DEF ForkBranches
  <2>3. Len(NextNodes[At(h)]) \in Nat \ {0}
    BY <1>0, <1>4, EmptySeq DEF ForkBranches
  <2>4. RestType'
    BY <1>0, <1>4, <2>3 DEF ForkBranches, RestType, BranchesAfterFork
  <2>5. QED
    BY <2>2, <2>4 DEF TypeOK, WorkType, RestType
<1>5. CASE ExecutePluginNode(h)
  <2>1. WorkType'
    BY <1>0, <1>5, GotoType DEF ExecutePluginNode, Stages
  <2>2. RestType'
    BY <1>0, <1>5, EnvironmentAssumption DEF ExecutePluginNode, RestType, RegisterNode
  <2>3. QED
    BY <2>1, <2>2 DEF TypeOK, WorkType, RestType
<1>6. CASE Publish(h)
  <2>1. WorkType'
    BY <1>0, <1>6, GotoType, ResumeType DEF Publish, Stages
  <2>2. [id |-> cur[h].id, node |-> At(h)] \in Request
    BY <1>0 DEF Branch, Request
  <2>3. RestType'
    BY <1>0, <1>6, <2>2 DEF Publish, RestType
  <2>4. QED
    BY <2>1, <2>3 DEF TypeOK, WorkType, RestType
<1>7. CASE ExecuteDataNode(h)
  <2>1. PICK stage \in {"fanout", "fail"} : Goto(h, stage)
    BY <1>7 DEF ExecuteDataNode
  <2>2. WorkType'
    BY <1>0, <2>1, GotoType DEF Stages
  <2>3. RestType'
    BY <1>0, <1>7 DEF ExecuteDataNode, RestType
  <2>4. QED
    BY <2>2, <2>3 DEF TypeOK, WorkType, RestType
<1>8. CASE HandleJoinNode(h)
  <2>1. WorkType'
    BY <1>0, <1>8, GotoType, ResumeType DEF HandleJoinNode, Stages
  <2>2. cur[h].src \in Node
    BY <1>0 DEF Branch
  <2>3. /\ joinState' \in [Node -> Nat]
        /\ joined' \in [Node -> SUBSET Node]
        /\ activeBranches' \in Int
    <3>1. /\ joinState \in [Node -> Nat]
          /\ joined \in [Node -> SUBSET Node]
          /\ activeBranches \in Int
      BY <1>0 DEF RestType
    <3>2. CASE UNCHANGED <<activeBranches, joinState, joined>>
      BY <3>1, <3>2
    <3>3. CASE /\ joinState' = JoinStateOnProceed(At(h))
               /\ joined' = [joined EXCEPT ![At(h)] = {}]
               /\ UNCHANGED activeBranches
      BY <1>0, <3>1, <3>3 DEF JoinStateOnProceed
    <3>4. CASE /\ joinState' = [joinState EXCEPT ![At(h)] = @ + 1]
               /\ joined' = [joined EXCEPT ![At(h)] = @ \union {cur[h].src}]
               /\ activeBranches' = activeBranches - 1
      BY <1>0, <2>2, <3>1, <3>4
    <3>5. QED
      BY <1>8, <3>2, <3>3, <3>4 DEF HandleJoinNode
  <2>4. RestType'
    BY <1>0, <1>8, <2>3 DEF HandleJoinNode, RestType
  <2>5. QED
    BY <2>1, <2>4 DEF TypeOK, WorkType, RestType
<1>9. CASE HandleIFNode(h)
  <2>1. WorkType'
    <3>1. CASE Goto(h, "fail")
      BY <1>0, <3>1, GotoType DEF Stages
    <3>2. CASE \E i \in 1..2 : TakeSuccessor(h, At(h), i)
      BY <1>0, <3>2, TakeSuccessorType
    <3>3. QED
      BY <1>9, <3>1, <3>2 DEF HandleIFNode
  <2>2. RestType'
    BY <1>0, <1>9 DEF HandleIFNode, RestType
  <2>3. QED
    BY <2>1, <2>2 DEF TypeOK, WorkType, RestType
<1>10. CASE HandleLoopNode(h)
  <2>1. WorkType'
    <3>1. CASE Goto(h, "fail")
      BY <1>0, <3>1, GotoType DEF Stages
    <3>2. CASE \E again \in BodyChoices(At(h), loopState[At(h)] + 1) :
                 TakeSuccessor(h, At(h), IF again THEN 1 ELSE 2)
      <4>1. PICK i \in {1, 2} : TakeSuccessor(h, At(h), i)
        BY <3>2
      <4>2. QED
        BY <1>0, <4>1, TakeSuccessorType
    <3>3. QED
      BY <1>10, <3>1, <3>2 DEF HandleLoopNode
  <2>2. loopState' \in [Node -> Nat]
    <3>1. loopState \in [Node -> Nat]
      BY <1>0 DEF RestType
    <3>2. loopState' \in {loopState, [loopState EXCEPT ![At(h)] = loopState[At(h)] + 1]}
      BY <1>10 DEF HandleLoopNode
    <3>3. QED
      BY <1>0, <3>1, <3>2
  <2>3. UNCHANGED <<status, activeBranches, activeNodes, joinState, broker, ghosts, faults>>
    BY <1>10 DEF HandleLoopNode
  <2>4. RestType'
    BY <1>0, <2>2, <2>3 DEF RestType
  <2>5. QED
    BY <2>1, <2>4 DEF TypeOK, WorkType, RestType
<1>11. CASE ExecuteUnknownNode(h)
  <2>1. WorkType'
    BY <1>0, <1>11, GotoType DEF ExecuteUnknownNode, Stages
  <2>2. RestType'
    BY <1>0, <1>11 DEF ExecuteUnknownNode, RestType
  <2>3. QED
    BY <2>1, <2>2 DEF TypeOK, WorkType, RestType
<1>12. QED
  BY <1>1, <1>2, <1>3, <1>4, <1>5, <1>6, <1>7, <1>8, <1>9, <1>10, <1>11 DEF HandlerStep

\* So are the steps that hand a message to a handler or take one from a plugin.
LEMMA MessageStepType ==
  ASSUME TypeOK,
         \/ \E h \in Handler : Trigger(h) \/ Redeliver(h)
         \/ \E h \in Handler, r \in results : Receive(h, r)
         \/ \E q \in requests, ok \in BOOLEAN : PluginAnswers(q, ok)
  PROVE  TypeOK'
<1> USE DEF task, broker, ghosts, faults
<1>0. WorkType /\ RestType
  BY TypeSplit
<1>1. ASSUME NEW h \in Handler, Trigger(h)
      PROVE  TypeOK'
  <2>1. WorkType'
    BY <1>0, <1>1, NothingTypes DEF Trigger, WorkType, Stages
  <2>2. RestType'
    BY <1>0, <1>1 DEF Trigger, RestType
  <2>3. QED
    BY <2>1, <2>2 DEF TypeOK, WorkType, RestType
<1>2. ASSUME NEW h \in Handler, Redeliver(h)
      PROVE  TypeOK'
  <2>1. WorkType'
    BY <1>0, <1>2 DEF Redeliver, WorkType, work
  <2>2. [msg[h] EXCEPT !.id = minted + 1] \in Result
    <3>1. msg[h] \in Result /\ minted + 1 \in Nat
      BY <1>0 DEF WorkType, RestType
    <3>2. QED
      BY <3>1 DEF Result
  <2>3. RestType'
    <3>1. results' \subseteq Result
      BY <1>0, <1>2, <2>2 DEF Redeliver, RestType
    <3>2. minted' \in Nat /\ redeliveries' \in 0..MaxRedeliveries
      BY <1>0, <1>2, EnvironmentAssumption DEF Redeliver, RestType
    <3>3. QED
      BY <1>0, <1>2, <3>1, <3>2 DEF Redeliver, RestType
  <2>4. QED
    BY <2>1, <2>3 DEF TypeOK, WorkType, RestType
<1>3. ASSUME NEW h \in Handler, NEW r \in results, Receive(h, r)
      PROVE  TypeOK'
  <2>1. r \in Result /\ [id |-> r.id, src |-> r.node, dst |-> r.node] \in Branch
    BY <1>0 DEF RestType, Result, Branch
  <2>2. WorkType'
    BY <1>0, <1>3, <2>1 DEF Receive, WorkType, work, Stages
  <2>3. RestType'
    BY <1>0, <1>3 DEF Receive, RestType
  <2>4. QED
    BY <2>2, <2>3 DEF TypeOK, WorkType, RestType
<1>4. ASSUME NEW q \in requests, NEW ok \in BOOLEAN, PluginAnswers(q, ok)
      PROVE  TypeOK'
  <2>1. WorkType'
    BY <1>0, <1>4 DEF PluginAnswers, WorkType, work
  <2>2. [id |-> q.id, node |-> q.node, ok |-> ok] \in Result
    BY <1>0 DEF RestType, Request, Result
  <2>3. RestType'
    BY <1>0, <1>4, <2>2 DEF PluginAnswers, RestType
  <2>4. QED
    BY <2>1, <2>3 DEF TypeOK, WorkType, RestType
<1>5. QED
  BY <1>1, <1>2, <1>3, <1>4

\* Ending a Task, and the two goroutines that may ask for it, are well typed.
LEMMA FinishStepType ==
  ASSUME TypeOK,
         \/ \E w \in Worker : FinishStep(w)
         \/ SweepExpiredTasks \/ FailTasksByPlugin
  PROVE  TypeOK'
<1> USE DEF task, broker, ghosts, faults
<1>0. WorkType /\ RestType
  BY TypeSplit
<1>1. ASSUME NEW w \in Worker, NEW outcome \in Terminal, NEW next \in Stages,
             MarkTerminal(w, outcome, next)
      PROVE  TypeOK'
  <2>1. WorkType'
    BY <1>0, <1>1, GotoType, ResumeType DEF MarkTerminal, WorkType
  <2>2. RestType'
    BY <1>0, <1>1 DEF MarkTerminal, RestType
  <2>3. QED
    BY <2>1, <2>2 DEF TypeOK, WorkType, RestType
<1>2. ASSUME NEW w \in Worker, SendCallback(w)
      PROVE  TypeOK'
  <2>1. WorkType'
    BY <1>0, <1>2, ResumeType DEF SendCallback, WorkType
  <2>2. callbacks' \in Seq(Terminal)
    <3>1. callbacks \in Seq(Terminal)
      BY <1>0 DEF RestType
    <3>2. \A x \in Terminal : Append(callbacks, x) \in Seq(Terminal)
      BY <3>1, AppendProperties
    <3>3. Told(w) \in Terminal
      BY DEF Told
    <3>4. QED
      BY <1>2, <3>1, <3>2, <3>3 DEF SendCallback
  <2>3. RestType'
    BY <1>0, <1>2, <2>2 DEF SendCallback, RestType
  <2>4. QED
    BY <2>1, <2>3 DEF TypeOK, WorkType, RestType
<1>3. CASE SweepExpiredTasks
  <2>1. WorkType'
    BY <1>0, <1>3, GotoType DEF SweepExpiredTasks, Stages
  <2>2. RestType'
    BY <1>0, <1>3 DEF SweepExpiredTasks, RestType
  <2>3. QED
    BY <2>1, <2>2 DEF TypeOK, WorkType, RestType
<1>4. CASE FailTasksByPlugin
  <2>1. WorkType'
    BY <1>0, <1>4, GotoType DEF FailTasksByPlugin, Stages
  <2>2. RestType'
    BY <1>0, <1>4 DEF FailTasksByPlugin, RestType
  <2>3. QED
    BY <2>1, <2>2 DEF TypeOK, WorkType, RestType
<1>5. "tellCompleted" \in Stages /\ "tellFailed" \in Stages
  BY DEF Stages
<1>6. QED
  BY <1>1, <1>2, <1>3, <1>4, <1>5 DEF FinishStep, CompleteTask, FailTask

\* The faults are well typed; a crash counts the messages it puts back.
LEMMA FaultType ==
  ASSUME TypeOK,
         \/ \E w \in Worker : StoreError(w)
         \/ ChannelCloses \/ Crash
  PROVE  TypeOK'
<1> USE DEF task, broker, ghosts, faults
<1>0. WorkType /\ RestType
  BY TypeSplit
<1>1. ASSUME NEW w \in Worker, StoreError(w)
      PROVE  TypeOK'
  <2>1. <<>> \in Seq(Branch)
    BY EmptySeq
  <2>2. WorkType'
    BY <1>0, <1>1, <2>1, ResumeType DEF StoreError
  <2>3. RestType'
    BY <1>0, <1>1, EnvironmentAssumption DEF StoreError, RestType
  <2>4. QED
    BY <2>2, <2>3 DEF TypeOK, WorkType, RestType
<1>2. CASE ChannelCloses
  <2>1. WorkType'
    BY <1>0, <1>2 DEF ChannelCloses, WorkType, work
  <2>2. RestType'
    BY <1>0, <1>2 DEF ChannelCloses, RestType
  <2>3. QED
    BY <2>1, <2>2 DEF TypeOK, WorkType, RestType
<1>3. CASE Crash
  <2> DEFINE busy == {h \in Handler : msg[h] # NoMsg}
  <2>1. Cardinality(busy) \in Nat
    <3>1. IsFiniteSet(busy)
      BY WorkersAssumption, FS_Subset
    <3>2. QED
      BY <3>1, FS_CardinalityType
  <2>2. WorkType'
    <3>1. <<>> \in Seq(Branch) /\ "idle" \in Stages
      BY EmptySeq DEF Stages
    <3>2. QED
      BY <1>3, <3>1, NothingTypes DEF Crash, WorkType
  <2>3. minted \in Nat /\ minted' \in Nat
    BY <1>0, <1>3, <2>1 DEF Crash, RestType
  <2>4. results' \subseteq Result
    <3>1. PICK copy \in [busy -> 1..Cardinality(busy)] :
            results' = results \union
                         {[msg[h] EXCEPT !.id = minted + copy[h]] : h \in busy}
      BY <1>3 DEF Crash
    <3>2. ASSUME NEW h \in busy
          PROVE  [msg[h] EXCEPT !.id = minted + copy[h]] \in Result
      <4>1. msg[h] \in Result
        BY <1>0 DEF WorkType
      <4>2. minted + copy[h] \in Nat
        BY <2>1, <2>3
      <4>3. QED
        BY <4>1, <4>2 DEF Result
    <3>3. results \subseteq Result
      BY <1>0 DEF RestType
    <3>4. QED
      BY <3>1, <3>2, <3>3
  <2>5. RestType'
    BY <1>0, <1>3, <2>3, <2>4, EnvironmentAssumption DEF Crash, RestType
  <2>6. QED
    BY <2>2, <2>5 DEF TypeOK, WorkType, RestType
<1>4. QED
  BY <1>1, <1>2, <1>3

\* A step that changes nothing is well typed.
LEMMA StutterType == TypeOK /\ UNCHANGED vars => TypeOK'
BY DEF TypeOK, vars, task, work, broker, ghosts, faults

\* Every reachable state is well typed, whatever the Blueprint and the faults.
THEOREM TypeCorrect == Spec => []TypeOK
<1>1. TypeOK /\ [Next]_vars => TypeOK'
  BY HandlerStepType, MessageStepType, FinishStepType, FaultType, StutterType DEF Next
<1>2. QED
  BY InitType, <1>1, PTL DEF Spec

-----------------------------------------------------------------------------
(* One outcome, told once. *)

IInv == TypeOK /\ OneReporter /\ CallbackOnce

TellStages == {"tellCompleted", "tellFailed"}

\* No worker starts to tell, and the outcome and what was told stay.
QuietWork == \A v \in Worker : pc'[v] \in TellStages => pc'[v] = pc[v]

Quiet ==
  /\ QuietWork
  /\ UNCHANGED callbacks
  /\ status' = status \/ (status = "none" /\ status' = "running")

\* A worker that goes to any stage but telling is quiet.
LEMMA GotoQuiet ==
  ASSUME WorkType, NEW w \in Worker, NEW stage \in Stages \ TellStages, Goto(w, stage)
  PROVE  QuietWork
BY DEF WorkType, Goto, QuietWork, TellStages

\* So is one that goes on with the next sibling, or ends.
LEMMA ResumeQuiet ==
  ASSUME WorkType, NEW w \in Worker, NEW rest, Resume(w, rest)
  PROVE  QuietWork
<1>1. CASE rest = <<>>
  BY <1>1 DEF WorkType, Resume, QuietWork, TellStages
<1>2. CASE rest # <<>>
  BY <1>2 DEF WorkType, Resume, QuietWork, TellStages
<1>3. QED
  BY <1>1, <1>2

\* And one that takes a successor.
LEMMA TakeSuccessorQuiet ==
  ASSUME WorkType, NEW w \in Worker, NEW n \in Node, NEW i \in Nat,
         TakeSuccessor(w, n, i)
  PROVE  QuietWork
<1>1. "exit" \in Stages \ TellStages /\ "fail" \in Stages \ TellStages
  BY DEF Stages, TellStages
<1>2. CASE NextNodes[n][i] = Exit
  BY <1>1, <1>2, GotoQuiet DEF TakeSuccessor
<1>3. CASE NextNodes[n][i] # Exit /\ NextNodes[n][i] \notin Node
  BY <1>1, <1>3, GotoQuiet DEF TakeSuccessor
<1>4. CASE NextNodes[n][i] # Exit /\ NextNodes[n][i] \in Node
  BY <1>4, ResumeQuiet DEF TakeSuccessor
<1>5. QED
  BY <1>2, <1>3, <1>4

\* Walking the Blueprint is quiet: only completeTask and failTask tell.
LEMMA HandlerStepQuiet ==
  ASSUME TypeOK, NEW h \in Handler, HandlerStep(h)
  PROVE  Quiet
<1>0. /\ WorkType
      /\ h \in Worker
      /\ At(h) \in Node
  BY TypeSplit DEF WorkType, At, Branch
<1>1. \A stage \in {"fanout", "fail", "complete", "publish"} : stage \in Stages \ TellStages
  BY DEF Stages, TellStages
<1>2. ASSUME NEW stage \in {"fanout", "fail", "complete", "publish"}, Goto(h, stage)
      PROVE  QuietWork
  BY <1>0, <1>1, <1>2, GotoQuiet
<1>3. ASSUME NEW rest, Resume(h, rest)
      PROVE  QuietWork
  BY <1>0, <1>3, ResumeQuiet
<1>4. QuietWork
  <2>1. CASE RemoveActiveNode(h)
    BY <1>2, <2>1 DEF RemoveActiveNode
  <2>2. CASE EndBranch(h)
    BY <1>2, <1>3, <2>2 DEF EndBranch
  <2>3. CASE NextNodeNotFound(h)
    BY <1>2, <2>3 DEF NextNodeNotFound
  <2>4. CASE ForkBranches(h)
    BY <1>3, <2>4 DEF ForkBranches
  <2>5. CASE ExecutePluginNode(h)
    BY <1>2, <2>5 DEF ExecutePluginNode
  <2>6. CASE Publish(h)
    BY <1>2, <1>3, <2>6 DEF Publish
  <2>7. CASE ExecuteDataNode(h)
    BY <1>2, <2>7 DEF ExecuteDataNode
  <2>8. CASE HandleJoinNode(h)
    BY <1>2, <1>3, <2>8 DEF HandleJoinNode
  <2>9. CASE HandleIFNode(h)
    BY <1>0, <1>2, <2>9, TakeSuccessorQuiet DEF HandleIFNode
  <2>10. CASE HandleLoopNode(h)
    <3>1. CASE Goto(h, "fail")
      BY <1>2, <3>1
    <3>2. CASE \E again \in BodyChoices(At(h), loopState[At(h)] + 1) :
                 TakeSuccessor(h, At(h), IF again THEN 1 ELSE 2)
      <4>1. PICK i \in {1, 2} : TakeSuccessor(h, At(h), i)
        BY <3>2
      <4>2. QED
        BY <1>0, <4>1, TakeSuccessorQuiet
    <3>3. QED
      BY <2>10, <3>1, <3>2 DEF HandleLoopNode
  <2>11. CASE ExecuteUnknownNode(h)
    BY <1>2, <2>11 DEF ExecuteUnknownNode
  <2>12. QED
    BY <2>1, <2>2, <2>3, <2>4, <2>5, <2>6, <2>7, <2>8, <2>9, <2>10, <2>11 DEF HandlerStep
<1>5. UNCHANGED <<status, callbacks>>
  BY DEF HandlerStep, RemoveActiveNode, EndBranch, NextNodeNotFound, ForkBranches,
         ExecutePluginNode, Publish, ExecuteDataNode, HandleJoinNode, HandleIFNode,
         HandleLoopNode, ExecuteUnknownNode, task, broker
<1>6. QED
  BY <1>4, <1>5 DEF Quiet

\* Messages, the faults, the watchdog's sweep and the plugin-down report are quiet.
LEMMA OtherStepQuiet ==
  ASSUME TypeOK,
         \/ \E h \in Handler : Trigger(h) \/ Redeliver(h)
         \/ \E h \in Handler, r \in results : Receive(h, r)
         \/ \E q \in requests, ok \in BOOLEAN : PluginAnswers(q, ok)
         \/ \E w \in Worker : StoreError(w)
         \/ SweepExpiredTasks \/ FailTasksByPlugin
         \/ ChannelCloses \/ Crash
  PROVE  Quiet
<1> USE DEF task, broker, work, TellStages
<1>0. WorkType
  BY TypeSplit
<1>1. ASSUME NEW h \in Handler, Trigger(h)
      PROVE  Quiet
  BY <1>0, <1>1 DEF Trigger, Quiet, QuietWork, WorkType
<1>2. ASSUME NEW h \in Handler, Redeliver(h)
      PROVE  Quiet
  BY <1>2 DEF Redeliver, Quiet, QuietWork
<1>3. ASSUME NEW h \in Handler, NEW r \in results, Receive(h, r)
      PROVE  Quiet
  BY <1>0, <1>3 DEF Receive, Quiet, QuietWork, WorkType
<1>4. ASSUME NEW q \in requests, NEW ok \in BOOLEAN, PluginAnswers(q, ok)
      PROVE  Quiet
  BY <1>4 DEF PluginAnswers, Quiet, QuietWork
<1>5. ASSUME NEW w \in Worker, StoreError(w)
      PROVE  Quiet
  BY <1>0, <1>5, ResumeQuiet DEF StoreError, Quiet
<1>6. CASE SweepExpiredTasks
  BY <1>0, <1>6, GotoQuiet DEF SweepExpiredTasks, Quiet, Stages
<1>7. CASE FailTasksByPlugin
  BY <1>0, <1>7, GotoQuiet DEF FailTasksByPlugin, Quiet, Stages
<1>8. CASE ChannelCloses
  BY <1>8 DEF ChannelCloses, Quiet, QuietWork
<1>9. CASE Crash
  BY <1>9 DEF Crash, Quiet, QuietWork
<1>10. QED
  BY <1>1, <1>2, <1>3, <1>4, <1>5, <1>6, <1>7, <1>8, <1>9

\* A quiet step keeps the invariant: those who tell go on telling the truth.
LEMMA QuietKeeps ==
  ASSUME IInv, Quiet
  PROVE  OneReporter' /\ CallbackOnce'
<1>1. \A w \in Telling' : w \in Telling /\ Told(w)' = Told(w)
  BY DEF Quiet, QuietWork, TellStages, Telling, Told
<1>2. status = "none" => Telling = {} /\ callbacks = <<>>
  BY DEF IInv, OneReporter, CallbackOnce, Told
<1>3. OneReporter'
  BY <1>1, <1>2 DEF IInv, OneReporter, Quiet
<1>4. CallbackOnce'
  BY <1>2 DEF IInv, CallbackOnce, Quiet
<1>5. QED
  BY <1>3, <1>4

\* MarkTerminal lets a worker tell only when nobody has been let through.
LEMMA MarkTerminalKeeps ==
  ASSUME IInv, NEW w \in Worker,
         NEW outcome \in Terminal, NEW next \in TellStages,
         outcome = IF next = "tellCompleted" THEN "completed" ELSE "failed",
         MarkTerminal(w, outcome, next)
  PROVE  OneReporter' /\ CallbackOnce'
<1>1. UNCHANGED callbacks
  BY DEF MarkTerminal, broker
<1>2. CASE ~MayFinish
  <2>1. UNCHANGED status /\ Resume(w, todo[w])
    BY <1>2 DEF MarkTerminal
  <2>2. QuietWork
    BY <2>1, ResumeQuiet, TypeSplit DEF IInv
  <2>3. QED
    BY <1>1, <2>1, <2>2, QuietKeeps DEF Quiet
<1>3. CASE MayFinish
  <2>1. Telling = {} /\ callbacks = <<>>
    BY <1>3 DEF IInv, OneReporter, CallbackOnce, Told, MayFinish
  <2>2. status' = outcome /\ pc' = [pc EXCEPT ![w] = next]
    BY <1>3 DEF MarkTerminal, Goto
  <2>3. pc \in [Worker -> Stages]
    BY DEF IInv, TypeOK
  <2>4. Telling' = {w} /\ Told(w)' = outcome
    BY <2>1, <2>2, <2>3 DEF Telling, Told, TellStages
  <2>5. QED
    BY <1>1, <2>1, <2>2, <2>4 DEF OneReporter, CallbackOnce
<1>4. QED
  BY <1>2, <1>3

\* The one worker that tells publishes the stored outcome, and is done.
LEMMA SendCallbackKeeps ==
  ASSUME IInv, NEW w \in Worker, SendCallback(w)
  PROVE  /\ OneReporter' /\ CallbackOnce'
         /\ status \in Terminal
         /\ UNCHANGED status
         /\ callbacks' \in {callbacks, <<status>>}
         /\ callbacks = <<>>
         /\ callbacks' # callbacks => HasTriggerPlugin
<1>1. w \in Telling /\ Telling = {w} /\ status = Told(w) /\ callbacks = <<>>
  BY DEF SendCallback, IInv, OneReporter
<1>2. status \in Terminal /\ UNCHANGED status
  BY <1>1 DEF SendCallback, Told, task
<1>3. callbacks' \in {callbacks, <<status>>}
  BY <1>1 DEF SendCallback
<1>4. callbacks' # callbacks => HasTriggerPlugin
  BY DEF SendCallback
<1>5. Telling' = {}
  <2>1. pc \in [Worker -> Stages]
    BY DEF IInv, TypeOK
  <2>2. pc'[w] \notin TellStages /\ \A v \in Worker \ {w} : pc'[v] = pc[v]
    <3>1. CASE todo[w] = <<>>
      BY <2>1, <3>1 DEF SendCallback, Resume, TellStages
    <3>2. CASE todo[w] # <<>>
      BY <2>1, <3>2 DEF SendCallback, Resume, TellStages
    <3>3. QED
      BY <3>1, <3>2
  <2>3. QED
    BY <1>1, <2>2 DEF Telling, TellStages
<1>6. OneReporter' /\ CallbackOnce'
  BY <1>1, <1>2, <1>3, <1>5 DEF OneReporter, CallbackOnce
<1>7. QED
  BY <1>1, <1>2, <1>3, <1>4, <1>6

-----------------------------------------------------------------------------
\* The initial state satisfies the invariant.
LEMMA InitInv == Init => IInv
BY InitType DEF Init, IInv, OneReporter, CallbackOnce, Telling

\* Every step is of one of four kinds, and keeps the invariant.
LEMMA StepInv ==
  ASSUME IInv, [Next]_vars
  PROVE  /\ IInv'
         /\ \/ Quiet
            \/ \E w \in Worker : CompleteTask(w) \/ FailTask(w)
            \/ \E w \in Worker : SendCallback(w)
<1>0. TypeOK
  BY DEF IInv
<1>1. TypeOK'
  BY <1>0, HandlerStepType, MessageStepType, FinishStepType, FaultType, StutterType DEF Next
<1>2. CASE \E h \in Handler : HandlerStep(h)
  BY <1>0, <1>1, <1>2, HandlerStepQuiet, QuietKeeps DEF IInv
<1>3. CASE \/ \E h \in Handler : Trigger(h) \/ Redeliver(h)
           \/ \E h \in Handler, r \in results : Receive(h, r)
           \/ \E q \in requests, ok \in BOOLEAN : PluginAnswers(q, ok)
           \/ \E w \in Worker : StoreError(w)
           \/ SweepExpiredTasks \/ FailTasksByPlugin
           \/ ChannelCloses \/ Crash
  BY <1>0, <1>1, <1>3, OtherStepQuiet, QuietKeeps DEF IInv
<1>4. ASSUME NEW w \in Worker, CompleteTask(w)
      PROVE  OneReporter' /\ CallbackOnce'
  BY <1>4, MarkTerminalKeeps DEF CompleteTask, TellStages
<1>5. ASSUME NEW w \in Worker, FailTask(w)
      PROVE  OneReporter' /\ CallbackOnce'
  BY <1>5, MarkTerminalKeeps DEF FailTask, TellStages
<1>6. ASSUME NEW w \in Worker, SendCallback(w)
      PROVE  OneReporter' /\ CallbackOnce'
  BY <1>6, SendCallbackKeeps
<1>7. CASE UNCHANGED vars
  <2>1. Quiet
    BY <1>7 DEF vars, task, work, broker, Quiet, QuietWork
  <2>2. QED
    BY <1>1, <2>1, QuietKeeps DEF IInv
<1>8. QED
  BY <1>1, <1>2, <1>3, <1>4, <1>5, <1>6, <1>7 DEF Next, FinishStep, IInv

\* The invariant holds of every reachable state.
LEMMA Invariant == Spec => []IInv
<1>1. IInv /\ [Next]_vars => IInv'
  BY StepInv
<1>2. QED
  BY InitInv, <1>1, PTL DEF Spec

\* At most one worker ever gets to report an outcome, and it is the stored one.
THEOREM ReportedByOne == Spec => []OneReporter
<1>1. IInv => OneReporter
  BY DEF IInv
<1>2. QED
  BY <1>1, Invariant, PTL

\* The triggering plugin is told at most once, and told the stored outcome:
\* whatever branches, watchdog sweeps, plugin-down reports, redeliveries,
\* store errors and crashes race to end the Task.
THEOREM ToldOnce == Spec => []CallbackOnce
<1>1. IInv => CallbackOnce
  BY DEF IInv
<1>2. QED
  BY <1>1, Invariant, PTL

\* A step changes the status from "none" to "running", or from "running" to
\* the outcome, or not at all.
LEMMA StatusStep ==
  ASSUME IInv, [Next]_vars
  PROVE  \/ UNCHANGED status
         \/ status = "none" /\ status' = "running"
         \/ status = "running" /\ status' \in Terminal
<1>1. CASE Quiet
  BY <1>1 DEF Quiet
<1>2. ASSUME NEW w \in Worker, CompleteTask(w) \/ FailTask(w)
      PROVE  UNCHANGED status \/ (status = "running" /\ status' \in Terminal)
  BY <1>2 DEF CompleteTask, FailTask, MarkTerminal, MayFinish
<1>3. ASSUME NEW w \in Worker, SendCallback(w)
      PROVE  UNCHANGED status
  BY <1>3, SendCallbackKeeps
<1>4. QED
  BY <1>1, <1>2, <1>3, StepInv

\* A terminal status is final.
THEOREM OutcomeIsFinal == Spec => TerminalIsFinal
<1>1. IInv /\ [Next]_vars => [(status \in Terminal) => UNCHANGED status]_vars
  BY StatusStep
<1>2. QED
  BY <1>1, Invariant, PTL DEF Spec, TerminalIsFinal

\* The scheduler implements what TaskPromise says, but for its liveness.
THEOREM KeepsPromise == Spec => PromiseIsSafe
<1>1. Init => Promise!Init
  BY DEF Init, Promise!Init
<1>2. IInv /\ [Next]_vars => [Promise!Next]_(Promise!vars)
  <2> SUFFICES ASSUME IInv, [Next]_vars
               PROVE  [Promise!Next]_(Promise!vars)
    OBVIOUS
  <2> USE DEF Promise!Next, Promise!vars
  <2>1. CASE Quiet
    <3>1. CASE UNCHANGED status
      BY <2>1, <3>1 DEF Quiet
    <3>2. CASE status = "none" /\ status' = "running"
      BY <2>1, <3>2 DEF Quiet, Promise!Start
    <3>3. QED
      BY <2>1, <3>1, <3>2 DEF Quiet
  <2>2. ASSUME NEW w \in Worker, CompleteTask(w) \/ FailTask(w)
        PROVE  [Promise!Next]_(Promise!vars)
    <3>1. UNCHANGED callbacks
      BY <2>2 DEF CompleteTask, FailTask, MarkTerminal, broker
    <3>2. UNCHANGED status \/ (status = "running" /\ status' \in Terminal)
      BY <2>2 DEF CompleteTask, FailTask, MarkTerminal, MayFinish
    <3>3. QED
      BY <3>1, <3>2 DEF Promise!Finish, Promise!Outcomes
  <2>3. ASSUME NEW w \in Worker, SendCallback(w)
        PROVE  [Promise!Next]_(Promise!vars)
    BY <2>3, SendCallbackKeeps DEF Promise!Notify, Promise!Outcomes
  <2>4. QED
    BY <2>1, <2>2, <2>3, StepInv
<1>3. QED
  BY <1>1, <1>2, Invariant, PTL DEF Spec, PromiseIsSafe, Promise!SafeSpec

-----------------------------------------------------------------------------
(***************************************************************************)
(* Branch accounting.  An id is in one place at a time: at a handler,      *)
(* among the siblings of one, in a request or in a result.  So every step  *)
(* moves one, ends one or mints new ones, and the count follows.           *)
(***************************************************************************)

\* Every result is handled once, and no goroutine dies with branches in its hands.
DeliveredOnce == MaxRedeliveries = 0 /\ MaxCrashes = 0

Ids(s)      == {s[i].id : i \in DOMAIN s}
AllApart(s) == \A i, j \in DOMAIN s : s[i].id = s[j].id => i = j

OutIds == {q.id : q \in requests} \union {r.id : r \in results}

OutApart ==
  /\ \A p, q \in requests : p.id = q.id => p = q
  /\ \A p, q \in results : p.id = q.id => p = q
  /\ \A q \in requests, r \in results : q.id # r.id

\* What a handler holds is in one place each.
Orderly(h) ==
  /\ pc[h] = "idle" => todo[h] = <<>>
  /\ pc[h] \in Holding => cur[h].id \notin Ids(todo[h])
  /\ AllApart(todo[h])

\* And nowhere else.
Apart(h) ==
  /\ HeldBy(h) \intersect OutIds = {}
  /\ \A g \in Handler \ {h} : HeldBy(g) \intersect HeldBy(h) = {}

LiveParts ==
  /\ LiveBranches \subseteq 1..minted
  /\ OutApart
  /\ \A h \in Handler : Orderly(h) /\ Apart(h)

Counted ==
  IF storeErrors = 0
    THEN activeBranches = Cardinality(LiveBranches)
    ELSE activeBranches >= Cardinality(LiveBranches)

NotStarted ==
  status = "none" => LiveBranches = {} /\ minted = 0 /\ \A h \in Handler : pc[h] = "idle"

-----------------------------------------------------------------------------
(* What a worker's step does to the branches it holds. *)

\* The other handlers do nothing.
Alone(h) ==
  \A g \in Handler \ {h} : pc'[g] = pc[g] /\ cur'[g] = cur[g] /\ todo'[g] = todo[g]

\* The siblings are all the others.
LEMMA HeldSplit ==
  ASSUME NEW h \in Handler, Orderly(h), pc[h] \in Holding
  PROVE  /\ cur[h].id \in HeldBy(h)
         /\ Ids(todo[h]) = HeldBy(h) \ {cur[h].id}
<1>1. HeldBy(h) = {cur[h].id} \union Ids(todo[h])
  BY DEF HeldBy, Ids
<1>2. QED
  BY <1>1 DEF Orderly

\* Going to another stage keeps the branch at hand, or ends with it.
LEMMA GotoHeld ==
  ASSUME WorkType, NEW h \in Handler, Orderly(h), NEW stage \in Stages \ {"idle"},
         Goto(h, stage), pc[h] \in Holding \/ stage \notin Holding
  PROVE  /\ Alone(h) /\ Orderly(h)'
         /\ stage \in Holding => HeldBy(h)' = HeldBy(h)
         /\ stage \notin Holding => HeldBy(h)' = Ids(todo[h])
<1>1. pc'[h] = stage /\ UNCHANGED <<cur, todo>> /\ \A g \in Handler \ {h} : pc'[g] = pc[g]
  BY DEF Goto, WorkType
<1>2. Alone(h)
  BY <1>1 DEF Alone
<1>3. Orderly(h)'
  BY <1>1 DEF Orderly, Ids, AllApart
<1>4. stage \in Holding => HeldBy(h)' = HeldBy(h)
  BY <1>1 DEF HeldBy
<1>5. stage \notin Holding => HeldBy(h)' = Ids(todo[h])
  BY <1>1 DEF HeldBy, Ids
<1>6. QED
  BY <1>2, <1>3, <1>4, <1>5

\* Going on with a sequence of branches leaves the handler with these.
LEMMA ResumeHeld ==
  ASSUME WorkType, NEW h \in Handler, NEW rest \in Seq(Branch), AllApart(rest), Resume(h, rest)
  PROVE  Alone(h) /\ Orderly(h)' /\ HeldBy(h)' = Ids(rest)
<1>1. Alone(h)
  <2>1. CASE rest = <<>>
    BY <2>1 DEF Resume, WorkType, Alone
  <2>2. CASE rest # <<>>
    BY <2>2 DEF Resume, WorkType, Alone
  <2>3. QED
    BY <2>1, <2>2
<1>2. CASE rest = <<>>
  <2>1. pc'[h] = "idle" /\ todo'[h] = <<>>
    BY <1>2 DEF Resume, WorkType
  <2>2. DOMAIN <<>> = {}
    OBVIOUS
  <2>3. Orderly(h)' /\ HeldBy(h)' = Ids(rest)
    BY <1>2, <2>1, <2>2 DEF Orderly, HeldBy, Ids, AllApart, Holding
  <2>4. QED
    BY <1>1, <2>3
<1>3. CASE rest # <<>>
  <2>1. pc'[h] = "exec" /\ cur'[h] = Head(rest) /\ todo'[h] = Tail(rest)
    BY <1>3 DEF Resume, WorkType
  <2>2. /\ Len(rest) \in Nat \ {0} /\ DOMAIN rest = 1..Len(rest)
        /\ DOMAIN Tail(rest) = 1..(Len(rest) - 1)
        /\ Head(rest) = rest[1]
        /\ \A i \in 1..(Len(rest) - 1) : Tail(rest)[i] = rest[i + 1]
    BY <1>3, HeadTailProperties, EmptySeq
  <2>3. AllApart(Tail(rest))
    BY <2>2 DEF AllApart
  <2>4. Head(rest).id \notin Ids(Tail(rest))
    BY <2>2 DEF AllApart, Ids
  <2>5. {Head(rest).id} \union Ids(Tail(rest)) = Ids(rest)
    <3>1. ASSUME NEW x \in Ids(rest)
          PROVE  x \in {Head(rest).id} \union Ids(Tail(rest))
      <4>1. PICK i \in DOMAIN rest : x = rest[i].id
        BY <3>1 DEF Ids
      <4>2. CASE i = 1
        BY <2>2, <4>1, <4>2
      <4>3. CASE i # 1
        <5>1. i - 1 \in 1..(Len(rest) - 1) /\ rest[i] = Tail(rest)[i - 1]
          BY <2>2, <4>1, <4>3
        <5>2. QED
          BY <2>2, <4>1, <5>1 DEF Ids
      <4>4. QED
        BY <4>2, <4>3
    <3>2. ASSUME NEW x \in Ids(Tail(rest))
          PROVE  x \in Ids(rest)
      <4>1. PICK i \in 1..(Len(rest) - 1) : x = Tail(rest)[i].id
        BY <2>2, <3>2 DEF Ids
      <4>2. i + 1 \in DOMAIN rest /\ x = rest[i + 1].id
        BY <2>2, <4>1
      <4>3. QED
        BY <4>2 DEF Ids
    <3>3. Head(rest).id \in Ids(rest)
      BY <2>2 DEF Ids
    <3>4. QED
      BY <3>1, <3>2, <3>3
  <2>6. Orderly(h)'
    BY <2>1, <2>3, <2>4 DEF Orderly, AllApart, Ids
  <2>7. HeldBy(h)' = {Head(rest).id} \union Ids(Tail(rest))
    BY <2>1 DEF HeldBy, Ids, Holding
  <2>8. QED
    BY <1>1, <2>5, <2>6, <2>7
<1>4. QED
  BY <1>2, <1>3

\* The branches of two sequences, one after the other.
LEMMA ConcatIds ==
  ASSUME NEW s \in Seq(Branch), NEW t \in Seq(Branch)
  PROVE  /\ Ids(s \o t) = Ids(s) \union Ids(t)
         /\ AllApart(s) /\ AllApart(t) /\ Ids(s) \intersect Ids(t) = {} => AllApart(s \o t)
<1> DEFINE st == s \o t
<1>1. /\ Len(s) \in Nat /\ Len(t) \in Nat
      /\ DOMAIN s = 1..Len(s) /\ DOMAIN t = 1..Len(t)
      /\ DOMAIN st = 1..(Len(s) + Len(t))
  BY ConcatProperties
<1>2. \A i \in 1..(Len(s) + Len(t)) :
        st[i] = IF i <= Len(s) THEN s[i] ELSE t[i - Len(s)]
  BY ConcatProperties
<1> SUFFICES /\ Ids(st) = Ids(s) \union Ids(t)
             /\ AllApart(s) /\ AllApart(t) /\ Ids(s) \intersect Ids(t) = {} => AllApart(st)
  OBVIOUS
<1> HIDE DEF st
<1>3. \A i \in DOMAIN s : i \in DOMAIN st /\ st[i] = s[i]
  BY <1>1, <1>2
<1>4. \A i \in DOMAIN t : i + Len(s) \in DOMAIN st /\ st[i + Len(s)] = t[i]
  BY <1>1, <1>2
<1>5. \A i \in DOMAIN st :
        \/ i \in DOMAIN s /\ st[i] = s[i]
        \/ i - Len(s) \in DOMAIN t /\ st[i] = t[i - Len(s)]
  BY <1>1, <1>2
<1>6. Ids(st) = Ids(s) \union Ids(t)
  BY <1>3, <1>4, <1>5 DEF Ids
<1>7. ASSUME AllApart(s), AllApart(t), Ids(s) \intersect Ids(t) = {}
      PROVE  AllApart(st)
  <2>1. SUFFICES ASSUME NEW i \in DOMAIN st, NEW j \in DOMAIN st, st[i].id = st[j].id
                 PROVE  i = j
    BY DEF AllApart
  <2>2. CASE i \in DOMAIN s /\ st[i] = s[i] /\ j \in DOMAIN s /\ st[j] = s[j]
    BY <1>7, <2>1, <2>2 DEF AllApart
  <2>3. CASE /\ i - Len(s) \in DOMAIN t /\ st[i] = t[i - Len(s)]
             /\ j - Len(s) \in DOMAIN t /\ st[j] = t[j - Len(s)]
    <3>1. i - Len(s) = j - Len(s)
      BY <1>7, <2>1, <2>3 DEF AllApart
    <3>2. QED
      BY <1>1, <3>1
  <2>4. CASE i \in DOMAIN s /\ st[i] = s[i] /\ j - Len(s) \in DOMAIN t /\ st[j] = t[j - Len(s)]
    BY <1>7, <2>1, <2>4 DEF Ids
  <2>5. CASE i - Len(s) \in DOMAIN t /\ st[i] = t[i - Len(s)] /\ j \in DOMAIN s /\ st[j] = s[j]
    BY <1>7, <2>1, <2>5 DEF Ids
  <2>6. QED
    BY <1>5, <2>2, <2>3, <2>4, <2>5
<1>8. QED
  BY <1>6, <1>7

\* The branch at hand, at another node, in front of the siblings: the same branches.
LEMMA BranchToHeld ==
  ASSUME WorkType, NEW h \in Handler, NEW n \in Node, Orderly(h), pc[h] \in Holding
  PROVE  /\ Ids(<<BranchTo(h, n)>> \o todo[h]) = HeldBy(h)
         /\ AllApart(<<BranchTo(h, n)>> \o todo[h])
<1> DEFINE s == <<BranchTo(h, n)>>
<1>1. cur[h] \in Branch /\ todo[h] \in Seq(Branch)
  BY DEF WorkType
<1>2. BranchTo(h, n) \in Branch /\ BranchTo(h, n).id = cur[h].id
  BY <1>1 DEF BranchTo, At, Branch
<1>3. s \in Seq(Branch) /\ DOMAIN s = {1} /\ s[1] = BranchTo(h, n)
  BY <1>2
<1> HIDE DEF s
<1>4. Ids(s) = {cur[h].id} /\ AllApart(s)
  BY <1>2, <1>3 DEF Ids, AllApart
<1>5. HeldBy(h) = {cur[h].id} \union Ids(todo[h])
  BY DEF HeldBy, Ids
<1>6. Ids(s \o todo[h]) = HeldBy(h) /\ AllApart(s \o todo[h])
  BY <1>1, <1>3, <1>4, <1>5, ConcatIds DEF Orderly
<1>7. QED
  BY <1>6 DEF s

\* A fork's branches in front of the siblings: the branch at hand, and new ones.
LEMMA ForkHeld ==
  ASSUME WorkType, NEW h \in Handler, Orderly(h), pc[h] \in Holding,
         minted \in Nat, HeldBy(h) \subseteq 1..minted,
         NEW succ \in Seq(NodeIds), succ # <<>>, \A i \in DOMAIN succ : succ[i] \in Node,
         NEW fork, fork = [i \in 1..Len(succ) |->
                            [id  |-> IF i = 1 THEN cur[h].id ELSE minted + i - 1,
                             src |-> At(h), dst |-> succ[i]]]
  PROVE  /\ fork \o todo[h] \in Seq(Branch)
         /\ Ids(fork \o todo[h]) = HeldBy(h) \union ((minted + 1)..(minted + Len(succ) - 1))
         /\ AllApart(fork \o todo[h])
<1>1. /\ At(h) \in Node /\ cur[h].id \in Nat /\ todo[h] \in Seq(Branch)
  BY DEF WorkType, Branch, At
<1>2. Len(succ) \in Nat \ {0} /\ DOMAIN succ = 1..Len(succ)
  BY EmptySeq, LenProperties
<1>3. \A i \in 1..Len(succ) : fork[i] \in Branch
  BY <1>1, <1>2 DEF Branch
<1>4. fork \in Seq(Branch) /\ DOMAIN fork = 1..Len(succ)
  <2>1. fork \in [1..Len(succ) -> Branch]
    BY <1>3
  <2>2. QED
    BY <1>2, <2>1, IsASeq
<1>5. \A i \in 1..Len(succ) : fork[i].id = IF i = 1 THEN cur[h].id ELSE minted + i - 1
  OBVIOUS
<1>6. cur[h].id \in 1..minted
  BY HeldSplit
<1>7. AllApart(fork)
  BY <1>2, <1>4, <1>5, <1>6 DEF AllApart
<1>8. Ids(fork) = {cur[h].id} \union ((minted + 1)..(minted + Len(succ) - 1))
  <2>1. ASSUME NEW x \in Ids(fork)
        PROVE  x \in {cur[h].id} \union ((minted + 1)..(minted + Len(succ) - 1))
    <3>1. PICK i \in 1..Len(succ) : x = fork[i].id
      BY <1>4, <2>1 DEF Ids
    <3>2. QED
      BY <1>2, <1>5, <3>1
  <2>2. cur[h].id \in Ids(fork)
    BY <1>2, <1>4, <1>5 DEF Ids
  <2>3. ASSUME NEW x \in (minted + 1)..(minted + Len(succ) - 1)
        PROVE  x \in Ids(fork)
    <3>1. x - minted + 1 \in 1..Len(succ) /\ fork[x - minted + 1].id = x
      BY <1>2, <1>5, <2>3
    <3>2. QED
      BY <1>4, <3>1 DEF Ids
  <2>4. QED
    BY <2>1, <2>2, <2>3
<1>9. Ids(todo[h]) = HeldBy(h) \ {cur[h].id} /\ cur[h].id \in HeldBy(h) /\ AllApart(todo[h])
  BY HeldSplit DEF Orderly
<1>10. Ids(fork) \intersect Ids(todo[h]) = {}
  BY <1>2, <1>8, <1>9
<1>11. Ids(fork) \union Ids(todo[h]) = HeldBy(h) \union ((minted + 1)..(minted + Len(succ) - 1))
  BY <1>8, <1>9
<1>12. QED
  BY <1>1, <1>4, <1>7, <1>9, <1>10, <1>11, ConcatIds, ConcatProperties

-----------------------------------------------------------------------------
(* The kinds of step, by what becomes of the branches. *)

\* A handler keeps the branches it holds.
Stays(h) ==
  /\ Alone(h) /\ Orderly(h)'
  /\ HeldBy(h)' = HeldBy(h)
  /\ storeErrors' >= storeErrors
  /\ UNCHANGED <<requests, results, minted, activeBranches>>

\* It ends the branch at hand, and counts that.
Ends(h) ==
  /\ Alone(h) /\ Orderly(h)'
  /\ pc[h] \in Holding
  /\ HeldBy(h)' = HeldBy(h) \ {cur[h].id}
  /\ activeBranches' = activeBranches - 1
  /\ UNCHANGED <<requests, results, minted, storeErrors>>

\* It sends the branch at hand to a plugin.
Sends(h) ==
  /\ Alone(h) /\ Orderly(h)'
  /\ pc[h] \in Holding
  /\ HeldBy(h)' = HeldBy(h) \ {cur[h].id}
  /\ \E n \in Node : requests' = requests \union {[id |-> cur[h].id, node |-> n]}
  /\ UNCHANGED <<results, minted, activeBranches, storeErrors>>

\* It forks the branch at hand, and counts the new ones.
Forks(h) ==
  /\ Alone(h) /\ Orderly(h)'
  /\ pc[h] \in Holding
  /\ minted' \in Nat /\ minted' >= minted
  /\ HeldBy(h)' = HeldBy(h) \union ((minted + 1)..minted')
  /\ activeBranches' = activeBranches + (minted' - minted)
  /\ UNCHANGED <<requests, results, storeErrors>>

\* It drops branches without counting them.
Drops(h) ==
  /\ Alone(h) /\ Orderly(h)'
  /\ HeldBy(h)' \subseteq HeldBy(h)
  /\ UNCHANGED <<requests, results, minted>>

\* An IF or LOOP takes its successor with the branch it was reached by.
LEMMA TakeSuccessorHeld ==
  ASSUME WorkType, NEW h \in Handler, Orderly(h), pc[h] \in Holding,
         NEW n \in Node, NEW i \in Nat, TakeSuccessor(h, n, i)
  PROVE  Alone(h) /\ Orderly(h)' /\ HeldBy(h)' = HeldBy(h)
<1>1. CASE NextNodes[n][i] = Exit
  BY <1>1, GotoHeld DEF TakeSuccessor, Stages, Holding
<1>2. CASE NextNodes[n][i] # Exit /\ NextNodes[n][i] \notin Node
  BY <1>2, GotoHeld DEF TakeSuccessor, Stages, Holding
<1>3. CASE NextNodes[n][i] # Exit /\ NextNodes[n][i] \in Node
  <2>1. Resume(h, <<BranchTo(h, NextNodes[n][i])>> \o todo[h])
    BY <1>3 DEF TakeSuccessor
  <2>2. QED
    BY <1>3, <2>1, BranchToType, BranchToHeld, ResumeHeld
<1>4. QED
  BY <1>1, <1>2, <1>3

\* Every step of the walk keeps, ends, sends or forks the branch at hand.
LEMMA HandlerStepKinds ==
  ASSUME TypeOK, NEW h \in Handler, Orderly(h), HeldBy(h) \subseteq 1..minted, HandlerStep(h)
  PROVE  (Stays(h) \/ Ends(h) \/ Sends(h) \/ Forks(h)) /\ UNCHANGED status
<1> USE DEF task, broker, ghosts, faults
<1>0. /\ WorkType /\ RestType
      /\ At(h) \in Node
      /\ todo[h] \in Seq(Branch) /\ AllApart(todo[h])
      /\ minted \in Nat /\ storeErrors \in Nat /\ activeBranches \in Int
  <2>1. WorkType /\ RestType
    BY TypeSplit
  <2>2. At(h) \in Node /\ todo[h] \in Seq(Branch) /\ AllApart(todo[h])
    BY <2>1 DEF WorkType, At, Branch, Orderly
  <2>3. minted \in Nat /\ storeErrors \in Nat /\ activeBranches \in Int
    BY <2>1, EnvironmentAssumption DEF RestType
  <2>4. QED
    BY <2>1, <2>2, <2>3
<1>1. ASSUME pc[h] \in Holding, NEW stage \in {"fanout", "fail", "publish"}, Goto(h, stage)
      PROVE  Alone(h) /\ Orderly(h)' /\ HeldBy(h)' = HeldBy(h)
  BY <1>0, <1>1, GotoHeld DEF Stages, Holding
<1>2. ASSUME pc[h] \in Holding, Goto(h, "complete") \/ Resume(h, todo[h])
      PROVE  Alone(h) /\ Orderly(h)' /\ HeldBy(h)' = HeldBy(h) \ {cur[h].id}
  <2>1. HeldBy(h)' = Ids(todo[h]) /\ Alone(h) /\ Orderly(h)'
    BY <1>0, <1>2, GotoHeld, ResumeHeld DEF Stages, Holding
  <2>2. QED
    BY <1>2, <2>1, HeldSplit
<1>3. \A s \in {"remove", "exec", "publish", "fanout"} : s \in Holding
  BY DEF Holding
<1>4. CASE RemoveActiveNode(h)
  BY <1>0, <1>1, <1>3, <1>4 DEF RemoveActiveNode, Stays
<1>5. CASE EndBranch(h)
  BY <1>0, <1>2, <1>3, <1>5 DEF EndBranch, Ends
<1>6. CASE NextNodeNotFound(h)
  BY <1>0, <1>1, <1>3, <1>6 DEF NextNodeNotFound, Stays
<1>7. CASE ForkBranches(h)
  <2> DEFINE succ == NextNodes[At(h)]
             fork == [i \in 1..Len(succ) |->
                       [id  |-> IF i = 1 THEN cur[h].id ELSE minted + i - 1,
                        src |-> At(h), dst |-> succ[i]]]
  <2>1. /\ pc[h] = "fanout" /\ succ # <<>> /\ \A i \in DOMAIN succ : succ[i] \in Node
        /\ activeBranches' = activeBranches + Len(succ) - 1
        /\ minted' = minted + Len(succ) - 1
        /\ Resume(h, fork \o todo[h])
        /\ UNCHANGED <<requests, results, storeErrors, status>>
    BY <1>7 DEF ForkBranches, Resolves, BranchesAfterFork
  <2>2. succ \in Seq(NodeIds)
    BY <1>0, BlueprintAssumption
  <2>3. Len(succ) \in Nat \ {0}
    BY <2>1, <2>2, EmptySeq, LenProperties
  <2> HIDE DEF succ
  <2>4. /\ fork \o todo[h] \in Seq(Branch)
        /\ Ids(fork \o todo[h]) = HeldBy(h) \union ((minted + 1)..(minted + Len(succ) - 1))
        /\ AllApart(fork \o todo[h])
    BY <1>0, <1>3, <2>1, <2>2, ForkHeld
  <2> HIDE DEF fork
  <2>5. Alone(h) /\ Orderly(h)' /\ HeldBy(h)' = Ids(fork \o todo[h])
    BY <1>0, <2>1, <2>4, ResumeHeld
  <2>6. /\ minted' \in Nat /\ minted' >= minted
        /\ activeBranches' = activeBranches + (minted' - minted)
    BY <1>0, <2>1, <2>3
  <2>7. QED
    BY <1>3, <2>1, <2>4, <2>5, <2>6 DEF Forks
<1>8. CASE ExecutePluginNode(h)
  BY <1>0, <1>1, <1>3, <1>8 DEF ExecutePluginNode, Stays
<1>9. CASE Publish(h)
  <2>1. CASE channelUp
    <3>1. requests' = requests \union {[id |-> cur[h].id, node |-> At(h)]} /\ Resume(h, todo[h])
      BY <1>9, <2>1 DEF Publish
    <3>2. QED
      BY <1>0, <1>2, <1>3, <1>9, <3>1 DEF Publish, Sends
  <2>2. CASE ~channelUp
    BY <1>0, <1>1, <1>3, <1>9, <2>2 DEF Publish, Stays
  <2>3. QED
    BY <2>1, <2>2
<1>10. CASE ExecuteDataNode(h)
  BY <1>0, <1>1, <1>3, <1>10 DEF ExecuteDataNode, Stays
<1>11. CASE HandleJoinNode(h)
  <2>1. CASE Goto(h, "fanout") /\ UNCHANGED activeBranches
    BY <1>0, <1>1, <1>3, <1>11, <2>1 DEF HandleJoinNode, Stays
  <2>2. CASE Resume(h, todo[h]) /\ activeBranches' = activeBranches - 1
    BY <1>0, <1>2, <1>3, <1>11, <2>2 DEF HandleJoinNode, Ends
  <2>3. QED
    BY <1>11, <2>1, <2>2 DEF HandleJoinNode
<1>12. CASE HandleIFNode(h)
  <2>1. CASE Goto(h, "fail")
    BY <1>0, <1>1, <1>3, <1>12, <2>1 DEF HandleIFNode, Stays
  <2>2. ASSUME NEW i \in 1..2, TakeSuccessor(h, At(h), i)
        PROVE  Stays(h) /\ UNCHANGED status
    BY <1>0, <1>3, <1>12, <2>2, TakeSuccessorHeld DEF HandleIFNode, Stays
  <2>3. QED
    BY <1>12, <2>1, <2>2 DEF HandleIFNode
<1>13. CASE HandleLoopNode(h)
  <2>1. CASE Goto(h, "fail")
    BY <1>0, <1>1, <1>3, <1>13, <2>1 DEF HandleLoopNode, Stays
  <2>2. CASE \E again \in BodyChoices(At(h), loopState[At(h)] + 1) :
               TakeSuccessor(h, At(h), IF again THEN 1 ELSE 2)
    <3>1. PICK i \in {1, 2} : TakeSuccessor(h, At(h), i)
      BY <2>2
    <3>2. Alone(h) /\ Orderly(h)' /\ HeldBy(h)' = HeldBy(h)
      BY <1>0, <1>3, <1>13, <3>1, TakeSuccessorHeld DEF HandleLoopNode
    <3>3. QED
      BY <1>0, <1>13, <3>2 DEF HandleLoopNode, Stays
  <2>3. QED
    BY <1>13, <2>1, <2>2 DEF HandleLoopNode
<1>14. CASE ExecuteUnknownNode(h)
  BY <1>0, <1>1, <1>3, <1>14 DEF ExecuteUnknownNode, Stays
<1>15. QED
  BY <1>4, <1>5, <1>6, <1>7, <1>8, <1>9, <1>10, <1>11, <1>12, <1>13, <1>14 DEF HandlerStep

-----------------------------------------------------------------------------
(* Where the branches are. *)

\* The branches the other handlers hold.
Elsewhere(h) == UNION {HeldBy(g) : g \in Handler \ {h}}

\* A live branch is at a handler, at another one, or out.
LEMMA LiveSplit ==
  ASSUME NEW h \in Handler
  PROVE  /\ LiveBranches = Elsewhere(h) \union HeldBy(h) \union OutIds
         /\ LiveBranches' = Elsewhere(h)' \union HeldBy(h)' \union OutIds'
<1> DEFINE All == UNION {HeldBy(g) : g \in Handler}
<1>1. All = Elsewhere(h) \union HeldBy(h) /\ All' = Elsewhere(h)' \union HeldBy(h)'
  BY DEF Elsewhere
<1>2. LiveBranches = All \union OutIds /\ LiveBranches' = All' \union OutIds'
  BY DEF LiveBranches, OutIds
<1> HIDE DEF All
<1>3. QED
  BY <1>1, <1>2

\* What the others hold stays with them.
LEMMA AloneKeeps ==
  ASSUME NEW h \in Handler, Alone(h)
  PROVE  /\ \A g \in Handler \ {h} : HeldBy(g)' = HeldBy(g) /\ Orderly(g)' = Orderly(g)
         /\ Elsewhere(h)' = Elsewhere(h)
<1>1. ASSUME NEW g \in Handler \ {h}
      PROVE  HeldBy(g)' = HeldBy(g) /\ Orderly(g)' = Orderly(g)
  <2>1. pc'[g] = pc[g] /\ cur'[g] = cur[g] /\ todo'[g] = todo[g]
    BY DEF Alone
  <2>2. QED
    BY <2>1 DEF HeldBy, Orderly, Ids, AllApart
<1>2. Elsewhere(h)' = Elsewhere(h)
  BY <1>1 DEF Elsewhere
<1>3. QED
  BY <1>1, <1>2

\* One handler's step: it may take a result, send its own branches out, and mint new ones.
LEMMA MovesLive ==
  ASSUME LiveParts, minted \in Nat, minted' \in Nat, minted' >= minted,
         NEW h \in Handler, Alone(h), Orderly(h)', OutApart',
         HeldBy(h)' \subseteq HeldBy(h) \union (OutIds \ OutIds') \union ((minted + 1)..minted'),
         OutIds' \subseteq OutIds \union HeldBy(h),
         HeldBy(h)' \intersect OutIds' = {}
  PROVE  LiveParts'
<1>1. /\ \A g \in Handler \ {h} : HeldBy(g)' = HeldBy(g) /\ Orderly(g)' = Orderly(g)
      /\ Elsewhere(h)' = Elsewhere(h)
  BY AloneKeeps
<1>2. /\ LiveBranches = Elsewhere(h) \union HeldBy(h) \union OutIds
      /\ LiveBranches' = Elsewhere(h)' \union HeldBy(h)' \union OutIds'
  BY LiveSplit
<1>3. LiveBranches \subseteq 1..minted
  BY DEF LiveParts
<1>4. LiveBranches' \subseteq 1..minted'
  <2>1. LiveBranches' \subseteq LiveBranches \union ((minted + 1)..minted')
    BY <1>1, <1>2
  <2>2. 1..minted \subseteq 1..minted' /\ ((minted + 1)..minted') \subseteq 1..minted'
    OBVIOUS
  <2>3. QED
    BY <1>3, <2>1, <2>2
<1>5. ASSUME NEW g \in Handler \ {h}
      PROVE  /\ HeldBy(g) \subseteq 1..minted
             /\ HeldBy(g) \intersect OutIds = {} /\ HeldBy(g) \intersect HeldBy(h) = {}
             /\ HeldBy(g) \intersect ((minted + 1)..minted') = {}
  <2>1. HeldBy(g) \subseteq Elsewhere(h)
    BY DEF Elsewhere
  <2>2. HeldBy(g) \subseteq 1..minted
    BY <1>2, <1>3, <2>1
  <2>3. HeldBy(g) \intersect OutIds = {} /\ HeldBy(g) \intersect HeldBy(h) = {}
    BY DEF LiveParts, Apart
  <2>4. \A x \in 1..minted : x \notin (minted + 1)..minted'
    OBVIOUS
  <2>5. QED
    BY <2>2, <2>3, <2>4
<1>6. ASSUME NEW g \in Handler \ {h}
      PROVE  Orderly(g)' /\ Apart(g)'
  <2>1. Orderly(g)' /\ HeldBy(g)' = HeldBy(g)
    BY <1>1 DEF LiveParts
  <2>2. HeldBy(g)' \intersect OutIds' = {} /\ HeldBy(h)' \intersect HeldBy(g)' = {}
    BY <1>5, <2>1
  <2>3. \A f \in Handler \ {g, h} : HeldBy(f)' \intersect HeldBy(g)' = {}
    BY <1>1 DEF LiveParts, Apart
  <2>4. QED
    BY <2>1, <2>2, <2>3 DEF Apart
<1>7. Apart(h)'
  <2>1. \A g \in Handler \ {h} : HeldBy(g)' \intersect HeldBy(h)' = {}
    BY <1>1, <1>5
  <2>2. QED
    BY <2>1 DEF Apart
<1>8. QED
  BY <1>4, <1>6, <1>7 DEF LiveParts

\* The handlers rest, and no branch goes out.
LEMMA RestsLive ==
  ASSUME LiveParts, OutApart', OutIds' \subseteq OutIds, minted' = minted,
         \A g \in Handler : pc'[g] = pc[g] /\ cur'[g] = cur[g] /\ todo'[g] = todo[g]
  PROVE  /\ LiveParts'
         /\ LiveBranches' \subseteq LiveBranches
         /\ OutIds' = OutIds => LiveBranches' = LiveBranches
<1> DEFINE All == UNION {HeldBy(g) : g \in Handler}
<1>1. ASSUME NEW g \in Handler
      PROVE  HeldBy(g)' = HeldBy(g) /\ Orderly(g)'
  BY <1>1 DEF HeldBy, Orderly, Ids, AllApart, LiveParts
<1>2. All' = All
  BY <1>1
<1>3. LiveBranches = All \union OutIds /\ LiveBranches' = All' \union OutIds'
  BY DEF LiveBranches, OutIds
<1> HIDE DEF All
<1>4. ASSUME NEW g \in Handler
      PROVE  Apart(g)'
  <2>1. HeldBy(g)' = HeldBy(g) /\ \A f \in Handler \ {g} : HeldBy(f)' = HeldBy(f)
    BY <1>1
  <2>2. /\ HeldBy(g) \intersect OutIds = {}
        /\ \A f \in Handler \ {g} : HeldBy(f) \intersect HeldBy(g) = {}
    BY DEF LiveParts, Apart
  <2>3. QED
    BY <2>1, <2>2 DEF Apart
<1>5. LiveBranches' \subseteq 1..minted'
  BY <1>2, <1>3 DEF LiveParts
<1>6. QED
  BY <1>1, <1>2, <1>3, <1>4, <1>5 DEF LiveParts

\* There are finitely many.
LEMMA FiniteLive ==
  ASSUME LiveParts, minted \in Nat
  PROVE  IsFiniteSet(LiveBranches) /\ Cardinality(LiveBranches) \in Nat
<1>1. IsFiniteSet(1..minted)
  BY FS_Interval
<1>2. IsFiniteSet(LiveBranches)
  BY <1>1, FS_Subset DEF LiveParts
<1>3. QED
  BY <1>2, FS_CardinalityType

\* The branches stay, and so does the count; fewer branches need no lower one after an error.
LEMMA CountKept ==
  ASSUME LiveParts, minted \in Nat, activeBranches \in Int,
         storeErrors \in Nat, storeErrors' \in Nat,
         Counted, activeBranches' = activeBranches,
         \/ LiveBranches' = LiveBranches /\ storeErrors' >= storeErrors
         \/ LiveBranches' \subseteq LiveBranches /\ storeErrors' > 0
  PROVE  Counted'
<1>1. IsFiniteSet(LiveBranches) /\ Cardinality(LiveBranches) \in Nat
  BY FiniteLive
<1>2. CASE LiveBranches' = LiveBranches /\ storeErrors' >= storeErrors
  BY <1>1, <1>2 DEF Counted
<1>3. CASE LiveBranches' \subseteq LiveBranches /\ storeErrors' > 0
  <2>1. IsFiniteSet(LiveBranches') /\ Cardinality(LiveBranches') <= Cardinality(LiveBranches)
    BY <1>1, <1>3, FS_Subset
  <2>2. Cardinality(LiveBranches') \in Nat
    BY <2>1, FS_CardinalityType
  <2>3. activeBranches >= Cardinality(LiveBranches)
    BY <1>1 DEF Counted
  <2>4. QED
    BY <1>1, <1>3, <2>1, <2>2, <2>3 DEF Counted
<1>4. QED
  BY <1>2, <1>3

\* One branch less.
LEMMA CountEnds ==
  ASSUME LiveParts, minted \in Nat, activeBranches \in Int, Counted,
         NEW b \in LiveBranches, LiveBranches' = LiveBranches \ {b},
         activeBranches' = activeBranches - 1, storeErrors' = storeErrors
  PROVE  Counted'
<1>1. IsFiniteSet(LiveBranches) /\ Cardinality(LiveBranches) \in Nat
  BY FiniteLive
<1>2. Cardinality(LiveBranches') = Cardinality(LiveBranches) - 1
  BY <1>1, FS_RemoveElement
<1>3. QED
  BY <1>1, <1>2 DEF Counted

\* New branches.
LEMMA ForkCount ==
  ASSUME LiveParts, minted \in Nat, minted' \in Nat, minted' >= minted,
         LiveBranches' = LiveBranches \union ((minted + 1)..minted')
  PROVE  Cardinality(LiveBranches') = Cardinality(LiveBranches) + (minted' - minted)
<1> DEFINE New == (minted + 1)..minted'
<1>1. IsFiniteSet(LiveBranches) /\ Cardinality(LiveBranches) \in Nat
  BY FiniteLive
<1>2. IsFiniteSet(New) /\ Cardinality(New) = minted' - minted
  <2>1. minted + 1 \in Int /\ minted' \in Int
    OBVIOUS
  <2>2. /\ IsFiniteSet(New)
        /\ Cardinality(New) = IF minted + 1 > minted' THEN 0 ELSE minted' - (minted + 1) + 1
    BY <2>1, FS_Interval
  <2>3. /\ minted + 1 > minted' => minted' - minted = 0
        /\ minted' - (minted + 1) + 1 = minted' - minted
    <3>1. \A m, n \in Nat : n >= m =>
            (m + 1 > n => n - m = 0) /\ n - (m + 1) + 1 = n - m
      OBVIOUS
    <3>2. QED
      BY <3>1
  <2> HIDE DEF New
  <2>4. CASE minted + 1 > minted'
    BY <2>2, <2>3, <2>4
  <2>5. CASE ~(minted + 1 > minted')
    BY <2>2, <2>3, <2>5
  <2>6. QED
    BY <2>4, <2>5
<1>3. LiveBranches \intersect New = {}
  <2>1. \A x \in 1..minted : x \notin New
    OBVIOUS
  <2>2. QED
    BY <2>1 DEF LiveParts
<1> HIDE DEF New
<1>4. Cardinality(LiveBranches \union New) = Cardinality(LiveBranches) + Cardinality(New)
  <2>1. Cardinality(LiveBranches \union New) =
          Cardinality(LiveBranches) + Cardinality(New) - Cardinality(LiveBranches \intersect New)
    BY <1>1, <1>2, FS_Union
  <2>2. Cardinality(LiveBranches \intersect New) = 0
    BY <1>3, FS_EmptySet
  <2>3. QED
    BY <1>1, <1>2, <2>1, <2>2
<1>5. LiveBranches' = LiveBranches \union New
  BY DEF New
<1>6. Cardinality(LiveBranches') = Cardinality(LiveBranches) + (minted' - minted)
  BY <1>2, <1>4, <1>5
<1>7. QED
  BY <1>6

\* And they are counted.
LEMMA CountForks ==
  ASSUME LiveParts, minted \in Nat, minted' \in Nat, minted' >= minted,
         activeBranches \in Int, Counted,
         LiveBranches' = LiveBranches \union ((minted + 1)..minted'),
         activeBranches' = activeBranches + (minted' - minted), storeErrors' = storeErrors
  PROVE  Counted'
<1>1. IsFiniteSet(LiveBranches) /\ Cardinality(LiveBranches) \in Nat
  BY FiniteLive
<1>2. Cardinality(LiveBranches') = Cardinality(LiveBranches) + (minted' - minted)
  BY ForkCount
<1>3. QED
  BY <1>1, <1>2 DEF Counted

-----------------------------------------------------------------------------
(* Each kind of step keeps the branches apart and the count right. *)

\* What is out stays apart when nothing goes out.
LEMMA OutSame ==
  ASSUME OutApart, UNCHANGED <<requests, results>>
  PROVE  OutApart' /\ OutIds' = OutIds
BY DEF OutApart, OutIds

\* A handler that keeps its branches.
LEMMA StaysLive ==
  ASSUME LiveParts, minted \in Nat, NEW h \in Handler, Stays(h)
  PROVE  LiveParts' /\ LiveBranches' = LiveBranches
<1>1. OutApart' /\ OutIds' = OutIds
  BY OutSame DEF Stays, LiveParts
<1>2. HeldBy(h)' \intersect OutIds' = {}
  BY <1>1 DEF Stays, LiveParts, Apart
<1>3. LiveParts'
  BY <1>1, <1>2, MovesLive DEF Stays
<1>4. LiveBranches' = LiveBranches
  BY <1>1, AloneKeeps, LiveSplit DEF Stays
<1>5. QED
  BY <1>3, <1>4

\* One that drops some.
LEMMA DropsLive ==
  ASSUME LiveParts, minted \in Nat, NEW h \in Handler, Drops(h)
  PROVE  LiveParts' /\ LiveBranches' \subseteq LiveBranches
<1>1. OutApart' /\ OutIds' = OutIds
  BY OutSame DEF Drops, LiveParts
<1>2. HeldBy(h)' \intersect OutIds' = {}
  BY <1>1 DEF Drops, LiveParts, Apart
<1>3. LiveParts'
  BY <1>1, <1>2, MovesLive DEF Drops
<1>4. LiveBranches' \subseteq LiveBranches
  BY <1>1, AloneKeeps, LiveSplit DEF Drops
<1>5. QED
  BY <1>3, <1>4

\* One that ends the branch at hand.
LEMMA EndsLive ==
  ASSUME LiveParts, minted \in Nat, NEW h \in Handler, Ends(h)
  PROVE  /\ LiveParts'
         /\ LiveBranches' = LiveBranches \ {cur[h].id}
         /\ cur[h].id \in LiveBranches
<1>1. OutApart' /\ OutIds' = OutIds
  BY OutSame DEF Ends, LiveParts
<1>2. HeldBy(h)' \intersect OutIds' = {}
  BY <1>1 DEF Ends, LiveParts, Apart
<1>3. LiveParts'
  BY <1>1, <1>2, MovesLive DEF Ends
<1>4. cur[h].id \in HeldBy(h)
  BY HeldSplit DEF Ends, LiveParts
<1>5. cur[h].id \notin OutIds /\ cur[h].id \notin Elsewhere(h)
  BY <1>4 DEF LiveParts, Apart, Elsewhere
<1>6. LiveBranches' = LiveBranches \ {cur[h].id} /\ cur[h].id \in LiveBranches
  BY <1>1, <1>4, <1>5, AloneKeeps, LiveSplit DEF Ends
<1>7. QED
  BY <1>3, <1>6

\* One that sends it to a plugin.
LEMMA SendsLive ==
  ASSUME LiveParts, minted \in Nat, NEW h \in Handler, Sends(h)
  PROVE  LiveParts' /\ LiveBranches' = LiveBranches
<1>1. cur[h].id \in HeldBy(h) /\ cur[h].id \notin OutIds
  BY HeldSplit DEF Sends, LiveParts, Apart
<1>2. PICK n \in Node : requests' = requests \union {[id |-> cur[h].id, node |-> n]}
  BY DEF Sends
<1>3. OutIds' = OutIds \union {cur[h].id}
  <2>1. {q.id : q \in requests'} = {q.id : q \in requests} \union {cur[h].id}
    <3> DEFINE new == [id |-> cur[h].id, node |-> n]
    <3>1. new.id = cur[h].id /\ requests' = requests \union {new}
      BY <1>2
    <3> HIDE DEF new
    <3>2. QED
      BY <3>1
  <2>2. results' = results
    BY DEF Sends
  <2>3. QED
    BY <2>1, <2>2 DEF OutIds
<1>4. OutApart'
  <2>1. /\ \A q \in requests : q.id # cur[h].id
        /\ \A r \in results : r.id # cur[h].id
    BY <1>1 DEF OutIds
  <2>2. results' = results /\ OutApart
    BY DEF Sends, LiveParts
  <2>3. QED
    BY <1>2, <2>1, <2>2 DEF OutApart
<1>5. HeldBy(h)' \intersect OutIds' = {}
  BY <1>3 DEF Sends, LiveParts, Apart
<1>6. LiveParts'
  BY <1>1, <1>3, <1>4, <1>5, MovesLive DEF Sends
<1>7. LiveBranches' = LiveBranches
  BY <1>1, <1>3, AloneKeeps, LiveSplit DEF Sends
<1>8. QED
  BY <1>6, <1>7

\* One that forks.
LEMMA ForksLive ==
  ASSUME LiveParts, minted \in Nat, NEW h \in Handler, Forks(h)
  PROVE  LiveParts' /\ LiveBranches' = LiveBranches \union ((minted + 1)..minted')
<1>1. OutApart' /\ OutIds' = OutIds
  BY OutSame DEF Forks, LiveParts
<1>2. HeldBy(h)' \intersect OutIds' = {}
  <2>1. OutIds \subseteq 1..minted
    BY LiveSplit DEF LiveParts
  <2>2. \A x \in 1..minted : x \notin (minted + 1)..minted'
    BY DEF Forks
  <2>3. QED
    BY <1>1, <2>1, <2>2 DEF Forks, LiveParts, Apart
<1>3. LiveParts'
  BY <1>1, <1>2, MovesLive DEF Forks
<1>4. LiveBranches' = LiveBranches \union ((minted + 1)..minted')
  BY <1>1, AloneKeeps, LiveSplit DEF Forks
<1>5. QED
  BY <1>3, <1>4

-----------------------------------------------------------------------------
(* The steps. *)

\* What every step leaves to show: the branches are apart, the count is right while the Task
\* runs, and where there is no branch left none comes back.
AccountsKept ==
  /\ LiveParts'
  /\ status' = "running" => Counted'
  /\ status # "none" /\ LiveBranches = {} => LiveBranches' = {}

\* The inductive invariant.
AInv == IInv /\ LiveParts /\ NotStarted /\ (status = "running" => Counted)

\* The numbers.
LEMMA NumberTypes ==
  ASSUME TypeOK
  PROVE  minted \in Nat /\ activeBranches \in Int /\ storeErrors \in Nat
BY EnvironmentAssumption DEF TypeOK

\* The walk.
LEMMA HandlerAccounts ==
  ASSUME AInv, TypeOK', NEW h \in Handler, HandlerStep(h)
  PROVE  AccountsKept
<1>1. /\ TypeOK /\ LiveParts /\ Orderly(h) /\ Apart(h)
      /\ minted \in Nat /\ activeBranches \in Int /\ storeErrors \in Nat /\ storeErrors' \in Nat
  BY NumberTypes, EnvironmentAssumption DEF AInv, IInv, LiveParts, TypeOK
<1>2. HeldBy(h) \subseteq LiveBranches /\ HeldBy(h) \subseteq 1..minted
  BY <1>1, LiveSplit DEF LiveParts
<1>3. (Stays(h) \/ Ends(h) \/ Sends(h) \/ Forks(h)) /\ UNCHANGED status
  BY <1>1, <1>2, HandlerStepKinds
<1>4. CASE Stays(h)
  <2>1. LiveParts' /\ LiveBranches' = LiveBranches
    BY <1>1, <1>4, StaysLive
  <2>2. activeBranches' = activeBranches /\ storeErrors' >= storeErrors
    BY <1>4 DEF Stays
  <2>3. status' = "running" => Counted'
    BY <1>1, <1>3, <2>1, <2>2, CountKept DEF AInv
  <2>4. QED
    BY <2>1, <2>3 DEF AccountsKept
<1>5. CASE Ends(h)
  <2>1. /\ LiveParts' /\ LiveBranches' = LiveBranches \ {cur[h].id}
        /\ cur[h].id \in LiveBranches
    BY <1>1, <1>5, EndsLive
  <2>2. activeBranches' = activeBranches - 1 /\ storeErrors' = storeErrors
    BY <1>5 DEF Ends
  <2>3. status' = "running" => Counted'
    BY <1>1, <1>3, <2>1, <2>2, CountEnds DEF AInv
  <2>4. QED
    BY <2>1, <2>3 DEF AccountsKept
<1>6. CASE Sends(h)
  <2>1. LiveParts' /\ LiveBranches' = LiveBranches
    BY <1>1, <1>6, SendsLive
  <2>2. activeBranches' = activeBranches /\ storeErrors' = storeErrors
    BY <1>6 DEF Sends
  <2>3. storeErrors' >= storeErrors
    BY <1>1, <2>2
  <2>4. status' = "running" => Counted'
    BY <1>1, <1>3, <2>1, <2>2, <2>3, CountKept DEF AInv
  <2>5. QED
    BY <2>1, <2>4 DEF AccountsKept
<1>7. CASE Forks(h)
  <2>1. LiveParts' /\ LiveBranches' = LiveBranches \union ((minted + 1)..minted')
    BY <1>1, <1>7, ForksLive
  <2>2. /\ activeBranches' = activeBranches + (minted' - minted) /\ storeErrors' = storeErrors
        /\ minted' \in Nat /\ minted' >= minted /\ pc[h] \in Holding
    BY <1>7 DEF Forks
  <2>3. status' = "running" => Counted'
    BY <1>1, <1>3, <2>1, <2>2, CountForks DEF AInv
  <2>4. LiveBranches # {}
    BY <1>1, <1>2, <2>2, HeldSplit
  <2>5. QED
    BY <2>1, <2>3, <2>4 DEF AccountsKept
<1>8. QED
  BY <1>3, <1>4, <1>5, <1>6, <1>7

\* A Task begins with one branch.
LEMMA TriggerAccounts ==
  ASSUME AInv, NEW h \in Handler, Trigger(h)
  PROVE  AccountsKept
<1>1. /\ TypeOK /\ LiveParts /\ LiveBranches = {} /\ minted = 0 /\ status = "none"
      /\ \A g \in Handler : pc[g] = "idle"
  BY DEF AInv, IInv, NotStarted, Trigger
<1>2. WorkType
  BY <1>1, TypeSplit
<1>3. /\ activeBranches' = 1 /\ minted' = 1 /\ storeErrors' = storeErrors
      /\ UNCHANGED <<requests, results>>
      /\ pc'[h] = "exec" /\ cur'[h] = FirstBranch /\ todo' = todo
      /\ Alone(h)
  BY <1>2 DEF Trigger, broker, faults, WorkType, Alone
<1>4. todo[h] = <<>> /\ Orderly(h)
  BY <1>1 DEF LiveParts, Orderly
<1>5. DOMAIN <<>> = {} /\ FirstBranch.id = 1
  BY DEF FirstBranch
<1>6. Orderly(h)' /\ HeldBy(h)' = {1}
  BY <1>3, <1>4, <1>5 DEF Orderly, AllApart, HeldBy, Ids, Holding
<1>7. OutApart' /\ OutIds' = OutIds
  BY <1>1, <1>3, OutSame DEF LiveParts
<1>8. OutIds = {} /\ Elsewhere(h) = {}
  BY <1>1, LiveSplit
<1>9. LiveParts'
  <2>1. 1..0 = {} /\ (0 + 1)..1 = {1} /\ 1 >= 0
    OBVIOUS
  <2>2. HeldBy(h)' \subseteq HeldBy(h) \union (OutIds \ OutIds') \union ((minted + 1)..minted')
    BY <1>1, <1>3, <1>6, <2>1
  <2>3. minted \in Nat /\ minted' \in Nat /\ minted' >= minted
    BY <1>1, <1>3
  <2>4. QED
    BY <1>1, <1>3, <1>6, <1>7, <1>8, <2>2, <2>3, MovesLive
<1>10. LiveBranches' = {1}
  BY <1>3, <1>6, <1>7, <1>8, LiveSplit, AloneKeeps
<1>11. Cardinality(LiveBranches') = 1
  BY <1>10, FS_Singleton
<1>12. Counted'
  BY <1>3, <1>11 DEF Counted
<1>13. QED
  BY <1>1, <1>9, <1>12 DEF AccountsKept

\* A result is taken up where its branch left off, or ignored.
LEMMA ReceiveAccounts ==
  ASSUME AInv, NEW h \in Handler, NEW r \in results, Receive(h, r)
  PROVE  AccountsKept
<1>1. /\ TypeOK /\ LiveParts /\ Orderly(h) /\ Apart(h) /\ OutApart
      /\ minted \in Nat /\ activeBranches \in Int /\ storeErrors \in Nat
  BY NumberTypes DEF AInv, IInv, LiveParts
<1>2. WorkType
  BY <1>1, TypeSplit
<1>3. /\ results' = results \ {r}
      /\ UNCHANGED <<requests, minted, activeBranches, storeErrors, status>>
  BY DEF Receive, task, ghosts, faults
<1>4. OutApart' /\ OutIds' = OutIds \ {r.id}
  <2>1. OutApart'
    BY <1>1, <1>3 DEF OutApart
  <2>2. {p.id : p \in results'} = {p.id : p \in results} \ {r.id}
    BY <1>1, <1>3 DEF OutApart
  <2>3. r.id \notin {q.id : q \in requests}
    BY <1>1 DEF OutApart
  <2>4. QED
    BY <1>3, <2>1, <2>2, <2>3 DEF OutIds
<1>5. CASE status # "running"
  <2>1. UNCHANGED work
    BY <1>5 DEF Receive
  <2>2. LiveParts' /\ LiveBranches' \subseteq LiveBranches
    BY <1>1, <1>3, <1>4, <2>1, RestsLive DEF work
  <2>3. QED
    BY <1>3, <1>5, <2>2 DEF AccountsKept
<1>6. CASE status = "running"
  <2>1. /\ pc[h] = "idle" /\ pc'[h] \in {"remove", "fail"} /\ cur'[h].id = r.id /\ todo' = todo
        /\ Alone(h)
    BY <1>2, <1>6 DEF Receive, WorkType, Alone
  <2>2. todo[h] = <<>>
    BY <1>1, <2>1 DEF Orderly
  <2>3. DOMAIN <<>> = {}
    OBVIOUS
  <2>4. Orderly(h)' /\ HeldBy(h)' = {r.id}
    BY <2>1, <2>2, <2>3 DEF Orderly, AllApart, HeldBy, Ids, Holding
  <2>5. HeldBy(h) = {}
    BY <2>1, <2>2, <2>3 DEF HeldBy, Holding
  <2>6. r.id \in OutIds
    BY DEF OutIds
  <2>7. LiveParts'
    <3>1. minted' \in Nat /\ minted' >= minted
      BY <1>1, <1>3
    <3>2. QED
      BY <1>1, <1>4, <2>1, <2>4, <2>6, <3>1, MovesLive
  <2>8. LiveBranches' = LiveBranches
    <3>1. LiveBranches = Elsewhere(h) \union OutIds
      BY <2>5, LiveSplit
    <3>2. LiveBranches' = Elsewhere(h) \union {r.id} \union OutIds'
      BY <2>1, <2>4, LiveSplit, AloneKeeps
    <3>3. QED
      BY <1>4, <2>6, <3>1, <3>2
  <2>9. Counted'
    <3>1. Counted /\ storeErrors' \in Nat /\ storeErrors' >= storeErrors
      BY <1>1, <1>3, <1>6 DEF AInv
    <3>2. QED
      BY <1>1, <1>3, <2>8, <3>1, CountKept
  <2>10. QED
    BY <2>7, <2>8, <2>9 DEF AccountsKept
<1>7. QED
  BY <1>5, <1>6

\* A plugin that answers sends the branch back.
LEMMA AnswerAccounts ==
  ASSUME AInv, NEW q \in requests, NEW ok \in BOOLEAN, PluginAnswers(q, ok)
  PROVE  AccountsKept
<1>1. /\ TypeOK /\ LiveParts /\ OutApart
      /\ minted \in Nat /\ activeBranches \in Int /\ storeErrors \in Nat
  BY NumberTypes DEF AInv, IInv, LiveParts
<1>2. /\ requests' = requests \ {q}
      /\ UNCHANGED <<pc, cur, todo, minted, activeBranches, storeErrors, status>>
  BY DEF PluginAnswers, task, work, ghosts, faults
<1>3. PICK new : new.id = q.id /\ results' = results \union {new}
  <2>1. results' = results \union {[id |-> q.id, node |-> q.node, ok |-> ok]}
    BY DEF PluginAnswers
  <2>2. QED
    BY <2>1
<1>4. OutApart'
  BY <1>1, <1>2, <1>3 DEF OutApart
<1>5. OutIds' = OutIds
  <2>1. {p.id : p \in requests'} = {p.id : p \in requests} \ {q.id}
    BY <1>1, <1>2 DEF OutApart
  <2>2. {p.id : p \in results'} = {p.id : p \in results} \union {q.id}
    BY <1>3
  <2>3. q.id \in {p.id : p \in requests}
    OBVIOUS
  <2>4. QED
    BY <2>1, <2>2, <2>3 DEF OutIds
<1>6. LiveParts' /\ LiveBranches' = LiveBranches
  BY <1>1, <1>2, <1>4, <1>5, RestsLive
<1>7. status' = "running" => Counted'
  <2>1. storeErrors' \in Nat /\ storeErrors' >= storeErrors
    BY <1>1, <1>2
  <2>2. QED
    BY <1>1, <1>2, <1>6, <2>1, CountKept DEF AInv
<1>8. QED
  BY <1>6, <1>7 DEF AccountsKept

\* A worker that is no handler holds no branch.
LEMMA OthersRest ==
  ASSUME WorkType, NEW w \in {Watchdog, Health},
         (\E stage : Goto(w, stage)) \/ (\E rest : Resume(w, rest))
  PROVE  \A g \in Handler : pc'[g] = pc[g] /\ cur'[g] = cur[g] /\ todo'[g] = todo[g]
<1>1. w \notin Handler
  BY WorkersAssumption
<1>2. CASE \E stage : Goto(w, stage)
  BY <1>1, <1>2 DEF Goto, WorkType
<1>3. ASSUME NEW rest, Resume(w, rest)
      PROVE  \A g \in Handler : pc'[g] = pc[g] /\ cur'[g] = cur[g] /\ todo'[g] = todo[g]
  <2>1. CASE rest = <<>>
    BY <1>1, <1>3, <2>1 DEF Resume, WorkType
  <2>2. CASE rest # <<>>
    BY <1>1, <1>3, <2>2 DEF Resume, WorkType
  <2>3. QED
    BY <2>1, <2>2
<1>4. QED
  BY <1>2, <1>3

\* What a handler that goes to tell, or goes on with its siblings, still holds.
LEMMA FinishDrops ==
  ASSUME TypeOK, NEW h \in Handler, Orderly(h), UNCHANGED <<requests, results, minted>>,
         \/ \E stage \in TellStages : Goto(h, stage)
         \/ Resume(h, todo[h])
         \/ Resume(h, <<>>)
  PROVE  Drops(h)
<1>1. WorkType /\ todo[h] \in Seq(Branch) /\ <<>> \in Seq(Branch) /\ AllApart(todo[h])
  BY TypeSplit, EmptySeq DEF WorkType, Orderly
<1>2. AllApart(<<>>) /\ Ids(<<>>) = {}
  BY DEF AllApart, Ids
<1>3. Ids(todo[h]) \subseteq HeldBy(h)
  BY DEF Ids, HeldBy
<1>4. CASE \E stage \in TellStages : Goto(h, stage)
  BY <1>1, <1>3, <1>4, GotoHeld DEF TellStages, Stages, Holding, Drops
<1>5. CASE Resume(h, todo[h])
  BY <1>1, <1>3, <1>5, ResumeHeld DEF Drops
<1>6. CASE Resume(h, <<>>)
  BY <1>1, <1>2, <1>6, ResumeHeld DEF Drops
<1>7. QED
  BY <1>4, <1>5, <1>6

\* What completeTask, failTask and sendCallback do to a worker; afterwards the Task is over.
LEMMA FinishWork ==
  ASSUME IInv, NEW w \in Worker, FinishStep(w)
  PROVE  /\ UNCHANGED <<requests, results, minted>>
         /\ (\E stage \in TellStages : Goto(w, stage)) \/ Resume(w, todo[w])
         /\ status' # "running"
         /\ status = "none" => status' = "none"
<1>1. CASE CompleteTask(w) \/ FailTask(w)
  BY <1>1 DEF CompleteTask, FailTask, MarkTerminal, MayFinish, broker, ghosts, TellStages
<1>2. CASE SendCallback(w)
  BY <1>2, SendCallbackKeeps DEF SendCallback, ghosts
<1>3. QED
  BY <1>1, <1>2 DEF FinishStep

\* The end of a Task.
LEMMA FinishAccounts ==
  ASSUME AInv, NEW w \in Worker, FinishStep(w)
  PROVE  AccountsKept
<1>1. /\ UNCHANGED <<requests, results, minted>> /\ status' # "running"
      /\ (\E stage \in TellStages : Goto(w, stage)) \/ Resume(w, todo[w])
  BY FinishWork DEF AInv
<1>2. TypeOK /\ LiveParts /\ minted \in Nat /\ WorkType
  BY NumberTypes, TypeSplit DEF AInv, IInv
<1>3. CASE w \in Handler
  <2>1. Drops(w)
    BY <1>1, <1>2, <1>3, FinishDrops DEF LiveParts
  <2>2. LiveParts' /\ LiveBranches' \subseteq LiveBranches
    BY <1>2, <1>3, <2>1, DropsLive
  <2>3. QED
    BY <1>1, <2>2 DEF AccountsKept
<1>4. CASE w \in {Watchdog, Health}
  <2>1. \A g \in Handler : pc'[g] = pc[g] /\ cur'[g] = cur[g] /\ todo'[g] = todo[g]
    BY <1>1, <1>2, <1>4, OthersRest
  <2>2. OutApart' /\ OutIds' = OutIds
    BY <1>1, <1>2, OutSame DEF LiveParts
  <2>3. LiveParts' /\ LiveBranches' = LiveBranches
    BY <1>1, <1>2, <2>1, <2>2, RestsLive
  <2>4. QED
    BY <1>1, <2>3 DEF AccountsKept
<1>5. QED
  BY <1>3, <1>4

\* A failed call of the store loses what the goroutine held, and leaves it counted.
LEMMA ErrorAccounts ==
  ASSUME AInv, NEW w \in Worker, StoreError(w)
  PROVE  AccountsKept
<1>1. /\ UNCHANGED <<requests, results, minted, activeBranches, status>>
      /\ Resume(w, <<>>) /\ storeErrors' = storeErrors + 1
  BY DEF StoreError, task, broker, ghosts
<1>2. /\ TypeOK /\ LiveParts /\ WorkType
      /\ minted \in Nat /\ activeBranches \in Int /\ storeErrors \in Nat
  BY NumberTypes, TypeSplit DEF AInv, IInv
<1>3. LiveParts' /\ LiveBranches' \subseteq LiveBranches
  <2>1. CASE w \in Handler
    <3>1. Drops(w)
      BY <1>1, <1>2, <2>1, FinishDrops DEF LiveParts
    <3>2. QED
      BY <1>2, <2>1, <3>1, DropsLive
  <2>2. CASE w \in {Watchdog, Health}
    <3>1. \A g \in Handler : pc'[g] = pc[g] /\ cur'[g] = cur[g] /\ todo'[g] = todo[g]
      BY <1>1, <1>2, <2>2, OthersRest
    <3>2. OutApart' /\ OutIds' = OutIds
      BY <1>1, <1>2, OutSame DEF LiveParts
    <3>3. QED
      BY <1>1, <1>2, <3>1, <3>2, RestsLive
  <2>3. QED
    BY <2>1, <2>2
<1>4. status' = "running" => Counted'
  <2>1. storeErrors' \in Nat /\ storeErrors' > 0
    BY <1>1, <1>2
  <2>2. QED
    BY <1>1, <1>2, <1>3, <2>1, CountKept DEF AInv
<1>5. QED
  BY <1>3, <1>4 DEF AccountsKept

\* The watchdog's sweep, the plugin-down report and the channel touch no branch.
LEMMA RestAccounts ==
  ASSUME AInv, SweepExpiredTasks \/ FailTasksByPlugin \/ ChannelCloses \/ UNCHANGED vars
  PROVE  /\ AccountsKept
         /\ UNCHANGED <<requests, results, minted>> /\ LiveBranches' = LiveBranches
         /\ \A g \in Handler : pc'[g] = pc[g] /\ cur'[g] = cur[g] /\ todo'[g] = todo[g]
<1>1. UNCHANGED <<requests, results, minted, activeBranches, storeErrors, status>>
  BY DEF SweepExpiredTasks, FailTasksByPlugin, ChannelCloses, vars, task, broker, ghosts, faults
<1>2. /\ TypeOK /\ LiveParts /\ WorkType
      /\ minted \in Nat /\ activeBranches \in Int /\ storeErrors \in Nat
  BY NumberTypes, TypeSplit DEF AInv, IInv
<1>3. \A g \in Handler : pc'[g] = pc[g] /\ cur'[g] = cur[g] /\ todo'[g] = todo[g]
  <2>1. CASE SweepExpiredTasks \/ FailTasksByPlugin
    BY <1>2, <2>1, OthersRest DEF SweepExpiredTasks, FailTasksByPlugin
  <2>2. CASE ChannelCloses \/ UNCHANGED vars
    BY <2>2 DEF ChannelCloses, vars, work
  <2>3. QED
    BY <2>1, <2>2
<1>4. OutApart' /\ OutIds' = OutIds
  BY <1>1, <1>2, OutSame DEF LiveParts
<1>5. LiveParts' /\ LiveBranches' = LiveBranches
  BY <1>1, <1>2, <1>3, <1>4, RestsLive
<1>6. status' = "running" => Counted'
  <2>1. storeErrors' \in Nat /\ storeErrors' >= storeErrors
    BY <1>1, <1>2
  <2>2. QED
    BY <1>1, <1>2, <1>5, <2>1, CountKept DEF AInv
<1>7. QED
  BY <1>1, <1>3, <1>5, <1>6 DEF AccountsKept

\* Before the Task is created there is nothing to walk.
LEMMA NotStartedKept ==
  ASSUME AInv, Next, DeliveredOnce
  PROVE  NotStarted'
<1>1. SUFFICES ASSUME status' = "none"
               PROVE  LiveBranches' = {} /\ minted' = 0 /\ \A h \in Handler : pc'[h] = "idle"
  BY DEF NotStarted
<1>2. status = "none"
  BY <1>1, StatusStep DEF AInv, IInv, TypeOK
<1>3. LiveBranches = {} /\ minted = 0 /\ \A h \in Handler : pc[h] = "idle"
  BY <1>2 DEF AInv, NotStarted
<1>4. requests = {} /\ results = {}
  BY <1>3 DEF LiveBranches
<1>5. ASSUME NEW h \in Handler
      PROVE  ~Trigger(h) /\ ~HandlerStep(h) /\ ~Redeliver(h) /\ ~FinishStep(h) /\ ~StoreError(h)
  <2>1. pc[h] = "idle"
    BY <1>3
  <2>2. ~Trigger(h)
    BY <1>1 DEF Trigger
  <2>3. ~HandlerStep(h)
    BY <2>1 DEF HandlerStep, RemoveActiveNode, EndBranch, NextNodeNotFound, ForkBranches,
                ExecutePluginNode, Publish, ExecuteDataNode, HandleJoinNode, HandleIFNode,
                HandleLoopNode, ExecuteUnknownNode
  <2>4. ~Redeliver(h)
    BY EnvironmentAssumption DEF Redeliver, DeliveredOnce, AInv, IInv, TypeOK
  <2>5. ~FinishStep(h) /\ ~StoreError(h)
    BY <2>1 DEF FinishStep, CompleteTask, FailTask, SendCallback, Telling, StoreError, CallsStore
  <2>6. QED
    BY <2>2, <2>3, <2>4, <2>5
<1>6. ASSUME NEW w \in {Watchdog, Health}, FinishStep(w) \/ StoreError(w)
      PROVE  /\ UNCHANGED <<requests, results, minted>>
             /\ \A g \in Handler : pc'[g] = pc[g] /\ cur'[g] = cur[g] /\ todo'[g] = todo[g]
  <2>1. WorkType
    BY TypeSplit DEF AInv, IInv
  <2>2. CASE FinishStep(w)
    BY <2>1, <2>2, FinishWork, OthersRest DEF AInv
  <2>3. CASE StoreError(w)
    BY <2>1, <2>3, OthersRest DEF StoreError, broker, ghosts
  <2>4. QED
    BY <1>6, <2>2, <2>3
<1>7. ~Crash
  BY EnvironmentAssumption DEF Crash, DeliveredOnce, AInv, IInv, TypeOK
<1>8. \/ \E w \in {Watchdog, Health} : FinishStep(w) \/ StoreError(w)
      \/ SweepExpiredTasks \/ FailTasksByPlugin \/ ChannelCloses
  BY <1>4, <1>5, <1>7 DEF Next
<1>9. /\ UNCHANGED <<requests, results, minted>>
      /\ \A g \in Handler : pc'[g] = pc[g] /\ cur'[g] = cur[g] /\ todo'[g] = todo[g]
  BY <1>6, <1>8, RestAccounts
<1>10. LiveBranches' = {}
  <2>1. OutApart' /\ OutIds' = OutIds
    BY <1>9, OutSame DEF AInv, LiveParts
  <2>2. QED
    BY <1>3, <1>9, <2>1, RestsLive DEF AInv
<1>11. QED
  BY <1>3, <1>9, <1>10

\* Every step keeps the branches apart and the count right.
LEMMA NextAccounts ==
  ASSUME AInv, [Next]_vars, DeliveredOnce
  PROVE  AccountsKept
<1>1. TypeOK'
  BY StepInv DEF AInv, IInv
<1>2. ASSUME NEW h \in Handler
      PROVE  ~Redeliver(h)
  BY EnvironmentAssumption DEF Redeliver, DeliveredOnce, AInv, IInv, TypeOK
<1>3. ~Crash
  BY EnvironmentAssumption DEF Crash, DeliveredOnce, AInv, IInv, TypeOK
<1>4. CASE \E h \in Handler : Trigger(h) \/ HandlerStep(h)
  BY <1>1, <1>4, TriggerAccounts, HandlerAccounts
<1>5. CASE \E h \in Handler, r \in results : Receive(h, r)
  BY <1>5, ReceiveAccounts
<1>6. CASE \E q \in requests, ok \in BOOLEAN : PluginAnswers(q, ok)
  BY <1>6, AnswerAccounts
<1>7. CASE \E w \in Worker : FinishStep(w) \/ StoreError(w)
  BY <1>7, FinishAccounts, ErrorAccounts
<1>8. CASE SweepExpiredTasks \/ FailTasksByPlugin \/ ChannelCloses \/ UNCHANGED vars
  BY <1>8, RestAccounts
<1>9. QED
  BY <1>2, <1>3, <1>4, <1>5, <1>6, <1>7, <1>8 DEF Next

\* Nothing is out at the start.
LEMMA InitAccounts == Init => AInv
<1> SUFFICES ASSUME Init
             PROVE  AInv
  OBVIOUS
<1>1. IInv
  BY InitInv
<1>2. DOMAIN <<>> = {}
  OBVIOUS
<1>3. OutIds = {} /\ OutApart
  BY DEF Init, OutIds, OutApart
<1>4. ASSUME NEW h \in Handler
      PROVE  HeldBy(h) = {} /\ Orderly(h) /\ pc[h] = "idle"
  BY <1>2 DEF Init, HeldBy, Orderly, AllApart, Ids, Holding
<1>5. LiveBranches = {}
  <2>1. UNION {HeldBy(h) : h \in Handler} = {}
    BY <1>4
  <2>2. QED
    BY <2>1 DEF LiveBranches, Init
<1>6. LiveParts
  BY <1>3, <1>4, <1>5 DEF LiveParts, Apart
<1>7. QED
  BY <1>1, <1>4, <1>5, <1>6 DEF AInv, NotStarted, Init

\* The branches are apart and counted in every reachable state.
LEMMA AccountsInvariance == DeliveredOnce => (Spec => []AInv)
<1> SUFFICES ASSUME DeliveredOnce
             PROVE  Spec => []AInv
  OBVIOUS
<1>1. AInv /\ [Next]_vars => AInv'
  <2> SUFFICES ASSUME AInv, [Next]_vars
               PROVE  AInv'
    OBVIOUS
  <2>1. IInv'
    BY StepInv DEF AInv
  <2>2. NotStarted'
    <3>1. CASE Next
      BY <3>1, NotStartedKept
    <3>2. CASE UNCHANGED vars
      <4>1. LiveBranches' = LiveBranches /\ UNCHANGED minted
        BY <3>2, RestAccounts
      <4>2. UNCHANGED <<status, pc>>
        BY <3>2 DEF vars, task, work
      <4>3. QED
        BY <4>1, <4>2 DEF AInv, NotStarted
    <3>3. QED
      BY <3>1, <3>2
  <2>3. QED
    BY <2>1, <2>2, NextAccounts DEF AInv, AccountsKept
<1>2. QED
  BY InitAccounts, <1>1, PTL DEF Spec

\* While the Task runs, Task.ActiveBranches is the number of its live branches, for every
\* Blueprint and however forks, ends, joins and results of any number of handlers interleave;
\* a failed call of the TaskStore can only leave it too high.  Results are taken to be
\* handled once: a redelivery ends its branch twice, and a crash loses the siblings of one.
THEOREM BranchesAreCounted == DeliveredOnce => (Spec => []BranchAccounting)
<1> SUFFICES ASSUME DeliveredOnce
             PROVE  Spec => []BranchAccounting
  OBVIOUS
<1>1. AInv => BranchAccounting
  BY DEF AInv, Counted, BranchAccounting
<1>2. Spec => []AInv
  BY AccountsInvariance
<1>3. QED
  BY <1>1, <1>2, PTL

-----------------------------------------------------------------------------
(* The last branch. *)

\* No node leads to the empty id, by which an IF or LOOP ends the Task at once.
NoExit == Exit \notin NodeIds

\* Who has ended the last branch finds none left, and neither does a completed Task.
LastInv ==
  /\ AInv
  /\ \A w \in Worker : pc[w] # "exit"
  /\ \A w \in {Watchdog, Health} : pc[w] # "complete"
  /\ status = "running" /\ (\E w \in Worker : pc[w] = "complete") => LiveBranches = {}
  /\ status = "completed" => LiveBranches = {}

\* Only the worker that moves changes its stage.
LEMMA GotoStage ==
  ASSUME WorkType, NEW w \in Worker, NEW stage, Goto(w, stage), NEW v \in Worker
  PROVE  pc'[v] = IF v = w THEN stage ELSE pc[v]
BY DEF WorkType, Goto

\* A worker that goes on takes its next branch or has none.
LEMMA ResumeStage ==
  ASSUME WorkType, NEW w \in Worker, NEW rest, Resume(w, rest), NEW v \in Worker
  PROVE  IF v = w THEN pc'[v] \in {"idle", "exec"} ELSE pc'[v] = pc[v]
<1>1. CASE rest = <<>>
  BY <1>1 DEF WorkType, Resume
<1>2. CASE rest # <<>>
  BY <1>2 DEF WorkType, Resume
<1>3. QED
  BY <1>1, <1>2

\* Without an empty id, a node that has been chosen is entered or is missing.
LEMMA TakeSuccessorStage ==
  ASSUME WorkType, NEW w \in Worker, NEW n \in Node, NEW i \in {1, 2},
         Len(NextNodes[n]) >= 2, NoExit, TakeSuccessor(w, n, i), NEW v \in Worker
  PROVE  IF v = w THEN pc'[v] \in {"idle", "exec", "fail"} ELSE pc'[v] = pc[v]
<1>1. NextNodes[n] \in Seq(NodeIds)
  BY BlueprintAssumption
<1>2. NextNodes[n][i] \in NodeIds
  <2>1. Len(NextNodes[n]) \in Nat /\ DOMAIN NextNodes[n] = 1..Len(NextNodes[n])
    BY <1>1
  <2>2. i \in DOMAIN NextNodes[n]
    BY <2>1
  <2>3. QED
    BY <1>1, <2>2
<1>3. NextNodes[n][i] # Exit
  BY <1>2 DEF NoExit
<1>4. CASE NextNodes[n][i] \notin Node
  BY <1>3, <1>4, GotoStage DEF TakeSuccessor
<1>5. CASE NextNodes[n][i] \in Node
  BY <1>3, <1>5, ResumeStage DEF TakeSuccessor
<1>6. QED
  BY <1>4, <1>5

\* Only the walk's last branch brings a handler to completeTask.
LEMMA NextStage ==
  ASSUME TypeOK, [Next]_vars, DeliveredOnce, NoExit, NEW v \in Worker
  PROVE  \/ pc'[v] = pc[v]
         \/ pc'[v] \notin {"exit", "complete"}
         \/ v \in Handler /\ EndBranch(v) /\ activeBranches' <= 0 /\ UNCHANGED status
<1> DEFINE Elsewhen == pc'[v] = pc[v] \/ pc'[v] \notin {"exit", "complete"}
<1>1. WorkType
  BY TypeSplit
<1>2. ASSUME NEW w \in Worker, NEW stage, stage \notin {"exit", "complete"}, Goto(w, stage)
      PROVE  Elsewhen
  BY <1>1, <1>2, GotoStage
<1>3. ASSUME NEW w \in Worker, NEW rest, Resume(w, rest)
      PROVE  Elsewhen
  BY <1>1, <1>3, ResumeStage
<1>4. ASSUME NEW h \in Handler, NEW i \in {1, 2},
             Len(NextNodes[At(h)]) >= 2, TakeSuccessor(h, At(h), i)
      PROVE  Elsewhen
  <2>1. At(h) \in Node
    BY <1>1 DEF WorkType, At, Branch
  <2>2. QED
    BY <1>1, <1>4, <2>1, TakeSuccessorStage
<1>5. ASSUME UNCHANGED pc
      PROVE  Elsewhen
  BY <1>5
<1> HIDE DEF Elsewhen
<1>6. ASSUME NEW h \in Handler, HandlerStep(h)
      PROVE  Elsewhen \/ (v = h /\ EndBranch(v) /\ activeBranches' <= 0 /\ UNCHANGED status)
  <2>1. CASE RemoveActiveNode(h)
    BY <1>2, <2>1 DEF RemoveActiveNode
  <2>2. CASE EndBranch(h)
    <3>1. CASE IsLastBranch
      <4>1. Goto(h, "complete") /\ UNCHANGED status /\ activeBranches' <= 0
        BY <2>2, <3>1 DEF EndBranch, IsLastBranch
      <4>2. v # h => pc'[v] = pc[v]
        BY <1>1, <4>1, GotoStage
      <4>3. QED
        BY <2>2, <4>1, <4>2 DEF Elsewhen
    <3>2. CASE ~IsLastBranch
      BY <1>3, <2>2, <3>2 DEF EndBranch
    <3>3. QED
      BY <3>1, <3>2
  <2>3. CASE NextNodeNotFound(h)
    BY <1>2, <2>3 DEF NextNodeNotFound
  <2>4. CASE ForkBranches(h)
    BY <1>3, <2>4 DEF ForkBranches
  <2>5. CASE ExecutePluginNode(h)
    BY <1>2, <2>5 DEF ExecutePluginNode
  <2>6. CASE Publish(h)
    BY <1>2, <1>3, <2>6 DEF Publish
  <2>7. CASE ExecuteDataNode(h)
    BY <1>2, <2>7 DEF ExecuteDataNode
  <2>8. CASE HandleJoinNode(h)
    BY <1>2, <1>3, <2>8 DEF HandleJoinNode
  <2>9. CASE HandleIFNode(h)
    <3>1. CASE Goto(h, "fail")
      BY <1>2, <3>1
    <3>2. CASE Len(NextNodes[At(h)]) >= 2 /\ \E i \in 1..2 : TakeSuccessor(h, At(h), i)
      <4>1. PICK i \in {1, 2} : TakeSuccessor(h, At(h), i)
        BY <3>2
      <4>2. QED
        BY <1>4, <3>2, <4>1
    <3>3. QED
      BY <2>9, <3>1, <3>2 DEF HandleIFNode
  <2>10. CASE HandleLoopNode(h)
    <3>1. CASE Goto(h, "fail")
      BY <1>2, <3>1
    <3>2. CASE /\ Len(NextNodes[At(h)]) >= 2
               /\ \E again \in BodyChoices(At(h), loopState[At(h)] + 1) :
                    TakeSuccessor(h, At(h), IF again THEN 1 ELSE 2)
      <4>1. PICK i \in {1, 2} : TakeSuccessor(h, At(h), i)
        BY <3>2
      <4>2. QED
        BY <1>4, <3>2, <4>1
    <3>3. QED
      BY <2>10, <3>1, <3>2 DEF HandleLoopNode
  <2>11. CASE ExecuteUnknownNode(h)
    BY <1>2, <2>11 DEF ExecuteUnknownNode
  <2>12. QED
    BY <1>6, <2>1, <2>2, <2>3, <2>4, <2>5, <2>6, <2>7, <2>8, <2>9, <2>10, <2>11 DEF HandlerStep
<1>7. ASSUME NEW h \in Handler, Trigger(h)
      PROVE  Elsewhen
  BY <1>1, <1>7 DEF Trigger, WorkType, Elsewhen
<1>8. ASSUME NEW h \in Handler, NEW r \in results, Receive(h, r)
      PROVE  Elsewhen
  BY <1>1, <1>8 DEF Receive, WorkType, work, Elsewhen
<1>9. ASSUME NEW w \in Worker, FinishStep(w)
      PROVE  Elsewhen
  BY <1>2, <1>3, <1>9 DEF FinishStep, CompleteTask, FailTask, MarkTerminal, SendCallback
<1>10. ASSUME NEW w \in Worker, StoreError(w)
      PROVE  Elsewhen
  BY <1>3, <1>10 DEF StoreError
<1>11. CASE SweepExpiredTasks \/ FailTasksByPlugin
  <2>1. Goto(Watchdog, "fail") \/ Goto(Health, "fail")
    BY <1>11 DEF SweepExpiredTasks, FailTasksByPlugin
  <2>2. CASE Goto(Watchdog, "fail")
    BY <1>1, <2>2, GotoStage DEF Elsewhen
  <2>3. CASE Goto(Health, "fail")
    BY <1>1, <2>3, GotoStage DEF Elsewhen
  <2>4. QED
    BY <2>1, <2>2, <2>3
<1>12. CASE \/ ChannelCloses
            \/ UNCHANGED vars
            \/ \E q \in requests, ok \in BOOLEAN : PluginAnswers(q, ok)
  BY <1>5, <1>12 DEF ChannelCloses, PluginAnswers, vars, work
<1>13. ~Crash /\ \A h \in Handler : ~Redeliver(h)
  BY EnvironmentAssumption DEF Crash, Redeliver, DeliveredOnce, TypeOK
<1>14. QED
  BY <1>6, <1>7, <1>8, <1>9, <1>10, <1>11, <1>12, <1>13 DEF Next, Elsewhen

\* A Task is completed from completeTask, or by an IF or LOOP that leads nowhere.
LEMMA CompletedStep ==
  ASSUME IInv, [Next]_vars, status # "completed", status' = "completed"
  PROVE  status = "running" /\ \E w \in Worker : pc[w] \in {"complete", "exit"}
<1>1. status = "running"
  BY StatusStep DEF IInv, TypeOK
<1>2. ~Quiet
  BY <1>1 DEF Quiet
<1>3. ASSUME NEW w \in Worker, SendCallback(w)
      PROVE  FALSE
  BY <1>3, SendCallbackKeeps
<1>4. ASSUME NEW w \in Worker, FailTask(w)
      PROVE  FALSE
  BY <1>1, <1>4 DEF FailTask, MarkTerminal
<1>5. \E w \in Worker : CompleteTask(w)
  BY <1>2, <1>3, <1>4, StepInv
<1>6. QED
  BY <1>1, <1>5 DEF CompleteTask

\* So it is in every reachable state.
LEMMA LastInvariance == DeliveredOnce /\ NoExit => (Spec => []LastInv)
<1> SUFFICES ASSUME DeliveredOnce, NoExit
             PROVE  Spec => []LastInv
  OBVIOUS
<1>1. Init /\ AInv => LastInv
  BY DEF Init, LastInv
<1>2. LastInv /\ AInv' /\ [Next]_vars => LastInv'
  <2> SUFFICES ASSUME LastInv, AInv', [Next]_vars
               PROVE  LastInv'
    OBVIOUS
  <2>1. TypeOK /\ IInv /\ AInv
    BY DEF LastInv, AInv, IInv
  <2>2. /\ LiveParts'
        /\ status' = "running" => Counted'
        /\ status # "none" /\ LiveBranches = {} => LiveBranches' = {}
    BY <2>1, NextAccounts DEF AccountsKept
  <2>3. \A w \in Worker : pc'[w] # "exit"
    <3>1. ASSUME NEW w \in Handler, EndBranch(w)
          PROVE  pc'[w] # "exit"
      <4>1. WorkType /\ w \in Worker
        BY <2>1, TypeSplit
      <4>2. CASE IsLastBranch
        BY <3>1, <4>1, <4>2, GotoStage DEF EndBranch
      <4>3. CASE ~IsLastBranch
        BY <3>1, <4>1, <4>3, ResumeStage DEF EndBranch
      <4>4. QED
        BY <4>2, <4>3
    <3>2. QED
      BY <2>1, <3>1, NextStage DEF LastInv
  <2>4. \A w \in {Watchdog, Health} : pc'[w] # "complete"
    BY <2>1, WorkersAssumption, NextStage DEF LastInv
  <2>5. ASSUME status' = "running", NEW w \in Worker, pc'[w] = "complete"
        PROVE  LiveBranches' = {}
    <3>1. CASE pc[w] = "complete"
      <4>1. status # "none"
        BY <3>1, WorkersAssumption DEF LastInv, AInv, NotStarted
      <4>2. status = "running"
        BY <2>1, <2>5, <4>1, StatusStep DEF IInv, TypeOK
      <4>3. QED
        BY <2>2, <3>1, <4>2 DEF LastInv
    <3>2. CASE pc[w] # "complete"
      <4>1. activeBranches' <= 0
        BY <2>1, <2>5, <3>2, NextStage
      <4>2. minted' \in Nat /\ activeBranches' \in Int
        BY DEF AInv, IInv, TypeOK
      <4>3. IsFiniteSet(LiveBranches') /\ Cardinality(LiveBranches') \in Nat
        <5>1. IsFiniteSet(1..minted') /\ LiveBranches' \subseteq 1..minted'
          BY <2>2, <4>2, FS_Interval DEF LiveParts
        <5>2. QED
          BY <5>1, FS_Subset, FS_CardinalityType
      <4>4. Cardinality(LiveBranches') <= 0
        BY <2>2, <2>5, <4>1, <4>2, <4>3 DEF Counted
      <4>5. QED
        BY <4>3, <4>4, FS_EmptySet
    <3>3. QED
      BY <3>1, <3>2
  <2>6. ASSUME status' = "completed"
        PROVE  LiveBranches' = {}
    <3>1. CASE status = "completed"
      BY <2>2, <3>1 DEF LastInv
    <3>2. CASE status # "completed"
      BY <2>1, <2>2, <2>6, <3>2, CompletedStep DEF LastInv
    <3>3. QED
      BY <3>1, <3>2
  <2>7. QED
    BY <2>3, <2>4, <2>5, <2>6 DEF LastInv
<1>3. Spec => []AInv
  BY AccountsInvariance
<1>4. QED
  BY <1>1, <1>2, <1>3, PTL DEF Spec

\* A completed Task has left no branch behind: none is still being walked, is on its way to a
\* plugin or on its way back, unless an IF or LOOP led to the empty id (MCExitEarly.cfg).
THEOREM LastBranchCompletes ==
  DeliveredOnce /\ NoExit => (Spec => [](status = "completed" => LiveBranches = {}))
<1> SUFFICES ASSUME DeliveredOnce, NoExit
             PROVE  Spec => [](status = "completed" => LiveBranches = {})
  OBVIOUS
<1>1. LastInv => (status = "completed" => LiveBranches = {})
  BY DEF LastInv
<1>2. Spec => []LastInv
  BY LastInvariance
<1>3. QED
  BY <1>1, <1>2, PTL

-----------------------------------------------------------------------------
(***************************************************************************)
(* The table of deadlines is keyed by node, not by branch.  It loses sight *)
(* of a branch only when the result of another one at the same plugin node *)
(* takes their common entry away.                                          *)
(***************************************************************************)

\* The branches at plugins: going out, out, on the way back, just back.
AtPlugins ==
  {[id |-> m.id, node |-> m.node] : m \in requests \union results}
    \union {[id |-> cur[h].id, node |-> At(h)] :
              h \in {g \in Handler : pc[g] \in {"publish", "remove"}}}

\* No two of them are at one node.
OneAtEachNode == \A p, q \in AtPlugins : p.node = q.node => p = q

\* A node is registered before its request leaves.
Watched ==
  storeErrors = 0 =>
    /\ \A m \in requests \union results : m.node \in activeNodes
    /\ \A h \in Handler : pc[h] = "publish" => At(h) \in activeNodes

\* Nobody comes to publish.
NonePublishes ==
  \A g \in Handler : pc'[g] = "publish" => pc[g] = "publish" /\ cur'[g] = cur[g]

\* A worker that moves on does not come to publish, and the others stay.
LEMMA GotoPublishesNone ==
  ASSUME WorkType, NEW w \in Worker, NEW stage, stage # "publish", Goto(w, stage)
  PROVE  NonePublishes
BY DEF WorkType, Goto, NonePublishes

\* So does one that goes on.
LEMMA ResumePublishesNone ==
  ASSUME WorkType, NEW w \in Worker, NEW rest, Resume(w, rest)
  PROVE  NonePublishes
<1>1. CASE rest = <<>>
  BY <1>1 DEF WorkType, Resume, NonePublishes
<1>2. CASE rest # <<>>
  BY <1>2 DEF WorkType, Resume, NonePublishes
<1>3. QED
  BY <1>1, <1>2

\* With nobody new at publish, nothing newly out and no entry taken away, nothing is lost.
LEMMA WatchedKept ==
  ASSUME Watched, NonePublishes, storeErrors' = 0 => storeErrors = 0,
         activeNodes \subseteq activeNodes',
         \A m \in (requests \union results)' :
           \E p \in requests \union results : m.node = p.node
  PROVE  Watched'
BY DEF Watched, NonePublishes, At

\* The walk.
LEMMA HandlerWatched ==
  ASSUME AInv, OneAtEachNode, Watched, NEW h \in Handler, HandlerStep(h)
  PROVE  Watched'
<1>1. WorkType /\ h \in Worker /\ storeErrors \in Nat
  BY TypeSplit, NumberTypes DEF AInv, IInv
<1>2. ASSUME NonePublishes, UNCHANGED <<storeErrors, activeNodes, requests, results>>
      PROVE  Watched'
  BY <1>2, WatchedKept
<1>3. ASSUME NEW stage, stage # "publish", Goto(h, stage)
      PROVE  NonePublishes
  BY <1>1, <1>3, GotoPublishesNone
<1>4. ASSUME NEW rest, Resume(h, rest)
      PROVE  NonePublishes
  BY <1>1, <1>4, ResumePublishesNone
<1>5. ASSUME NEW n, NEW i, TakeSuccessor(h, n, i)
      PROVE  NonePublishes
  BY <1>3, <1>4, <1>5 DEF TakeSuccessor
<1>6. CASE RemoveActiveNode(h)
  <2>1. NonePublishes /\ pc'[h] # "publish" /\ pc[h] = "remove"
    BY <1>1, <1>3, <1>6, GotoStage DEF RemoveActiveNode
  <2>2. /\ UNCHANGED <<storeErrors, requests, results>>
        /\ activeNodes' = activeNodes \ {At(h)}
    BY <1>6 DEF RemoveActiveNode, broker, faults, ReleaseNode
  <2>3. cur[h].id \in HeldBy(h) /\ [id |-> cur[h].id, node |-> At(h)] \in AtPlugins
    BY <2>1 DEF HeldBy, Holding, AtPlugins
  <2>4. ASSUME NEW m \in requests \union results
        PROVE  m.node # At(h)
    <3>1. m.id \in OutIds /\ [id |-> m.id, node |-> m.node] \in AtPlugins
      BY DEF OutIds, AtPlugins
    <3>2. m.id # cur[h].id
      BY <2>3, <3>1 DEF AInv, LiveParts, Apart
    <3>3. QED
      BY <2>3, <3>1, <3>2 DEF OneAtEachNode
  <2>5. ASSUME NEW g \in Handler, pc[g] = "publish"
        PROVE  At(g) # At(h)
    <3>1. cur[g].id \in HeldBy(g) /\ [id |-> cur[g].id, node |-> At(g)] \in AtPlugins
      BY <2>5 DEF HeldBy, Holding, AtPlugins
    <3>2. cur[g].id # cur[h].id
      BY <2>1, <2>3, <2>5, <3>1 DEF AInv, LiveParts, Apart
    <3>3. QED
      BY <2>3, <3>1, <3>2 DEF OneAtEachNode
  <2>6. QED
    BY <2>1, <2>2, <2>4, <2>5 DEF Watched, NonePublishes, At
<1>7. CASE ExecutePluginNode(h)
  <2>1. UNCHANGED <<requests, results>> /\ storeErrors' >= storeErrors /\ Goto(h, "publish")
    BY <1>1, <1>7 DEF ExecutePluginNode, broker
  <2>2. storeErrors' = 0 => storeErrors = 0 /\ activeNodes' = activeNodes \union {At(h)}
    BY <1>1, <1>7 DEF ExecutePluginNode, RegisterNode
  <2>3. \A g \in Handler : cur'[g] = cur[g] /\ (g # h => pc'[g] = pc[g])
    BY <1>1, <2>1 DEF Goto, WorkType
  <2>4. QED
    BY <2>1, <2>2, <2>3 DEF Watched, At
<1>8. CASE Publish(h)
  <2>1. UNCHANGED <<storeErrors, activeNodes, results>> /\ pc[h] = "publish"
    BY <1>8 DEF Publish, task, faults
  <2>2. NonePublishes
    BY <1>3, <1>4, <1>8 DEF Publish
  <2>3. requests' \subseteq requests \union {[id |-> cur[h].id, node |-> At(h)]}
    BY <1>8 DEF Publish
  <2>4. QED
    BY <2>1, <2>2, <2>3 DEF Watched, NonePublishes, At
<1>9. CASE EndBranch(h)
  BY <1>2, <1>3, <1>4, <1>9 DEF EndBranch, broker, faults
<1>10. CASE NextNodeNotFound(h)
  BY <1>2, <1>3, <1>10 DEF NextNodeNotFound, task, broker, faults
<1>11. CASE ForkBranches(h)
  BY <1>2, <1>4, <1>11 DEF ForkBranches, broker, faults
<1>12. CASE ExecuteDataNode(h)
  BY <1>2, <1>3, <1>12 DEF ExecuteDataNode, task, broker, faults
<1>13. CASE HandleJoinNode(h)
  BY <1>2, <1>3, <1>4, <1>13 DEF HandleJoinNode, broker, faults
<1>14. CASE HandleIFNode(h)
  BY <1>2, <1>3, <1>5, <1>14 DEF HandleIFNode, task, broker, faults
<1>15. CASE HandleLoopNode(h)
  BY <1>2, <1>3, <1>5, <1>15 DEF HandleLoopNode, broker, faults
<1>16. CASE ExecuteUnknownNode(h)
  BY <1>2, <1>3, <1>16 DEF ExecuteUnknownNode, task, broker, faults
<1>17. QED
  BY <1>6, <1>7, <1>8, <1>9, <1>10, <1>11, <1>12, <1>13, <1>14, <1>15, <1>16 DEF HandlerStep

\* Every other step leaves the table alone.
LEMMA NextWatched ==
  ASSUME AInv, OneAtEachNode, Watched, DeliveredOnce, [Next]_vars
  PROVE  Watched'
<1>1. TypeOK /\ WorkType /\ storeErrors \in Nat
  BY TypeSplit, NumberTypes DEF AInv, IInv
<1>2. ASSUME NonePublishes, UNCHANGED <<storeErrors, activeNodes, requests, results>>
      PROVE  Watched'
  BY <1>2, WatchedKept
<1>3. ASSUME NEW w \in Worker, NEW stage, stage # "publish", Goto(w, stage)
      PROVE  NonePublishes
  BY <1>1, <1>3, GotoPublishesNone
<1>4. ASSUME NEW w \in Worker, NEW rest, Resume(w, rest)
      PROVE  NonePublishes
  BY <1>1, <1>4, ResumePublishesNone
<1>5. ASSUME UNCHANGED <<pc, cur>>
      PROVE  NonePublishes
  BY <1>5 DEF NonePublishes
<1>6. ASSUME NEW h \in Handler, HandlerStep(h)
      PROVE  Watched'
  BY <1>6, HandlerWatched
<1>7. ASSUME NEW h \in Handler, Trigger(h)
      PROVE  Watched'
  <2>1. NonePublishes
    BY <1>1, <1>7 DEF Trigger, WorkType, NonePublishes
  <2>2. QED
    BY <1>2, <1>7, <2>1 DEF Trigger, broker, faults
<1>8. ASSUME NEW h \in Handler, NEW r \in results, Receive(h, r)
      PROVE  Watched'
  <2>1. NonePublishes
    BY <1>1, <1>5, <1>8 DEF Receive, WorkType, work, NonePublishes
  <2>2. UNCHANGED <<storeErrors, activeNodes, requests>> /\ results' \subseteq results
    BY <1>8 DEF Receive, task, faults
  <2>3. QED
    BY <2>1, <2>2, WatchedKept
<1>9. ASSUME NEW q \in requests, NEW ok \in BOOLEAN, PluginAnswers(q, ok)
      PROVE  Watched'
  <2>1. NonePublishes
    BY <1>5, <1>9 DEF PluginAnswers, work
  <2>2. /\ UNCHANGED <<storeErrors, activeNodes>> /\ requests' \subseteq requests
        /\ results' = results \union {[id |-> q.id, node |-> q.node, ok |-> ok]}
    BY <1>9 DEF PluginAnswers, task, faults
  <2>3. ASSUME NEW m \in (requests \union results)'
        PROVE  \E p \in requests \union results : m.node = p.node
    BY <2>2
  <2>4. QED
    BY <2>1, <2>2, <2>3, WatchedKept
<1>10. ASSUME NEW w \in Worker, CompleteTask(w) \/ FailTask(w)
       PROVE  Watched'
  BY <1>2, <1>3, <1>4, <1>10 DEF CompleteTask, FailTask, MarkTerminal, broker, faults
<1>11. ASSUME NEW w \in Worker, SendCallback(w)
       PROVE  Watched'
  BY <1>2, <1>4, <1>11 DEF SendCallback, task, faults
<1>12. ASSUME NEW w \in Worker, StoreError(w)
       PROVE  Watched'
  BY <1>1, <1>12 DEF StoreError, Watched
<1>13. CASE SweepExpiredTasks
  BY <1>2, <1>3, <1>13 DEF SweepExpiredTasks, task, broker, faults
<1>14. CASE FailTasksByPlugin
  BY <1>2, <1>3, <1>14 DEF FailTasksByPlugin, task, broker, faults
<1>15. CASE ChannelCloses
  BY <1>2, <1>5, <1>15 DEF ChannelCloses, task, work, faults
<1>16. CASE UNCHANGED vars
  BY <1>2, <1>5, <1>16 DEF vars, task, work, broker, faults
<1>17. ~Crash /\ \A h \in Handler : ~Redeliver(h)
  BY <1>1, EnvironmentAssumption DEF Crash, Redeliver, DeliveredOnce, TypeOK
<1>18. QED
  BY <1>6, <1>7, <1>8, <1>9, <1>10, <1>11, <1>12, <1>13, <1>14, <1>15, <1>16, <1>17
     DEF Next, FinishStep

\* In a run in which no two branches are ever at one plugin node together, every request that
\* is out, and every result that waits, is in Task.ActiveNodes for the watchdog to see: a
\* result takes away its own entry only.  MCSharedNode.cfg shows two branches that do meet.
THEOREM RequestsAreWatched ==
  DeliveredOnce => (Spec /\ []OneAtEachNode => []InFlightIsWatched)
<1> SUFFICES ASSUME DeliveredOnce
             PROVE  Spec /\ []OneAtEachNode => []InFlightIsWatched
  OBVIOUS
<1>1. Init => Watched
  BY WorkersAssumption DEF Init, Watched
<1>2. Watched /\ AInv /\ OneAtEachNode /\ [Next]_vars => Watched'
  BY NextWatched
<1>3. Watched => InFlightIsWatched
  BY DEF Watched, InFlightIsWatched
<1>4. Spec => []AInv
  BY AccountsInvariance
<1>5. QED
  BY <1>1, <1>2, <1>3, <1>4, PTL DEF Spec

-----------------------------------------------------------------------------
(***************************************************************************)
(* A JOIN counts arrivals.  Counting is as good as looking at the edges    *)
(* while no node arrives twice in one round, because every arrival comes   *)
(* over an edge and there are no fewer edges than nodes they come from.    *)
(***************************************************************************)

\* A branch is at the end of an edge, or where the Task started.
OnEdge(b) == b.dst = Entry \/ b.src \in Sources(b.dst)

Walked(w) ==
  /\ pc[w] = "exec" => OnEdge(cur[w])
  /\ \A i \in DOMAIN todo[w] : OnEdge(todo[w][i])

\* JoinState is the number of the nodes that have arrived.
RoundCounted(n) ==
  /\ joined[n] \subseteq Sources(n)
  /\ IsFiniteSet(joined[n])
  /\ Cardinality(joined[n]) = joinState[n]

JoinInv ==
  /\ \A w \in Worker : Walked(w)
  /\ \A n \in Node : RoundCounted(n)

\* A branch at a JOIN comes from a node that has not arrived in this round.
EachSourceOnce ==
  \A h \in Handler :
    pc[h] = "exec" /\ Kind[At(h)] = "join" => cur[h].src \notin joined[At(h)]

\* A JOIN has at least as many incoming edges as nodes they come from.
LEMMA EdgesCoverSources ==
  ASSUME NEW n \in Node
  PROVE  /\ IsFiniteSet(Sources(n)) /\ Cardinality(Sources(n)) \in Nat
         /\ IsFiniteSet(InEdges(n)) /\ countInEdges(n) \in Nat
         /\ Cardinality(Sources(n)) <= countInEdges(n)
<1> DEFINE Out(m) == {<<m, i>> : i \in DOMAIN NextNodes[m]}
           AllOut == {Out(m) : m \in Node}
<1>1. ASSUME NEW m \in Node
      PROVE  IsFiniteSet(Out(m))
  <2>1. NextNodes[m] \in Seq(NodeIds)
    BY BlueprintAssumption
  <2>2. Len(NextNodes[m]) \in Nat /\ DOMAIN NextNodes[m] = 1..Len(NextNodes[m])
    BY <2>1
  <2>3. IsFiniteSet(DOMAIN NextNodes[m])
    BY <2>2, FS_Interval
  <2>4. [i \in DOMAIN NextNodes[m] |-> <<m, i>>] \in Surjection(DOMAIN NextNodes[m], Out(m))
    BY DEF Surjection
  <2>5. QED
    BY <2>3, <2>4, FS_Surjection
<1>2. IsFiniteSet(AllOut)
  <2>1. [m \in Node |-> Out(m)] \in Surjection(Node, AllOut)
    BY DEF Surjection
  <2>2. QED
    BY <2>1, FS_Surjection, BlueprintAssumption
<1>3. IsFiniteSet(UNION AllOut)
  BY <1>1, <1>2, FS_UNION
<1>4. InEdges(n) \subseteq UNION AllOut
  BY DEF InEdges
<1>5. IsFiniteSet(InEdges(n))
  BY <1>3, <1>4, FS_Subset
<1>6. [e \in InEdges(n) |-> e[1]] \in Surjection(InEdges(n), Sources(n))
  BY DEF Surjection, Sources
<1>7. QED
  BY <1>5, <1>6, FS_Surjection, FS_CardinalityType DEF countInEdges

\* A successor is reached over an edge.
LEMMA SuccessorOnEdge ==
  ASSUME NEW n \in Node, NEW i \in DOMAIN NextNodes[n], NextNodes[n][i] \in Node
  PROVE  n \in Sources(NextNodes[n][i])
<1> DEFINE m == NextNodes[n][i]
<1>1. <<n, i>> \in UNION {{<<k, j>> : j \in DOMAIN NextNodes[k]} : k \in Node}
  OBVIOUS
<1>2. <<n, i>> \in InEdges(m)
  BY <1>1 DEF InEdges
<1>3. QED
  BY <1>2 DEF Sources

\* A worker that changes its stage keeps its branches.
LEMMA GotoWalked ==
  ASSUME WorkType, NEW w \in Worker, NEW stage, stage # "exec", Goto(w, stage),
         \A v \in Worker : Walked(v)
  PROVE  \A v \in Worker : Walked(v)'
BY DEF WorkType, Goto, Walked

\* One that goes on takes its branch from those it was given.
LEMMA ResumeWalked ==
  ASSUME WorkType, NEW w \in Worker, NEW rest \in Seq(Branch), Resume(w, rest),
         \A i \in DOMAIN rest : OnEdge(rest[i]),
         \A v \in Worker : Walked(v)
  PROVE  \A v \in Worker : Walked(v)'
<1>1. ASSUME NEW v \in Worker, v # w
      PROVE  Walked(v)'
  <2>1. pc'[v] = pc[v] /\ cur'[v] = cur[v] /\ todo'[v] = todo[v]
    BY <1>1 DEF WorkType, Resume
  <2>2. QED
    BY <2>1 DEF Walked
<1>2. CASE rest = <<>>
  <2>1. pc'[w] = "idle" /\ todo'[w] = <<>>
    BY <1>2 DEF WorkType, Resume
  <2>2. DOMAIN todo'[w] = {}
    BY <2>1
  <2>3. Walked(w)'
    BY <2>1, <2>2 DEF Walked
  <2>4. QED
    BY <1>1, <2>3
<1>3. CASE rest # <<>>
  <2>1. cur'[w] = Head(rest) /\ todo'[w] = Tail(rest)
    BY <1>3 DEF WorkType, Resume
  <2>2. /\ Head(rest) = rest[1] /\ 1 \in DOMAIN rest
        /\ \A i \in DOMAIN Tail(rest) : i + 1 \in DOMAIN rest /\ Tail(rest)[i] = rest[i + 1]
    BY <1>3
  <2>3. Walked(w)'
    BY <2>1, <2>2 DEF Walked
  <2>4. QED
    BY <1>1, <2>3
<1>4. QED
  BY <1>2, <1>3

\* A worker's next sibling, or nothing.
LEMMA TodoWalked ==
  ASSUME WorkType, NEW w \in Worker, Resume(w, todo[w]), \A v \in Worker : Walked(v)
  PROVE  \A v \in Worker : Walked(v)'
<1>1. todo[w] \in Seq(Branch)
  BY DEF WorkType
<1>2. \A i \in DOMAIN todo[w] : OnEdge(todo[w][i])
  BY DEF Walked
<1>3. QED
  BY <1>1, <1>2, ResumeWalked

\* New branches in front of a worker's siblings.
LEMMA FrontWalked ==
  ASSUME WorkType, NEW w \in Worker, NEW s \in Seq(Branch), Resume(w, s \o todo[w]),
         \A i \in DOMAIN s : OnEdge(s[i]),
         \A v \in Worker : Walked(v)
  PROVE  \A v \in Worker : Walked(v)'
<1>1. todo[w] \in Seq(Branch) /\ s \o todo[w] \in Seq(Branch)
  BY DEF WorkType
<1>2. ASSUME NEW i \in DOMAIN (s \o todo[w])
      PROVE  OnEdge((s \o todo[w])[i])
  <2>1. /\ Len(s) \in Nat /\ Len(todo[w]) \in Nat
        /\ DOMAIN s = 1..Len(s) /\ DOMAIN todo[w] = 1..Len(todo[w])
        /\ i \in 1..(Len(s) + Len(todo[w]))
        /\ (s \o todo[w])[i] = IF i <= Len(s) THEN s[i] ELSE todo[w][i - Len(s)]
    BY <1>1
  <2>2. CASE i <= Len(s)
    BY <2>1, <2>2
  <2>3. CASE i > Len(s)
    <3>1. i - Len(s) \in DOMAIN todo[w]
      BY <2>1, <2>3
    <3>2. QED
      BY <2>1, <2>3, <3>1 DEF Walked
  <2>4. QED
    BY <2>1, <2>2, <2>3
<1>3. QED
  BY <1>1, <1>2, ResumeWalked

\* An IF or LOOP follows an edge.
LEMMA SuccessorWalked ==
  ASSUME WorkType, NEW w \in Worker, NEW i \in DOMAIN NextNodes[At(w)],
         TakeSuccessor(w, At(w), i), \A v \in Worker : Walked(v)
  PROVE  \A v \in Worker : Walked(v)'
<1> DEFINE next == NextNodes[At(w)][i]
<1>1. cur[w] \in Branch /\ At(w) \in Node
  BY DEF WorkType, At, Branch
<1>2. CASE next = Exit \/ next \notin Node
  BY <1>2, GotoWalked DEF TakeSuccessor
<1>3. CASE next # Exit /\ next \in Node
  <2>1. Resume(w, <<BranchTo(w, next)>> \o todo[w])
    BY <1>3 DEF TakeSuccessor
  <2>2. BranchTo(w, next) \in Branch /\ OnEdge(BranchTo(w, next))
    BY <1>1, <1>3, SuccessorOnEdge DEF BranchTo, Branch, OnEdge
  <2>3. /\ <<BranchTo(w, next)>> \in Seq(Branch)
        /\ \A k \in DOMAIN <<BranchTo(w, next)>> : OnEdge(<<BranchTo(w, next)>>[k])
    BY <2>2
  <2>4. QED
    BY <2>1, <2>3, FrontWalked
<1>4. QED
  BY <1>2, <1>3

\* A fork's branches are each on an edge.
LEMMA ForkWalked ==
  ASSUME TypeOK, NEW h \in Handler, ForkBranches(h), \A v \in Worker : Walked(v)
  PROVE  \A v \in Worker : Walked(v)'
<1> DEFINE succ == NextNodes[At(h)]
           fork == [i \in 1..Len(succ) |->
                     [id  |-> IF i = 1 THEN cur[h].id ELSE minted + i - 1,
                      src |-> At(h), dst |-> succ[i]]]
<1>1. WorkType /\ minted \in Nat /\ h \in Worker
  BY TypeSplit DEF TypeOK
<1>2. At(h) \in Node /\ cur[h].id \in Nat
  BY <1>1 DEF WorkType, Branch, At
<1>3. Len(succ) \in Nat /\ DOMAIN succ = 1..Len(succ)
  <2>1. succ \in Seq(NodeIds)
    BY <1>2, BlueprintAssumption
  <2>2. QED
    BY <2>1
<1>4. Resolves(At(h)) /\ Resume(h, fork \o todo[h])
  BY DEF ForkBranches
<1>5. \A i \in 1..Len(succ) : fork[i] \in Branch /\ OnEdge(fork[i])
  BY <1>1, <1>2, <1>3, <1>4, SuccessorOnEdge DEF Branch, Resolves, OnEdge
<1>6. DOMAIN fork = 1..Len(succ)
  OBVIOUS
<1> HIDE DEF fork, succ
<1>7. fork \in Seq(Branch)
  <2>1. fork \in [1..Len(succ) -> Branch]
    BY <1>5, <1>6 DEF fork
  <2>2. QED
    BY <2>1, <1>3, IsASeq
<1>8. QED
  BY <1>1, <1>4, <1>5, <1>6, <1>7, FrontWalked

\* An arrival counts its node once; the one that is let through was the last to miss.
LEMMA ArrivalMerges ==
  ASSUME TypeOK, JoinInv, EachSourceOnce, Kind[Entry] # "join",
         NEW h \in Handler, HandleJoinNode(h)
  PROVE  /\ \A n \in Node : RoundCounted(n)'
         /\ pc'[h] = "fanout" => joined[At(h)] \union {cur[h].src} = Sources(At(h))
<1> DEFINE n == At(h)
           src == cur[h].src
           Now == joined[n] \union {src}
<1>1. WorkType /\ h \in Worker
  BY TypeSplit
<1>2. n \in Node /\ pc[h] = "exec" /\ Kind[n] = "join"
  BY <1>1 DEF HandleJoinNode, WorkType, Branch, At
<1>3. joined \in [Node -> SUBSET Node] /\ joinState \in [Node -> Nat]
  BY DEF TypeOK
<1>4. RoundCounted(n) /\ src \in Sources(n) /\ src \notin joined[n]
  BY <1>1, <1>2 DEF JoinInv, Walked, OnEdge, EachSourceOnce, At
<1>5. IsFiniteSet(Now) /\ Cardinality(Now) = joinState[n] + 1 /\ Now \subseteq Sources(n)
  BY <1>4, FS_AddElement DEF RoundCounted
<1>6. countInEdges(n) <= joinState[n] + 1 => Now = Sources(n)
  <2>1. Cardinality(Now) <= Cardinality(Sources(n)) /\ Cardinality(Sources(n)) <= countInEdges(n)
    BY <1>2, <1>5, EdgesCoverSources, FS_Subset
  <2>2. /\ Cardinality(Sources(n)) \in Nat /\ countInEdges(n) \in Nat
        /\ IsFiniteSet(Sources(n)) /\ joinState[n] \in Nat
    BY <1>2, <1>3, EdgesCoverSources
  <2>3. countInEdges(n) <= joinState[n] + 1 => Cardinality(Now) = Cardinality(Sources(n))
    BY <1>5, <2>1, <2>2
  <2>4. QED
    BY <1>5, <2>2, <2>3, FS_Subset
<1>7. countInEdges(n) \in Nat /\ joinState[n] \in Nat
  BY <1>2, <1>3, EdgesCoverSources
<1>8. ASSUME UNCHANGED <<joined, joinState>>
      PROVE  \A m \in Node : RoundCounted(m)'
  BY <1>8 DEF JoinInv, RoundCounted
<1> HIDE DEF Now
<1>9. CASE countInEdges(n) <= 1
  <2>1. UNCHANGED <<joined, joinState>>
    BY <1>7, <1>9 DEF HandleJoinNode
  <2>2. QED
    BY <1>6, <1>7, <1>8, <1>9, <2>1 DEF Now
<1>10. CASE countInEdges(n) > 1 /\ IsLastArrival(n)
  <2>1. joined' = [joined EXCEPT ![n] = {}] /\ joinState' = [joinState EXCEPT ![n] = 0]
    BY <1>7, <1>10 DEF HandleJoinNode, JoinStateOnProceed
  <2>2. ASSUME NEW m \in Node
        PROVE  RoundCounted(m)'
    <3>1. CASE m = n
      <4>1. joined'[m] = {} /\ joinState'[m] = 0
        BY <1>3, <2>1, <3>1
      <4>2. QED
        BY <4>1, FS_EmptySet DEF RoundCounted
    <3>2. CASE m # n
      <4>1. joined'[m] = joined[m] /\ joinState'[m] = joinState[m]
        BY <1>3, <2>1, <3>2
      <4>2. QED
        BY <4>1 DEF JoinInv, RoundCounted
    <3>3. QED
      BY <3>1, <3>2
  <2>3. countInEdges(n) <= joinState[n] + 1
    BY <1>7, <1>10 DEF IsLastArrival
  <2>4. QED
    BY <1>6, <2>2, <2>3 DEF Now
<1>11. CASE countInEdges(n) > 1 /\ ~IsLastArrival(n)
  <2>1. /\ joined' = [joined EXCEPT ![n] = Now]
        /\ joinState' = [joinState EXCEPT ![n] = @ + 1]
        /\ Resume(h, todo[h])
    BY <1>7, <1>11 DEF HandleJoinNode, Now
  <2>2. ASSUME NEW m \in Node
        PROVE  RoundCounted(m)'
    <3>1. CASE m = n
      <4>1. joined'[m] = Now /\ joinState'[m] = joinState[n] + 1
        BY <1>3, <2>1, <3>1
      <4>2. QED
        BY <1>5, <3>1, <4>1 DEF RoundCounted
    <3>2. CASE m # n
      <4>1. joined'[m] = joined[m] /\ joinState'[m] = joinState[m]
        BY <1>3, <2>1, <3>2
      <4>2. QED
        BY <4>1 DEF JoinInv, RoundCounted
    <3>3. QED
      BY <3>1, <3>2
  <2>3. pc'[h] # "fanout"
    BY <1>1, <2>1, ResumeStage
  <2>4. QED
    BY <2>2, <2>3
<1>12. QED
  BY <1>7, <1>9, <1>10, <1>11

\* The walk of a handler, but for its arrivals.
LEMMA HandlerWalked ==
  ASSUME TypeOK, NEW h \in Handler, HandlerStep(h), \A w \in Worker : Walked(w)
  PROVE  \A w \in Worker : Walked(w)'
<1>1. WorkType /\ h \in Worker
  BY TypeSplit
<1>2. ASSUME NEW stage, stage # "exec", Goto(h, stage)
      PROVE  \A w \in Worker : Walked(w)'
  BY <1>1, <1>2, GotoWalked
<1>3. ASSUME Resume(h, todo[h])
      PROVE  \A w \in Worker : Walked(w)'
  BY <1>1, <1>3, TodoWalked
<1>4. ASSUME NEW i \in {1, 2}, Len(NextNodes[At(h)]) >= 2, TakeSuccessor(h, At(h), i)
      PROVE  \A w \in Worker : Walked(w)'
  <2>1. At(h) \in Node
    BY <1>1 DEF WorkType, Branch, At
  <2>2. NextNodes[At(h)] \in Seq(NodeIds)
    BY <2>1, BlueprintAssumption
  <2>3. i \in DOMAIN NextNodes[At(h)]
    BY <1>4, <2>2
  <2>4. QED
    BY <1>1, <1>4, <2>3, SuccessorWalked
<1>5. CASE RemoveActiveNode(h)
  BY <1>2, <1>5 DEF RemoveActiveNode
<1>6. CASE EndBranch(h)
  BY <1>2, <1>3, <1>6 DEF EndBranch
<1>7. CASE NextNodeNotFound(h)
  BY <1>2, <1>7 DEF NextNodeNotFound
<1>8. CASE ForkBranches(h)
  BY <1>8, ForkWalked
<1>9. CASE ExecutePluginNode(h)
  BY <1>2, <1>9 DEF ExecutePluginNode
<1>10. CASE Publish(h)
  BY <1>2, <1>3, <1>10 DEF Publish
<1>11. CASE ExecuteDataNode(h)
  BY <1>2, <1>11 DEF ExecuteDataNode
<1>12. CASE HandleJoinNode(h)
  BY <1>2, <1>3, <1>12 DEF HandleJoinNode
<1>13. CASE HandleIFNode(h)
  <2>1. CASE Goto(h, "fail")
    BY <1>2, <2>1
  <2>2. CASE Len(NextNodes[At(h)]) >= 2 /\ \E i \in 1..2 : TakeSuccessor(h, At(h), i)
    <3>1. PICK i \in {1, 2} : TakeSuccessor(h, At(h), i)
      BY <2>2
    <3>2. QED
      BY <1>4, <2>2, <3>1
  <2>3. QED
    BY <1>13, <2>1, <2>2 DEF HandleIFNode
<1>14. CASE HandleLoopNode(h)
  <2>1. CASE Goto(h, "fail")
    BY <1>2, <2>1
  <2>2. CASE /\ Len(NextNodes[At(h)]) >= 2
             /\ \E again \in BodyChoices(At(h), loopState[At(h)] + 1) :
                  TakeSuccessor(h, At(h), IF again THEN 1 ELSE 2)
    <3>1. PICK i \in {1, 2} : TakeSuccessor(h, At(h), i)
      BY <2>2
    <3>2. QED
      BY <1>4, <2>2, <3>1
  <2>3. QED
    BY <1>14, <2>1, <2>2 DEF HandleLoopNode
<1>15. CASE ExecuteUnknownNode(h)
  BY <1>2, <1>15 DEF ExecuteUnknownNode
<1>16. QED
  BY <1>5, <1>6, <1>7, <1>8, <1>9, <1>10, <1>11, <1>12, <1>13, <1>14, <1>15 DEF HandlerStep

\* Every branch that is walked is on an edge.
LEMMA NextWalked ==
  ASSUME TypeOK, [Next]_vars, \A w \in Worker : Walked(w)
  PROVE  \A w \in Worker : Walked(w)'
<1>1. WorkType
  BY TypeSplit
<1>2. ASSUME NEW w \in Worker, NEW stage, stage # "exec", Goto(w, stage)
      PROVE  \A v \in Worker : Walked(v)'
  BY <1>1, <1>2, GotoWalked
<1>3. ASSUME NEW w \in Worker, Resume(w, todo[w])
      PROVE  \A v \in Worker : Walked(v)'
  BY <1>1, <1>3, TodoWalked
<1>4. ASSUME UNCHANGED work
      PROVE  \A v \in Worker : Walked(v)'
  BY <1>4 DEF work, Walked
<1>5. ASSUME NEW h \in Handler, HandlerStep(h)
      PROVE  \A w \in Worker : Walked(w)'
  BY <1>5, HandlerWalked
<1>6. ASSUME NEW h \in Handler, Trigger(h)
      PROVE  \A w \in Worker : Walked(w)'
  BY <1>1, <1>6 DEF Trigger, WorkType, Walked, OnEdge, FirstBranch
<1>7. ASSUME NEW h \in Handler, NEW r \in results, Receive(h, r)
      PROVE  \A w \in Worker : Walked(w)'
  BY <1>1, <1>4, <1>7 DEF Receive, WorkType, Walked
<1>8. ASSUME NEW w \in Worker, CompleteTask(w) \/ FailTask(w)
      PROVE  \A v \in Worker : Walked(v)'
  BY <1>2, <1>3, <1>8 DEF CompleteTask, FailTask, MarkTerminal
<1>9. ASSUME NEW w \in Worker, SendCallback(w)
      PROVE  \A v \in Worker : Walked(v)'
  BY <1>3, <1>9 DEF SendCallback
<1>10. ASSUME NEW w \in Worker, StoreError(w)
       PROVE  \A v \in Worker : Walked(v)'
  <2>1. Resume(w, <<>>) /\ <<>> \in Seq(Branch) /\ DOMAIN <<>> = {}
    BY <1>10 DEF StoreError
  <2>2. QED
    BY <1>1, <2>1, ResumeWalked
<1>11. CASE SweepExpiredTasks
  BY <1>2, <1>11 DEF SweepExpiredTasks
<1>12. CASE FailTasksByPlugin
  BY <1>2, <1>12 DEF FailTasksByPlugin
<1>13. CASE Crash
  <2>1. \A w \in Worker : pc'[w] = "idle" /\ todo'[w] = <<>>
    BY <1>13 DEF Crash
  <2>2. DOMAIN <<>> = {}
    OBVIOUS
  <2>3. QED
    BY <2>1, <2>2 DEF Walked
<1>14. CASE \/ ChannelCloses
            \/ UNCHANGED vars
            \/ \E q \in requests, ok \in BOOLEAN : PluginAnswers(q, ok)
            \/ \E h \in Handler : Redeliver(h)
  BY <1>4, <1>14 DEF ChannelCloses, PluginAnswers, Redeliver, vars
<1>15. QED
  BY <1>5, <1>6, <1>7, <1>8, <1>9, <1>10, <1>11, <1>12, <1>13, <1>14 DEF Next, FinishStep

\* Only handleJoinNode writes JoinState, and only it lets a branch through a JOIN.
LEMMA OnlyJoinsJoin ==
  ASSUME TypeOK, [Next]_vars, \A h \in Handler : ~HandleJoinNode(h)
  PROVE  /\ UNCHANGED <<joinState, joined>>
         /\ \A h \in Handler :
              ~(pc[h] = "exec" /\ Kind[At(h)] = "join" /\ pc'[h] = "fanout")
<1> DEFINE Unjoined == UNCHANGED <<joinState, joined>>
           Through(g) == pc[g] = "exec" /\ Kind[At(g)] = "join" /\ pc'[g] = "fanout"
           NoneThrough == \A g \in Handler : ~Through(g)
<1>1. WorkType
  BY TypeSplit
<1>2. ASSUME NEW w \in Worker, NEW stage, Goto(w, stage),
             pc[w] = "exec" /\ Kind[At(w)] = "join" => stage # "fanout"
      PROVE  NoneThrough
  BY <1>1, <1>2 DEF Goto, WorkType
<1>3. ASSUME NEW w \in Worker, NEW rest, Resume(w, rest)
      PROVE  NoneThrough
  BY <1>1, <1>3, ResumeStage
<1>4. ASSUME NEW w \in Worker, NEW n, NEW i, TakeSuccessor(w, n, i)
      PROVE  NoneThrough
  BY <1>2, <1>3, <1>4 DEF TakeSuccessor
<1>5. ASSUME UNCHANGED pc
      PROVE  NoneThrough
  BY <1>5
<1> HIDE DEF NoneThrough
<1>6. ASSUME NEW h \in Handler, HandlerStep(h)
      PROVE  Unjoined /\ NoneThrough
  <2>1. CASE RemoveActiveNode(h)
    BY <1>2, <2>1 DEF RemoveActiveNode, ghosts
  <2>2. CASE EndBranch(h)
    BY <1>2, <1>3, <2>2 DEF EndBranch, ghosts
  <2>3. CASE NextNodeNotFound(h)
    BY <1>2, <2>3 DEF NextNodeNotFound, task, ghosts
  <2>4. CASE ForkBranches(h)
    BY <1>3, <2>4 DEF ForkBranches
  <2>5. CASE ExecutePluginNode(h)
    BY <1>2, <2>5 DEF ExecutePluginNode, ghosts
  <2>6. CASE Publish(h)
    BY <1>2, <1>3, <2>6 DEF Publish, task, ghosts
  <2>7. CASE ExecuteDataNode(h)
    BY <1>2, <2>7 DEF ExecuteDataNode, task, ghosts
  <2>8. CASE HandleIFNode(h)
    BY <1>2, <1>4, <2>8 DEF HandleIFNode, task, ghosts
  <2>9. CASE HandleLoopNode(h)
    BY <1>2, <1>4, <2>9 DEF HandleLoopNode, ghosts
  <2>10. CASE ExecuteUnknownNode(h)
    BY <1>2, <2>10 DEF ExecuteUnknownNode, task, ghosts
  <2>11. QED
    BY <1>6, <2>1, <2>2, <2>3, <2>4, <2>5, <2>6, <2>7, <2>8, <2>9, <2>10 DEF HandlerStep
<1>7. ASSUME NEW h \in Handler, Trigger(h)
      PROVE  Unjoined /\ NoneThrough
  BY <1>1, <1>7 DEF Trigger, WorkType, NoneThrough
<1>8. ASSUME NEW h \in Handler, NEW r \in results, Receive(h, r)
      PROVE  Unjoined /\ NoneThrough
  BY <1>1, <1>8 DEF Receive, WorkType, task, ghosts, work, NoneThrough
<1>9. ASSUME NEW w \in Worker, CompleteTask(w) \/ FailTask(w)
      PROVE  Unjoined /\ NoneThrough
  BY <1>2, <1>3, <1>9 DEF CompleteTask, FailTask, MarkTerminal, ghosts
<1>10. ASSUME NEW w \in Worker, SendCallback(w)
       PROVE  Unjoined /\ NoneThrough
  BY <1>3, <1>10 DEF SendCallback, task, ghosts
<1>11. ASSUME NEW w \in Worker, StoreError(w)
       PROVE  Unjoined /\ NoneThrough
  BY <1>3, <1>11 DEF StoreError, task, ghosts
<1>12. ASSUME SweepExpiredTasks
       PROVE  Unjoined /\ NoneThrough
  BY <1>2, <1>12 DEF SweepExpiredTasks, task, ghosts
<1>13. ASSUME FailTasksByPlugin
       PROVE  Unjoined /\ NoneThrough
  BY <1>2, <1>13 DEF FailTasksByPlugin, task, ghosts
<1>14. ASSUME Crash
       PROVE  Unjoined /\ NoneThrough
  BY <1>14 DEF Crash, task, NoneThrough, Worker
<1>15. ASSUME \/ ChannelCloses
              \/ UNCHANGED vars
              \/ \E q \in requests, ok \in BOOLEAN : PluginAnswers(q, ok)
              \/ \E h \in Handler : Redeliver(h)
       PROVE  Unjoined /\ NoneThrough
  BY <1>5, <1>15 DEF ChannelCloses, PluginAnswers, Redeliver, vars, task, work, ghosts
<1>16. Unjoined /\ NoneThrough
  BY <1>6, <1>7, <1>8, <1>9, <1>10, <1>11, <1>12, <1>13, <1>14, <1>15 DEF Next, FinishStep
<1>17. QED
  BY <1>16 DEF NoneThrough

\* In a run in which no node arrives twice at a JOIN in one round, the arrival that a JOIN
\* lets through comes when every incoming edge's node has arrived, whatever LOOP leads back to
\* the JOIN, whoever fails, crashes or is delivered again: the count that ArriveAtJoin keeps
\* and resets is the number of nodes that have arrived.
THEOREM JoinsMerge ==
  Kind[Entry] # "join" => (Spec /\ []EachSourceOnce => JoinMergesEveryEdge)
<1> SUFFICES ASSUME Kind[Entry] # "join"
             PROVE  Spec /\ []EachSourceOnce => JoinMergesEveryEdge
  OBVIOUS
<1>1. Init => JoinInv
  <2> SUFFICES ASSUME Init
               PROVE  JoinInv
    OBVIOUS
  <2>1. DOMAIN <<>> = {}
    OBVIOUS
  <2>2. \A w \in Worker : Walked(w)
    BY <2>1 DEF Init, Walked
  <2>3. \A n \in Node : RoundCounted(n)
    BY FS_EmptySet DEF Init, RoundCounted
  <2>4. QED
    BY <2>2, <2>3 DEF JoinInv
<1>2. ASSUME TypeOK, JoinInv, EachSourceOnce, [Next]_vars
      PROVE  /\ JoinInv'
             /\ \A h \in Handler :
                  (pc[h] = "exec" /\ Kind[At(h)] = "join" /\ pc'[h] = "fanout") =>
                     joined[At(h)] \union {cur[h].src} = Sources(At(h))
  <2>1. \A w \in Worker : Walked(w)'
    BY <1>2, NextWalked DEF JoinInv
  <2>2. CASE \A h \in Handler : ~HandleJoinNode(h)
    <3>1. UNCHANGED <<joinState, joined>>
      BY <1>2, <2>2, OnlyJoinsJoin
    <3>2. \A n \in Node : RoundCounted(n)'
      BY <1>2, <3>1 DEF JoinInv, RoundCounted
    <3>3. QED
      BY <1>2, <2>1, <2>2, <3>2, OnlyJoinsJoin DEF JoinInv
  <2>3. ASSUME NEW h \in Handler, HandleJoinNode(h)
        PROVE  /\ \A n \in Node : RoundCounted(n)'
               /\ \A g \in Handler :
                    (pc[g] = "exec" /\ Kind[At(g)] = "join" /\ pc'[g] = "fanout") =>
                       joined[At(g)] \union {cur[g].src} = Sources(At(g))
    <3>1. WorkType
      BY <1>2, TypeSplit
    <3>2. (\E stage : Goto(h, stage)) \/ Resume(h, todo[h])
      BY <2>3 DEF HandleJoinNode
    <3>3. \A g \in Handler \ {h} : pc'[g] = pc[g]
      BY <3>1, <3>2, GotoStage, ResumeStage
    <3>4. QED
      BY <1>2, <2>3, <3>3, ArrivalMerges
  <2>4. QED
    BY <2>1, <2>2, <2>3 DEF JoinInv
<1>3. JoinInv /\ TypeOK /\ EachSourceOnce /\ [Next]_vars => JoinInv'
  BY <1>2
<1>4. JoinInv /\ TypeOK /\ EachSourceOnce /\ [Next]_vars =>
        [\A h \in Handler :
           (pc[h] = "exec" /\ Kind[At(h)] = "join" /\ pc'[h] = "fanout") =>
              joined[At(h)] \union {cur[h].src} = Sources(At(h))]_vars
  BY <1>2
<1>5. QED
  BY <1>1, <1>3, <1>4, TypeCorrect, PTL DEF Spec, JoinMergesEveryEdge

-----------------------------------------------------------------------------
(***************************************************************************)
(* The JOINs of a completed Task.  Whatever the handlers do, what the      *)
(* branches and the arrivals are worth together stays a multiple, as long  *)
(* as none is lost.  At the end of the last branch the arrivals alone are, *)
(* and of the JOINs that wait the innermost would have all of them.        *)
(***************************************************************************)

(* Multiples, and the worth of sets. *)

\* A multiple is so many times the number.
LEMMA MultipleOf ==
  ASSUME NEW N \in Nat \ {0}, NEW x \in Int
  PROVE  Multiple(N, x) <=> \E q \in Int : x = q * N
<1>1. x % N = 0 <=> x = (x \div N) * N
  OBVIOUS
<1>2. x \div N \in Int
  OBVIOUS
<1>3. ASSUME NEW q \in Int, x = q * N
      PROVE  x % N = 0
  BY <1>3
<1>4. QED
  BY <1>1, <1>2, <1>3 DEF Multiple

\* Multiples can be added and taken away.
LEMMA MultiplesAdd ==
  ASSUME NEW N \in Nat \ {0}, NEW x \in Int, NEW y \in Int, Multiple(N, y)
  PROVE  Multiple(N, x) <=> Multiple(N, x + y)
<1>1. PICK q \in Int : y = q * N
  BY MultipleOf
<1>2. \A p \in Int : (p + q) * N = p * N + q * N /\ (p - q) * N = p * N - q * N
  OBVIOUS
<1>3. ASSUME NEW p \in Int, x = p * N
      PROVE  x + y = (p + q) * N /\ p + q \in Int
  BY <1>1, <1>2, <1>3
<1>4. ASSUME NEW p \in Int, x + y = p * N
      PROVE  x = (p - q) * N /\ p - q \in Int
  <2>1. p * N \in Int /\ q * N \in Int
    OBVIOUS
  <2>2. x = p * N - q * N
    BY <1>1, <1>4, <2>1
  <2>3. QED
    BY <1>2, <2>2
<1>5. x + y \in Int
  OBVIOUS
<1>6. /\ Multiple(N, x) <=> \E p \in Int : x = p * N
      /\ Multiple(N, x + y) <=> \E p \in Int : x + y = p * N
  BY <1>5, MultipleOf
<1>7. QED
  BY <1>3, <1>4, <1>6

\* Nothing is a multiple, and so is what is turned round.
LEMMA ZeroAndMinus ==
  ASSUME NEW N \in Nat \ {0}
  PROVE  Multiple(N, 0) /\ \A x \in Int : Multiple(N, x) => Multiple(N, 0 - x)
<1>1. 0 = 0 * N
  OBVIOUS
<1>2. ASSUME NEW x \in Int, Multiple(N, x)
      PROVE  Multiple(N, 0 - x)
  <2>1. PICK q \in Int : x = q * N
    BY <1>2, MultipleOf
  <2>2. (0 - q) * N = 0 - q * N /\ 0 - q \in Int /\ 0 - x \in Int
    OBVIOUS
  <2>3. QED
    BY <2>1, <2>2, MultipleOf
<1>3. QED
  BY <1>1, <1>2, MultipleOf

\* A finite set of things with bounded worth.
Weighed(N, S) == IsFiniteSet(S) /\ \A s \in S : s[2] \in 0..N

\* Its worth is a number.
LEMMA MassType ==
  ASSUME NEW N \in Nat \ {0}, NEW S, Weighed(N, S)
  PROVE  IsFiniteSet(Tokens(S)) /\ Mass(S) \in Nat
<1>1. IsFiniteSet(1..N) /\ IsFiniteSet(S)
  BY FS_Interval DEF Weighed
<1>2. IsFiniteSet(S \X (1..N))
  BY <1>1, FS_Product
<1>3. Tokens(S) \subseteq S \X (1..N)
  BY DEF Tokens, Weighed
<1>4. QED
  BY <1>2, <1>3, FS_Subset, FS_CardinalityType DEF Mass

\* Two sets apart are worth what they are worth together.
LEMMA MassUnion ==
  ASSUME NEW N \in Nat \ {0}, NEW S, NEW T, Weighed(N, S), Weighed(N, T), S \intersect T = {}
  PROVE  Weighed(N, S \union T) /\ Mass(S \union T) = Mass(S) + Mass(T)
<1>1. Tokens(S \union T) = Tokens(S) \union Tokens(T)
  BY DEF Tokens
<1>2. Tokens(S) \intersect Tokens(T) = {}
  BY DEF Tokens
<1>3. /\ IsFiniteSet(Tokens(S)) /\ IsFiniteSet(Tokens(T))
      /\ Mass(S) \in Nat /\ Mass(T) \in Nat
  BY MassType
<1>4. Cardinality(Tokens(S) \union Tokens(T)) = Cardinality(Tokens(S)) + Cardinality(Tokens(T))
  <2>1. Cardinality(Tokens(S) \union Tokens(T)) =
          Cardinality(Tokens(S)) + Cardinality(Tokens(T))
            - Cardinality(Tokens(S) \intersect Tokens(T))
    BY <1>3, FS_Union
  <2>2. Cardinality(Tokens(S) \intersect Tokens(T)) = 0
    BY <1>2, FS_EmptySet
  <2>3. QED
    BY <1>3, <2>1, <2>2 DEF Mass
<1>5. Weighed(N, S \union T)
  BY FS_Union DEF Weighed
<1>6. QED
  BY <1>1, <1>4, <1>5 DEF Mass

\* Things that are worth the same.
LEMMA MassEqual ==
  ASSUME NEW S, IsFiniteSet(S), NEW w \in Nat, \A s \in S : s[2] = w
  PROVE  Mass(S) = Cardinality(S) * w
<1>1. Tokens(S) = S \X (1..w)
  BY DEF Tokens
<1>2. IsFiniteSet(1..w) /\ Cardinality(1..w) = w
  BY FS_Interval
<1>3. QED
  BY <1>1, <1>2, FS_Product DEF Mass

\* Nothing is worth nothing, and one thing its worth.
LEMMA MassSmall ==
  /\ Mass({}) = 0
  /\ \A x, w : w \in Nat => Mass({<<x, w>>}) = w
<1>1. Mass({}) = 0
  BY FS_EmptySet DEF Mass, Tokens
<1>2. ASSUME NEW x, NEW w \in Nat
      PROVE  Mass({<<x, w>>}) = w
  <2>1. IsFiniteSet({<<x, w>>}) /\ Cardinality({<<x, w>>}) = 1
    BY FS_Singleton
  <2>2. Mass({<<x, w>>}) = Cardinality({<<x, w>>}) * w
    <3>1. \A s \in {<<x, w>>} : s[2] = w
      OBVIOUS
    <3>2. QED
      BY <2>1, <3>1, MassEqual
  <2>3. QED
    BY <2>1, <2>2
<1>3. QED
  BY <1>1, <1>2

Called(f, v, I) == {<<f[i], v[i]>> : i \in I}

\* The worth does not depend on what the things are called.
LEMMA MassRenamed ==
  ASSUME NEW I, NEW v, NEW f, IsFiniteSet(Tokens(Called([i \in I |-> i], v, I))),
         \A i, j \in I : f[i] = f[j] => i = j
  PROVE  Mass(Called(f, v, I)) = Mass(Called([i \in I |-> i], v, I))
<1> DEFINE S == Called([i \in I |-> i], v, I)
           T == Called(f, v, I)
<1>0. S = {<<i, v[i]>> : i \in I} /\ T = {<<f[i], v[i]>> : i \in I}
  BY DEF Called
<1> HIDE DEF S, T
<1> DEFINE F == [t \in Tokens(S) |-> <<<<f[t[1][1]], t[1][2]>>, t[2]>>]
<1>1. \A t \in Tokens(S) : \E i \in I : \E k \in 1..v[i] : t = <<<<i, v[i]>>, k>>
  BY <1>0 DEF Tokens
<1>2. \A t \in Tokens(T) : \E i \in I : \E k \in 1..v[i] : t = <<<<f[i], v[i]>>, k>>
  BY <1>0 DEF Tokens
<1>3. \A i \in I : \A k \in 1..v[i] :
        /\ <<<<i, v[i]>>, k>> \in Tokens(S) /\ <<<<f[i], v[i]>>, k>> \in Tokens(T)
        /\ F[<<<<i, v[i]>>, k>>] = <<<<f[i], v[i]>>, k>>
  BY <1>0 DEF Tokens
<1>4. F \in [Tokens(S) -> Tokens(T)]
  <2>1. ASSUME NEW t \in Tokens(S)
        PROVE  F[t] \in Tokens(T)
    <3>1. PICK i \in I : \E k \in 1..v[i] : t = <<<<i, v[i]>>, k>>
      BY <1>1
    <3>2. PICK k \in 1..v[i] : t = <<<<i, v[i]>>, k>>
      BY <3>1
    <3>3. F[t] = <<<<f[i], v[i]>>, k>>
      BY <1>3, <3>2
    <3>4. QED
      BY <1>3, <3>3
  <2>2. F = [t \in Tokens(S) |-> F[t]]
    OBVIOUS
  <2> HIDE DEF F
  <2>3. QED
    BY <2>1, <2>2
<1> HIDE DEF F
<1>5. ASSUME NEW s \in Tokens(S), NEW t \in Tokens(S), F[s] = F[t]
      PROVE  s = t
  <2>1. PICK i \in I : \E k \in 1..v[i] : s = <<<<i, v[i]>>, k>>
    BY <1>1
  <2>2. PICK j \in I : \E l \in 1..v[j] : t = <<<<j, v[j]>>, l>>
    BY <1>1
  <2>3. PICK k \in 1..v[i] : s = <<<<i, v[i]>>, k>>
    BY <2>1
  <2>4. PICK l \in 1..v[j] : t = <<<<j, v[j]>>, l>>
    BY <2>2
  <2>5. <<<<f[i], v[i]>>, k>> = <<<<f[j], v[j]>>, l>>
    <3>1. F[s] = <<<<f[i], v[i]>>, k>>
      BY <1>3, <2>3
    <3>2. F[t] = <<<<f[j], v[j]>>, l>>
      BY <1>3, <2>4
    <3>3. QED
      BY <1>5, <3>1, <3>2
  <2>6. f[i] = f[j] /\ k = l
    BY <2>5
  <2>7. QED
    BY <2>3, <2>4, <2>6
<1>6. ASSUME NEW t \in Tokens(T)
      PROVE  \E s \in Tokens(S) : F[s] = t
  <2>1. PICK i \in I : \E k \in 1..v[i] : t = <<<<f[i], v[i]>>, k>>
    BY <1>2
  <2>2. PICK k \in 1..v[i] : t = <<<<f[i], v[i]>>, k>>
    BY <2>1
  <2>3. <<<<i, v[i]>>, k>> \in Tokens(S) /\ F[<<<<i, v[i]>>, k>>] = t
    BY <1>3, <2>2
  <2>4. QED
    BY <2>3
<1>7. F \in Bijection(Tokens(S), Tokens(T))
  <2> DEFINE A == Tokens(S)
             B == Tokens(T)
  <2> SUFFICES F \in Bijection(A, B)
    OBVIOUS
  <2>1. /\ F \in [A -> B] /\ \A t \in B : \E s \in A : F[s] = t
        /\ \A s, t \in A : F[s] = F[t] => s = t
    BY <1>4, <1>5, <1>6
  <2> HIDE DEF A, B
  <2>2. QED
    BY <2>1 DEF Bijection, Injection, IsInjective, Surjection
<1>8. ExistsBijection(Tokens(S), Tokens(T))
  BY <1>7 DEF ExistsBijection
<1>9. Cardinality(Tokens(T)) = Cardinality(Tokens(S))
  BY <1>8, FS_Bijection DEF S
<1>10. QED
  BY <1>9 DEF Mass, S, T

-----------------------------------------------------------------------------
(* The worth of a state: what the branches are worth where they are, and   *)
(* what the arrivals are that JOINs count.                                 *)

SeqSpots(W, s) == {<<s[i].id, W[s[i].dst]>> : i \in DOMAIN s}

CurWorth(W, V, h) == IF pc[h] = "exec" THEN W[At(h)] ELSE V[At(h)]

HeldSpots(W, V, h) ==
  (IF pc[h] \in Holding THEN {<<cur[h].id, CurWorth(W, V, h)>>} ELSE {})
    \union SeqSpots(W, todo[h])

OutSpots(V) ==
  {<<q.id, V[q.node]>> : q \in requests} \union {<<r.id, V[r.node]>> : r \in results}

Spots(W, V) == (UNION {HeldSpots(W, V, h) : h \in Handler}) \union OutSpots(V)

WaitsAt(W, js, n) == {<<<<n, r>>, W[n]>> : r \in 1..js[n]}

Waits(W, js) == UNION {WaitsAt(W, js, n) : n \in Node}

Worth(W, V) == Mass(Spots(W, V)) + Mass(Waits(W, joinState))

\* Without one handler, without one JOIN, and without the branch a handler has at hand.
SpotsElse(W, V, h) ==
  (UNION {HeldSpots(W, V, g) : g \in Handler \ {h}}) \union OutSpots(V)

WaitsElse(W, js, n) == UNION {WaitsAt(W, js, m) : m \in Node \ {n}}

RestSpots(W, V, h) == SpotsElse(W, V, h) \union SeqSpots(W, todo[h])

\* A branch at one handler or elsewhere.
LEMMA SpotsSplit ==
  ASSUME NEW h \in Handler, NEW W, NEW V
  PROVE  /\ Spots(W, V) = SpotsElse(W, V, h) \union HeldSpots(W, V, h)
         /\ Spots(W, V)' = SpotsElse(W, V, h)' \union HeldSpots(W, V, h)'
<1> DEFINE Held == UNION {HeldSpots(W, V, g) : g \in Handler}
           Others == UNION {HeldSpots(W, V, g) : g \in Handler \ {h}}
<1>1. Held = Others \union HeldSpots(W, V, h) /\ Held' = Others' \union HeldSpots(W, V, h)'
  OBVIOUS
<1>2. /\ Spots(W, V) = Held \union OutSpots(V) /\ Spots(W, V)' = Held' \union OutSpots(V)'
      /\ SpotsElse(W, V, h) = Others \union OutSpots(V)
      /\ SpotsElse(W, V, h)' = Others' \union OutSpots(V)'
  BY DEF Spots, SpotsElse
<1> HIDE DEF Held, Others
<1>3. QED
  BY <1>1, <1>2

\* Where nothing moves the spots stay.
LEMMA HeldSpotsKept ==
  ASSUME NEW W, NEW V, NEW g, pc'[g] = pc[g], cur'[g] = cur[g], todo'[g] = todo[g]
  PROVE  HeldSpots(W, V, g)' = HeldSpots(W, V, g)
BY DEF HeldSpots, CurWorth, At, SeqSpots

\* The other handlers and what is out.
LEMMA AloneSpots ==
  ASSUME NEW h \in Handler, NEW W, NEW V, Alone(h), UNCHANGED <<requests, results>>
  PROVE  SpotsElse(W, V, h)' = SpotsElse(W, V, h)
<1>1. \A g \in Handler \ {h} : HeldSpots(W, V, g)' = HeldSpots(W, V, g)
  BY HeldSpotsKept DEF Alone
<1>2. OutSpots(V)' = OutSpots(V)
  BY DEF OutSpots
<1>3. QED
  BY <1>1, <1>2 DEF SpotsElse

\* No handler does anything.
LEMMA StillSpots ==
  ASSUME NEW W, NEW V, \A g \in Handler : pc'[g] = pc[g] /\ cur'[g] = cur[g] /\ todo'[g] = todo[g],
         OutSpots(V)' = OutSpots(V)
  PROVE  Spots(W, V)' = Spots(W, V)
<1>1. \A g \in Handler : HeldSpots(W, V, g)' = HeldSpots(W, V, g)
  BY HeldSpotsKept
<1>2. QED
  BY <1>1 DEF Spots

\* A handler goes on with a sequence of branches.
LEMMA ResumeSpots ==
  ASSUME WorkType, NEW h \in Handler, NEW W, NEW V, NEW rest \in Seq(Branch), Resume(h, rest)
  PROVE  HeldSpots(W, V, h)' = SeqSpots(W, rest)
<1>1. CASE rest = <<>>
  <2>1. pc'[h] = "idle" /\ todo'[h] = <<>>
    BY <1>1 DEF Resume, WorkType
  <2>2. DOMAIN <<>> = {}
    OBVIOUS
  <2>3. QED
    BY <1>1, <2>1, <2>2 DEF HeldSpots, SeqSpots, Holding
<1>2. CASE rest # <<>>
  <2>1. pc'[h] = "exec" /\ cur'[h] = Head(rest) /\ todo'[h] = Tail(rest)
    BY <1>2 DEF Resume, WorkType
  <2>2. /\ Len(rest) \in Nat \ {0} /\ DOMAIN rest = 1..Len(rest)
        /\ DOMAIN Tail(rest) = 1..(Len(rest) - 1)
        /\ Head(rest) = rest[1]
        /\ \A i \in 1..(Len(rest) - 1) : Tail(rest)[i] = rest[i + 1]
    BY <1>2, HeadTailProperties, EmptySeq
  <2> DEFINE spot(i) == <<rest[i].id, W[rest[i].dst]>>
  <2>3. SeqSpots(W, rest) = {spot(i) : i \in 1..Len(rest)}
    BY <2>2 DEF SeqSpots
  <2>4. SeqSpots(W, Tail(rest)) = {spot(i + 1) : i \in 1..(Len(rest) - 1)}
    BY <2>2 DEF SeqSpots
  <2>5. HeldSpots(W, V, h)' = {spot(1)} \union SeqSpots(W, Tail(rest))
    BY <2>1, <2>2 DEF HeldSpots, CurWorth, At, SeqSpots, Holding
  <2> HIDE DEF spot
  <2>6. ASSUME NEW i \in 1..Len(rest)
        PROVE  spot(i) \in HeldSpots(W, V, h)'
    <3>1. CASE i = 1
      BY <2>5, <3>1
    <3>2. CASE i # 1
      <4>1. i - 1 \in 1..(Len(rest) - 1) /\ (i - 1) + 1 = i
        BY <2>2, <3>2
      <4>2. spot((i - 1) + 1) \in SeqSpots(W, Tail(rest))
        BY <2>4, <4>1
      <4>3. QED
        BY <2>5, <4>1, <4>2
    <3>3. QED
      BY <3>1, <3>2
  <2>7. ASSUME NEW i \in 1..(Len(rest) - 1)
        PROVE  spot(i + 1) \in SeqSpots(W, rest)
    <3>1. i + 1 \in 1..Len(rest)
      BY <2>2
    <3>2. QED
      BY <2>3, <3>1
  <2>8. spot(1) \in SeqSpots(W, rest)
    BY <2>2, <2>3
  <2>9. QED
    BY <2>3, <2>4, <2>5, <2>6, <2>7, <2>8
<1>3. QED
  BY <1>1, <1>2

\* Two sequences, one after the other.
LEMMA ConcatSpots ==
  ASSUME NEW W, NEW s \in Seq(Branch), NEW t \in Seq(Branch)
  PROVE  SeqSpots(W, s \o t) = SeqSpots(W, s) \union SeqSpots(W, t)
<1> DEFINE st == s \o t
<1>1. /\ Len(s) \in Nat /\ Len(t) \in Nat
      /\ DOMAIN s = 1..Len(s) /\ DOMAIN t = 1..Len(t)
      /\ DOMAIN st = 1..(Len(s) + Len(t))
  BY ConcatProperties
<1>2. \A i \in 1..(Len(s) + Len(t)) :
        st[i] = IF i <= Len(s) THEN s[i] ELSE t[i - Len(s)]
  BY ConcatProperties
<1> SUFFICES SeqSpots(W, st) = SeqSpots(W, s) \union SeqSpots(W, t)
  OBVIOUS
<1> HIDE DEF st
<1>3. \A i \in DOMAIN s : i \in DOMAIN st /\ st[i] = s[i]
  BY <1>1, <1>2
<1>4. \A i \in DOMAIN t : i + Len(s) \in DOMAIN st /\ st[i + Len(s)] = t[i]
  BY <1>1, <1>2
<1>5. \A i \in DOMAIN st :
        \/ i \in DOMAIN s /\ st[i] = s[i]
        \/ i - Len(s) \in DOMAIN t /\ st[i] = t[i - Len(s)]
  BY <1>1, <1>2
<1>6. QED
  BY <1>3, <1>4, <1>5 DEF SeqSpots

\* Every spot is a branch, with a worth of at most N.
LEMMA SpotIds ==
  ASSUME TypeOK, LiveParts, NEW N \in Nat \ {0}, NEW W \in [Node -> 0..N], NEW V \in [Node -> 0..N],
         NEW h \in Handler
  PROVE  /\ \A s \in HeldSpots(W, V, h) : s \in HeldBy(h) \X (0..N)
         /\ \A s \in SpotsElse(W, V, h) : s \in (Elsewhere(h) \union OutIds) \X (0..N)
         /\ \A s \in SeqSpots(W, todo[h]) : s \in Ids(todo[h]) \X (0..N)
         /\ Weighed(N, Spots(W, V))
         /\ Spots(W, V) \subseteq LiveBranches \X (0..N)
<1>1. WorkType /\ minted \in Nat /\ requests \subseteq Request /\ results \subseteq Result
  BY TypeSplit DEF TypeOK
<1>2. ASSUME NEW g \in Handler
      PROVE  /\ \A s \in SeqSpots(W, todo[g]) : s \in Ids(todo[g]) \X (0..N)
             /\ \A s \in HeldSpots(W, V, g) : s \in HeldBy(g) \X (0..N)
  <2>1. todo[g] \in Seq(Branch) /\ \A i \in DOMAIN todo[g] : todo[g][i] \in Branch
    BY <1>1 DEF WorkType
  <2>2. ASSUME NEW i \in DOMAIN todo[g]
        PROVE  W[todo[g][i].dst] \in 0..N
    BY <2>1 DEF Branch
  <2>3. \A s \in SeqSpots(W, todo[g]) : s \in Ids(todo[g]) \X (0..N)
    BY <2>2 DEF SeqSpots, Ids
  <2>4. CurWorth(W, V, g) \in 0..N
    BY <1>1 DEF CurWorth, At, WorkType, Branch
  <2>5. QED
    BY <2>3, <2>4 DEF HeldSpots, HeldBy, Ids
<1>3. \A s \in OutSpots(V) : s \in OutIds \X (0..N)
  BY <1>1 DEF OutSpots, OutIds, Request, Result
<1>4. \A s \in SpotsElse(W, V, h) : s \in (Elsewhere(h) \union OutIds) \X (0..N)
  BY <1>2, <1>3 DEF SpotsElse, Elsewhere
<1>5. Spots(W, V) \subseteq LiveBranches \X (0..N)
  BY <1>2, <1>4, SpotsSplit, LiveSplit
<1>6. Weighed(N, Spots(W, V))
  <2>1. IsFiniteSet(LiveBranches) /\ IsFiniteSet(0..N)
    BY <1>1, FiniteLive, FS_Interval
  <2>2. IsFiniteSet(LiveBranches \X (0..N))
    BY <2>1, FS_Product
  <2>3. QED
    BY <1>5, <2>2, FS_Subset DEF Weighed
<1>7. QED
  BY <1>2, <1>4, <1>5, <1>6

\* The branch at hand is worth what it is worth, besides all the others.
LEMMA RestIsBesides ==
  ASSUME TypeOK, LiveParts, NEW N \in Nat \ {0}, NEW W \in [Node -> 0..N], NEW V \in [Node -> 0..N],
         NEW h \in Handler, pc[h] \in Holding
  PROVE  /\ Weighed(N, RestSpots(W, V, h)) /\ Mass(RestSpots(W, V, h)) \in Nat
         /\ \A s \in RestSpots(W, V, h) : s[1] # cur[h].id /\ s[1] \in 1..minted
         /\ CurWorth(W, V, h) \in 0..N
         /\ Mass(Spots(W, V)) = Mass(RestSpots(W, V, h)) + CurWorth(W, V, h)
<1> DEFINE Rest == RestSpots(W, V, h)
           spot == <<cur[h].id, CurWorth(W, V, h)>>
<1>1. /\ Spots(W, V) = SpotsElse(W, V, h) \union HeldSpots(W, V, h)
      /\ HeldSpots(W, V, h) = {spot} \union SeqSpots(W, todo[h])
      /\ Spots(W, V) = Rest \union {spot}
  BY SpotsSplit DEF HeldSpots, RestSpots
<1>2. Weighed(N, Spots(W, V)) /\ Spots(W, V) \subseteq LiveBranches \X (0..N)
  BY SpotIds
<1>3. CurWorth(W, V, h) \in 0..N
  <2>1. cur[h] \in Branch
    BY TypeSplit DEF WorkType
  <2>2. QED
    BY <2>1 DEF CurWorth, At, Branch
<1>4. ASSUME NEW s \in Rest
      PROVE  s[1] # cur[h].id /\ s[1] \in 1..minted
  <2>1. /\ cur[h].id \in HeldBy(h) /\ Ids(todo[h]) = HeldBy(h) \ {cur[h].id}
        /\ HeldBy(h) \intersect OutIds = {} /\ HeldBy(h) \intersect Elsewhere(h) = {}
    BY HeldSplit DEF LiveParts, Apart, Elsewhere
  <2>2. s[1] \in Ids(todo[h]) \union Elsewhere(h) \union OutIds
    <3>1. /\ \A x \in SpotsElse(W, V, h) : x \in (Elsewhere(h) \union OutIds) \X (0..N)
          /\ \A x \in SeqSpots(W, todo[h]) : x \in Ids(todo[h]) \X (0..N)
      BY SpotIds
    <3>2. s \in SpotsElse(W, V, h) \/ s \in SeqSpots(W, todo[h])
      BY DEF RestSpots
    <3>3. QED
      BY <3>1, <3>2
  <2>3. s[1] \in LiveBranches
    BY <1>1, <1>2
  <2>4. QED
    BY <2>1, <2>2, <2>3 DEF LiveParts
<1> HIDE DEF Rest, spot
<1>5. Weighed(N, Rest) /\ Weighed(N, {spot})
  BY <1>1, <1>2, FS_Subset DEF Weighed
<1>6. Rest \intersect {spot} = {}
  BY <1>4 DEF spot
<1>7. Mass(Spots(W, V)) = Mass(Rest) + Mass({spot}) /\ Mass(Rest) \in Nat
  BY <1>1, <1>5, <1>6, MassUnion, MassType
<1>8. Mass({spot}) = CurWorth(W, V, h)
  <2>1. CurWorth(W, V, h) \in Nat
    BY <1>3
  <2>2. QED
    BY <2>1, MassSmall DEF spot
<1>9. QED
  BY <1>3, <1>4, <1>5, <1>7, <1>8 DEF Rest

\* The arrivals at one JOIN, besides those at the others.
LEMMA WaitsSplit ==
  ASSUME NEW N \in Nat \ {0}, NEW W \in [Node -> 0..N], NEW js \in [Node -> Nat], NEW n \in Node
  PROVE  /\ Weighed(N, Waits(W, js)) /\ Mass(Waits(W, js)) \in Nat
         /\ Mass(WaitsElse(W, js, n)) \in Nat
         /\ Mass(Waits(W, js)) = Mass(WaitsElse(W, js, n)) + js[n] * W[n]
<1>1. ASSUME NEW m \in Node
      PROVE  /\ Weighed(N, WaitsAt(W, js, m)) /\ Cardinality(WaitsAt(W, js, m)) = js[m]
             /\ \A s \in WaitsAt(W, js, m) : s[2] = W[m] /\ s[1][1] = m
  <2> DEFINE f == [r \in 1..js[m] |-> <<<<m, r>>, W[m]>>]
  <2>1. \A r \in 1..js[m] : f[r] \in WaitsAt(W, js, m)
    BY DEF WaitsAt
  <2>2. \A s \in WaitsAt(W, js, m) : \E r \in 1..js[m] : f[r] = s
    BY DEF WaitsAt
  <2>3. ASSUME NEW r \in 1..js[m], NEW q \in 1..js[m], f[r] = f[q]
        PROVE  r = q
    <3>1. <<<<m, r>>, W[m]>> = <<<<m, q>>, W[m]>>
      BY <2>3
    <3>2. QED
      BY <3>1
  <2>4. f \in [1..js[m] -> WaitsAt(W, js, m)]
    <3>1. f = [r \in 1..js[m] |-> f[r]]
      OBVIOUS
    <3> HIDE DEF f
    <3>2. QED
      BY <2>1, <3>1
  <2> HIDE DEF f
  <2>5. f \in Bijection(1..js[m], WaitsAt(W, js, m))
    BY <2>2, <2>3, <2>4 DEF Bijection, Injection, IsInjective, Surjection
  <2>6. js[m] \in Nat /\ IsFiniteSet(1..js[m]) /\ Cardinality(1..js[m]) = js[m]
    <3>1. js[m] \in Nat
      OBVIOUS
    <3>2. QED
      BY <3>1, FS_Interval
  <2>7. IsFiniteSet(WaitsAt(W, js, m)) /\ Cardinality(WaitsAt(W, js, m)) = js[m]
    BY <2>5, <2>6, FS_Bijection DEF ExistsBijection
  <2>8. \A s \in WaitsAt(W, js, m) : s[2] = W[m] /\ s[1][1] = m
    BY DEF WaitsAt
  <2>9. W[m] \in 0..N
    OBVIOUS
  <2>10. QED
    BY <2>7, <2>8, <2>9 DEF Weighed
<1>2. ASSUME NEW M \in SUBSET Node
      PROVE  Weighed(N, UNION {WaitsAt(W, js, m) : m \in M})
  <2> DEFINE All == {WaitsAt(W, js, m) : m \in M}
  <2>1. IsFiniteSet(M)
    BY FS_Subset, BlueprintAssumption
  <2>2. [m \in M |-> WaitsAt(W, js, m)] \in Surjection(M, All)
    BY DEF Surjection
  <2>3. IsFiniteSet(All)
    BY <2>1, <2>2, FS_Surjection
  <2>4. IsFiniteSet(UNION All)
    BY <1>1, <2>3, FS_UNION DEF Weighed
  <2>5. QED
    BY <1>1, <2>4 DEF Weighed
<1>3. /\ Waits(W, js) = WaitsElse(W, js, n) \union WaitsAt(W, js, n)
      /\ WaitsElse(W, js, n) \intersect WaitsAt(W, js, n) = {}
  BY <1>1 DEF Waits, WaitsElse
<1>4. Weighed(N, Waits(W, js)) /\ Weighed(N, WaitsElse(W, js, n))
  BY <1>2 DEF Waits, WaitsElse
<1>5. Mass(WaitsAt(W, js, n)) = js[n] * W[n]
  <2>1. W[n] \in Nat
    OBVIOUS
  <2>2. QED
    BY <1>1, <2>1, MassEqual DEF Weighed
<1>6. QED
  BY <1>1, <1>3, <1>4, <1>5, MassUnion, MassType

\* A step that counts arrivals, or forgets them, at one JOIN.
LEMMA WaitsChange ==
  ASSUME NEW N \in Nat \ {0}, NEW W \in [Node -> 0..N], NEW js \in [Node -> Nat], NEW n \in Node,
         NEW c \in Nat, NEW jt, jt = [js EXCEPT ![n] = c]
  PROVE  Mass(Waits(W, jt)) = Mass(Waits(W, js)) - js[n] * W[n] + c * W[n]
<1>1. jt \in [Node -> Nat] /\ jt[n] = c /\ \A m \in Node \ {n} : jt[m] = js[m]
  OBVIOUS
<1>2. WaitsElse(W, jt, n) = WaitsElse(W, js, n)
  BY <1>1 DEF WaitsElse, WaitsAt
<1>3. js[n] * W[n] \in Int /\ c * W[n] \in Int
  OBVIOUS
<1>4. /\ Mass(Waits(W, js)) = Mass(WaitsElse(W, js, n)) + js[n] * W[n]
      /\ Mass(Waits(W, jt)) = Mass(WaitsElse(W, js, n)) + c * W[n]
      /\ Mass(WaitsElse(W, js, n)) \in Nat
  <2>1. /\ Mass(Waits(W, js)) = Mass(WaitsElse(W, js, n)) + js[n] * W[n]
        /\ Mass(WaitsElse(W, js, n)) \in Nat
    BY WaitsSplit
  <2>2. ASSUME NEW ks \in [Node -> Nat]
        PROVE  Mass(Waits(W, ks)) = Mass(WaitsElse(W, ks, n)) + ks[n] * W[n]
    BY WaitsSplit
  <2>3. Mass(Waits(W, jt)) = Mass(WaitsElse(W, jt, n)) + jt[n] * W[n]
    BY <1>1, <2>2
  <2>4. QED
    BY <1>1, <1>2, <2>1, <2>3
<1>5. QED
  BY <1>3, <1>4

\* Other branches in the place of the one at hand.
LEMMA ReplaceSpots ==
  ASSUME TypeOK, LiveParts, NEW N \in Nat \ {0}, NEW W \in [Node -> 0..N], NEW V \in [Node -> 0..N],
         NEW h \in Handler, pc[h] \in Holding, Alone(h), UNCHANGED <<requests, results>>,
         NEW T, Weighed(N, T), \A t \in T : t[1] = cur[h].id \/ t[1] \notin 1..minted,
         HeldSpots(W, V, h)' = T \union SeqSpots(W, todo[h])
  PROVE  /\ Mass(T) \in Nat /\ Mass(Spots(W, V)) \in Nat /\ CurWorth(W, V, h) \in Nat
         /\ Mass(Spots(W, V)') = Mass(Spots(W, V)) - CurWorth(W, V, h) + Mass(T)
<1>1. Spots(W, V)' = RestSpots(W, V, h) \union T
  BY SpotsSplit, AloneSpots DEF RestSpots
<1>2. /\ Weighed(N, RestSpots(W, V, h)) /\ Mass(RestSpots(W, V, h)) \in Nat
      /\ \A s \in RestSpots(W, V, h) : s[1] # cur[h].id /\ s[1] \in 1..minted
      /\ CurWorth(W, V, h) \in 0..N
      /\ Mass(Spots(W, V)) = Mass(RestSpots(W, V, h)) + CurWorth(W, V, h)
  BY RestIsBesides
<1>3. RestSpots(W, V, h) \intersect T = {}
  BY <1>2
<1>4. /\ Mass(RestSpots(W, V, h) \union T) = Mass(RestSpots(W, V, h)) + Mass(T)
      /\ Mass(T) \in Nat
  BY <1>2, <1>3, MassUnion, MassType
<1>5. QED
  BY <1>1, <1>2, <1>4

\* The branches of a fork are worth what its node sends out.
LEMMA ForkWorth ==
  ASSUME TypeOK, LiveParts, NEW N \in Nat \ {0}, NEW W \in [Node -> 0..N],
         NEW h \in Handler, pc[h] \in Holding, Resolves(At(h)),
         NEW fork \in Seq(Branch), DOMAIN fork = DOMAIN NextNodes[At(h)],
         \A i \in DOMAIN fork : /\ fork[i].id = IF i = 1 THEN cur[h].id ELSE minted + i - 1
                                /\ fork[i].dst = NextNodes[At(h)][i]
  PROVE  /\ Weighed(N, SeqSpots(W, fork))
         /\ Mass(SeqSpots(W, fork)) = Mass(Shares(W, At(h)))
         /\ \A t \in SeqSpots(W, fork) : t[1] = cur[h].id \/ t[1] \notin 1..minted
<1> DEFINE n == At(h)
           I == DOMAIN fork
           v == [i \in I |-> W[NextNodes[n][i]]]
           f == [i \in I |-> fork[i].id]
<1>1. /\ minted \in Nat /\ I = 1..Len(fork) /\ Len(fork) \in Nat
      /\ \A i \in I : NextNodes[n][i] \in Node
  BY DEF TypeOK, Resolves
<1>2. /\ Shares(W, n) = {<<i, v[i]>> : i \in I}
      /\ SeqSpots(W, fork) = {<<f[i], v[i]>> : i \in I}
  <2>1. \A i \in I : /\ f[i] = fork[i].id
                    /\ v[i] = W[NextNodes[n][i]] /\ v[i] = W[fork[i].dst]
    OBVIOUS
  <2>2. I = DOMAIN NextNodes[n] /\ I = DOMAIN fork
    OBVIOUS
  <2> HIDE DEF n, v, f, I
  <2>3. Shares(W, n) = {<<i, v[i]>> : i \in I}
    BY <2>1, <2>2 DEF Shares
  <2>4. SeqSpots(W, fork) = {<<f[i], v[i]>> : i \in I}
    BY <2>1, <2>2 DEF SeqSpots
  <2>5. QED
    BY <2>3, <2>4
<1>3. cur[h].id \in 1..minted
  BY HeldSplit, LiveSplit DEF LiveParts
<1>4. \A i \in I : v[i] \in 0..N /\ f[i] = IF i = 1 THEN cur[h].id ELSE minted + i - 1
  BY <1>1
<1> HIDE DEF n, v, f, I
<1>5. ASSUME NEW i \in I, NEW j \in I, f[i] = f[j]
      PROVE  i = j
  <2>1. i \in Nat /\ j \in Nat /\ i >= 1 /\ j >= 1
    BY <1>1
  <2>2. CASE i = 1 \/ j = 1
    BY <1>1, <1>3, <1>4, <1>5, <2>1, <2>2
  <2>3. CASE i # 1 /\ j # 1
    BY <1>1, <1>4, <1>5, <2>1, <2>3
  <2>4. QED
    BY <2>2, <2>3
<1>6. \A t \in SeqSpots(W, fork) : t[1] = cur[h].id \/ t[1] \notin 1..minted
  BY <1>1, <1>2, <1>4
<1>7. IsFiniteSet(I)
  BY <1>1, FS_Interval
<1>8. ASSUME NEW g
      PROVE  Weighed(N, Called(g, v, I))
  <2> DEFINE S == Called(g, v, I)
             F == [i \in I |-> <<g[i], v[i]>>]
  <2>1. S = {<<g[i], v[i]>> : i \in I}
    BY DEF Called
  <2>2. F \in Surjection(I, S)
    BY <2>1 DEF Surjection
  <2> HIDE DEF F
  <2>3. IsFiniteSet(S)
    BY <1>7, <2>2, FS_Surjection
  <2>4. \A s \in S : s[2] \in 0..N
    BY <1>4, <2>1
  <2> HIDE DEF S
  <2>5. Weighed(N, S)
    BY <2>3, <2>4 DEF Weighed
  <2>6. QED
    BY <2>5 DEF S
<1>9. SeqSpots(W, fork) = Called(f, v, I) /\ Weighed(N, SeqSpots(W, fork))
  <2>1. SeqSpots(W, fork) = Called(f, v, I)
    BY <1>2 DEF Called
  <2>2. QED
    BY <1>8, <2>1
<1>10. Mass(SeqSpots(W, fork)) = Mass(Shares(W, n))
  <2>1. PICK g : g = [i \in I |-> i]
    OBVIOUS
  <2>2. Shares(W, n) = Called(g, v, I)
    BY <1>2, <2>1 DEF Called
  <2>3. IsFiniteSet(Tokens(Called(g, v, I)))
    BY <1>8, MassType
  <2>4. \A i, j \in I : f[i] = f[j] => i = j
    BY <1>5
  <2>5. Mass(Called(f, v, I)) = Mass(Called(g, v, I))
    BY <2>1, <2>3, <2>4, MassRenamed
  <2>6. QED
    BY <1>9, <2>2, <2>5
<1>11. QED
  BY <1>2, <1>6, <1>9, <1>10 DEF n

\* A handler that keeps its branches at their worth.
LEMMA SameWorth ==
  ASSUME NEW h \in Handler, NEW W, NEW V, Alone(h), UNCHANGED <<requests, results, joinState>>,
         HeldSpots(W, V, h)' = HeldSpots(W, V, h)
  PROVE  Worth(W, V)' = Worth(W, V)
<1>1. Spots(W, V)' = Spots(W, V)
  BY SpotsSplit, AloneSpots
<1>2. QED
  BY <1>1 DEF Worth, Waits, WaitsAt

\* One that goes to another stage.
LEMMA GotoWorth ==
  ASSUME WorkType, NEW h \in Handler, NEW W, NEW V, Orderly(h), pc[h] \in Holding,
         NEW stage \in {"publish", "fanout"}, Goto(h, stage)
  PROVE  /\ Alone(h)
         /\ HeldSpots(W, V, h)' = {<<cur[h].id, V[At(h)]>>} \union SeqSpots(W, todo[h])
         /\ CurWorth(W, V, h) = V[At(h)] => HeldSpots(W, V, h)' = HeldSpots(W, V, h)
<1>1. pc'[h] = stage /\ UNCHANGED <<cur, todo>> /\ stage \in Holding /\ stage # "exec"
  BY DEF Goto, WorkType, Holding
<1>2. Alone(h)
  BY GotoHeld DEF Stages, Holding
<1>3. HeldSpots(W, V, h)' = {<<cur[h].id, V[At(h)]>>} \union SeqSpots(W, todo[h])
  BY <1>1 DEF HeldSpots, CurWorth, At, SeqSpots
<1>4. QED
  BY <1>2, <1>3 DEF HeldSpots

\* One that takes the successor of an IF or LOOP.
LEMMA SuccessorWorth ==
  ASSUME TypeOK, NEW h \in Handler, NEW N \in Nat \ {0}, NEW W \in [Node -> 0..N],
         NEW V \in [Node -> 0..N], Conserves(N, W, V), NoExit,
         Orderly(h), pc[h] = "exec", Kind[At(h)] \in {"if", "loop", "while"},
         Len(NextNodes[At(h)]) >= 2,
         NEW i \in {1, 2}, TakeSuccessor(h, At(h), i), pc'[h] # "fail"
  PROVE  Alone(h) /\ HeldSpots(W, V, h)' = HeldSpots(W, V, h)
<1> DEFINE n == At(h)
           m == NextNodes[n][i]
<1>1. WorkType /\ n \in Node /\ todo[h] \in Seq(Branch) /\ pc[h] \in Holding
  BY TypeSplit DEF WorkType, At, Branch, Holding
<1>2. i \in DOMAIN NextNodes[n] /\ m \in NodeIds
  <2>1. NextNodes[n] \in Seq(NodeIds)
    BY <1>1, BlueprintAssumption
  <2>2. Len(NextNodes[n]) \in Nat /\ DOMAIN NextNodes[n] = 1..Len(NextNodes[n])
    BY <2>1
  <2>3. i \in DOMAIN NextNodes[n]
    BY <2>2
  <2>4. QED
    BY <2>1, <2>3
<1>3. m # Exit
  BY <1>2 DEF NoExit
<1>4. m \in Node
  <2>1. SUFFICES ASSUME m \notin Node
                 PROVE  FALSE
    OBVIOUS
  <2>2. Goto(h, "fail")
    BY <1>3, <2>1 DEF TakeSuccessor
  <2>3. QED
    BY <1>1, <2>2 DEF Goto, WorkType
<1>5. Resume(h, <<BranchTo(h, m)>> \o todo[h])
  BY <1>3, <1>4 DEF TakeSuccessor
<1>6. W[m] = W[n]
  BY <1>1, <1>2, <1>4 DEF Conserves
<1> HIDE DEF m
<1> DEFINE s == <<BranchTo(h, m)>>
<1>7. s \in Seq(Branch) /\ DOMAIN s = {1} /\ s[1].id = cur[h].id /\ s[1].dst = m
  <2>1. cur[h] \in Branch
    BY <1>1 DEF WorkType
  <2>2. BranchTo(h, m) \in Branch /\ BranchTo(h, m).id = cur[h].id /\ BranchTo(h, m).dst = m
    BY <1>1, <1>4, <2>1 DEF BranchTo, At, Branch
  <2>3. QED
    BY <2>2
<1>8. Alone(h)
  BY <1>1, <1>4, <1>5, BranchToHeld, BranchToType, ResumeHeld
<1> HIDE DEF s
<1>9. SeqSpots(W, s) = {<<cur[h].id, W[n]>>}
  BY <1>6, <1>7 DEF SeqSpots
<1>10. s \o todo[h] \in Seq(Branch) /\ Resume(h, s \o todo[h])
  BY <1>1, <1>5, <1>7, ConcatProperties DEF s
<1>11. HeldSpots(W, V, h)' = {<<cur[h].id, W[n]>>} \union SeqSpots(W, todo[h])
  <2>1. HeldSpots(W, V, h)' = SeqSpots(W, s \o todo[h])
    BY <1>1, <1>10, ResumeSpots
  <2>2. SeqSpots(W, s \o todo[h]) = SeqSpots(W, s) \union SeqSpots(W, todo[h])
    <3>1. \A t, u \in Seq(Branch) : SeqSpots(W, t \o u) = SeqSpots(W, t) \union SeqSpots(W, u)
      BY ConcatSpots
    <3>2. QED
      BY <1>1, <1>7, <3>1
  <2>3. QED
    BY <1>9, <2>1, <2>2
<1>12. QED
  BY <1>1, <1>8, <1>11 DEF HeldSpots, CurWorth

-----------------------------------------------------------------------------
(* No step changes the worth, but for multiples. *)

\* Only a JOIN that waits has arrivals, and fewer than it waits for.
JoinsWait ==
  \A n \in Node : joinState[n] # 0 => Merges(n) /\ joinState[n] < countInEdges(n)

\* A JOIN, on the branch a handler has at hand.
LEMMA JoinWorth ==
  ASSUME TypeOK, LiveParts, JoinsWait, NEW h \in Handler, HandleJoinNode(h),
         NEW N \in Nat \ {0}, NEW W \in [Node -> 0..N], NEW V \in [Node -> 0..N],
         Conserves(N, W, V),
         Multiple(N, Worth(W, V))
  PROVE  Multiple(N, Worth(W, V)')
<1> DEFINE n == At(h)
           k == countInEdges(n)
           c == joinState[n]
<1>1. /\ WorkType /\ Orderly(h) /\ pc[h] \in Holding /\ pc[h] = "exec"
      /\ todo[h] \in Seq(Branch) /\ AllApart(todo[h])
  BY TypeSplit DEF WorkType, LiveParts, Orderly, HandleJoinNode, Holding
<1>2. n \in Node /\ Kind[n] = "join" /\ k \in Nat /\ c \in Nat /\ joinState \in [Node -> Nat]
  <2>1. n \in Node
    BY <1>1 DEF WorkType, At, Branch
  <2>2. QED
    BY <2>1, EdgesCoverSources DEF TypeOK, HandleJoinNode
<1>3. UNCHANGED <<requests, results>>
  BY DEF HandleJoinNode, broker
<1>4. CurWorth(W, V, h) = W[n]
  BY <1>1 DEF CurWorth
<1>5. /\ W[n] \in Nat /\ V[n] \in Nat /\ V[n] \in 0..N
      /\ Mass(Spots(W, V)) \in Nat /\ Mass(Waits(W, joinState)) \in Nat
  <2>1. W[n] \in 0..N /\ V[n] \in 0..N
    BY <1>2
  <2>2. Mass(Waits(W, joinState)) \in Nat
    BY <1>2, WaitsSplit
  <2>3. Mass(Spots(W, V)) \in Nat
    BY SpotIds, MassType
  <2>4. QED
    BY <2>1, <2>2, <2>3
<1> HIDE DEF n, k, c
<1>9. \A d \in Nat : \A jt : jt = [joinState EXCEPT ![n] = d] =>
        Mass(Waits(W, jt)) = Mass(Waits(W, joinState)) - joinState[n] * W[n] + d * W[n]
  <2>1. \A js \in [Node -> Nat] : \A m \in Node : \A d \in Nat : \A jt :
          jt = [js EXCEPT ![m] = d] =>
            Mass(Waits(W, jt)) = Mass(Waits(W, js)) - js[m] * W[m] + d * W[m]
    BY WaitsChange
  <2> HIDE DEF Mass, Waits
  <2>2. QED
    BY <1>2, <2>1
<1>6. CASE k <= 1
  <2>1. Goto(h, "fanout") /\ UNCHANGED joinState /\ V[n] = W[n]
    BY <1>2, <1>6 DEF HandleJoinNode, n, k, Conserves, Merges
  <2>2. Worth(W, V)' = Worth(W, V)
    BY <1>1, <1>3, <1>4, <2>1, GotoWorth, SameWorth DEF n
  <2>3. QED
    BY <2>2
<1>7. CASE k > 1 /\ IsLastArrival(n)
  <2>1. Goto(h, "fanout") /\ joinState' = [joinState EXCEPT ![n] = 0] /\ Merges(n)
    BY <1>2, <1>7 DEF HandleJoinNode, JoinStateOnProceed, n, k, Merges
  <2>2. c = k - 1
    BY <1>2, <1>7 DEF JoinsWait, IsLastArrival, k, c
  <2> DEFINE T == {<<cur[h].id, V[n]>>}
  <2>3. Weighed(N, T) /\ Mass(T) = V[n]
    <3>1. IsFiniteSet(T)
      BY FS_Singleton
    <3>2. \A t \in T : t[2] = V[n]
      OBVIOUS
    <3>3. Mass(T) = V[n]
      BY <1>5, MassSmall
    <3> HIDE DEF T
    <3>4. QED
      BY <1>5, <3>1, <3>2, <3>3 DEF Weighed
  <2>4. Alone(h) /\ HeldSpots(W, V, h)' = T \union SeqSpots(W, todo[h])
    BY <1>1, <2>1, GotoWorth DEF n
  <2>5. \A t \in T : t[1] = cur[h].id \/ t[1] \notin 1..minted
    OBVIOUS
  <2> HIDE DEF T
  <2>6. Mass(Spots(W, V)') = Mass(Spots(W, V)) - W[n] + V[n]
    <3>1. ASSUME NEW U, Weighed(N, U), \A t \in U : t[1] = cur[h].id \/ t[1] \notin 1..minted,
                 HeldSpots(W, V, h)' = U \union SeqSpots(W, todo[h])
          PROVE  Mass(Spots(W, V)') = Mass(Spots(W, V)) - CurWorth(W, V, h) + Mass(U)
      <4>1. Alone(h) /\ pc[h] \in Holding /\ UNCHANGED <<requests, results>>
        BY <1>1, <1>3, <2>4
      <4>2. QED
        BY <3>1, <4>1, ReplaceSpots
    <3>2. QED
      BY <1>4, <2>3, <2>4, <2>5, <3>1
  <2>7. Mass(Waits(W, joinState')) = Mass(Waits(W, joinState)) - c * W[n] + 0 * W[n]
    <3>1. 0 \in Nat
      OBVIOUS
    <3>2. QED
      BY <1>9, <2>1, <3>1 DEF c
  <2>8. Multiple(N, V[n] - k * W[n])
    BY <1>2, <2>1 DEF Conserves, k
  <2>9. c * W[n] = k * W[n] - W[n] /\ k * W[n] \in Int /\ 0 * W[n] = 0
    <3>1. \A w, p \in Nat : (p - 1) * w = p * w - w /\ p * w \in Int /\ 0 * w = 0
      OBVIOUS
    <3>2. QED
      BY <1>2, <1>5, <2>2, <3>1
  <2>10. Worth(W, V)' = Worth(W, V) + (V[n] - k * W[n])
    <3>1. Worth(W, V)' = Mass(Spots(W, V)') + Mass(Waits(W, joinState'))
      BY DEF Worth, Waits, WaitsAt
    <3>2. Worth(W, V) = Mass(Spots(W, V)) + Mass(Waits(W, joinState))
      BY DEF Worth
    <3>3. QED
      BY <1>5, <2>6, <2>7, <2>9, <3>1, <3>2
  <2>11. Worth(W, V) \in Int /\ V[n] - k * W[n] \in Int
    BY <1>5, <2>9 DEF Worth
  <2>12. QED
    BY <2>8, <2>10, <2>11, MultiplesAdd
<1>8. CASE k > 1 /\ ~IsLastArrival(n)
  <2>1. Resume(h, todo[h]) /\ joinState' = [joinState EXCEPT ![n] = c + 1]
    BY <1>2, <1>8 DEF HandleJoinNode, n, k, c
  <2> DEFINE T == {}
  <2>2. Alone(h) /\ HeldSpots(W, V, h)' = T \union SeqSpots(W, todo[h])
    BY <1>1, <2>1, ResumeHeld, ResumeSpots
  <2>3. /\ Weighed(N, T) /\ Mass(T) = 0
        /\ \A t \in T : t[1] = cur[h].id \/ t[1] \notin 1..minted
    BY MassSmall, FS_EmptySet DEF Weighed
  <2> HIDE DEF T
  <2>4. Mass(Spots(W, V)') = Mass(Spots(W, V)) - W[n] + 0
    <3>1. ASSUME NEW U, Weighed(N, U), \A t \in U : t[1] = cur[h].id \/ t[1] \notin 1..minted,
                 HeldSpots(W, V, h)' = U \union SeqSpots(W, todo[h])
          PROVE  Mass(Spots(W, V)') = Mass(Spots(W, V)) - CurWorth(W, V, h) + Mass(U)
      <4>1. Alone(h) /\ pc[h] \in Holding /\ UNCHANGED <<requests, results>>
        BY <1>1, <1>3, <2>2
      <4>2. QED
        BY <3>1, <4>1, ReplaceSpots
    <3>2. QED
      BY <1>4, <2>2, <2>3, <3>1
  <2>5. Mass(Waits(W, joinState')) = Mass(Waits(W, joinState)) - c * W[n] + (c + 1) * W[n]
    <3>1. c + 1 \in Nat
      BY <1>2
    <3>2. QED
      BY <1>9, <2>1, <3>1 DEF c
  <2>6. (c + 1) * W[n] = c * W[n] + W[n] /\ c * W[n] \in Int
    <3>1. \A w, p \in Nat : (p + 1) * w = p * w + w /\ p * w \in Int
      OBVIOUS
    <3>2. QED
      BY <1>2, <1>5, <3>1
  <2>7. Worth(W, V)' = Worth(W, V)
    <3>1. Worth(W, V)' = Mass(Spots(W, V)') + Mass(Waits(W, joinState'))
      BY DEF Worth, Waits, WaitsAt
    <3>2. Worth(W, V) = Mass(Spots(W, V)) + Mass(Waits(W, joinState))
      BY DEF Worth
    <3>3. QED
      BY <1>5, <2>4, <2>5, <2>6, <3>1, <3>2
  <2>8. QED
    BY <2>7
<1>10. QED
  BY <1>2, <1>6, <1>7, <1>8

\* Branches of the same worth, but for multiples, in the place of the one at hand.
LEMMA ReplaceWorth ==
  ASSUME TypeOK, LiveParts, NEW N \in Nat \ {0}, NEW W \in [Node -> 0..N], NEW V \in [Node -> 0..N],
         NEW h \in Handler, pc[h] \in Holding, Alone(h), UNCHANGED <<requests, results, joinState>>,
         NEW T, Weighed(N, T), \A t \in T : t[1] = cur[h].id \/ t[1] \notin 1..minted,
         HeldSpots(W, V, h)' = T \union SeqSpots(W, todo[h]),
         Multiple(N, CurWorth(W, V, h) - Mass(T)), Multiple(N, Worth(W, V))
  PROVE  Multiple(N, Worth(W, V)')
<1>1. /\ Mass(T) \in Nat /\ Mass(Spots(W, V)) \in Nat /\ CurWorth(W, V, h) \in Nat
      /\ Mass(Spots(W, V)') = Mass(Spots(W, V)) - CurWorth(W, V, h) + Mass(T)
  BY ReplaceSpots
<1>2. Mass(Waits(W, joinState)) \in Nat
  <2>1. joinState \in [Node -> Nat] /\ Entry \in Node
    BY BlueprintAssumption DEF TypeOK
  <2>2. QED
    BY <2>1, WaitsSplit
<1>3. /\ Worth(W, V) = Mass(Spots(W, V)) + Mass(Waits(W, joinState))
      /\ Worth(W, V)' = Mass(Spots(W, V)') + Mass(Waits(W, joinState))
  BY DEF Worth, Waits, WaitsAt
<1> DEFINE d == CurWorth(W, V, h) - Mass(T)
<1>4. d \in Int /\ Worth(W, V) \in Int /\ Worth(W, V)' = Worth(W, V) + (0 - d)
  BY <1>1, <1>2, <1>3
<1>5. Multiple(N, d)
  OBVIOUS
<1> HIDE DEF d
<1>6. Multiple(N, 0 - d) /\ 0 - d \in Int
  BY <1>4, <1>5, ZeroAndMinus
<1>7. Multiple(N, Worth(W, V) + (0 - d))
  BY <1>4, <1>6, MultiplesAdd
<1>8. QED
  BY <1>4, <1>7

\* The end of a branch: what its node lets out is nothing.
LEMMA EndWorth ==
  ASSUME TypeOK, LiveParts, NEW h \in Handler, EndBranch(h),
         NEW N \in Nat \ {0}, NEW W \in [Node -> 0..N], NEW V \in [Node -> 0..N],
         Conserves(N, W, V),
         Multiple(N, Worth(W, V))
  PROVE  Multiple(N, Worth(W, V)')
<1> DEFINE n == At(h)
<1>1. /\ WorkType /\ Orderly(h) /\ pc[h] \in Holding /\ pc[h] = "fanout" /\ n \in Node
      /\ todo[h] \in Seq(Branch) /\ AllApart(todo[h])
      /\ NextNodes[n] = <<>> /\ UNCHANGED <<requests, results, joinState>>
  BY TypeSplit DEF WorkType, LiveParts, Orderly, EndBranch, Holding, broker, At, Branch
<1>2. Alone(h) /\ HeldSpots(W, V, h)' = SeqSpots(W, todo[h])
  <2>1. CASE Goto(h, "complete")
    <3>1. pc'[h] = "complete" /\ todo' = todo
      BY <1>1, <2>1 DEF Goto, WorkType
    <3>2. Alone(h)
      BY <1>1, <2>1, GotoHeld DEF Stages, Holding
    <3>3. QED
      BY <3>1, <3>2 DEF HeldSpots, SeqSpots, Holding
  <2>2. CASE Resume(h, todo[h])
    BY <1>1, <2>2, ResumeHeld, ResumeSpots
  <2>3. QED
    BY <2>1, <2>2 DEF EndBranch
<1>3. Multiple(N, CurWorth(W, V, h) - Mass({}))
  <2>1. DOMAIN NextNodes[n] = {}
    BY <1>1
  <2>2. Resolves(n) /\ Shares(W, n) = {}
    BY <2>1 DEF Resolves, Shares
  <2>3. CurWorth(W, V, h) = V[n]
    BY <1>1 DEF CurWorth
  <2> HIDE DEF n
  <2>4. QED
    BY <1>1, <2>2, <2>3 DEF Conserves
<1>4. Weighed(N, {})
  BY FS_EmptySet DEF Weighed
<1>5. ASSUME NEW T, Weighed(N, T), \A t \in T : t[1] = cur[h].id \/ t[1] \notin 1..minted,
             HeldSpots(W, V, h)' = T \union SeqSpots(W, todo[h]),
             Multiple(N, CurWorth(W, V, h) - Mass(T))
      PROVE  Multiple(N, Worth(W, V)')
  BY <1>1, <1>2, <1>5, ReplaceWorth
<1>6. QED
  BY <1>2, <1>3, <1>4, <1>5

\* A fork: what its node lets out.
LEMMA FanOutWorth ==
  ASSUME TypeOK, LiveParts, NEW h \in Handler, ForkBranches(h),
         NEW N \in Nat \ {0}, NEW W \in [Node -> 0..N], NEW V \in [Node -> 0..N],
         Conserves(N, W, V),
         Multiple(N, Worth(W, V))
  PROVE  Multiple(N, Worth(W, V)')
<1> DEFINE n == At(h)
           succ == NextNodes[n]
           fork == [i \in 1..Len(succ) |->
                      [id |-> IF i = 1 THEN cur[h].id ELSE minted + i - 1,
                       src |-> n, dst |-> succ[i]]]
<1>1. /\ WorkType /\ Orderly(h) /\ pc[h] \in Holding /\ pc[h] = "fanout" /\ n \in Node
      /\ todo[h] \in Seq(Branch) /\ minted \in Nat
      /\ succ # <<>> /\ Resolves(n) /\ UNCHANGED <<requests, results, joinState>>
      /\ Resume(h, fork \o todo[h])
  BY TypeSplit DEF WorkType, LiveParts, Orderly, ForkBranches, Holding, broker, At, Branch, TypeOK
<1>2. succ \in Seq(NodeIds) /\ \A i \in DOMAIN succ : succ[i] \in Node
  BY <1>1, BlueprintAssumption DEF Resolves
<1>3. Len(succ) \in Nat /\ DOMAIN succ = 1..Len(succ)
  BY <1>2
<1>4. /\ fork \in Seq(Branch) /\ DOMAIN fork = DOMAIN succ
      /\ \A i \in DOMAIN fork : /\ fork[i].id = IF i = 1 THEN cur[h].id ELSE minted + i - 1
                                /\ fork[i].dst = succ[i]
  <2>1. cur[h] \in Branch
    BY <1>1 DEF WorkType
  <2>2. ASSUME NEW i \in 1..Len(succ)
        PROVE  /\ fork[i] \in Branch
               /\ fork[i].id = IF i = 1 THEN cur[h].id ELSE minted + i - 1
               /\ fork[i].dst = succ[i]
    <3>1. (IF i = 1 THEN cur[h].id ELSE minted + i - 1) \in Nat
      BY <1>1, <1>3, <2>1 DEF Branch
    <3>2. succ[i] \in Node /\ n \in Node
      BY <1>1, <1>2, <1>3
    <3>3. fork[i] = [id |-> IF i = 1 THEN cur[h].id ELSE minted + i - 1,
                     src |-> n, dst |-> succ[i]]
      OBVIOUS
    <3> HIDE DEF n, succ, fork
    <3>4. QED
      BY <3>1, <3>2, <3>3 DEF Branch
  <2>3. fork = [i \in 1..Len(succ) |-> fork[i]] /\ DOMAIN fork = 1..Len(succ)
    OBVIOUS
  <2> DEFINE L == Len(succ)
  <2>4. /\ fork = [i \in 1..L |-> fork[i]] /\ L \in Nat
        /\ \A i \in 1..L : fork[i] \in Branch
    BY <1>3, <2>2, <2>3
  <2> HIDE DEF fork, L
  <2>5. fork \in [1..L -> Branch]
    BY <2>4
  <2>6. fork \in Seq(Branch)
    BY <2>4, <2>5, IsASeq
  <2>7. QED
    BY <1>3, <2>2, <2>3, <2>6
<1>5. fork \o todo[h] \in Seq(Branch) /\ AllApart(fork \o todo[h])
  <2>1. HeldBy(h) \subseteq 1..minted
    BY LiveSplit DEF LiveParts
  <2>2. QED
    BY <1>1, <1>2, <2>1, ForkHeld DEF n
<1> HIDE DEF fork
<1> DEFINE T == SeqSpots(W, fork)
<1>6. Alone(h) /\ HeldSpots(W, V, h)' = T \union SeqSpots(W, todo[h])
  <2>1. \A t, u \in Seq(Branch) : SeqSpots(W, t \o u) = SeqSpots(W, t) \union SeqSpots(W, u)
    BY ConcatSpots
  <2>2. HeldSpots(W, V, h)' = SeqSpots(W, fork \o todo[h])
    BY <1>1, <1>5, ResumeSpots
  <2>3. Alone(h)
    BY <1>1, <1>5, ResumeHeld
  <2>4. QED
    BY <1>1, <1>4, <2>1, <2>2, <2>3
<1>7. /\ Weighed(N, T) /\ Mass(T) = Mass(Shares(W, n))
      /\ \A t \in T : t[1] = cur[h].id \/ t[1] \notin 1..minted
  BY <1>1, <1>4, ForkWorth
<1> HIDE DEF T
<1>8. Multiple(N, CurWorth(W, V, h) - Mass(T))
  <2>1. CurWorth(W, V, h) = V[n]
    BY <1>1 DEF CurWorth
  <2> HIDE DEF n
  <2>2. QED
    BY <1>1, <1>7, <2>1 DEF Conserves
<1>9. QED
  BY <1>1, <1>6, <1>7, <1>8, ReplaceWorth

\* A step of the walk, unless it finds that the Task must fail.
LEMMA HandlerWorth ==
  ASSUME TypeOK, LiveParts, JoinsWait, NoExit, NEW h \in Handler, HandlerStep(h), pc'[h] # "fail",
         NEW N \in Nat \ {0}, NEW W \in [Node -> 0..N], NEW V \in [Node -> 0..N],
         Conserves(N, W, V),
         Multiple(N, Worth(W, V))
  PROVE  Multiple(N, Worth(W, V)')
<1> USE DEF broker
<1>1. WorkType /\ Orderly(h) /\ At(h) \in Node /\ todo[h] \in Seq(Branch) /\ AllApart(todo[h])
  BY TypeSplit DEF WorkType, LiveParts, Orderly, At, Branch
<1>2. ASSUME NEW stage \in Stages, Goto(h, stage)
      PROVE  pc'[h] = stage
  BY <1>1, <1>2 DEF Goto, WorkType
<1>3. ASSUME NEW stage \in {"publish", "fanout"}, Goto(h, stage), pc[h] \in Holding,
             CurWorth(W, V, h) = V[At(h)], UNCHANGED <<requests, results, joinState>>
      PROVE  Worth(W, V)' = Worth(W, V)
  BY <1>1, <1>3, GotoWorth, SameWorth
<1>4. ASSUME pc[h] = "exec", Kind[At(h)] \in {"plugin", "input", "output"}
      PROVE  CurWorth(W, V, h) = V[At(h)] /\ pc[h] \in Holding
  BY <1>1, <1>4 DEF CurWorth, Conserves, Holding
<1>5. ASSUME NEW i \in {1, 2}, pc[h] = "exec", Kind[At(h)] \in {"if", "loop", "while"},
             Len(NextNodes[At(h)]) >= 2, TakeSuccessor(h, At(h), i),
             UNCHANGED <<requests, results, joinState>>
      PROVE  Worth(W, V)' = Worth(W, V)
  <2>1. Alone(h) /\ HeldSpots(W, V, h)' = HeldSpots(W, V, h)
    BY <1>1, <1>5, SuccessorWorth
  <2>2. QED
    BY <1>5, <2>1, SameWorth
<1>6. CASE RemoveActiveNode(h)
  <2>1. PICK stage \in {"fanout", "fail"} : Goto(h, stage)
    BY <1>6 DEF RemoveActiveNode
  <2>2. stage = "fanout"
    BY <1>2, <2>1 DEF Stages
  <2>3. CurWorth(W, V, h) = V[At(h)] /\ pc[h] \in Holding
    BY <1>6 DEF RemoveActiveNode, CurWorth, Holding
  <2>4. UNCHANGED <<requests, results, joinState>>
    BY <1>6 DEF RemoveActiveNode
  <2>5. QED
    BY <1>3, <2>1, <2>2, <2>3, <2>4
<1>7. CASE EndBranch(h)
  BY <1>7, EndWorth
<1>8. CASE NextNodeNotFound(h)
  BY <1>2, <1>8 DEF NextNodeNotFound, Stages
<1>9. CASE ForkBranches(h)
  BY <1>9, FanOutWorth
<1>10. CASE ExecutePluginNode(h)
  <2>1. Goto(h, "publish") /\ UNCHANGED <<requests, results, joinState>>
    BY <1>10 DEF ExecutePluginNode
  <2>2. CurWorth(W, V, h) = V[At(h)] /\ pc[h] \in Holding
    BY <1>4, <1>10 DEF ExecutePluginNode
  <2>3. QED
    BY <1>3, <2>1, <2>2
<1>11. CASE Publish(h)
  <2>1. /\ Resume(h, todo[h]) /\ pc[h] = "publish"
        /\ requests' = requests \union {[id |-> cur[h].id, node |-> At(h)]}
        /\ UNCHANGED <<results, joinState>>
    <3>1. channelUp
      BY <1>2, <1>11 DEF Publish, Stages
    <3>2. QED
      BY <1>11, <3>1 DEF Publish, task
  <2>2. HeldSpots(W, V, h) = {<<cur[h].id, V[At(h)]>>} \union SeqSpots(W, todo[h])
    BY <2>1 DEF HeldSpots, CurWorth, Holding
  <2>3. HeldSpots(W, V, h)' = SeqSpots(W, todo[h]) /\ Alone(h)
    BY <1>1, <2>1, ResumeHeld, ResumeSpots
  <2>4. OutSpots(V)' = OutSpots(V) \union {<<cur[h].id, V[At(h)]>>}
    <3> DEFINE new == [id |-> cur[h].id, node |-> At(h)]
    <3>1. new.id = cur[h].id /\ new.node = At(h) /\ requests' = requests \union {new}
      BY <2>1
    <3> HIDE DEF new
    <3>2. {<<q.id, V[q.node]>> : q \in requests'} =
            {<<q.id, V[q.node]>> : q \in requests} \union {<<cur[h].id, V[At(h)]>>}
      BY <3>1
    <3>3. QED
      BY <2>1, <3>2 DEF OutSpots
  <2>5. \A g \in Handler \ {h} : HeldSpots(W, V, g)' = HeldSpots(W, V, g)
    BY <2>3, HeldSpotsKept DEF Alone
  <2>6. SpotsElse(W, V, h)' = SpotsElse(W, V, h) \union {<<cur[h].id, V[At(h)]>>}
    BY <2>4, <2>5 DEF SpotsElse
  <2>7. Spots(W, V)' = Spots(W, V)
    <3> DEFINE spot == <<cur[h].id, V[At(h)]>>
    <3>1. /\ HeldSpots(W, V, h) = {spot} \union SeqSpots(W, todo[h])
          /\ HeldSpots(W, V, h)' = SeqSpots(W, todo[h])
          /\ SpotsElse(W, V, h)' = SpotsElse(W, V, h) \union {spot}
      BY <2>2, <2>3, <2>6
    <3> HIDE DEF spot
    <3>2. /\ Spots(W, V) = SpotsElse(W, V, h) \union HeldSpots(W, V, h)
          /\ Spots(W, V)' = SpotsElse(W, V, h)' \union HeldSpots(W, V, h)'
      BY SpotsSplit
    <3>3. QED
      BY <3>1, <3>2
  <2>8. Worth(W, V)' = Worth(W, V)
    BY <2>1, <2>7 DEF Worth, Waits, WaitsAt
  <2>9. QED
    BY <2>8
<1>12. CASE ExecuteDataNode(h)
  <2>1. PICK stage \in {"fanout", "fail"} : Goto(h, stage)
    BY <1>12 DEF ExecuteDataNode
  <2>2. stage = "fanout"
    BY <1>2, <2>1 DEF Stages
  <2>3. CurWorth(W, V, h) = V[At(h)] /\ pc[h] \in Holding
    BY <1>4, <1>12 DEF ExecuteDataNode
  <2>4. UNCHANGED <<requests, results, joinState>>
    BY <1>12 DEF ExecuteDataNode, task
  <2>5. QED
    BY <1>3, <2>1, <2>2, <2>3, <2>4
<1>13. CASE HandleJoinNode(h)
  BY <1>13, JoinWorth
<1>14. CASE HandleIFNode(h)
  <2>1. ~Goto(h, "fail")
    BY <1>2 DEF Stages
  <2>2. PICK i \in {1, 2} : TakeSuccessor(h, At(h), i)
    BY <1>14, <2>1 DEF HandleIFNode
  <2>3. /\ pc[h] = "exec" /\ Kind[At(h)] = "if" /\ Len(NextNodes[At(h)]) >= 2
        /\ UNCHANGED <<requests, results, joinState>>
    BY <1>14, <2>1 DEF HandleIFNode, task
  <2>4. Worth(W, V)' = Worth(W, V)
    BY <1>5, <2>2, <2>3
  <2>5. QED
    BY <2>4
<1>15. CASE HandleLoopNode(h)
  <2>1. ~Goto(h, "fail")
    BY <1>2 DEF Stages
  <2>2. PICK i \in {1, 2} : TakeSuccessor(h, At(h), i)
    BY <1>15, <2>1 DEF HandleLoopNode
  <2>3. /\ pc[h] = "exec" /\ Kind[At(h)] \in {"loop", "while"} /\ Len(NextNodes[At(h)]) >= 2
        /\ UNCHANGED <<requests, results, joinState>>
    BY <1>15, <2>1 DEF HandleLoopNode
  <2>4. Worth(W, V)' = Worth(W, V)
    BY <1>5, <2>2, <2>3
  <2>5. QED
    BY <2>4
<1>16. CASE ExecuteUnknownNode(h)
  BY <1>2, <1>16 DEF ExecuteUnknownNode, Stages
<1>17. QED
  BY <1>6, <1>7, <1>8, <1>9, <1>10, <1>11, <1>12, <1>13, <1>14, <1>15, <1>16 DEF HandlerStep

-----------------------------------------------------------------------------
(* While no branch is lost and none has found an error. *)

Settled ==
  /\ status = "running"
  /\ activeBranches = Cardinality(LiveBranches)
  /\ \A h \in Handler : pc[h] # "fail"

\* A step that leaves the count exact found it exact.
LEMMA ExactBefore ==
  ASSUME LiveParts, minted \in Nat, minted' \in Nat, minted' >= minted, activeBranches \in Int,
         \/ activeBranches' = activeBranches /\ LiveBranches' = LiveBranches
         \/ /\ activeBranches' = activeBranches - 1
            /\ \E b \in LiveBranches : LiveBranches' = LiveBranches \ {b}
         \/ /\ activeBranches' = activeBranches + (minted' - minted)
            /\ LiveBranches' = LiveBranches \union ((minted + 1)..minted'),
         activeBranches' = Cardinality(LiveBranches')
  PROVE  activeBranches = Cardinality(LiveBranches)
<1>1. IsFiniteSet(LiveBranches) /\ Cardinality(LiveBranches) \in Nat
  BY FiniteLive
<1>2. CASE activeBranches' = activeBranches /\ LiveBranches' = LiveBranches
  BY <1>2
<1>3. CASE /\ activeBranches' = activeBranches - 1
           /\ \E b \in LiveBranches : LiveBranches' = LiveBranches \ {b}
  <2>1. PICK b \in LiveBranches : LiveBranches' = LiveBranches \ {b}
    BY <1>3
  <2>2. Cardinality(LiveBranches \ {b}) = Cardinality(LiveBranches) - 1
    BY <1>1, FS_RemoveElement
  <2>3. Cardinality(LiveBranches') = Cardinality(LiveBranches) - 1
    BY <2>1, <2>2
  <2>4. activeBranches - 1 = Cardinality(LiveBranches) - 1
    BY <1>3, <2>3
  <2>5. QED
    BY <1>1, <2>4
<1>4. CASE /\ activeBranches' = activeBranches + (minted' - minted)
           /\ LiveBranches' = LiveBranches \union ((minted + 1)..minted')
  <2>1. Cardinality(LiveBranches') = Cardinality(LiveBranches) + (minted' - minted)
    BY <1>1, <1>4, ForkCount
  <2>2. activeBranches + (minted' - minted) = Cardinality(LiveBranches) + (minted' - minted)
    BY <1>4, <2>1
  <2>3. QED
    BY <1>1, <2>2
<1>5. QED
  BY <1>2, <1>3, <1>4

\* The walk: a step that leaves the Task settled found it so.
LEMMA HandlerSettled ==
  ASSUME AInv, AInv', NEW h \in Handler, HandlerStep(h), Settled'
  PROVE  Settled /\ pc'[h] # "fail"
<1>1. /\ TypeOK /\ LiveParts /\ Orderly(h) /\ HeldBy(h) \subseteq 1..minted
      /\ minted \in Nat /\ minted' \in Nat /\ activeBranches \in Int
  <2>1. HeldBy(h) \subseteq LiveBranches
    BY LiveSplit
  <2>2. QED
    BY <2>1, NumberTypes DEF AInv, IInv, LiveParts, TypeOK
<1>2. (Stays(h) \/ Ends(h) \/ Sends(h) \/ Forks(h)) /\ UNCHANGED status
  BY <1>1, HandlerStepKinds
<1>3. pc[h] # "fail"
  BY DEF HandlerStep, RemoveActiveNode, EndBranch, NextNodeNotFound, ForkBranches,
         ExecutePluginNode, Publish, ExecuteDataNode, HandleJoinNode, HandleIFNode,
         HandleLoopNode, ExecuteUnknownNode
<1>4. \A g \in Handler : pc[g] # "fail"
  BY <1>2, <1>3 DEF Settled, Stays, Ends, Sends, Forks, Alone
<1>5. activeBranches' = Cardinality(LiveBranches')
  BY DEF Settled
<1>6. CASE Stays(h) \/ Sends(h)
  <2>1. LiveBranches' = LiveBranches
    BY <1>1, <1>6, StaysLive, SendsLive
  <2>2. QED
    BY <1>2, <1>4, <1>5, <1>6, <2>1 DEF Settled, Stays, Sends
<1>7. CASE Ends(h)
  <2>1. LiveBranches' = LiveBranches \ {cur[h].id} /\ cur[h].id \in LiveBranches
    BY <1>1, <1>7, EndsLive
  <2>2. activeBranches' = activeBranches - 1 /\ minted' >= minted
    BY <1>1, <1>7 DEF Ends
  <2>3. activeBranches = Cardinality(LiveBranches)
    BY <1>1, <1>5, <2>1, <2>2, ExactBefore
  <2>4. QED
    BY <1>2, <1>4, <2>3 DEF Settled
<1>8. CASE Forks(h)
  <2>1. LiveBranches' = LiveBranches \union ((minted + 1)..minted')
    BY <1>1, <1>8, ForksLive
  <2>2. activeBranches' = activeBranches + (minted' - minted) /\ minted' >= minted
    BY <1>8 DEF Forks
  <2>3. activeBranches = Cardinality(LiveBranches)
    BY <1>1, <1>5, <2>1, <2>2, ExactBefore
  <2>4. QED
    BY <1>2, <1>4, <2>3 DEF Settled
<1>9. QED
  BY <1>2, <1>6, <1>7, <1>8 DEF Settled

\* A result is taken up: its branch is worth on the handler what it was worth on the way.
LEMMA ReceiveWorth ==
  ASSUME AInv, NEW h \in Handler, NEW r \in results, Receive(h, r), Settled',
         NEW N \in Nat \ {0}, NEW W \in [Node -> 0..N], NEW V \in [Node -> 0..N]
  PROVE  Settled /\ Worth(W, V)' = Worth(W, V)
<1>1. WorkType /\ TypeOK /\ LiveParts /\ Orderly(h)
  BY TypeSplit DEF AInv, IInv, LiveParts
<1>2. /\ results' = results \ {r} /\ pc[h] = "idle"
      /\ UNCHANGED <<requests, activeBranches, status, joinState>>
  BY DEF Receive, task
<1>3. status = "running"
  BY <1>2 DEF Settled
<1>4. /\ pc'[h] \in {"remove", "fail"} /\ cur'[h] = [id |-> r.id, src |-> r.node, dst |-> r.node]
      /\ todo' = todo /\ Alone(h)
  BY <1>1, <1>3 DEF Receive, WorkType, Alone
<1>5. todo[h] = <<>> /\ DOMAIN <<>> = {}
  BY <1>1, <1>2 DEF Orderly
<1>6. pc'[h] = "remove" /\ cur'[h].id = r.id /\ cur'[h].dst = r.node
  BY <1>4 DEF Settled
<1>7. HeldBy(h) = {} /\ HeldBy(h)' = {r.id}
  BY <1>2, <1>4, <1>5, <1>6 DEF HeldBy, Holding
<1>8. /\ HeldSpots(W, V, h) = {}
      /\ HeldSpots(W, V, h)' = {<<r.id, V[r.node]>>}
  BY <1>2, <1>4, <1>5, <1>6 DEF HeldSpots, SeqSpots, CurWorth, At, Holding
<1>9. LiveBranches' = LiveBranches
  <2>1. OutIds = OutIds' \union {r.id}
    BY <1>2 DEF OutIds
  <2>2. Elsewhere(h)' = Elsewhere(h)
    BY <1>4, AloneKeeps
  <2>3. QED
    BY <1>7, <2>1, <2>2, LiveSplit
<1>10. Spots(W, V)' = Spots(W, V)
  <2> DEFINE spot == <<r.id, V[r.node]>>
  <2>1. OutSpots(V) = OutSpots(V)' \union {spot}
    BY <1>2 DEF OutSpots
  <2>2. \A g \in Handler \ {h} : HeldSpots(W, V, g)' = HeldSpots(W, V, g)
    BY <1>4, HeldSpotsKept DEF Alone
  <2>3. HeldSpots(W, V, h)' = {spot}
    BY <1>8
  <2> HIDE DEF spot
  <2>4. SpotsElse(W, V, h) = SpotsElse(W, V, h)' \union {spot}
    BY <2>1, <2>2 DEF SpotsElse
  <2>5. /\ Spots(W, V) = SpotsElse(W, V, h) \union HeldSpots(W, V, h)
        /\ Spots(W, V)' = SpotsElse(W, V, h)' \union HeldSpots(W, V, h)'
    BY SpotsSplit
  <2>6. QED
    BY <1>8, <2>3, <2>4, <2>5
<1>11. Settled
  BY <1>2, <1>3, <1>4, <1>9 DEF Settled, Alone
<1>12. QED
  BY <1>2, <1>10, <1>11 DEF Worth, Waits, WaitsAt

\* A plugin that answers.
LEMMA AnswerWorth ==
  ASSUME AInv, NEW q \in requests, NEW ok \in BOOLEAN, PluginAnswers(q, ok), Settled',
         NEW N \in Nat \ {0}, NEW W \in [Node -> 0..N], NEW V \in [Node -> 0..N]
  PROVE  Settled /\ Worth(W, V)' = Worth(W, V)
<1>1. /\ requests' = requests \ {q}
      /\ UNCHANGED <<pc, cur, todo, activeBranches, status, joinState>>
  BY DEF PluginAnswers, task, work
<1>2. PICK new : new.id = q.id /\ new.node = q.node /\ results' = results \union {new}
  <2>1. results' = results \union {[id |-> q.id, node |-> q.node, ok |-> ok]}
    BY DEF PluginAnswers
  <2>2. QED
    BY <2>1
<1>3. OutIds' = OutIds
  <2>1. {p.id : p \in requests} = {p.id : p \in requests'} \union {q.id}
    BY <1>1
  <2>2. {p.id : p \in results'} = {p.id : p \in results} \union {q.id}
    BY <1>2
  <2>3. QED
    BY <2>1, <2>2 DEF OutIds
<1>4. OutSpots(V)' = OutSpots(V)
  <2> DEFINE spot == <<q.id, V[q.node]>>
             Asked == {<<p.id, V[p.node]>> : p \in requests}
             Back == {<<p.id, V[p.node]>> : p \in results}
  <2>1. Asked = Asked' \union {spot}
    BY <1>1
  <2>2. Back' = Back \union {spot}
    BY <1>2
  <2>3. OutSpots(V) = Asked \union Back /\ OutSpots(V)' = Asked' \union Back'
    BY DEF OutSpots
  <2> HIDE DEF spot, Asked, Back
  <2>4. QED
    BY <2>1, <2>2, <2>3
<1>5. LiveBranches' = LiveBranches
  <2>1. \A g \in Handler : HeldBy(g)' = HeldBy(g)
    BY <1>1 DEF HeldBy
  <2>2. LiveBranches = (UNION {HeldBy(g) : g \in Handler}) \union OutIds
    BY DEF LiveBranches, OutIds
  <2>3. LiveBranches' = (UNION {HeldBy(g)' : g \in Handler}) \union OutIds'
    BY DEF LiveBranches, OutIds
  <2>4. QED
    BY <1>3, <2>1, <2>2, <2>3
<1>6. Spots(W, V)' = Spots(W, V)
  BY <1>1, <1>4, StillSpots
<1>7. Settled
  BY <1>1, <1>5 DEF Settled
<1>8. QED
  BY <1>1, <1>6, <1>7 DEF Worth, Waits, WaitsAt

\* The workers rest that are no handlers, and what is out stays out.
LEMMA StillWorth ==
  ASSUME \A g \in Handler : pc'[g] = pc[g] /\ cur'[g] = cur[g] /\ todo'[g] = todo[g],
         UNCHANGED <<requests, results, activeBranches, status, joinState>>, Settled',
         NEW N \in Nat \ {0}, NEW W \in [Node -> 0..N], NEW V \in [Node -> 0..N]
  PROVE  Settled /\ Worth(W, V)' = Worth(W, V)
<1>1. LiveBranches' = LiveBranches
  <2>1. \A g \in Handler : HeldBy(g)' = HeldBy(g)
    BY DEF HeldBy
  <2>2. QED
    BY <2>1 DEF LiveBranches
<1>2. OutSpots(V)' = OutSpots(V)
  BY DEF OutSpots
<1>3. Spots(W, V)' = Spots(W, V)
  BY <1>2, StillSpots
<1>4. Settled
  BY <1>1 DEF Settled
<1>5. QED
  BY <1>3, <1>4 DEF Worth, Waits, WaitsAt

\* After a failed call of the store the count is exact only where it cost no branch.
LEMMA ErrorWorth ==
  ASSUME AInv, NEW w \in Worker, StoreError(w), Settled',
         NEW N \in Nat \ {0}, NEW W \in [Node -> 0..N], NEW V \in [Node -> 0..N]
  PROVE  Settled /\ Worth(W, V)' = Worth(W, V)
<1>1. /\ UNCHANGED <<requests, results, minted, activeBranches, status, joinState>>
      /\ Resume(w, <<>>)
  BY DEF StoreError, task, broker, ghosts
<1>2. TypeOK /\ LiveParts /\ WorkType /\ minted \in Nat /\ activeBranches \in Int
  BY NumberTypes, TypeSplit DEF AInv, IInv
<1>3. CASE w \in {Watchdog, Health}
  <2>1. \A g \in Handler : pc'[g] = pc[g] /\ cur'[g] = cur[g] /\ todo'[g] = todo[g]
    BY <1>1, <1>2, <1>3, OthersRest
  <2>2. QED
    BY <1>1, <2>1, StillWorth
<1>4. CASE w \in Handler
  <2>1. Drops(w) /\ Orderly(w)
    BY <1>1, <1>2, <1>4, FinishDrops DEF LiveParts
  <2>2. LiveBranches' \subseteq LiveBranches
    BY <1>2, <1>4, <2>1, DropsLive
  <2>3. IsFiniteSet(LiveBranches) /\ Cardinality(LiveBranches) \in Nat
    BY <1>2, FiniteLive
  <2>4. Cardinality(LiveBranches) <= activeBranches
    <3>1. Counted
      BY <1>1 DEF Settled, AInv
    <3>2. QED
      BY <1>2, <2>3, <3>1 DEF Counted
  <2>5. Cardinality(LiveBranches') = activeBranches
    BY <1>1 DEF Settled
  <2>6. LiveBranches' = LiveBranches
    <3>1. /\ Cardinality(LiveBranches') <= Cardinality(LiveBranches)
          /\ Cardinality(LiveBranches) = Cardinality(LiveBranches') =>
               LiveBranches = LiveBranches'
      BY <2>2, <2>3, FS_Subset
    <3>2. Cardinality(LiveBranches) = Cardinality(LiveBranches')
      BY <1>2, <2>3, <2>4, <2>5, <3>1
    <3>3. QED
      BY <3>1, <3>2
  <2>7. pc'[w] = "idle" /\ todo'[w] = <<>> /\ DOMAIN <<>> = {}
    BY <1>1, <1>2, <1>4 DEF Resume, WorkType
  <2>8. HeldBy(w)' = {} /\ HeldSpots(W, V, w)' = {}
    BY <2>7 DEF HeldBy, HeldSpots, SeqSpots, Holding
  <2>9. HeldBy(w) = {}
    <3>1. Elsewhere(w)' = Elsewhere(w) /\ OutIds' = OutIds
      BY <1>1, <1>4, <2>1, AloneKeeps DEF Drops, OutIds
    <3>2. HeldBy(w) \subseteq Elsewhere(w) \union OutIds
      BY <1>4, <2>6, <2>8, <3>1, LiveSplit
    <3>3. HeldBy(w) \intersect Elsewhere(w) = {} /\ HeldBy(w) \intersect OutIds = {}
      BY <1>2, <1>4 DEF LiveParts, Apart, Elsewhere
    <3>4. QED
      BY <3>2, <3>3
  <2>10. pc[w] \notin Holding /\ DOMAIN todo[w] = {}
    BY <2>9 DEF HeldBy
  <2>11. HeldSpots(W, V, w) = {}
    BY <2>10 DEF HeldSpots, SeqSpots
  <2>12. Worth(W, V)' = Worth(W, V)
    BY <1>1, <1>4, <2>1, <2>8, <2>11, SameWorth DEF Drops
  <2>13. Settled
    <3>1. \A g \in Handler : pc[g] # "fail"
      BY <2>1, <2>10 DEF Settled, Drops, Alone, Holding
    <3>2. QED
      BY <1>1, <2>5, <2>6, <3>1 DEF Settled
  <2>14. QED
    BY <2>12, <2>13
<1>5. QED
  BY <1>3, <1>4

\* Before the Task begins nothing is on its way and no JOIN has counted an arrival.
NoneWaits == \A n \in Node : joinState[n] = 0

\* A Task begins with one branch at its first node, which is worth nothing there.
LEMMA TriggerWorth ==
  ASSUME AInv, status = "none" => NoneWaits, NEW h \in Handler, Trigger(h),
         NEW N \in Nat \ {0}, NEW W \in [Node -> 0..N], NEW V \in [Node -> 0..N], W[Entry] = 0
  PROVE  Multiple(N, Worth(W, V)')
<1>1. /\ TypeOK /\ WorkType /\ LiveParts /\ LiveBranches = {} /\ NoneWaits
      /\ \A g \in Handler : pc[g] = "idle"
  BY TypeSplit DEF AInv, IInv, NotStarted, Trigger
<1>2. /\ UNCHANGED <<requests, results, joinState, todo>> /\ Alone(h)
      /\ pc'[h] = "exec" /\ cur'[h] = FirstBranch
  BY <1>1 DEF Trigger, broker, WorkType, Alone
<1>3. todo[h] = <<>> /\ DOMAIN <<>> = {} /\ FirstBranch.dst = Entry
  BY <1>1 DEF LiveParts, Orderly, FirstBranch
<1>4. Spots(W, V) = {}
  BY <1>1, SpotIds
<1>5. SpotsElse(W, V, h)' = {}
  BY <1>2, <1>4, AloneSpots, SpotsSplit
<1>6. HeldSpots(W, V, h)' = {<<FirstBranch.id, 0>>}
  BY <1>2, <1>3 DEF HeldSpots, SeqSpots, CurWorth, At, Holding
<1>7. Mass(Spots(W, V)') = 0
  <2>1. Spots(W, V)' = {<<FirstBranch.id, 0>>}
    BY <1>5, <1>6, SpotsSplit
  <2>2. QED
    BY <2>1, MassSmall
<1>8. Mass(Waits(W, joinState)) = 0
  <2>1. \A n \in Node : WaitsAt(W, joinState, n) = {}
    BY <1>1 DEF NoneWaits, WaitsAt
  <2>2. Waits(W, joinState) = {}
    BY <2>1 DEF Waits
  <2>3. QED
    BY <2>2, MassSmall
<1>9. Worth(W, V)' = 0
  <2>1. Worth(W, V)' = Mass(Spots(W, V)') + Mass(Waits(W, joinState))
    BY <1>2 DEF Worth, Waits, WaitsAt
  <2>2. QED
    BY <1>7, <1>8, <2>1
<1>10. QED
  BY <1>9, ZeroAndMinus

-----------------------------------------------------------------------------
(* The invariant. *)

\* But for multiples, what the branches and the arrivals are worth together is nothing.
Balanced ==
  \A N \in Nat \ {0} : \A W \in [Node -> 0..N], V \in [Node -> 0..N] :
    Conserves(N, W, V) => Multiple(N, Worth(W, V))

FlowInv ==
  /\ LastInv
  /\ JoinsWait
  /\ status \in {"none", "completed"} => NoneWaits
  /\ status = "running" /\ (\E w \in Worker : pc[w] = "complete") => activeBranches <= 0
  /\ Settled => Balanced

\* Only the walk touches the counters, and only a JOIN its own.
LEMMA CountersStep ==
  ASSUME TypeOK, [Next]_vars, DeliveredOnce
  PROVE  \/ UNCHANGED <<activeBranches, joinState>>
         \/ \E h \in Handler : Trigger(h) /\ UNCHANGED joinState
         \/ \E h \in Handler : HandlerStep(h) /\ (HandleJoinNode(h) \/ UNCHANGED joinState)
<1> USE DEF task
<1>1. ~Crash /\ \A h \in Handler : ~Redeliver(h)
  BY EnvironmentAssumption DEF Crash, Redeliver, DeliveredOnce, TypeOK
<1>2. ASSUME NEW h \in Handler, HandlerStep(h)
      PROVE  HandleJoinNode(h) \/ UNCHANGED joinState
  BY <1>2 DEF HandlerStep, RemoveActiveNode, EndBranch, NextNodeNotFound, ForkBranches,
              ExecutePluginNode, Publish, ExecuteDataNode, HandleIFNode,
              HandleLoopNode, ExecuteUnknownNode
<1>3. ASSUME NEW h \in Handler, Trigger(h)
      PROVE  UNCHANGED joinState
  BY <1>3 DEF Trigger
<1>4. ASSUME NEW h \in Handler, NEW r \in results, Receive(h, r)
      PROVE  UNCHANGED <<activeBranches, joinState>>
  BY <1>4 DEF Receive
<1>5. ASSUME NEW q \in requests, NEW ok \in BOOLEAN, PluginAnswers(q, ok)
      PROVE  UNCHANGED <<activeBranches, joinState>>
  BY <1>5 DEF PluginAnswers
<1>6. ASSUME NEW w \in Worker, FinishStep(w) \/ StoreError(w)
      PROVE  UNCHANGED <<activeBranches, joinState>>
  BY <1>6 DEF FinishStep, CompleteTask, FailTask, MarkTerminal, SendCallback, StoreError
<1>7. CASE SweepExpiredTasks \/ FailTasksByPlugin \/ ChannelCloses \/ UNCHANGED vars
  BY <1>7 DEF SweepExpiredTasks, FailTasksByPlugin, ChannelCloses, vars
<1>8. QED
  BY <1>1, <1>2, <1>3, <1>4, <1>5, <1>6, <1>7 DEF Next

\* A handler that walks has a branch at hand.
LEMMA WalkHolds ==
  ASSUME NEW h \in Handler, HandlerStep(h)
  PROVE  LiveBranches # {}
<1>1. pc[h] \in Holding
  BY DEF HandlerStep, RemoveActiveNode, EndBranch, NextNodeNotFound, ForkBranches,
         ExecutePluginNode, Publish, ExecuteDataNode, HandleJoinNode, HandleIFNode,
         HandleLoopNode, ExecuteUnknownNode, Holding
<1>2. cur[h].id \in HeldBy(h)
  BY <1>1 DEF HeldBy
<1>3. QED
  BY <1>2, LiveSplit

\* A JOIN counts up to what it waits for, and then begins anew.
LEMMA JoinsWaitKept ==
  ASSUME TypeOK, JoinsWait, NEW h \in Handler, HandleJoinNode(h)
  PROVE  JoinsWait'
<1> DEFINE n == At(h)
           k == countInEdges(n)
<1>1. WorkType /\ n \in Node /\ Kind[n] = "join" /\ joinState \in [Node -> Nat]
  BY TypeSplit DEF WorkType, At, Branch, HandleJoinNode, TypeOK
<1>2. k \in Nat
  BY <1>1, EdgesCoverSources
<1> HIDE DEF n, k
<1>3. CASE UNCHANGED joinState
  BY <1>3 DEF JoinsWait
<1>4. CASE joinState' = [joinState EXCEPT ![n] = 0]
  BY <1>1, <1>4 DEF JoinsWait
<1>5. CASE k > 1 /\ ~IsLastArrival(n) /\ joinState' = [joinState EXCEPT ![n] = @ + 1]
  <2>1. joinState[n] \in Nat /\ ~(joinState[n] + 1 >= k)
    BY <1>1, <1>5 DEF IsLastArrival, k
  <2>2. Merges(n) /\ joinState[n] + 1 < k
    BY <1>1, <1>2, <1>5, <2>1 DEF Merges, k
  <2>3. \A m \in Node : joinState'[m] = IF m = n THEN joinState[n] + 1 ELSE joinState[m]
    BY <1>1, <1>5
  <2>4. QED
    BY <2>2, <2>3 DEF JoinsWait, k
<1>6. QED
  BY <1>3, <1>4, <1>5 DEF HandleJoinNode, JoinStateOnProceed, n, k

\* No step changes what the branches are worth together, while none is lost.
LEMMA NextWorth ==
  ASSUME FlowInv, AInv', [Next]_vars, DeliveredOnce, NoExit, Settled'
  PROVE  Balanced'
<1>1. AInv /\ TypeOK /\ LiveParts /\ JoinsWait
  BY DEF FlowInv, LastInv, AInv, IInv
<1>2. SUFFICES ASSUME NEW N \in Nat \ {0}, NEW W \in [Node -> 0..N], NEW V \in [Node -> 0..N],
                      Conserves(N, W, V)
               PROVE  Multiple(N, Worth(W, V)')
  BY DEF Balanced, Conserves, Resolves, Merges, countInEdges, InEdges, Shares, Mass, Tokens,
         Multiple
<1>3. Settled => Multiple(N, Worth(W, V))
  BY <1>2 DEF FlowInv, Balanced
<1>4. ASSUME NEW h \in Handler, HandlerStep(h)
      PROVE  Multiple(N, Worth(W, V)')
  BY <1>1, <1>2, <1>3, <1>4, HandlerSettled, HandlerWorth
<1>5. ASSUME NEW h \in Handler, Trigger(h)
      PROVE  Multiple(N, Worth(W, V)')
  <2>1. W[Entry] = 0 /\ (status = "none" => NoneWaits)
    BY <1>2 DEF Conserves, FlowInv
  <2>2. QED
    BY <1>1, <1>5, <2>1, TriggerWorth
<1>6. ASSUME Settled /\ Worth(W, V)' = Worth(W, V)
      PROVE  Multiple(N, Worth(W, V)')
  BY <1>3, <1>6
<1>7. ASSUME NEW h \in Handler, NEW r \in results, Receive(h, r)
      PROVE  Multiple(N, Worth(W, V)')
  BY <1>1, <1>6, <1>7, ReceiveWorth
<1>8. ASSUME NEW q \in requests, NEW ok \in BOOLEAN, PluginAnswers(q, ok)
      PROVE  Multiple(N, Worth(W, V)')
  BY <1>1, <1>6, <1>8, AnswerWorth
<1>9. ASSUME NEW w \in Worker, FinishStep(w)
      PROVE  FALSE
  BY <1>1, <1>9, FinishWork DEF AInv, Settled
<1>10. ASSUME NEW w \in Worker, StoreError(w)
       PROVE  Multiple(N, Worth(W, V)')
  BY <1>1, <1>6, <1>10, ErrorWorth
<1>11. CASE SweepExpiredTasks \/ FailTasksByPlugin \/ ChannelCloses \/ UNCHANGED vars
  <2>1. UNCHANGED <<requests, results, activeBranches, status, joinState>>
    BY <1>11 DEF SweepExpiredTasks, FailTasksByPlugin, ChannelCloses, vars, task, broker
  <2>2. \A g \in Handler : pc'[g] = pc[g] /\ cur'[g] = cur[g] /\ todo'[g] = todo[g]
    BY <1>1, <1>11, RestAccounts
  <2>3. QED
    BY <1>6, <2>1, <2>2, StillWorth
<1>12. ~Crash /\ \A h \in Handler : ~Redeliver(h)
  BY <1>1, EnvironmentAssumption DEF Crash, Redeliver, DeliveredOnce, TypeOK
<1>13. QED
  BY <1>4, <1>5, <1>7, <1>8, <1>9, <1>10, <1>11, <1>12 DEF Next

\* A nonempty set of things with numbers has one with the least.
LEMMA LeastRank ==
  ASSUME NEW S, S # {}, NEW f, \A s \in S : f[s] \in Nat
  PROVE  \E s \in S : \A t \in S : f[s] <= f[t]
<1> DEFINE R == {p \in Nat \X Nat : p[1] < p[2]}
           T == {f[s] : s \in S}
<1>1. T \subseteq Nat /\ T # {}
  OBVIOUS
<1>2. IsWellFoundedOn(R, Nat)
  BY NatLessThanWellFounded DEF OpToRel
<1>3. PICK k \in T : \A m \in T : ~(<<m, k>> \in R)
  <2> HIDE DEF R, T
  <2>1. QED
    BY <1>1, <1>2, WFMin
<1>4. ASSUME NEW m \in T
      PROVE  k <= m
  <2>1. k \in Nat /\ m \in Nat
    BY <1>1
  <2>2. ~(m < k)
    BY <1>3, <2>1
  <2>3. QED
    BY <2>1, <2>2
<1>5. PICK s \in S : f[s] = k
  OBVIOUS
<1>6. QED
  BY <1>4, <1>5

\* What no worth tells from nothing is nothing: of the JOINs that wait, the innermost would
\* have all its arrivals.
LEMMA NothingLeft ==
  ASSUME WellNested, TypeOK, JoinsWait,
         \A N \in Nat \ {0} : \A W \in [Node -> 0..N], V \in [Node -> 0..N] :
           Conserves(N, W, V) => Multiple(N, Mass(Waits(W, joinState)))
  PROVE  NoneWaits
<1> DEFINE Waiting == {n \in Node : joinState[n] # 0}
<1>1. SUFFICES ASSUME Waiting # {}
               PROVE  FALSE
  BY DEF NoneWaits
<1>2. PICK Rank \in [Node -> Nat] : \A n \in Node : Merges(n) =>
        \E N \in Nat \ {0} : \E W \in [Node -> 0..N], V \in [Node -> 0..N] :
          Nests(Rank, n, N, W, V)
  BY DEF WellNested
<1>3. PICK n \in Waiting : \A m \in Waiting : Rank[n] <= Rank[m]
  <2>1. \A s \in Waiting : Rank[s] \in Nat
    OBVIOUS
  <2> HIDE DEF Waiting
  <2>2. QED
    BY <1>1, <2>1, LeastRank
<1>4. n \in Node /\ Merges(n) /\ joinState \in [Node -> Nat]
  BY DEF JoinsWait, TypeOK
<1>5. PICK N \in Nat \ {0} : \E W \in [Node -> 0..N], V \in [Node -> 0..N] :
        Nests(Rank, n, N, W, V)
  BY <1>2, <1>4
<1>6. PICK W \in [Node -> 0..N], V \in [Node -> 0..N] :
        /\ Conserves(N, W, V)
        /\ \A m \in Node : Merges(m) /\ W[m] # 0 => m = n \/ Rank[m] < Rank[n]
        /\ \A c \in 1..(countInEdges(n) - 1) : ~Multiple(N, c * W[n])
  BY <1>5 DEF Nests
<1>7. joinState[n] \in 1..(countInEdges(n) - 1)
  <2>1. countInEdges(n) \in Nat
    BY <1>4, EdgesCoverSources
  <2>2. joinState[n] \in Nat /\ joinState[n] # 0 /\ joinState[n] < countInEdges(n)
    BY <1>4 DEF JoinsWait
  <2>3. QED
    BY <2>1, <2>2
<1>8. ASSUME NEW m \in Node \ {n}, joinState[m] # 0
      PROVE  W[m] = 0
  <2>1. Merges(m) /\ Rank[n] <= Rank[m]
    BY <1>3, <1>8 DEF JoinsWait
  <2>2. ~(Rank[m] < Rank[n])
    BY <1>4, <2>1
  <2>3. QED
    BY <1>6, <2>1, <2>2
<1>9. \A s \in WaitsElse(W, joinState, n) : s[2] = 0
  <2>1. ASSUME NEW m \in Node \ {n}, NEW s \in WaitsAt(W, joinState, m)
        PROVE  s[2] = 0
    <3>1. PICK r \in 1..joinState[m] : s = <<<<m, r>>, W[m]>>
      BY DEF WaitsAt
    <3>2. joinState[m] # 0
      BY <1>4, <3>1
    <3>3. QED
      BY <1>8, <3>1, <3>2
  <2>2. QED
    BY <2>1 DEF WaitsElse
<1>10. Mass(WaitsElse(W, joinState, n)) = 0
  <2>1. \A s \in WaitsElse(W, joinState, n) : {s} \X (1..s[2]) = {}
    BY <1>9
  <2>2. Tokens(WaitsElse(W, joinState, n)) = {}
    BY <2>1 DEF Tokens
  <2>3. QED
    BY <2>2, FS_EmptySet DEF Mass
<1>11. Mass(Waits(W, joinState)) = joinState[n] * W[n]
  <2>1. Mass(Waits(W, joinState)) = Mass(WaitsElse(W, joinState, n)) + joinState[n] * W[n]
    BY <1>4, WaitsSplit
  <2>2. joinState[n] * W[n] \in Int
    <3>1. joinState[n] \in Int /\ W[n] \in Int
      BY <1>4
    <3>2. QED
      BY <3>1
  <2>3. QED
    BY <1>10, <2>1, <2>2
<1>12. Multiple(N, Mass(Waits(W, joinState)))
  BY <1>6
<1>13. QED
  BY <1>6, <1>7, <1>11, <1>12

\* The invariant at the end of the last branch: nothing waits.
LEMMA NothingWaits ==
  ASSUME FlowInv, WellNested, status = "running", NEW w \in Worker, pc[w] = "complete"
  PROVE  NoneWaits
<1>1. /\ AInv /\ TypeOK /\ LiveParts /\ JoinsWait /\ LiveBranches = {} /\ activeBranches <= 0
      /\ minted \in Nat /\ activeBranches \in Int /\ Counted
  BY NumberTypes DEF FlowInv, LastInv, AInv, IInv
<1>2. Cardinality(LiveBranches) = 0
  BY <1>1, FS_EmptySet
<1>3. activeBranches = 0
  BY <1>1, <1>2 DEF Counted
<1>4. \A h \in Handler : pc[h] # "fail"
  <2>1. ASSUME NEW h \in Handler, pc[h] = "fail"
        PROVE  FALSE
    <3>1. cur[h].id \in HeldBy(h)
      BY <2>1 DEF HeldBy, Holding
    <3>2. QED
      BY <1>1, <3>1, LiveSplit
  <2>2. QED
    BY <2>1
<1>5. Balanced
  BY <1>2, <1>3, <1>4 DEF Settled, FlowInv
<1>6. ASSUME NEW N \in Nat \ {0}, NEW W \in [Node -> 0..N], NEW V \in [Node -> 0..N],
             Conserves(N, W, V)
      PROVE  Multiple(N, Mass(Waits(W, joinState)))
  <2>1. Spots(W, V) = {}
    <3>1. ASSUME NEW h \in Handler
          PROVE  Spots(W, V) = {}
      BY <1>1, <3>1, SpotIds
    <3>2. CASE Handler = {}
      <4>1. LiveBranches = {}
        BY <1>1
      <4>2. requests = {} /\ results = {}
        <5>1. OutIds \subseteq LiveBranches
          BY DEF OutIds, LiveBranches
        <5>2. \A q \in requests : q.id \in OutIds
          BY DEF OutIds
        <5>3. \A r \in results : r.id \in OutIds
          BY DEF OutIds
        <5>4. QED
          BY <4>1, <5>1, <5>2, <5>3
      <4>3. QED
        BY <3>2, <4>2 DEF Spots, OutSpots
    <3>3. QED
      BY <3>1, <3>2
  <2>2. Mass(Waits(W, joinState)) \in Nat
    <3>1. joinState \in [Node -> Nat] /\ Entry \in Node
      BY <1>1, BlueprintAssumption DEF TypeOK
    <3>2. QED
      BY <3>1, WaitsSplit
  <2>3. Worth(W, V) = Mass(Waits(W, joinState))
    BY <2>1, <2>2, MassSmall DEF Worth
  <2>4. QED
    BY <1>5, <1>6, <2>3 DEF Balanced
<1>7. QED
  BY <1>1, <1>6, NothingLeft

\* The invariant is one.
LEMMA NextFlow ==
  ASSUME FlowInv, LastInv', [Next]_vars, DeliveredOnce, NoExit, WellNested
  PROVE  FlowInv'
<1>1. IInv /\ AInv /\ TypeOK /\ WorkType /\ AInv'
  BY TypeSplit DEF FlowInv, LastInv, AInv, IInv
<1>2. \/ UNCHANGED <<activeBranches, joinState>>
      \/ \E h \in Handler : Trigger(h) /\ UNCHANGED joinState
      \/ \E h \in Handler : HandlerStep(h) /\ (HandleJoinNode(h) \/ UNCHANGED joinState)
  BY <1>1, CountersStep
<1>3. JoinsWait'
  <2>1. CASE UNCHANGED joinState
    BY <2>1 DEF FlowInv, JoinsWait, Merges, countInEdges, InEdges
  <2>2. QED
    BY <1>1, <1>2, <2>1, JoinsWaitKept DEF FlowInv
<1>4. ASSUME LiveBranches = {}, status # "none"
      PROVE  UNCHANGED <<activeBranches, joinState>>
  BY <1>2, <1>4, WalkHolds DEF Trigger
<1>5. ASSUME status' \in {"none", "completed"}
      PROVE  NoneWaits'
  <2>1. CASE status = "none"
    <3>1. status' = "none"
      BY <1>1, <1>5, <2>1, StatusStep
    <3>2. LiveBranches = {}
      BY <1>1, <2>1 DEF AInv, NotStarted
    <3>3. UNCHANGED joinState
      BY <1>2, <3>1, <3>2, WalkHolds DEF Trigger
    <3>4. QED
      BY <2>1, <3>3 DEF FlowInv, NoneWaits
  <2>2. CASE status # "none"
    <3>1. status' = "completed"
      BY <1>1, <1>5, <2>2, StatusStep
    <3>2. NoneWaits /\ LiveBranches = {}
      <4>1. CASE status = "completed"
        BY <4>1 DEF FlowInv, LastInv
      <4>2. CASE status # "completed"
        <5>1. PICK w \in Worker : pc[w] \in {"complete", "exit"}
          BY <1>1, <3>1, <4>2, CompletedStep
        <5>2. status = "running" /\ pc[w] = "complete"
          BY <1>1, <3>1, <4>2, <5>1, CompletedStep DEF FlowInv, LastInv
        <5>3. QED
          BY <5>2, NothingWaits DEF FlowInv, LastInv
      <4>3. QED
        BY <4>1, <4>2
    <3>3. UNCHANGED joinState
      BY <1>4, <2>2, <3>2
    <3>4. QED
      BY <3>2, <3>3 DEF NoneWaits
  <2>3. QED
    BY <2>1, <2>2
<1>6. ASSUME status' = "running", NEW w \in Worker, pc'[w] = "complete"
      PROVE  activeBranches' <= 0
  <2>1. CASE pc[w] = "complete"
    <3>1. status # "none"
      BY <2>1, WorkersAssumption DEF FlowInv, LastInv, AInv, NotStarted
    <3>2. status = "running"
      BY <1>1, <1>6, <3>1, StatusStep
    <3>3. activeBranches <= 0 /\ LiveBranches = {}
      BY <2>1, <3>2 DEF FlowInv, LastInv
    <3>4. QED
      BY <1>4, <3>1, <3>3
  <2>2. CASE pc[w] # "complete"
    BY <1>1, <1>6, <2>2, NextStage
  <2>3. QED
    BY <2>1, <2>2
<1>7. Settled' => Balanced'
  BY <1>1, NextWorth
<1>8. QED
  BY <1>3, <1>5, <1>6, <1>7 DEF FlowInv

\* A completed Task left nothing: no branch is still being walked, is with a plugin or on its way
\* back, and no JOIN still waits for an arrival, for every Blueprint whose forks come together as
\* WellNested says, whatever the interleaving and however many TaskStore calls failed.
THEOREM CompletedTaskLeftNothing ==
  DeliveredOnce /\ NoExit /\ WellNested => (Spec => []CompletedLeavesNothing)
<1> SUFFICES ASSUME DeliveredOnce, NoExit, WellNested
             PROVE  Spec => []CompletedLeavesNothing
  OBVIOUS
<1>1. Init /\ LastInv => FlowInv
  <2> SUFFICES ASSUME Init, LastInv
               PROVE  FlowInv
    OBVIOUS
  <2>1. status = "none" /\ \A n \in Node : joinState[n] = 0
    BY DEF Init
  <2>2. QED
    BY <2>1 DEF FlowInv, JoinsWait, NoneWaits, Settled
<1>2. FlowInv /\ LastInv' /\ [Next]_vars => FlowInv'
  BY NextFlow
<1>3. FlowInv => CompletedLeavesNothing
  BY DEF FlowInv, LastInv, NoneWaits, CompletedLeavesNothing
<1>4. Spec => []LastInv
  BY LastInvariance
<1>5. QED
  BY <1>1, <1>2, <1>3, <1>4, PTL DEF Spec

-----------------------------------------------------------------------------
(***************************************************************************)
(* Which Blueprints keep their branches apart.  Two branches, or a branch  *)
(* and an arrival, are at places that are beside each other in a relation  *)
(* that can be read off the Blueprint.  So no two are at one plugin node,  *)
(* and none arrives at a JOIN after another from the same node.            *)
(***************************************************************************)

\* A branch that will go on, its id and where it is.
Moving == {"remove", "exec", "publish", "fanout"}

PlaceOf(b) == <<b.src, b.dst>>

SeqPlaces(s) == {<<s[i].id, PlaceOf(s[i])>> : i \in DOMAIN s}

CurPlace(h) == IF pc[h] = "exec" THEN PlaceOf(cur[h]) ELSE <<At(h)>>

HeldPlaces(h) ==
  (IF pc[h] \in Moving THEN {<<cur[h].id, CurPlace(h)>>} ELSE {}) \union SeqPlaces(todo[h])

OutPlaces ==
  {<<q.id, <<q.node>>>> : q \in requests} \union {<<r.id, <<r.node>>>> : r \in results}

Standing == (UNION {HeldPlaces(h) : h \in Handler}) \union OutPlaces

PlacesElse(h) == (UNION {HeldPlaces(g) : g \in Handler \ {h}}) \union OutPlaces

\* All of them, and the arrivals that JOINs remember, are beside each other.
StandApart(Par) ==
  /\ \A x, y \in Standing : x[1] # y[1] => <<x[2], y[2]>> \in Par
  /\ \A x \in Standing, n \in Node : \A m \in joined[n] : <<x[2], <<m, n>>>> \in Par
  /\ \A n, o \in Node : \A m \in joined[n], l \in joined[o] :
       <<m, n>> # <<l, o>> => <<<<m, n>>, <<l, o>>>> \in Par

\* What leaves for a plugin and comes back is at a plugin node; no IF or LOOP forks.
Stationed ==
  /\ \A m \in requests \union results : Kind[m.node] = "plugin"
  /\ \A h \in Handler :
       /\ pc[h] \in {"publish", "remove"} => Kind[At(h)] = "plugin"
       /\ pc[h] = "fanout" => Kind[At(h)] \notin {"if", "loop", "while"}

ApartInv(Par) ==
  /\ AInv /\ JoinInv /\ JoinsWait /\ Stationed
  /\ StandApart(Par)
  /\ status = "none" => \A n \in Node : joined[n] = {}

\* A branch at one handler or elsewhere.
LEMMA PlacesSplit ==
  ASSUME NEW h \in Handler
  PROVE  /\ Standing = PlacesElse(h) \union HeldPlaces(h)
         /\ Standing' = PlacesElse(h)' \union HeldPlaces(h)'
<1> DEFINE Held == UNION {HeldPlaces(g) : g \in Handler}
           Others == UNION {HeldPlaces(g) : g \in Handler \ {h}}
<1>1. Held = Others \union HeldPlaces(h) /\ Held' = Others' \union HeldPlaces(h)'
  OBVIOUS
<1>2. /\ Standing = Held \union OutPlaces /\ Standing' = Held' \union OutPlaces'
      /\ PlacesElse(h) = Others \union OutPlaces
      /\ PlacesElse(h)' = Others' \union OutPlaces'
  BY DEF Standing, PlacesElse
<1> HIDE DEF Held, Others
<1>3. QED
  BY <1>1, <1>2

\* Where nothing moves the places stay.
LEMMA HeldPlacesKept ==
  ASSUME NEW g, pc'[g] = pc[g], cur'[g] = cur[g], todo'[g] = todo[g]
  PROVE  HeldPlaces(g)' = HeldPlaces(g)
BY DEF HeldPlaces, CurPlace, At, SeqPlaces

\* The other handlers and what is out.
LEMMA AlonePlaces ==
  ASSUME NEW h \in Handler, Alone(h), UNCHANGED <<requests, results>>
  PROVE  PlacesElse(h)' = PlacesElse(h)
<1>1. \A g \in Handler \ {h} : HeldPlaces(g)' = HeldPlaces(g)
  BY HeldPlacesKept DEF Alone
<1>2. OutPlaces' = OutPlaces
  BY DEF OutPlaces
<1>3. QED
  BY <1>1, <1>2 DEF PlacesElse

\* No handler does anything.
LEMMA StillPlaces ==
  ASSUME \A g \in Handler : pc'[g] = pc[g] /\ cur'[g] = cur[g] /\ todo'[g] = todo[g],
         OutPlaces' \subseteq OutPlaces
  PROVE  Standing' \subseteq Standing
<1>1. \A g \in Handler : HeldPlaces(g)' = HeldPlaces(g)
  BY HeldPlacesKept
<1>2. QED
  BY <1>1 DEF Standing

\* A handler goes on with a sequence of branches.
LEMMA ResumePlaces ==
  ASSUME WorkType, NEW h \in Handler, NEW rest \in Seq(Branch), Resume(h, rest)
  PROVE  Alone(h) /\ HeldPlaces(h)' \subseteq SeqPlaces(rest)
<1>1. Alone(h)
  <2>1. CASE rest = <<>>
    BY <2>1 DEF Resume, WorkType, Alone
  <2>2. CASE rest # <<>>
    BY <2>2 DEF Resume, WorkType, Alone
  <2>3. QED
    BY <2>1, <2>2
<1>2. CASE rest = <<>>
  <2>1. pc'[h] = "idle" /\ todo'[h] = <<>>
    BY <1>2 DEF Resume, WorkType, Worker
  <2>2. DOMAIN <<>> = {}
    OBVIOUS
  <2>3. QED
    BY <1>1, <1>2, <2>1, <2>2 DEF HeldPlaces, SeqPlaces, Moving
<1>3. CASE rest # <<>>
  <2>1. pc'[h] = "exec" /\ cur'[h] = Head(rest) /\ todo'[h] = Tail(rest)
    BY <1>3 DEF Resume, WorkType, Worker
  <2>2. /\ Len(rest) \in Nat \ {0} /\ DOMAIN rest = 1..Len(rest)
        /\ DOMAIN Tail(rest) = 1..(Len(rest) - 1)
        /\ Head(rest) = rest[1]
        /\ \A i \in 1..(Len(rest) - 1) : Tail(rest)[i] = rest[i + 1]
    BY <1>3, HeadTailProperties, EmptySeq
  <2> DEFINE spot(i) == <<rest[i].id, PlaceOf(rest[i])>>
  <2>3. SeqPlaces(rest) = {spot(i) : i \in 1..Len(rest)}
    BY <2>2 DEF SeqPlaces
  <2>4. SeqPlaces(Tail(rest)) = {spot(i + 1) : i \in 1..(Len(rest) - 1)}
    BY <2>2 DEF SeqPlaces
  <2>5. HeldPlaces(h)' = {spot(1)} \union SeqPlaces(Tail(rest))
    BY <2>1, <2>2 DEF HeldPlaces, CurPlace, SeqPlaces, Moving
  <2> HIDE DEF spot
  <2>6. ASSUME NEW i \in 1..(Len(rest) - 1)
        PROVE  spot(i + 1) \in SeqPlaces(rest)
    <3>1. i + 1 \in 1..Len(rest)
      BY <2>2
    <3>2. QED
      BY <2>3, <3>1
  <2>7. spot(1) \in SeqPlaces(rest)
    BY <2>2, <2>3
  <2>8. QED
    BY <1>1, <2>4, <2>5, <2>6, <2>7
<1>4. QED
  BY <1>2, <1>3

\* Two sequences, one after the other.
LEMMA ConcatPlaces ==
  ASSUME NEW s \in Seq(Branch), NEW t \in Seq(Branch)
  PROVE  s \o t \in Seq(Branch) /\ SeqPlaces(s \o t) = SeqPlaces(s) \union SeqPlaces(t)
<1> DEFINE st == s \o t
<1>1. /\ Len(s) \in Nat /\ Len(t) \in Nat /\ st \in Seq(Branch)
      /\ DOMAIN s = 1..Len(s) /\ DOMAIN t = 1..Len(t)
      /\ DOMAIN st = 1..(Len(s) + Len(t))
  BY ConcatProperties
<1>2. \A i \in 1..(Len(s) + Len(t)) :
        st[i] = IF i <= Len(s) THEN s[i] ELSE t[i - Len(s)]
  BY ConcatProperties
<1> SUFFICES SeqPlaces(st) = SeqPlaces(s) \union SeqPlaces(t)
  BY <1>1
<1> HIDE DEF st
<1>3. \A i \in DOMAIN s : i \in DOMAIN st /\ st[i] = s[i]
  BY <1>1, <1>2
<1>4. \A i \in DOMAIN t : i + Len(s) \in DOMAIN st /\ st[i + Len(s)] = t[i]
  BY <1>1, <1>2
<1>5. \A i \in DOMAIN st :
        \/ i \in DOMAIN s /\ st[i] = s[i]
        \/ i - Len(s) \in DOMAIN t /\ st[i] = t[i - Len(s)]
  BY <1>1, <1>2
<1>6. QED
  BY <1>3, <1>4, <1>5 DEF SeqPlaces

\* Each is a branch at a place.
LEMMA PlaceIds ==
  ASSUME TypeOK, NEW h \in Handler
  PROVE  /\ \A x \in HeldPlaces(h) : x[1] \in HeldBy(h) /\ x[2] \in Places
         /\ \A x \in PlacesElse(h) : x[1] \in Elsewhere(h) \union OutIds /\ x[2] \in Places
         /\ \A x \in SeqPlaces(todo[h]) : x[1] \in Ids(todo[h]) /\ x[2] \in Places
         /\ \A x \in Standing : x[1] \in LiveBranches /\ x[2] \in Places
         /\ At(h) \in Node /\ CurPlace(h) \in Places
<1>1. WorkType /\ requests \subseteq Request /\ results \subseteq Result
  BY TypeSplit DEF TypeOK
<1>2. \A n \in Node : <<n>> \in Places /\ \A m \in Node : <<m, n>> \in Places
  BY DEF Places
<1>3. ASSUME NEW g \in Handler
      PROVE  /\ \A x \in SeqPlaces(todo[g]) : x[1] \in Ids(todo[g]) /\ x[2] \in Places
             /\ \A x \in HeldPlaces(g) : x[1] \in HeldBy(g) /\ x[2] \in Places
             /\ At(g) \in Node /\ CurPlace(g) \in Places
  <2>1. todo[g] \in Seq(Branch) /\ cur[g] \in Branch
    BY <1>1 DEF WorkType, Worker
  <2>2. \A i \in DOMAIN todo[g] : todo[g][i] \in Branch
    BY <2>1
  <2>3. ASSUME NEW i \in DOMAIN todo[g]
        PROVE  todo[g][i].id \in Ids(todo[g]) /\ PlaceOf(todo[g][i]) \in Places
    BY <1>2, <2>2 DEF Ids, Branch, PlaceOf
  <2>6. \A x \in SeqPlaces(todo[g]) : x[1] \in Ids(todo[g]) /\ x[2] \in Places
    BY <2>3 DEF SeqPlaces
  <2>4. At(g) \in Node /\ CurPlace(g) \in Places
    BY <1>2, <2>1 DEF CurPlace, At, Branch, PlaceOf
  <2>5. QED
    BY <2>6, <2>4 DEF HeldPlaces, HeldBy, Ids, Moving, Holding
<1>4. \A x \in OutPlaces : x[1] \in OutIds /\ x[2] \in Places
  BY <1>1, <1>2 DEF OutPlaces, OutIds, Request, Result
<1>5. \A x \in PlacesElse(h) : x[1] \in Elsewhere(h) \union OutIds /\ x[2] \in Places
  BY <1>3, <1>4 DEF PlacesElse, Elsewhere
<1>6. \A x \in Standing : x[1] \in LiveBranches /\ x[2] \in Places
  BY <1>3, <1>5, PlacesSplit, LiveSplit
<1>7. QED
  BY <1>3, <1>5, <1>6

\* Besides the branch a handler has at hand.
LEMMA PlacesBesides ==
  ASSUME TypeOK, LiveParts, NEW h \in Handler, pc[h] \in Moving
  PROVE  /\ \A x \in PlacesElse(h) \union SeqPlaces(todo[h]) : x \in Standing /\ x[1] # cur[h].id
         /\ <<cur[h].id, CurPlace(h)>> \in Standing
<1>1. /\ Standing = PlacesElse(h) \union HeldPlaces(h)
      /\ HeldPlaces(h) = {<<cur[h].id, CurPlace(h)>>} \union SeqPlaces(todo[h])
  BY PlacesSplit DEF HeldPlaces
<1>2. /\ cur[h].id \in HeldBy(h) /\ Ids(todo[h]) = HeldBy(h) \ {cur[h].id}
      /\ HeldBy(h) \intersect OutIds = {} /\ HeldBy(h) \intersect Elsewhere(h) = {}
  BY HeldSplit DEF LiveParts, Apart, Elsewhere, Moving, Holding
<1>3. /\ \A x \in PlacesElse(h) : x[1] \in Elsewhere(h) \union OutIds
      /\ \A x \in SeqPlaces(todo[h]) : x[1] \in Ids(todo[h])
  BY PlaceIds
<1>4. QED
  BY <1>1, <1>2, <1>3

\* Where branches only go, the rest is apart.
LEMMA FewerApart ==
  ASSUME NEW Par, StandApart(Par), Standing' \subseteq Standing, joined' = joined
  PROVE  StandApart(Par)'
BY DEF StandApart

\* A branch is replaced by others at places that are beside all that its own was beside.
LEMMA ReplacedApart ==
  ASSUME NEW Par, Parallel(Par), StandApart(Par), TypeOK, LiveParts,
         NEW h \in Handler, pc[h] \in Moving, Alone(h), UNCHANGED <<requests, results>>,
         \A n \in Node : joined'[n] \subseteq joined[n], joined' \in [Node -> SUBSET Node],
         NEW T, HeldPlaces(h)' \subseteq T \union SeqPlaces(todo[h]),
         \A t \in T : t[2] \in Places,
         \A t \in T, x \in Standing :
           x[1] # cur[h].id => <<t[2], x[2]>> \in Par,
         \A t \in T, n \in Node : \A m \in joined'[n] : <<t[2], <<m, n>>>> \in Par,
         \A t, u \in T : t[1] # u[1] => <<t[2], u[2]>> \in Par
  PROVE  StandApart(Par)'
<1> DEFINE Rest == PlacesElse(h) \union SeqPlaces(todo[h])
<1>1. Standing' \subseteq T \union Rest
  <2>1. Standing' = PlacesElse(h)' \union HeldPlaces(h)'
    BY PlacesSplit
  <2>2. PlacesElse(h)' = PlacesElse(h)
    BY AlonePlaces
  <2>3. QED
    BY <2>1, <2>2
<1>2. \A x \in Rest : x \in Standing /\ x[1] # cur[h].id /\ x[2] \in Places
  BY PlacesBesides, PlaceIds
<1> HIDE DEF Rest
<1>3. \A t \in T, x \in Rest : <<t[2], x[2]>> \in Par /\ <<x[2], t[2]>> \in Par
  BY <1>2 DEF Parallel
<1>4. \A x, y \in Standing' : x[1] # y[1] => <<x[2], y[2]>> \in Par
  BY <1>1, <1>2, <1>3 DEF StandApart
<1>5. \A x \in Standing', n \in Node : \A m \in joined'[n] : <<x[2], <<m, n>>>> \in Par
  BY <1>1, <1>2 DEF StandApart
<1>6. \A n, o \in Node : \A m \in joined'[n], l \in joined'[o] :
        <<m, n>> # <<l, o>> => <<<<m, n>>, <<l, o>>>> \in Par
  BY DEF StandApart
<1>7. QED
  BY <1>4, <1>5, <1>6 DEF StandApart

\* What is beside a branch is also beside the place it goes on to.
LEMMA MovesApart ==
  ASSUME NEW Par, Parallel(Par), StandApart(Par), TypeOK, LiveParts,
         NEW h \in Handler, pc[h] \in Moving, Alone(h), UNCHANGED <<requests, results, joined>>,
         NEW T, HeldPlaces(h)' \subseteq T \union SeqPlaces(todo[h]),
         \A t \in T : t[2] \in Places,
         \A t \in T, q \in Places : <<CurPlace(h), q>> \in Par => <<t[2], q>> \in Par,
         \A t, u \in T : t[1] # u[1] => <<t[2], u[2]>> \in Par
  PROVE  StandApart(Par)'
<1>1. joined \in [Node -> SUBSET Node] /\ joined' = joined
  BY DEF TypeOK
<1> DEFINE here == <<cur[h].id, CurPlace(h)>>
<1>2. here \in Standing /\ here[1] = cur[h].id /\ here[2] = CurPlace(h)
  BY PlacesBesides
<1> HIDE DEF here
<1>3. ASSUME NEW t \in T, NEW x \in Standing, x[1] # cur[h].id
      PROVE  <<t[2], x[2]>> \in Par
  <2>1. <<CurPlace(h), x[2]>> \in Par
    BY <1>2, <1>3 DEF StandApart
  <2>2. x[2] \in Places
    BY PlaceIds
  <2>3. QED
    BY <2>1, <2>2
<1>4. ASSUME NEW t \in T, NEW n \in Node, NEW m \in joined[n]
      PROVE  <<t[2], <<m, n>>>> \in Par
  <2>1. <<CurPlace(h), <<m, n>>>> \in Par
    BY <1>2 DEF StandApart
  <2>2. <<m, n>> \in Places
    BY <1>1 DEF Places
  <2>3. QED
    BY <2>1, <2>2
<1>5. QED
  BY <1>1, <1>3, <1>4, ReplacedApart

\* A handler that goes to another stage with its branch at hand, or drops it.
LEMMA GotoFewer ==
  ASSUME WorkType, NEW h \in Handler, NEW stage, Goto(h, stage), UNCHANGED <<requests, results>>,
         stage \in Moving \ {"exec"} => pc[h] \in Moving \ {"exec"}, stage # "exec"
  PROVE  Standing' \subseteq Standing
<1>1. pc'[h] = stage /\ UNCHANGED <<cur, todo>> /\ Alone(h)
  BY DEF Goto, WorkType, Alone
<1>2. HeldPlaces(h)' \subseteq HeldPlaces(h)
  BY <1>1 DEF HeldPlaces, CurPlace, At, SeqPlaces
<1>3. QED
  BY <1>1, <1>2, PlacesSplit, AlonePlaces

\* One that goes on with its siblings, or drops them, too.
LEMMA ResumeFewer ==
  ASSUME WorkType, NEW h \in Handler, Resume(h, todo[h]) \/ Resume(h, <<>>),
         UNCHANGED <<requests, results>>
  PROVE  Standing' \subseteq Standing
<1>1. todo[h] \in Seq(Branch) /\ <<>> \in Seq(Branch) /\ SeqPlaces(<<>>) = {}
  <2>1. DOMAIN <<>> = {}
    OBVIOUS
  <2>2. QED
    BY <2>1 DEF WorkType, SeqPlaces
<1>2. Alone(h) /\ HeldPlaces(h)' \subseteq SeqPlaces(todo[h])
  <2>1. CASE Resume(h, todo[h])
    BY <1>1, <2>1, ResumePlaces
  <2>2. CASE Resume(h, <<>>)
    BY <1>1, <2>2, ResumePlaces
  <2>3. QED
    BY <2>1, <2>2
<1>3. HeldPlaces(h)' \subseteq HeldPlaces(h)
  BY <1>2 DEF HeldPlaces
<1>4. QED
  BY <1>2, <1>3, PlacesSplit, AlonePlaces

\* One that enters a node where no JOIN waits.
LEMMA EntersApart ==
  ASSUME NEW Par, Parallel(Par), StandApart(Par), TypeOK, LiveParts,
         NEW h \in Handler, pc[h] = "exec", ~Merges(At(h)),
         NEW stage \in {"publish", "fanout"}, Goto(h, stage),
         UNCHANGED <<requests, results, joined>>
  PROVE  StandApart(Par)'
<1> DEFINE T == {<<cur[h].id, <<At(h)>>>>}
<1>1. WorkType /\ At(h) \in Node /\ cur[h] \in Branch /\ pc[h] \in Moving
  BY TypeSplit, PlaceIds DEF WorkType, Moving
<1>2. pc'[h] = stage /\ UNCHANGED <<cur, todo>> /\ Alone(h)
  BY <1>1 DEF Goto, WorkType, Alone
<1>3. HeldPlaces(h)' \subseteq T \union SeqPlaces(todo[h])
  BY <1>2 DEF HeldPlaces, CurPlace, At, SeqPlaces
<1>4. CurPlace(h) = <<cur[h].src, At(h)>> /\ cur[h].src \in Node
  BY <1>1 DEF CurPlace, PlaceOf, At, Branch
<1>5. \A q \in Places : <<CurPlace(h), q>> \in Par => <<<<At(h)>>, q>> \in Par
  BY <1>1, <1>4 DEF Parallel
<1>6. <<At(h)>> \in Places
  BY <1>1 DEF Places
<1>7. \A t \in T : t[1] = cur[h].id /\ t[2] = <<At(h)>>
  OBVIOUS
<1> HIDE DEF T
<1>8. QED
  BY <1>1, <1>2, <1>3, <1>5, <1>6, <1>7, MovesApart

\* One that follows the edge an IF or LOOP has chosen.
LEMMA SuccessorApart ==
  ASSUME NEW Par, Parallel(Par), StandApart(Par), TypeOK, LiveParts,
         NEW h \in Handler, pc[h] = "exec", ~Merges(At(h)),
         NEW i \in DOMAIN NextNodes[At(h)], TakeSuccessor(h, At(h), i),
         UNCHANGED <<requests, results, joined>>
  PROVE  StandApart(Par)'
<1> DEFINE n == At(h)
           m == NextNodes[n][i]
<1>1. WorkType /\ n \in Node /\ cur[h] \in Branch /\ pc[h] \in Moving /\ todo[h] \in Seq(Branch)
  BY TypeSplit, PlaceIds DEF WorkType, Moving
<1>2. CASE m = Exit \/ m \notin Node
  <2>1. Goto(h, "exit") \/ Goto(h, "fail")
    BY <1>2 DEF TakeSuccessor
  <2>2. Standing' \subseteq Standing
    BY <1>1, <2>1, GotoFewer DEF Moving
  <2>3. QED
    BY <2>2, FewerApart
<1>3. CASE m # Exit /\ m \in Node
  <2> DEFINE s == <<BranchTo(h, m)>>
             T == {<<cur[h].id, <<n, m>>>>}
  <2>1. Resume(h, s \o todo[h])
    BY <1>3 DEF TakeSuccessor
  <2>2. BranchTo(h, m) \in Branch
    BY <1>1, <1>3 DEF BranchTo, Branch
  <2>3. s \in Seq(Branch) /\ DOMAIN s = {1} /\ s[1] = BranchTo(h, m)
    BY <2>2
  <2>4. SeqPlaces(s) = T
    BY <2>3 DEF SeqPlaces, PlaceOf, BranchTo
  <2> HIDE DEF s
  <2>5. Alone(h) /\ HeldPlaces(h)' \subseteq T \union SeqPlaces(todo[h])
    <3>1. /\ s \o todo[h] \in Seq(Branch)
          /\ SeqPlaces(s \o todo[h]) = SeqPlaces(s) \union SeqPlaces(todo[h])
      BY <1>1, <2>3, ConcatPlaces
    <3>2. QED
      BY <1>1, <2>1, <2>4, <3>1, ResumePlaces
  <2>6. CurPlace(h) = <<cur[h].src, n>> /\ cur[h].src \in Node
    BY <1>1 DEF CurPlace, PlaceOf, At, Branch
  <2>7. \A q \in Places : <<CurPlace(h), q>> \in Par => <<<<n, m>>, q>> \in Par
    BY <1>1, <1>3, <2>6 DEF Parallel
  <2>8. <<n, m>> \in Places
    BY <1>1, <1>3 DEF Places
  <2>9. \A t \in T : t[1] = cur[h].id /\ t[2] = <<n, m>>
    OBVIOUS
  <2> HIDE DEF T, m, n
  <2>10. QED
    BY <1>1, <2>5, <2>7, <2>8, <2>9, MovesApart
<1>4. QED
  BY <1>2, <1>3

\* The branches of a fork.
LEMMA ForkApart ==
  ASSUME NEW Par, Parallel(Par), StandApart(Par), TypeOK, LiveParts,
         NEW h \in Handler, ForkBranches(h), Kind[At(h)] \notin {"if", "loop", "while"}
  PROVE  StandApart(Par)'
<1> DEFINE n == At(h)
           succ == NextNodes[n]
           fork == [i \in 1..Len(succ) |->
                     [id  |-> IF i = 1 THEN cur[h].id ELSE minted + i - 1,
                      src |-> n, dst |-> succ[i]]]
           T == SeqPlaces(fork)
<1>1. WorkType /\ n \in Node /\ cur[h] \in Branch /\ pc[h] \in Moving /\ todo[h] \in Seq(Branch)
  BY TypeSplit, PlaceIds DEF WorkType, Moving, ForkBranches
<1>2. minted \in Nat /\ cur[h].id \in Nat
  BY <1>1 DEF TypeOK, Branch
<1>3. Len(succ) \in Nat /\ DOMAIN succ = 1..Len(succ)
  <2>1. succ \in Seq(NodeIds)
    BY <1>1, BlueprintAssumption
  <2>2. QED
    BY <2>1
<1>4. Resolves(n) /\ Resume(h, fork \o todo[h]) /\ UNCHANGED <<requests, results, joined>>
  BY DEF ForkBranches, broker
<1>5. \A i \in DOMAIN succ : succ[i] \in Node
  BY <1>4 DEF Resolves
<1> HIDE DEF succ
<1>6. DOMAIN fork = 1..Len(succ) /\ \A i \in 1..Len(succ) :
        fork[i] \in Branch /\ fork[i].src = n /\ fork[i].dst = succ[i]
  BY <1>1, <1>2, <1>3, <1>5 DEF Branch
<1> HIDE DEF fork
<1>7. fork \in Seq(Branch)
  <2>1. fork \in [1..Len(succ) -> Branch]
    BY <1>6 DEF fork
  <2>2. QED
    BY <1>3, <2>1, IsASeq
<1>8. Alone(h) /\ HeldPlaces(h)' \subseteq T \union SeqPlaces(todo[h])
  <2>1. /\ fork \o todo[h] \in Seq(Branch)
        /\ SeqPlaces(fork \o todo[h]) = SeqPlaces(fork) \union SeqPlaces(todo[h])
    BY <1>1, <1>7, ConcatPlaces
  <2>2. QED
    BY <1>1, <1>4, <2>1, ResumePlaces
<1>9. CurPlace(h) = <<n>>
  BY DEF CurPlace, ForkBranches
<1>10. ASSUME NEW t \in T
       PROVE  \E i \in DOMAIN succ : t = <<fork[i].id, <<n, succ[i]>>>>
  BY <1>3, <1>6 DEF SeqPlaces, PlaceOf
<1> HIDE DEF T
<1>11. ASSUME NEW t \in T
       PROVE  /\ t[2] \in Places
              /\ \A q \in Places : <<CurPlace(h), q>> \in Par => <<t[2], q>> \in Par
  <2>1. PICK i \in DOMAIN succ : t = <<fork[i].id, <<n, succ[i]>>>>
    BY <1>10
  <2>2. t[2] = <<n, succ[i]>>
    BY <2>1
  <2>3. <<n, succ[i]>> \in Places
    BY <1>1, <1>5 DEF Places
  <2>4. \A q \in Places : <<<<n>>, q>> \in Par => <<<<n, succ[i]>>, q>> \in Par
    BY <1>1, <1>5 DEF Parallel, succ
  <2>5. QED
    BY <1>9, <2>2, <2>3, <2>4
<1>12. ASSUME NEW t \in T, NEW u \in T, t[1] # u[1]
       PROVE  <<t[2], u[2]>> \in Par
  <2>1. PICK i \in DOMAIN succ : t = <<fork[i].id, <<n, succ[i]>>>>
    BY <1>10
  <2>2. PICK k \in DOMAIN succ : u = <<fork[k].id, <<n, succ[k]>>>>
    BY <1>10
  <2>3. i # k
    BY <1>12, <2>1, <2>2
  <2>4. <<<<n, succ[i]>>, <<n, succ[k]>>>> \in Par
    BY <1>1, <1>4, <2>3 DEF Parallel, succ
  <2>5. QED
    BY <2>1, <2>2, <2>4
<1>13. QED
  BY <1>1, <1>4, <1>8, <1>11, <1>12, MovesApart

\* An arrival at a JOIN, and what the last one lets out.
LEMMA JoinApart ==
  ASSUME NEW Par, Parallel(Par), StandApart(Par), TypeOK, LiveParts, JoinInv, EachSourceOnce,
         Kind[Entry] # "join", NEW h \in Handler, HandleJoinNode(h)
  PROVE  StandApart(Par)'
<1> DEFINE n == At(h)
           src == cur[h].src
           here == <<cur[h].id, <<src, n>>>>
<1>1. /\ WorkType /\ n \in Node /\ cur[h] \in Branch /\ todo[h] \in Seq(Branch)
      /\ pc[h] = "exec" /\ pc[h] \in Moving /\ joined \in [Node -> SUBSET Node]
  BY TypeSplit, PlaceIds DEF WorkType, Moving, HandleJoinNode, TypeOK
<1>2. countInEdges(n) \in Nat /\ UNCHANGED <<requests, results>>
  BY <1>1, EdgesCoverSources DEF HandleJoinNode, broker
<1>3. src \in Node /\ CurPlace(h) = <<src, n>> /\ here \in Standing
  BY <1>1, PlacesBesides DEF CurPlace, PlaceOf, At, Branch
<1>4. here[1] = cur[h].id /\ here[2] = <<src, n>>
  OBVIOUS
<1>5. \A x \in Standing : x[1] # cur[h].id =>
        <<<<src, n>>, x[2]>> \in Par /\ <<x[2], <<src, n>>>> \in Par
  BY <1>3, <1>4 DEF StandApart
<1>6. \A k \in Node : \A m \in joined[k] :
        <<<<src, n>>, <<m, k>>>> \in Par /\ <<<<m, k>>, <<src, n>>>> \in Par
  <2>1. \A k \in Node : \A m \in joined[k] : <<<<src, n>>, <<m, k>>>> \in Par
    BY <1>3, <1>4 DEF StandApart
  <2>2. <<src, n>> \in Places /\ \A k \in Node : \A m \in joined[k] : <<m, k>> \in Places
    BY <1>1, <1>3 DEF Places
  <2>3. QED
    BY <2>1, <2>2 DEF Parallel
<1> HIDE DEF here
<1>7. CASE countInEdges(n) <= 1
  <2>1. Goto(h, "fanout") /\ joined' = joined /\ ~Merges(n)
    BY <1>2, <1>7 DEF HandleJoinNode, Merges
  <2>2. QED
    BY <1>1, <1>2, <2>1, EntersApart
<1>8. CASE countInEdges(n) > 1 /\ IsLastArrival(n)
  <2> DEFINE T == {<<cur[h].id, <<n>>>>}
  <2>1. Goto(h, "fanout") /\ joined' = [joined EXCEPT ![n] = {}] /\ Merges(n)
    BY <1>2, <1>8 DEF HandleJoinNode, Merges
  <2>2. pc'[h] = "fanout" /\ UNCHANGED <<cur, todo>> /\ Alone(h)
    BY <1>1, <2>1 DEF Goto, WorkType, Alone
  <2>3. joined[n] \union {src} = Sources(n)
    BY <2>2, ArrivalMerges
  <2>4. HeldPlaces(h)' \subseteq T \union SeqPlaces(todo[h])
    BY <2>2 DEF HeldPlaces, CurPlace, At, SeqPlaces
  <2>5. ASSUME NEW q \in Places, \A m \in Sources(n) : <<<<m, n>>, q>> \in Par
        PROVE  <<<<n>>, q>> \in Par
    BY <1>1, <2>1, <2>5 DEF Parallel
  <2>6. ASSUME NEW x \in Standing, x[1] # cur[h].id
        PROVE  <<<<n>>, x[2]>> \in Par
    <3>1. x[2] \in Places /\ \A m \in joined[n] : <<m, n>> \in Places
      BY <1>1, PlaceIds DEF Places
    <3>2. \A m \in joined[n] : <<<<m, n>>, x[2]>> \in Par
      BY <1>1, <3>1 DEF StandApart, Parallel
    <3>3. QED
      BY <1>5, <2>3, <2>5, <2>6, <3>1, <3>2
  <2>7. joined' \in [Node -> SUBSET Node] /\ joined'[n] = {}
        /\ \A k \in Node : k # n => joined'[k] = joined[k]
    BY <1>1, <2>1
  <2>8. ASSUME NEW k \in Node, NEW m \in joined'[k]
        PROVE  <<<<n>>, <<m, k>>>> \in Par
    <3>1. k # n /\ m \in joined[k] /\ m \in Node
      BY <1>1, <2>7, <2>8
    <3>2. <<m, k>> \in Places
      BY <3>1 DEF Places
    <3>3. \A l \in joined[n] : <<l, n>> # <<m, k>>
      BY <3>1
    <3>4. \A l \in joined[n] : <<<<l, n>>, <<m, k>>>> \in Par
      BY <1>1, <3>1, <3>3 DEF StandApart
    <3>5. QED
      BY <1>6, <2>3, <2>5, <3>1, <3>2, <3>4
  <2>9. \A t \in T : t[1] = cur[h].id /\ t[2] = <<n>>
    OBVIOUS
  <2>10. <<n>> \in Places
    BY <1>1 DEF Places
  <2>11. \A k \in Node : joined'[k] \subseteq joined[k]
    BY <2>7
  <2> HIDE DEF T
  <2>12. \A t \in T : t[2] \in Places
    BY <2>9, <2>10
  <2>13. \A t \in T, x \in Standing : x[1] # cur[h].id => <<t[2], x[2]>> \in Par
    BY <2>6, <2>9
  <2>14. \A t \in T, k \in Node : \A m \in joined'[k] : <<t[2], <<m, k>>>> \in Par
    BY <2>8, <2>9
  <2>15. \A t, u \in T : t[1] # u[1] => <<t[2], u[2]>> \in Par
    BY <2>9
  <2>16. joined' \in [Node -> SUBSET Node]
    BY <2>7
  <2>17. QED
    BY <1>1, <1>2, <2>2, <2>4, <2>11, <2>12, <2>13, <2>14, <2>15, <2>16, ReplacedApart
<1>9. CASE countInEdges(n) > 1 /\ ~IsLastArrival(n)
  <2> DEFINE Rest == PlacesElse(h) \union SeqPlaces(todo[h])
  <2>1. Resume(h, todo[h]) /\ joined' = [joined EXCEPT ![n] = @ \union {src}]
    BY <1>2, <1>9 DEF HandleJoinNode
  <2>2. Alone(h) /\ HeldPlaces(h)' \subseteq SeqPlaces(todo[h])
    BY <1>1, <2>1, ResumePlaces
  <2>3. Standing' \subseteq Rest
    BY <1>2, <2>2, PlacesSplit, AlonePlaces
  <2>4. \A x \in Rest : x \in Standing /\ x[1] # cur[h].id
    BY <1>1, PlacesBesides
  <2>5. \A k \in Node : \A m \in joined'[k] : m \in joined[k] \/ (k = n /\ m = src)
    BY <1>1, <2>1
  <2> HIDE DEF Rest, n, src
  <2>6. \A x, y \in Standing' : x[1] # y[1] => <<x[2], y[2]>> \in Par
    BY <2>3, <2>4 DEF StandApart
  <2>7. ASSUME NEW x \in Standing', NEW k \in Node, NEW m \in joined'[k]
        PROVE  <<x[2], <<m, k>>>> \in Par
    BY <1>5, <2>3, <2>4, <2>5 DEF StandApart
  <2>8. ASSUME NEW k \in Node, NEW o \in Node, NEW m \in joined'[k], NEW l \in joined'[o],
               <<m, k>> # <<l, o>>
        PROVE  <<<<m, k>>, <<l, o>>>> \in Par
    <3>1. m \in joined[k] \/ (k = n /\ m = src)
      BY <2>5
    <3>2. l \in joined[o] \/ (o = n /\ l = src)
      BY <2>5
    <3>3. CASE m \in joined[k] /\ l \in joined[o]
      BY <2>8, <3>3 DEF StandApart
    <3>4. CASE m \in joined[k] /\ o = n /\ l = src
      BY <1>6, <3>4
    <3>5. CASE k = n /\ m = src /\ l \in joined[o]
      BY <1>6, <3>5
    <3>6. QED
      BY <2>8, <3>1, <3>2, <3>3, <3>4, <3>5
  <2>9. QED
    BY <2>6, <2>7, <2>8 DEF StandApart
<1>10. QED
  BY <1>2, <1>7, <1>8, <1>9

\* What it means for the plugin nodes and for the JOINs.
LEMMA ApartIsOnce ==
  ASSUME NEW Par, KeepsApart(Par), StandApart(Par), TypeOK, JoinInv, JoinsWait, Stationed
  PROVE  OneAtEachNode /\ EachSourceOnce
<1>1. OneAtEachNode
  <2>1. ASSUME NEW p \in AtPlugins
        PROVE  /\ p = [id |-> p.id, node |-> p.node] /\ p.node \in Node
               /\ <<p.id, <<p.node>>>> \in Standing /\ Kind[p.node] = "plugin"
    <3>1. CASE \E m \in requests \union results : p = [id |-> m.id, node |-> m.node]
      <4>1. PICK m \in requests \union results : p = [id |-> m.id, node |-> m.node]
        BY <3>1
      <4>2. m.node \in Node /\ Kind[m.node] = "plugin"
        BY DEF TypeOK, Request, Result, Stationed
      <4>3. <<m.id, <<m.node>>>> \in Standing
        BY DEF Standing, OutPlaces
      <4>4. QED
        BY <4>1, <4>2, <4>3
    <3>2. CASE \E g \in Handler : pc[g] \in {"publish", "remove"}
                                  /\ p = [id |-> cur[g].id, node |-> At(g)]
      <4>1. PICK g \in Handler : pc[g] \in {"publish", "remove"}
                                 /\ p = [id |-> cur[g].id, node |-> At(g)]
        BY <3>2
      <4>2. At(g) \in Node /\ Kind[At(g)] = "plugin"
        BY <4>1, PlaceIds DEF Stationed
      <4>3. <<cur[g].id, <<At(g)>>>> \in HeldPlaces(g)
        BY <4>1 DEF HeldPlaces, CurPlace, Moving
      <4>4. <<cur[g].id, <<At(g)>>>> \in Standing
        BY <4>3 DEF Standing
      <4>5. QED
        BY <4>1, <4>2, <4>4
    <3>3. QED
      BY <3>1, <3>2 DEF AtPlugins
  <2>2. ASSUME NEW p \in AtPlugins, NEW q \in AtPlugins, p.node = q.node, p.id # q.id
        PROVE  FALSE
    <3>1. /\ <<p.id, <<p.node>>>> \in Standing /\ <<q.id, <<q.node>>>> \in Standing
          /\ p.node \in Node /\ Kind[p.node] = "plugin"
      BY <2>1
    <3>2. <<<<p.node>>, <<q.node>>>> \in Par
      BY <2>2, <3>1 DEF StandApart
    <3>3. QED
      BY <2>2, <3>1, <3>2 DEF KeepsApart
  <2>3. QED
    BY <2>1, <2>2 DEF OneAtEachNode
<1>2. EachSourceOnce
  <2> SUFFICES ASSUME NEW h \in Handler, pc[h] = "exec", cur[h].src \in joined[At(h)]
               PROVE  FALSE
    BY DEF EachSourceOnce
  <2> DEFINE n == At(h)
             src == cur[h].src
  <2>1. n \in Node /\ joined \in [Node -> SUBSET Node] /\ joinState \in [Node -> Nat]
    BY PlaceIds DEF TypeOK
  <2>2. src \in Sources(n) /\ joinState[n] # 0
    <3>1. joined[n] \subseteq Sources(n) /\ IsFiniteSet(joined[n])
          /\ Cardinality(joined[n]) = joinState[n]
      BY <2>1 DEF JoinInv, RoundCounted
    <3>2. Cardinality(joined[n]) # 0
      BY <3>1, FS_EmptySet
    <3>3. QED
      BY <3>1, <3>2
  <2>3. Merges(n)
    BY <2>1, <2>2 DEF JoinsWait
  <2>4. <<cur[h].id, <<src, n>>>> \in Standing
    <3>1. <<cur[h].id, <<src, n>>>> \in HeldPlaces(h)
      BY DEF HeldPlaces, CurPlace, PlaceOf, At, Moving
    <3>2. QED
      BY <3>1 DEF Standing
  <2>5. <<<<src, n>>, <<src, n>>>> \in Par
    BY <2>1, <2>4 DEF StandApart
  <2>6. QED
    BY <2>1, <2>2, <2>3, <2>5 DEF KeepsApart
<1>3. QED
  BY <1>1, <1>2

\* The walk keeps branches apart.
LEMMA HandlerApart ==
  ASSUME NEW Par, Parallel(Par), StandApart(Par), TypeOK, LiveParts, JoinInv, EachSourceOnce,
         Stationed, Kind[Entry] # "join", NEW h \in Handler, HandlerStep(h)
  PROVE  StandApart(Par)'
<1>1. WorkType /\ At(h) \in Node
  BY TypeSplit, PlaceIds
<1>2. ASSUME NEW stage, stage # "exec", Goto(h, stage), UNCHANGED <<requests, results, joined>>,
             stage \in Moving \ {"exec"} => pc[h] \in Moving \ {"exec"}
      PROVE  StandApart(Par)'
  BY <1>1, <1>2, GotoFewer, FewerApart
<1>3. ASSUME Resume(h, todo[h]), UNCHANGED <<requests, results, joined>>
      PROVE  StandApart(Par)'
  BY <1>1, <1>3, ResumeFewer, FewerApart
<1>4. ASSUME NEW stage \in {"publish", "fanout"}, Goto(h, stage), pc[h] = "exec",
             Kind[At(h)] # "join", UNCHANGED <<requests, results, joined>>
      PROVE  StandApart(Par)'
  BY <1>4, EntersApart DEF Merges
<1>5. ASSUME NEW i \in {1, 2}, Len(NextNodes[At(h)]) >= 2, TakeSuccessor(h, At(h), i),
             pc[h] = "exec", Kind[At(h)] # "join", UNCHANGED <<requests, results, joined>>
      PROVE  StandApart(Par)'
  <2>1. NextNodes[At(h)] \in Seq(NodeIds)
    BY <1>1, BlueprintAssumption
  <2>2. i \in DOMAIN NextNodes[At(h)]
    BY <1>5, <2>1
  <2>3. QED
    BY <1>5, <2>2, SuccessorApart DEF Merges
<1>6. CASE RemoveActiveNode(h)
  BY <1>2, <1>6 DEF RemoveActiveNode, Moving, broker, ghosts
<1>7. CASE EndBranch(h)
  BY <1>2, <1>3, <1>7 DEF EndBranch, Moving, broker, ghosts
<1>8. CASE NextNodeNotFound(h)
  BY <1>2, <1>8 DEF NextNodeNotFound, Moving, broker, ghosts
<1>9. CASE ForkBranches(h)
  BY <1>9, ForkApart DEF Stationed, ForkBranches
<1>10. CASE ExecutePluginNode(h)
  BY <1>4, <1>10 DEF ExecutePluginNode, broker, ghosts
<1>11. CASE Publish(h)
  <2>1. CASE Goto(h, "fail") /\ requests' = requests
    BY <1>2, <1>11, <2>1 DEF Publish, Moving, ghosts
  <2>2. CASE /\ requests' = requests \union {[id |-> cur[h].id, node |-> At(h)]}
             /\ Resume(h, todo[h])
    <3>1. todo[h] \in Seq(Branch) /\ pc[h] = "publish" /\ results' = results /\ joined' = joined
      BY <1>1, <1>11 DEF WorkType, Publish, ghosts
    <3>2. Alone(h) /\ HeldPlaces(h)' \subseteq SeqPlaces(todo[h])
      BY <1>1, <2>2, <3>1, ResumePlaces
    <3>3. OutPlaces' \subseteq OutPlaces \union {<<cur[h].id, <<At(h)>>>>}
      BY <2>2, <3>1 DEF OutPlaces
    <3>4. HeldPlaces(h) = {<<cur[h].id, <<At(h)>>>>} \union SeqPlaces(todo[h])
      BY <3>1 DEF HeldPlaces, CurPlace, Moving
    <3>5. \A g \in Handler \ {h} : HeldPlaces(g)' = HeldPlaces(g)
      BY <3>2, HeldPlacesKept DEF Alone
    <3>6. PlacesElse(h)' \subseteq PlacesElse(h) \union HeldPlaces(h)
      BY <3>3, <3>4, <3>5 DEF PlacesElse
    <3>7. Standing' \subseteq Standing
      BY <3>2, <3>4, <3>6, PlacesSplit
    <3>8. QED
      BY <3>1, <3>7, FewerApart
  <2>3. QED
    BY <1>11, <2>1, <2>2 DEF Publish
<1>12. CASE ExecuteDataNode(h)
  BY <1>2, <1>4, <1>12 DEF ExecuteDataNode, Moving, broker, ghosts
<1>13. CASE HandleJoinNode(h)
  BY <1>13, JoinApart
<1>14. CASE HandleIFNode(h)
  <2>1. pc[h] = "exec" /\ Kind[At(h)] # "join" /\ UNCHANGED <<requests, results, joined>>
    BY <1>14 DEF HandleIFNode, broker, ghosts
  <2>2. CASE Goto(h, "fail")
    BY <1>2, <2>1, <2>2 DEF Moving
  <2>3. CASE Len(NextNodes[At(h)]) >= 2 /\ \E i \in 1..2 : TakeSuccessor(h, At(h), i)
    <3>1. PICK i \in {1, 2} : TakeSuccessor(h, At(h), i)
      BY <2>3
    <3>2. QED
      BY <1>5, <2>1, <2>3, <3>1
  <2>4. QED
    BY <1>14, <2>2, <2>3 DEF HandleIFNode
<1>15. CASE HandleLoopNode(h)
  <2>1. pc[h] = "exec" /\ Kind[At(h)] # "join" /\ UNCHANGED <<requests, results, joined>>
    BY <1>15 DEF HandleLoopNode, broker, ghosts
  <2>2. CASE Goto(h, "fail")
    BY <1>2, <2>1, <2>2 DEF Moving
  <2>3. CASE /\ Len(NextNodes[At(h)]) >= 2
             /\ \E again \in BodyChoices(At(h), loopState[At(h)] + 1) :
                  TakeSuccessor(h, At(h), IF again THEN 1 ELSE 2)
    <3>1. PICK i \in {1, 2} : TakeSuccessor(h, At(h), i)
      BY <2>3
    <3>2. QED
      BY <1>5, <2>1, <2>3, <3>1
  <2>4. QED
    BY <1>15, <2>2, <2>3 DEF HandleLoopNode
<1>16. CASE ExecuteUnknownNode(h)
  BY <1>2, <1>16 DEF ExecuteUnknownNode, Moving, broker, ghosts
<1>17. QED
  BY <1>6, <1>7, <1>8, <1>9, <1>10, <1>11, <1>12, <1>13, <1>14, <1>15, <1>16 DEF HandlerStep

\* So does every other step: no branch comes to another place.
LEMMA NextApart ==
  ASSUME NEW Par, Parallel(Par), ApartInv(Par), EachSourceOnce,
         Kind[Entry] # "join", DeliveredOnce, [Next]_vars
  PROVE  StandApart(Par)'
<1>1. /\ TypeOK /\ WorkType /\ LiveParts /\ IInv /\ StandApart(Par)
      /\ JoinInv /\ Stationed /\ NotStarted
  BY TypeSplit DEF ApartInv, AInv, IInv
<1>2. ASSUME NEW h \in Handler, HandlerStep(h)
      PROVE  StandApart(Par)'
  BY <1>1, <1>2, HandlerApart
<1>3. ASSUME NEW w \in Worker, UNCHANGED <<requests, results, joined>>,
             \/ \E stage \in TellStages \union {"fail"} : Goto(w, stage)
             \/ Resume(w, todo[w])
             \/ Resume(w, <<>>)
      PROVE  StandApart(Par)'
  <2>1. CASE w \in Handler
    BY <1>1, <1>3, <2>1, GotoFewer, ResumeFewer, FewerApart DEF TellStages, Moving
  <2>2. CASE w \in {Watchdog, Health}
    <3>1. \A g \in Handler : pc'[g] = pc[g] /\ cur'[g] = cur[g] /\ todo'[g] = todo[g]
      BY <1>1, <1>3, <2>2, OthersRest
    <3>2. OutPlaces' = OutPlaces
      BY <1>3 DEF OutPlaces
    <3>3. QED
      BY <1>1, <1>3, <3>1, <3>2, StillPlaces, FewerApart
  <2>3. QED
    BY <2>1, <2>2
<1>4. ASSUME UNCHANGED work, joined' = joined, OutPlaces' \subseteq OutPlaces
      PROVE  StandApart(Par)'
  <2>1. \A g \in Handler : pc'[g] = pc[g] /\ cur'[g] = cur[g] /\ todo'[g] = todo[g]
    BY <1>4 DEF work
  <2>2. QED
    BY <1>1, <1>4, <2>1, StillPlaces, FewerApart
<1>5. ASSUME NEW h \in Handler, Trigger(h)
      PROVE  StandApart(Par)'
  <2>1. status = "none" /\ pc[h] = "idle" /\ UNCHANGED <<requests, results, todo, joined>>
    BY <1>5 DEF Trigger, broker
  <2>2. LiveBranches = {} /\ \A n \in Node : joined[n] = {}
    BY <2>1 DEF ApartInv, AInv, NotStarted
  <2>3. Standing = {}
    BY <1>1, <2>2, PlaceIds
  <2>4. pc'[h] = "exec" /\ cur'[h] = FirstBranch /\ Alone(h)
    BY <1>1, <1>5 DEF Trigger, WorkType, Alone
  <2>5. HeldPlaces(h)' \subseteq {<<1, <<Entry, Entry>>>>} \union HeldPlaces(h)
    BY <2>1, <2>4 DEF HeldPlaces, SeqPlaces, CurPlace, PlaceOf, FirstBranch
  <2>6. Standing' \subseteq {<<1, <<Entry, Entry>>>>}
    BY <2>1, <2>3, <2>4, <2>5, PlacesSplit, AlonePlaces
  <2>7. \A n \in Node : joined'[n] = {}
    BY <2>1, <2>2
  <2>8. \A x, y \in Standing' : x[1] = y[1]
    BY <2>6
  <2>9. QED
    BY <2>7, <2>8 DEF StandApart
<1>6. ASSUME NEW h \in Handler, NEW r \in results, Receive(h, r)
      PROVE  StandApart(Par)'
  <2>1. /\ pc[h] = "idle" /\ todo[h] = <<>> /\ UNCHANGED <<requests, todo, joined>>
        /\ results' \subseteq results
    BY <1>1, <1>6 DEF Receive, LiveParts, Orderly, work, ghosts
  <2>2. CASE UNCHANGED work
    BY <1>4, <2>1, <2>2 DEF OutPlaces
  <2>3. CASE /\ pc' = [pc EXCEPT ![h] = IF r.ok THEN "remove" ELSE "fail"]
             /\ cur' = [cur EXCEPT ![h] = [id |-> r.id, src |-> r.node, dst |-> r.node]]
    <3>1. /\ pc'[h] \in {"remove", "fail"} /\ Alone(h)
          /\ cur'[h].id = r.id /\ cur'[h].dst = r.node
      BY <1>1, <2>1, <2>3 DEF WorkType, Alone
    <3>2. SeqPlaces(<<>>) = {}
      <4>1. DOMAIN <<>> = {}
        OBVIOUS
      <4>2. QED
        BY <4>1 DEF SeqPlaces
    <3>3. HeldPlaces(h)' \subseteq {<<r.id, <<r.node>>>>}
      <4>1. SeqPlaces(todo[h])' = {}
        BY <2>1, <3>2 DEF SeqPlaces
      <4>2. CurPlace(h)' = <<r.node>>
        BY <3>1 DEF CurPlace, At
      <4>3. QED
        BY <3>1, <4>1, <4>2 DEF HeldPlaces
    <3>4. <<r.id, <<r.node>>>> \in OutPlaces /\ OutPlaces' \subseteq OutPlaces
      BY <2>1 DEF OutPlaces
    <3>5. \A g \in Handler \ {h} : HeldPlaces(g)' = HeldPlaces(g)
      BY <3>1, HeldPlacesKept DEF Alone
    <3>6. PlacesElse(h)' \subseteq PlacesElse(h) /\ OutPlaces \subseteq PlacesElse(h)
      BY <3>4, <3>5 DEF PlacesElse
    <3>7. Standing' \subseteq Standing
      BY <3>3, <3>4, <3>6, PlacesSplit
    <3>8. QED
      BY <1>1, <2>1, <3>7, FewerApart
  <2>4. QED
    BY <1>6, <2>2, <2>3 DEF Receive
<1>7. ASSUME NEW q \in requests, NEW ok \in BOOLEAN, PluginAnswers(q, ok)
      PROVE  StandApart(Par)'
  <2>1. OutPlaces' \subseteq OutPlaces
    BY <1>7 DEF PluginAnswers, OutPlaces
  <2>2. QED
    BY <1>4, <1>7, <2>1 DEF PluginAnswers, ghosts
<1>8. ASSUME NEW w \in Worker, FinishStep(w)
      PROVE  StandApart(Par)'
  <2>1. UNCHANGED <<requests, results>>
        /\ ((\E stage \in TellStages : Goto(w, stage)) \/ Resume(w, todo[w]))
    BY <1>1, <1>8, FinishWork
  <2>2. joined' = joined
    BY <1>8 DEF FinishStep, CompleteTask, FailTask, MarkTerminal, SendCallback, ghosts
  <2>3. QED
    BY <1>3, <2>1, <2>2
<1>9. ASSUME NEW w \in Worker, StoreError(w)
      PROVE  StandApart(Par)'
  BY <1>3, <1>9 DEF StoreError, broker, ghosts
<1>10. CASE SweepExpiredTasks
  BY <1>3, <1>10 DEF SweepExpiredTasks, broker, ghosts
<1>11. CASE FailTasksByPlugin
  BY <1>3, <1>11 DEF FailTasksByPlugin, broker, ghosts
<1>12. CASE ChannelCloses \/ UNCHANGED vars
  <2>1. UNCHANGED work /\ joined' = joined /\ UNCHANGED <<requests, results>>
    BY <1>12 DEF ChannelCloses, vars, broker, ghosts
  <2>2. QED
    BY <1>4, <2>1 DEF OutPlaces
<1>13. ~Crash /\ \A h \in Handler : ~Redeliver(h)
  BY <1>1, EnvironmentAssumption DEF Crash, Redeliver, DeliveredOnce, TypeOK
<1>14. QED
  BY <1>2, <1>5, <1>6, <1>7, <1>8, <1>9, <1>10, <1>11, <1>12, <1>13 DEF Next

\* A worker that goes to a stage its node has, or on to its next branch.
LEMMA MoverStationed ==
  ASSUME TypeOK, Stationed, NEW w \in Worker, UNCHANGED <<requests, results>>,
         \/ \E rest : Resume(w, rest)
         \/ \E n, i : TakeSuccessor(w, n, i)
         \/ \E stage \in {"fail", "exit", "complete"} \union TellStages : Goto(w, stage)
         \/ Goto(w, "publish") /\ Kind[At(w)] = "plugin"
         \/ Goto(w, "fanout") /\ Kind[At(w)] \notin {"if", "loop", "while"}
  PROVE  Stationed'
<1>1. WorkType
  BY TypeSplit
<1>2. ASSUME NEW stage, Goto(w, stage),
             stage \in {"publish", "remove"} => Kind[At(w)] = "plugin",
             stage = "fanout" => Kind[At(w)] \notin {"if", "loop", "while"}
      PROVE  Stationed'
  <2>1. /\ \A g \in Handler : At(g)' = At(g)
        /\ \A g \in Handler : pc'[g] = IF g = w THEN stage ELSE pc[g]
    BY <1>1, <1>2 DEF Goto, WorkType, At
  <2>2. QED
    BY <1>2, <2>1 DEF Stationed
<1>3. ASSUME NEW rest, Resume(w, rest)
      PROVE  Stationed'
  <2>1. \A g \in Handler : g # w => pc'[g] = pc[g] /\ cur'[g] = cur[g]
    <3>1. CASE rest = <<>>
      BY <1>1, <1>3, <3>1 DEF Resume, WorkType
    <3>2. CASE rest # <<>>
      BY <1>1, <1>3, <3>2 DEF Resume, WorkType
    <3>3. QED
      BY <3>1, <3>2
  <2>2. pc'[w] \in {"idle", "exec"}
    BY <1>1, <1>3, ResumeStage
  <2>3. QED
    BY <2>1, <2>2 DEF Stationed, At
<1>4. ASSUME NEW n, NEW i, TakeSuccessor(w, n, i)
      PROVE  Stationed'
  BY <1>2, <1>3, <1>4 DEF TakeSuccessor
<1>5. QED
  BY <1>2, <1>3, <1>4 DEF TellStages

\* Nobody comes to a stage its node does not have.
LEMMA NextStationed ==
  ASSUME TypeOK, Stationed, IInv, DeliveredOnce, [Next]_vars
  PROVE  Stationed'
<1>1. WorkType
  BY TypeSplit
<1>2. ASSUME UNCHANGED work,
             \A m \in (requests \union results)' :
               \E p \in requests \union results : m.node = p.node
      PROVE  Stationed'
  BY <1>2 DEF Stationed, work, At
<1>3. ASSUME NEW h \in Handler, HandlerStep(h)
      PROVE  Stationed'
  <2>1. CASE RemoveActiveNode(h)
    BY <2>1, MoverStationed DEF RemoveActiveNode, broker, Stationed
  <2>2. CASE EndBranch(h)
    BY <2>2, MoverStationed DEF EndBranch, broker
  <2>3. CASE NextNodeNotFound(h)
    BY <2>3, MoverStationed DEF NextNodeNotFound, broker
  <2>4. CASE ForkBranches(h)
    BY <2>4, MoverStationed DEF ForkBranches, broker
  <2>5. CASE ExecutePluginNode(h)
    BY <2>5, MoverStationed DEF ExecutePluginNode, broker
  <2>6. CASE Publish(h)
    <3>1. CASE Goto(h, "fail") /\ requests' = requests
      BY <2>6, <3>1, MoverStationed DEF Publish
    <3>2. CASE /\ requests' = requests \union {[id |-> cur[h].id, node |-> At(h)]}
               /\ Resume(h, todo[h])
      <4>1. Kind[At(h)] = "plugin" /\ results' = results
        BY <2>6 DEF Publish, Stationed
      <4>2. \A m \in (requests \union results)' : Kind[m.node] = "plugin"
        BY <3>2, <4>1 DEF Stationed
      <4>3. \A g \in Handler : g # h => pc'[g] = pc[g] /\ cur'[g] = cur[g]
        <5>1. CASE todo[h] = <<>>
          BY <1>1, <3>2, <5>1 DEF Resume, WorkType
        <5>2. CASE todo[h] # <<>>
          BY <1>1, <3>2, <5>2 DEF Resume, WorkType
        <5>3. QED
          BY <5>1, <5>2
      <4>4. pc'[h] \in {"idle", "exec"}
        BY <1>1, <3>2, ResumeStage
      <4>5. QED
        BY <4>2, <4>3, <4>4 DEF Stationed, At
    <3>3. QED
      BY <2>6, <3>1, <3>2 DEF Publish
  <2>7. CASE ExecuteDataNode(h)
    BY <2>7, MoverStationed DEF ExecuteDataNode, broker
  <2>8. CASE HandleJoinNode(h)
    BY <2>8, MoverStationed DEF HandleJoinNode, broker
  <2>9. CASE HandleIFNode(h)
    BY <2>9, MoverStationed DEF HandleIFNode, broker
  <2>10. CASE HandleLoopNode(h)
    BY <2>10, MoverStationed DEF HandleLoopNode, broker
  <2>11. CASE ExecuteUnknownNode(h)
    BY <2>11, MoverStationed DEF ExecuteUnknownNode, broker
  <2>12. QED
    BY <1>3, <2>1, <2>2, <2>3, <2>4, <2>5, <2>6, <2>7, <2>8, <2>9, <2>10, <2>11 DEF HandlerStep
<1>4. ASSUME NEW h \in Handler, Trigger(h)
      PROVE  Stationed'
  <2>1. /\ UNCHANGED <<requests, results>>
        /\ \A g \in Handler : g # h => pc'[g] = pc[g] /\ cur'[g] = cur[g]
        /\ pc'[h] = "exec"
    BY <1>1, <1>4 DEF Trigger, broker, WorkType
  <2>2. QED
    BY <2>1 DEF Stationed, At
<1>5. ASSUME NEW h \in Handler, NEW r \in results, Receive(h, r)
      PROVE  Stationed'
  <2>1. requests' = requests /\ results' \subseteq results
    BY <1>5 DEF Receive
  <2>2. CASE UNCHANGED work
    BY <1>2, <2>1, <2>2
  <2>3. CASE /\ pc' = [pc EXCEPT ![h] = IF r.ok THEN "remove" ELSE "fail"]
             /\ cur' = [cur EXCEPT ![h] = [id |-> r.id, src |-> r.node, dst |-> r.node]]
    <3>1. /\ \A g \in Handler : g # h => pc'[g] = pc[g] /\ cur'[g] = cur[g]
          /\ pc'[h] \in {"remove", "fail"} /\ cur'[h].dst = r.node
      BY <1>1, <2>3 DEF WorkType
    <3>2. QED
      BY <2>1, <3>1 DEF Stationed, At
  <2>4. QED
    BY <1>5, <2>2, <2>3 DEF Receive
<1>6. ASSUME NEW q \in requests, NEW ok \in BOOLEAN, PluginAnswers(q, ok)
      PROVE  Stationed'
  BY <1>2, <1>6 DEF PluginAnswers
<1>7. ASSUME NEW w \in Worker, FinishStep(w)
      PROVE  Stationed'
  <2>1. /\ UNCHANGED <<requests, results>>
        /\ (\E stage \in TellStages : Goto(w, stage)) \/ Resume(w, todo[w])
    BY <1>7, FinishWork
  <2>2. QED
    BY <2>1, MoverStationed
<1>8. ASSUME NEW w \in Worker, StoreError(w)
      PROVE  Stationed'
  BY <1>8, MoverStationed DEF StoreError, broker
<1>9. CASE SweepExpiredTasks
  BY <1>9, MoverStationed DEF SweepExpiredTasks, broker
<1>10. CASE FailTasksByPlugin
  BY <1>10, MoverStationed DEF FailTasksByPlugin, broker
<1>11. CASE ChannelCloses \/ UNCHANGED vars
  BY <1>2, <1>11 DEF ChannelCloses, vars, broker
<1>12. ~Crash /\ \A h \in Handler : ~Redeliver(h)
  BY EnvironmentAssumption DEF Crash, Redeliver, DeliveredOnce, TypeOK
<1>13. QED
  BY <1>3, <1>4, <1>5, <1>6, <1>7, <1>8, <1>9, <1>10, <1>11, <1>12 DEF Next

\* What a JOIN remembers follows from the arrivals.
LEMMA NextJoined ==
  ASSUME NEW Par, ApartInv(Par), EachSourceOnce, Kind[Entry] # "join", DeliveredOnce,
         [Next]_vars, AInv'
  PROVE  /\ JoinInv' /\ JoinsWait'
         /\ status' = "none" => \A n \in Node : joined'[n] = {}
<1>1. TypeOK /\ JoinInv /\ JoinsWait /\ IInv
  BY DEF ApartInv, AInv, IInv
<1>2. \A w \in Worker : Walked(w)'
  BY <1>1, NextWalked DEF JoinInv
<1>3. CASE \A h \in Handler : ~HandleJoinNode(h)
  <2>1. UNCHANGED <<joinState, joined>>
    BY <1>1, <1>3, OnlyJoinsJoin
  <2>2. \A n \in Node : RoundCounted(n)'
    BY <1>1, <2>1 DEF JoinInv, RoundCounted
  <2>3. JoinsWait'
    BY <1>1, <2>1 DEF JoinsWait
  <2>4. status' = "none" => status = "none"
    BY <1>1, StatusStep DEF TypeOK
  <2>5. QED
    BY <1>2, <2>1, <2>2, <2>3, <2>4 DEF JoinInv, ApartInv
<1>4. ASSUME NEW h \in Handler, HandleJoinNode(h)
      PROVE  /\ JoinInv' /\ JoinsWait'
             /\ status' = "none" => \A n \in Node : joined'[n] = {}
  <2>1. \A n \in Node : RoundCounted(n)'
    BY <1>1, <1>4, ArrivalMerges
  <2>2. JoinsWait'
    BY <1>1, <1>4, JoinsWaitKept
  <2>3. status' = status /\ pc[h] = "exec"
    BY <1>4 DEF HandleJoinNode
  <2>4. status # "none"
    BY <2>3 DEF ApartInv, AInv, NotStarted
  <2>5. QED
    BY <1>2, <2>1, <2>2, <2>3, <2>4 DEF JoinInv
<1>5. QED
  BY <1>3, <1>4

\* On a Blueprint that keeps its branches apart, no two of them are ever at one plugin node
\* together, and none arrives at a JOIN after another from the same node in one round.
THEOREM BranchesStayApart ==
  ASSUME NEW Par, KeepsApart(Par), Kind[Entry] # "join", DeliveredOnce
  PROVE  Spec => []OneAtEachNode /\ []EachSourceOnce
<1>1. Parallel(Par)
  BY DEF KeepsApart
<1>2. Init => AInv
  BY InitAccounts
<1>3. Init => ApartInv(Par)
  <2> SUFFICES ASSUME Init
               PROVE  ApartInv(Par)
    OBVIOUS
  <2>1. DOMAIN <<>> = {} /\ SeqPlaces(<<>>) = {}
    <3>1. DOMAIN <<>> = {}
      OBVIOUS
    <3>2. QED
      BY <3>1 DEF SeqPlaces
  <2>2. JoinInv
    <3>1. \A w \in Worker : Walked(w)
      BY <2>1 DEF Init, Walked
    <3>2. \A n \in Node : RoundCounted(n)
      BY FS_EmptySet DEF Init, RoundCounted
    <3>3. QED
      BY <3>1, <3>2 DEF JoinInv
  <2>3. JoinsWait /\ Stationed /\ \A n \in Node : joined[n] = {}
    BY DEF Init, JoinsWait, Stationed
  <2>4. Standing = {}
    <3>1. \A h \in Handler : HeldPlaces(h) = {}
      BY <2>1 DEF Init, HeldPlaces, Moving
    <3>2. OutPlaces = {}
      BY DEF Init, OutPlaces
    <3>3. QED
      BY <3>1, <3>2 DEF Standing
  <2>5. StandApart(Par)
    BY <2>3, <2>4 DEF StandApart
  <2>6. QED
    BY <1>2, <2>2, <2>3, <2>5 DEF ApartInv
<1>4. ApartInv(Par) => OneAtEachNode /\ EachSourceOnce
  BY ApartIsOnce DEF ApartInv, AInv, IInv
<1>5. ApartInv(Par) /\ AInv' /\ [Next]_vars => ApartInv(Par)'
  <2> SUFFICES ASSUME ApartInv(Par), AInv', [Next]_vars
               PROVE  ApartInv(Par)'
    OBVIOUS
  <2>1. StandApart(Par)'
    BY <1>1, <1>4, NextApart
  <2>2. Stationed'
    BY NextStationed DEF ApartInv, AInv, IInv
  <2>3. /\ JoinInv' /\ JoinsWait'
        /\ status' = "none" => \A n \in Node : joined'[n] = {}
    BY <1>4, NextJoined
  <2>4. QED
    BY <2>1, <2>2, <2>3 DEF ApartInv
<1>6. Spec => []AInv
  BY AccountsInvariance
<1>7. QED
  BY <1>3, <1>4, <1>5, <1>6, PTL DEF Spec

\* So every request that is out has its deadline.
THEOREM BlueprintIsWatched ==
  ASSUME NEW Par, KeepsApart(Par), Kind[Entry] # "join", DeliveredOnce
  PROVE  Spec => []InFlightIsWatched
BY BranchesStayApart, RequestsAreWatched, PTL

\* And a JOIN lets the branch through that comes when every edge has been taken.
THEOREM BlueprintMerges ==
  ASSUME NEW Par, KeepsApart(Par), Kind[Entry] # "join", DeliveredOnce
  PROVE  Spec => JoinMergesEveryEdge
<1>1. Spec /\ []EachSourceOnce => JoinMergesEveryEdge
  BY JoinsMerge
<1>2. Spec => []EachSourceOnce
  BY BranchesStayApart, PTL
<1>3. QED
  BY <1>1, <1>2, PTL
=============================================================================

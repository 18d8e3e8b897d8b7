---------------------------- MODULE TaskScheduler ----------------------------
(***************************************************************************)
(* One Task of internal/taskscheduler: the walk of a Blueprint by          *)
(* concurrent HandleDispatch goroutines, the watchdog and the              *)
(* plugin-down report.                                                     *)
(*                                                                         *)
(* A step is one TaskStore.update (a WATCH/MULTI transaction on the Task's *)
(* Redis key, hence atomic), one Get, one publish, or a branch taken       *)
(* between them; goroutines interleave between steps.  A handler walks the *)
(* successors of a node depth first and in order in the same goroutine:    *)
(* cur is the branch it is at and todo the siblings still to be executed.  *)
(*                                                                         *)
(* Branch ids, minted and joined are auxiliary: no guard reads them.  An   *)
(* id names one live parallel branch wherever it is (a handler, a request  *)
(* to a plugin, a result), which is what Task.ActiveBranches counts.       *)
(* Left out: Context (IF and LOOP expressions, INPUT lookups and output    *)
(* parsing take either outcome), CurrentNodeID (never read), the 24h TTL   *)
(* and clock values (a registered deadline may expire at any later time).  *)
(***************************************************************************)
EXTENDS Integers, Sequences, FiniteSets

CONSTANTS
  Handler,             \* slots for concurrent HandleDispatch goroutines
  Watchdog, Health,    \* the watchdog goroutine, the FailTasksByPlugin one
  Node, Entry,         \* the Blueprint's nodes; Nodes[0]
  Kind,                \* what executeNode does with a node
  NextNodes,           \* Node.NextNodes; entries may be Exit or unknown ids
  Exit,                \* the empty string as a NextNodes entry
  LoopLimit,           \* the count of a fixed-count LOOP node
  MaxLoopIterations,   \* maxLoopIterations
  HasTriggerPlugin,    \* TriggerPluginID # ""
  ChannelMayClose,     \* may the scheduler's AMQP channel close?
  MaxStoreErrors,      \* bound: TaskStore calls that return an error
  MaxRedeliveries,     \* bound: results redelivered while being handled
  MaxCrashes           \* bound: daemon crashes

Kinds == {"plugin", "input", "output", "join", "if", "loop", "while", "unknown"}
NodeIds == Node \union UNION {{NextNodes[n][i] : i \in DOMAIN NextNodes[n]} : n \in Node}

ASSUME WorkersAssumption ==
  /\ IsFiniteSet(Handler)
  /\ Watchdog \notin Handler
  /\ Health \notin Handler
  /\ Watchdog # Health

ASSUME BlueprintAssumption ==
  /\ IsFiniteSet(Node)
  /\ Entry \in Node
  /\ Exit \notin Node
  /\ Kind \in [Node -> Kinds]
  /\ NextNodes \in [Node -> Seq(NodeIds)]
  /\ LoopLimit \in [Node -> Nat]
  /\ MaxLoopIterations \in Nat

ASSUME EnvironmentAssumption ==
  /\ HasTriggerPlugin \in BOOLEAN
  /\ ChannelMayClose \in BOOLEAN
  /\ MaxStoreErrors \in Nat
  /\ MaxRedeliveries \in Nat
  /\ MaxCrashes \in Nat

VARIABLES
  status,          \* Task.Status, "none" until createAndStartTask saves it
  activeBranches,  \* Task.ActiveBranches
  activeNodes,     \* the keys of Task.ActiveNodes
  joinState,       \* Task.JoinState
  loopState,       \* Task.LoopState
  pc, cur, todo,   \* per worker: stage, branch at hand, pending siblings
  msg,             \* per handler: the unacknowledged result it handles
  requests,        \* node requests published and not answered
  results,         \* node results queued for the Router
  callbacks,       \* callback events published to the triggering plugin
  channelUp,       \* is the scheduler's AMQP channel open?
  minted,          \* auxiliary: branch ids used so far
  joined,          \* auxiliary: per JOIN, the sources arrived in this round
  storeErrors, redeliveries, crashes  \* faults so far

task    == <<status, activeBranches, activeNodes, joinState, loopState>>
work    == <<pc, cur, todo, msg>>
broker  == <<requests, results, callbacks, channelUp>>
ghosts  == <<minted, joined>>
faults  == <<storeErrors, redeliveries, crashes>>
vars    == <<task, work, broker, ghosts, faults>>

Worker   == Handler \union {Watchdog, Health}
Terminal == {"completed", "failed"}
Branch   == [id : Nat, src : Node, dst : Node]
Request  == [id : Nat, node : Node]
Result   == [id : Nat, node : Node, ok : BOOLEAN]
NoBranch == [id |-> 0, src |-> Entry, dst |-> Entry]
FirstBranch == [id |-> 1, src |-> Entry, dst |-> Entry]
NoMsg    == [id |-> 0, node |-> Entry, ok |-> TRUE]
Stages   == {"idle", "remove", "exec", "publish", "fanout", "fail", "exit",
             "complete", "tellCompleted", "tellFailed"}

At(w) == cur[w].dst

-----------------------------------------------------------------------------
(* The Blueprint, as findNode and countInEdges read it. *)

Resolves(n) == \A i \in DOMAIN NextNodes[n] : NextNodes[n][i] \in Node

InEdges(n) ==
  {e \in UNION {{<<m, i>> : i \in DOMAIN NextNodes[m]} : m \in Node} :
     NextNodes[e[1]][e[2]] = n}

countInEdges(n) == Cardinality(InEdges(n))

Sources(n) == {e[1] : e \in InEdges(n)}
-----------------------------------------------------------------------------
(* What a worker does next. *)

Goto(w, stage) ==
  /\ pc' = [pc EXCEPT ![w] = stage]
  /\ UNCHANGED <<cur, todo, msg>>

\* Return to the innermost loop over nextNodes: the next sibling, or msg.Ack.
Resume(w, rest) ==
  IF rest = <<>>
    THEN /\ pc'   = [pc   EXCEPT ![w] = "idle"]
         /\ cur'  = [cur  EXCEPT ![w] = NoBranch]
         /\ todo' = [todo EXCEPT ![w] = <<>>]
         /\ msg'  = [msg  EXCEPT ![w] = NoMsg]
    ELSE /\ pc'   = [pc   EXCEPT ![w] = "exec"]
         /\ cur'  = [cur  EXCEPT ![w] = Head(rest)]
         /\ todo' = [todo EXCEPT ![w] = Tail(rest)]
         /\ UNCHANGED msg

BranchTo(w, n) == [id |-> cur[w].id, src |-> At(w), dst |-> n]
-----------------------------------------------------------------------------
(* The Task's transactions, one operator for what each writes or tests.  An *)
(* operator marked "mutant" is the same written wrong, to see that the      *)
(* properties notice.                                                       *)

\* mutant: a node goes out unregistered
ForgetsToRegister(n) == activeNodes

\* AddActiveNode
RegisterNode(n) == activeNodes \union {n}

\* RemoveActiveNode
ReleaseNode(n) == activeNodes \ {n}

\* mutant: the fork's delta is not added
ForgetsFork(n) == activeBranches

\* AddBranches(len(nextNodes)-1)
BranchesAfterFork(n) == activeBranches + Len(NextNodes[n]) - 1

\* mutants: EndBranch's caller tests the count one too early, or never sees zero
EndsTooEarly == activeBranches - 1 <= 1
NeverEnds == activeBranches - 1 < 0

\* EndBranch and the remaining <= 0 test of its caller
IsLastBranch == activeBranches - 1 <= 0

\* mutant: a JOIN does not wait for its last edge
ProceedsOneShort(n) == joinState[n] + 2 >= countInEdges(n)

\* ArriveAtJoin: is this the arrival that proceeds?
IsLastArrival(n) == joinState[n] + 1 >= countInEdges(n)

\* mutants: the count survives the round, or is reset without the last arrival
KeepsArrivals(n) == joinState
SubtractsEdges(n) == [joinState EXCEPT ![n] = @ - countInEdges(n)]

\* ArriveAtJoin's reset
JoinStateOnProceed(n) == [joinState EXCEPT ![n] = 0]

\* mutant: the status is not tested inside the transaction
FinishesAgain == status # "none"

\* MarkTerminal's test
MayFinish == status = "running"

\* mutant: the LOOP counter is compared before it counts this pass
OnePassTooMany(n, count) ==
  IF Kind[n] = "loop" THEN {count - 1 <= LoopLimit[n]} ELSE BOOLEAN

\* May a LOOP node run its body again, after count increments?
BodyChoices(n, count) ==
  IF Kind[n] = "loop" THEN {count <= LoopLimit[n]} ELSE BOOLEAN
-----------------------------------------------------------------------------
(* Messages in. *)

\* handleNewDispatch: createAndStartTask saves the Task, then runs Nodes[0].
Trigger(h) ==
  /\ status = "none"
  /\ pc[h] = "idle"
  /\ status' = "running"
  /\ activeBranches' = 1
  /\ minted' = 1
  /\ pc'  = [pc  EXCEPT ![h] = "exec"]
  /\ cur' = [cur EXCEPT ![h] = FirstBranch]
  /\ UNCHANGED <<activeNodes, joinState, loopState, todo, msg, broker, joined, faults>>

\* handleNodeResult up to its first transaction: Get, the status test, Ok.
Receive(h, r) ==
  /\ r \in results
  /\ pc[h] = "idle"
  /\ results' = results \ {r}
  /\ \/ /\ status # "running"        \* ignored and acknowledged
        /\ UNCHANGED work
     \/ /\ status = "running"
        /\ pc'  = [pc  EXCEPT ![h] = IF r.ok THEN "remove" ELSE "fail"]
        /\ cur' = [cur EXCEPT ![h] = [id |-> r.id, src |-> r.node, dst |-> r.node]]
        /\ msg' = [msg EXCEPT ![h] = r]
        /\ UNCHANGED todo
  /\ UNCHANGED <<task, requests, callbacks, channelUp, ghosts, faults>>

\* RemoveActiveNode, then the output's parsing and merge; advanceTask.
RemoveActiveNode(h) ==
  /\ pc[h] = "remove"
  /\ activeNodes' = ReleaseNode(At(h))
  /\ \E stage \in {"fanout", "fail"} : Goto(h, stage)
  /\ UNCHANGED <<status, activeBranches, joinState, loopState, broker, ghosts, faults>>

\* The plugin works off a request and dispatches its result, or never does.
PluginAnswers(q, ok) ==
  /\ q \in requests
  /\ requests' = requests \ {q}
  /\ results' = results \union {[id |-> q.id, node |-> q.node, ok |-> ok]}
  /\ UNCHANGED <<task, work, callbacks, channelUp, ghosts, faults>>
-----------------------------------------------------------------------------
(* handleFanOut. *)

EndBranch(h) ==
  /\ pc[h] = "fanout"
  /\ NextNodes[At(h)] = <<>>
  /\ activeBranches' = activeBranches - 1
  /\ IF IsLastBranch THEN Goto(h, "complete") ELSE Resume(h, todo[h])
  /\ UNCHANGED <<status, activeNodes, joinState, loopState, broker, ghosts, faults>>

NextNodeNotFound(h) ==
  /\ pc[h] = "fanout"
  /\ ~Resolves(At(h))
  /\ Goto(h, "fail")
  /\ UNCHANGED <<task, broker, ghosts, faults>>

\* AddBranches (when there is more than one successor), then the loop over them.
ForkBranches(h) ==
  LET n    == At(h)
      succ == NextNodes[n]
      fork == [i \in 1..Len(succ) |->
                [id  |-> IF i = 1 THEN cur[h].id ELSE minted + i - 1,
                 src |-> n, dst |-> succ[i]]]
  IN /\ pc[h] = "fanout"
     /\ succ # <<>>
     /\ Resolves(n)
     /\ activeBranches' = BranchesAfterFork(n)
     /\ minted' = minted + Len(succ) - 1
     /\ Resume(h, fork \o todo[h])
     /\ UNCHANGED <<status, activeNodes, joinState, loopState, broker, joined, faults>>
-----------------------------------------------------------------------------
(* executeNode, by the kind of node; AdvanceNode writes only CurrentNodeID. *)

\* executePluginNode, first half: AddActiveNode.  Its error is only logged.
ExecutePluginNode(h) ==
  /\ pc[h] = "exec"
  /\ Kind[At(h)] = "plugin"
  /\ Goto(h, "publish")
  /\ \/ /\ activeNodes' = RegisterNode(At(h))
        /\ UNCHANGED storeErrors
     \/ /\ storeErrors < MaxStoreErrors
        /\ storeErrors' = storeErrors + 1
        /\ UNCHANGED activeNodes
  /\ UNCHANGED <<status, activeBranches, joinState, loopState, broker, ghosts,
                 redeliveries, crashes>>

\* executePluginNode, second half: publish, or fail the Task.
Publish(h) ==
  /\ pc[h] = "publish"
  /\ \/ /\ channelUp
        /\ requests' = requests \union {[id |-> cur[h].id, node |-> At(h)]}
        /\ Resume(h, todo[h])
     \/ /\ ~channelUp
        /\ Goto(h, "fail")
        /\ UNCHANGED requests
  /\ UNCHANGED <<task, results, callbacks, channelUp, ghosts, faults>>

\* INPUT and OUTPUT write only Context; a bad declaration or a missing
\* variable fails the Task.
ExecuteDataNode(h) ==
  /\ pc[h] = "exec"
  /\ Kind[At(h)] \in {"input", "output"}
  /\ \E stage \in {"fanout", "fail"} : Goto(h, stage)
  /\ UNCHANGED <<task, broker, ghosts, faults>>

\* handleJoinNode with ArriveAtJoin.
HandleJoinNode(h) ==
  LET n == At(h) IN
  /\ pc[h] = "exec"
  /\ Kind[n] = "join"
  /\ \/ /\ countInEdges(n) <= 1
        /\ Goto(h, "fanout")
        /\ UNCHANGED <<activeBranches, joinState, joined>>
     \/ /\ countInEdges(n) > 1
        /\ IsLastArrival(n)
        /\ joinState' = JoinStateOnProceed(n)
        /\ joined' = [joined EXCEPT ![n] = {}]
        /\ Goto(h, "fanout")
        /\ UNCHANGED activeBranches
     \/ /\ countInEdges(n) > 1
        /\ ~IsLastArrival(n)
        /\ joinState' = [joinState EXCEPT ![n] = @ + 1]
        /\ joined' = [joined EXCEPT ![n] = @ \union {cur[h].src}]
        /\ activeBranches' = activeBranches - 1
        /\ Resume(h, todo[h])
  /\ UNCHANGED <<status, activeNodes, loopState, broker, minted, faults>>

\* IF and LOOP pick one successor: the rest of handleIFNode, handleLoopNode.
TakeSuccessor(h, n, i) ==
  LET next == NextNodes[n][i] IN
  IF next = Exit THEN Goto(h, "exit")
  ELSE IF next \notin Node THEN Goto(h, "fail")
  ELSE Resume(h, <<BranchTo(h, next)>> \o todo[h])

HandleIFNode(h) ==
  LET n == At(h) IN
  /\ pc[h] = "exec"
  /\ Kind[n] = "if"
  /\ \/ Goto(h, "fail")               \* too few successors, or evalExpr fails
     \/ /\ Len(NextNodes[n]) >= 2
        /\ \E i \in 1..2 : TakeSuccessor(h, n, i)
  /\ UNCHANGED <<task, broker, ghosts, faults>>

\* IncrLoopCount runs before the expression is evaluated.
HandleLoopNode(h) ==
  LET n     == At(h)
      count == loopState[n] + 1
  IN
  /\ pc[h] = "exec"
  /\ Kind[n] \in {"loop", "while"}
  /\ \/ /\ Len(NextNodes[n]) < 2
        /\ Goto(h, "fail")
        /\ UNCHANGED loopState
     \/ /\ Len(NextNodes[n]) >= 2
        /\ loopState' = [loopState EXCEPT ![n] = count]
        /\ \/ /\ Kind[n] = "while"    \* over the cap, or evalExpr fails
              /\ Goto(h, "fail")
           \/ /\ Kind[n] = "while" => count <= MaxLoopIterations
              /\ \E again \in BodyChoices(n, count) :
                   TakeSuccessor(h, n, IF again THEN 1 ELSE 2)
  /\ UNCHANGED <<status, activeBranches, activeNodes, joinState, broker, ghosts, faults>>

ExecuteUnknownNode(h) ==
  /\ pc[h] = "exec"
  /\ Kind[At(h)] = "unknown"
  /\ Goto(h, "fail")
  /\ UNCHANGED <<task, broker, ghosts, faults>>
-----------------------------------------------------------------------------
(* completeTask, failTask and sendCallback; failTask's nil return lets the *)
(* loop over the siblings go on.                                           *)

MarkTerminal(w, outcome, next) ==
  /\ \/ /\ MayFinish
        /\ status' = outcome
        /\ Goto(w, next)
     \/ /\ ~MayFinish
        /\ UNCHANGED status
        /\ Resume(w, todo[w])
  /\ UNCHANGED <<activeBranches, activeNodes, joinState, loopState, broker, ghosts, faults>>

CompleteTask(w) ==
  /\ pc[w] \in {"complete", "exit"}
  /\ MarkTerminal(w, "completed", "tellCompleted")

FailTask(w) ==
  /\ pc[w] = "fail"
  /\ MarkTerminal(w, "failed", "tellFailed")

Telling == {w \in Worker : pc[w] \in {"tellCompleted", "tellFailed"}}

Told(w) == IF pc[w] = "tellCompleted" THEN "completed" ELSE "failed"

\* A failed publish is only logged.
SendCallback(w) ==
  /\ w \in Telling
  /\ callbacks' = IF HasTriggerPlugin /\ channelUp
                    THEN Append(callbacks, Told(w))
                    ELSE callbacks
  /\ Resume(w, todo[w])
  /\ UNCHANGED <<task, requests, results, channelUp, ghosts, faults>>
-----------------------------------------------------------------------------
(* The watchdog and the plugin-down report act on a snapshot they read. *)

SweepExpiredTasks ==
  /\ pc[Watchdog] = "idle"
  /\ status = "running"
  /\ activeNodes # {}
  /\ Goto(Watchdog, "fail")
  /\ UNCHANGED <<task, broker, ghosts, faults>>

FailTasksByPlugin ==
  /\ pc[Health] = "idle"
  /\ HasTriggerPlugin
  /\ status = "running"
  /\ Goto(Health, "fail")
  /\ UNCHANGED <<task, broker, ghosts, faults>>
-----------------------------------------------------------------------------
(* Faults. *)

\* The entry node is executed without an AdvanceNode before it.
CallsStore(w) ==
  \/ pc[w] \in {"remove", "fanout", "fail", "exit", "complete"}
  \/ /\ pc[w] = "exec"
     /\ cur[w] = FirstBranch =>
          Kind[At(w)] \in {"input", "output", "join", "loop", "while"}

\* The TaskStore call of this stage returns an error: the handler unwinds to
\* HandleDispatch, which logs it and acknowledges the message.
StoreError(w) ==
  /\ storeErrors < MaxStoreErrors
  /\ CallsStore(w)
  /\ storeErrors' = storeErrors + 1
  /\ Resume(w, <<>>)
  /\ UNCHANGED <<task, broker, ghosts, redeliveries, crashes>>

\* The scheduler dials once and never reopens its channel.
ChannelCloses ==
  /\ ChannelMayClose
  /\ channelUp
  /\ channelUp' = FALSE
  /\ UNCHANGED <<task, work, requests, results, callbacks, ghosts, faults>>

\* The Router's connection drops with the result unacknowledged: it is
\* delivered again while its handler runs on.  The copy is a new branch id.
Redeliver(h) ==
  /\ redeliveries < MaxRedeliveries
  /\ msg[h] # NoMsg
  /\ redeliveries' = redeliveries + 1
  /\ minted' = minted + 1
  /\ results' = results \union {[msg[h] EXCEPT !.id = minted + 1]}
  /\ UNCHANGED <<task, work, requests, callbacks, channelUp, joined, storeErrors, crashes>>

\* The daemon dies and restarts: goroutines are gone, the Task stays in
\* Redis, unacknowledged results are queued again, the channel is dialled anew.
Crash ==
  LET busy == {h \in Handler : msg[h] # NoMsg}
  IN /\ crashes < MaxCrashes
     /\ crashes' = crashes + 1
     /\ \E copy \in [busy -> 1..Cardinality(busy)] :
          /\ \A g, h \in busy : copy[g] = copy[h] => g = h
          /\ results' = results \union
                          {[msg[h] EXCEPT !.id = minted + copy[h]] : h \in busy}
     /\ minted' = minted + Cardinality(busy)
     /\ pc'   = [w \in Worker |-> "idle"]
     /\ cur'  = [w \in Worker |-> NoBranch]
     /\ todo' = [w \in Worker |-> <<>>]
     /\ msg'  = [w \in Worker |-> NoMsg]
     /\ channelUp' = TRUE
     /\ UNCHANGED <<task, requests, callbacks, joined, storeErrors, redeliveries>>
-----------------------------------------------------------------------------
Init ==
  /\ status = "none"
  /\ activeBranches = 0
  /\ activeNodes = {}
  /\ joinState = [n \in Node |-> 0]
  /\ loopState = [n \in Node |-> 0]
  /\ pc   = [w \in Worker |-> "idle"]
  /\ cur  = [w \in Worker |-> NoBranch]
  /\ todo = [w \in Worker |-> <<>>]
  /\ msg  = [w \in Worker |-> NoMsg]
  /\ requests = {}
  /\ results = {}
  /\ callbacks = <<>>
  /\ channelUp = TRUE
  /\ minted = 0
  /\ joined = [n \in Node |-> {}]
  /\ storeErrors = 0
  /\ redeliveries = 0
  /\ crashes = 0

\* Every step of a worker that is busy.
HandlerStep(h) ==
  \/ RemoveActiveNode(h)
  \/ EndBranch(h) \/ NextNodeNotFound(h) \/ ForkBranches(h)
  \/ ExecutePluginNode(h) \/ Publish(h)
  \/ ExecuteDataNode(h) \/ HandleJoinNode(h)
  \/ HandleIFNode(h) \/ HandleLoopNode(h) \/ ExecuteUnknownNode(h)

FinishStep(w) == CompleteTask(w) \/ FailTask(w) \/ SendCallback(w)

Next ==
  \/ \E h \in Handler : Trigger(h) \/ HandlerStep(h) \/ Redeliver(h)
  \/ \E h \in Handler, r \in results : Receive(h, r)
  \/ \E q \in requests, ok \in BOOLEAN : PluginAnswers(q, ok)
  \/ \E w \in Worker : FinishStep(w) \/ StoreError(w)
  \/ SweepExpiredTasks \/ FailTasksByPlugin
  \/ ChannelCloses \/ Crash

Spec == Init /\ [][Next]_vars

(***************************************************************************)
(* Fairness: the Go runtime runs every ready goroutine, the Router hands   *)
(* every queued result to a new goroutine, the watchdog ticks every 30s    *)
(* and a registered deadline passes.  Nothing is assumed of the plugins.   *)
(***************************************************************************)
Fairness ==
  /\ \A h \in Handler : WF_vars(HandlerStep(h))
  /\ \A w \in Worker : WF_vars(FinishStep(w))
  /\ WF_vars(\E h \in Handler, r \in results : Receive(h, r))
  /\ WF_vars(SweepExpiredTasks)

FairSpec == Spec /\ Fairness
-----------------------------------------------------------------------------
TypeOK ==
  /\ status \in {"none", "running"} \union Terminal
  /\ activeBranches \in Int
  /\ activeNodes \subseteq Node
  /\ joinState \in [Node -> Nat]
  /\ loopState \in [Node -> Nat]
  /\ pc \in [Worker -> Stages]
  /\ cur \in [Worker -> Branch]
  /\ todo \in [Worker -> Seq(Branch)]
  /\ msg \in [Worker -> Result]
  /\ requests \subseteq Request
  /\ results \subseteq Result
  /\ callbacks \in Seq(Terminal)
  /\ channelUp \in BOOLEAN
  /\ minted \in Nat
  /\ joined \in [Node -> SUBSET Node]
  /\ storeErrors \in 0..MaxStoreErrors
  /\ redeliveries \in 0..MaxRedeliveries
  /\ crashes \in 0..MaxCrashes

\* The live branches: at a handler, waiting for one, at a plugin, on the way back.
Holding == {"remove", "exec", "publish", "fanout", "fail", "exit"}

HeldBy(h) ==
  (IF pc[h] \in Holding THEN {cur[h].id} ELSE {})
    \union {todo[h][i].id : i \in DOMAIN todo[h]}

LiveBranches ==
  (UNION {HeldBy(h) : h \in Handler})
    \union {q.id : q \in requests} \union {r.id : r \in results}

(***************************************************************************)
(* While the Task runs, ActiveBranches is the number of live branches: no  *)
(* interleaving of forks, ends and joins counts a branch twice or forgets  *)
(* one.  A failed TaskStore call loses a branch without uncounting it, so  *)
(* after one the count may only be too high (the Task then never ends too  *)
(* early).  types.go's comment on Task.ActiveBranches.                     *)
(***************************************************************************)
BranchAccounting ==
  status = "running" =>
    IF storeErrors = 0
      THEN activeBranches = Cardinality(LiveBranches)
      ELSE activeBranches >= Cardinality(LiveBranches)

(***************************************************************************)
(* A completed Task left nothing behind: no branch is still being walked,  *)
(* no plugin still works for it, no JOIN still waits for an arrival.       *)
(***************************************************************************)
CompletedLeavesNothing ==
  status = "completed" =>
    /\ LiveBranches = {}
    /\ \A n \in Node : joinState[n] = 0

(***************************************************************************)
(* Which Blueprints leave no JOIN waiting: those whose forks come together *)
(* again.  Give every branch a worth by the node it comes to, so that what *)
(* a node lets out is worth what came in, but for multiples of N, and that *)
(* too few arrivals at the JOIN are not worth a multiple.                  *)
(***************************************************************************)
Multiple(N, x) == x % N = 0

\* What a set of things <<x, w>> that are worth w each is worth together.
Tokens(S) == UNION {{s} \X (1..s[2]) : s \in S}
Mass(S)   == Cardinality(Tokens(S))

\* Does this JOIN wait?
Merges(n) == Kind[n] = "join" /\ countInEdges(n) > 1

\* What n sends out, one thing for each successor.
Shares(W, n) == {<<i, W[NextNodes[n][i]]>> : i \in DOMAIN NextNodes[n]}

\* A branch is worth W[n] when it comes to n and V[n] when it leaves.
Conserves(N, W, V) ==
  /\ W[Entry] = 0
  /\ \A n \in Node :
       /\ Resolves(n) => Multiple(N, V[n] - Mass(Shares(W, n)))
       /\ Kind[n] \in {"plugin", "input", "output"} => V[n] = W[n]
       /\ Kind[n] = "join" /\ ~Merges(n) => V[n] = W[n]
       /\ Merges(n) => Multiple(N, V[n] - countInEdges(n) * W[n])
       /\ Kind[n] \in {"if", "loop", "while"} =>
            \A i \in {1, 2} \intersect DOMAIN NextNodes[n] :
              NextNodes[n][i] \in Node => W[NextNodes[n][i]] = W[n]

\* Such worths for the JOIN n: other JOINs have one only within it.
Nests(Rank, n, N, W, V) ==
  /\ Conserves(N, W, V)
  /\ \A m \in Node : Merges(m) /\ W[m] # 0 => m = n \/ Rank[m] < Rank[n]
  /\ \A c \in 1..(countInEdges(n) - 1) : ~Multiple(N, c * W[n])

WellNested ==
  \E Rank \in [Node -> Nat] : \A n \in Node : Merges(n) =>
    \E N \in Nat \ {0} : \E W \in [Node -> 0..N], V \in [Node -> 0..N] :
      Nests(Rank, n, N, W, V)

(***************************************************************************)
(* Which Blueprints keep their branches apart: a static relation, which of *)
(* the places two branches or arrivals can be at together.  A place is the *)
(* end of an edge <<m, n>> or the inside of a node <<n>>; the Task starts  *)
(* at <<Entry, Entry>>.                                                    *)
(***************************************************************************)
Places == {<<n>> : n \in Node} \union (Node \X Node)

\* Par holds of the sides of a fork, and goes along with each of two branches, where a
\* JOIN lets one out beside what is beside all its edges.
Parallel(Par) ==
  /\ \A p, q \in Places : <<p, q>> \in Par => <<q, p>> \in Par
  /\ \A n \in Node :
       Kind[n] \notin {"if", "loop", "while"} /\ Resolves(n) =>
         \A i, k \in DOMAIN NextNodes[n] :
           i # k => <<<<n, NextNodes[n][i]>>, <<n, NextNodes[n][k]>>>> \in Par
  /\ \A n \in Node, q \in Places :
       /\ ~Merges(n) => \A m \in Node : <<<<m, n>>, q>> \in Par => <<<<n>>, q>> \in Par
       /\ Merges(n) /\ (\A m \in Sources(n) : <<<<m, n>>, q>> \in Par) => <<<<n>>, q>> \in Par
       /\ <<<<n>>, q>> \in Par =>
            \A i \in DOMAIN NextNodes[n] :
              NextNodes[n][i] \in Node => <<<<n, NextNodes[n][i]>>, q>> \in Par

\* No two are in a plugin node, or on one edge to a JOIN that waits.
KeepsApart(Par) ==
  /\ Parallel(Par)
  /\ \A n \in Node :
       /\ Kind[n] = "plugin" => <<<<n>>, <<n>>>> \notin Par
       /\ Merges(n) => \A m \in Sources(n) : <<<<m, n>>, <<m, n>>>> \notin Par

(***************************************************************************)
(* A branch out at a plugin is under the watchdog's eye until its result   *)
(* is being handled: its node is in ActiveNodes, unless the store refused  *)
(* a write (executePluginNode only logs AddActiveNode's error).            *)
(***************************************************************************)
InFlightIsWatched ==
  status = "running" /\ storeErrors = 0 =>
    \A m \in requests \union results : m.node \in activeNodes

(***************************************************************************)
(* At most one callback leaves, only for a Task that is over, and it names *)
(* the outcome the Task really has, whichever of the branches, the         *)
(* watchdog and the plugin-down report raced to end it.                    *)
(***************************************************************************)
CallbackOnce ==
  callbacks # <<>> => /\ status \in Terminal
                      /\ callbacks = <<status>>

(***************************************************************************)
(* Why: MarkTerminal lets one worker through, whoever asks, and only that  *)
(* one is on its way to sendCallback, with the outcome that was stored and *)
(* before anything was published.                                          *)
(***************************************************************************)
OneReporter ==
  /\ \A v, w \in Telling : v = w
  /\ \A w \in Telling : status = Told(w) /\ callbacks = <<>>

(***************************************************************************)
(* A terminal status is final: a late result, another branch, a retried    *)
(* message or the watchdog's stale snapshot never changes it.              *)
(***************************************************************************)
TerminalIsFinal == [][(status \in Terminal) => UNCHANGED status]_vars

(***************************************************************************)
(* A JOIN lets the last arrival through only when every incoming edge has  *)
(* delivered its branch in this round: one edge's second arrival does not  *)
(* stand in for another edge's first.  handleJoinNode's comment.           *)
(***************************************************************************)
JoinMergesEveryEdge ==
  [][\A h \in Handler :
       (pc[h] = "exec" /\ Kind[At(h)] = "join" /\ pc'[h] = "fanout") =>
          joined[At(h)] \union {cur[h].src} = Sources(At(h))]_vars

(***************************************************************************)
(* Whatever the plugins do, a running Task ends: by its last branch, by a  *)
(* failure, or by the watchdog.  StartWatchdog's comment.                  *)
(***************************************************************************)
EventuallyTerminal == status = "running" ~> status \in Terminal

(***************************************************************************)
(* The scheduler implements its promise to the triggering plugin.          *)
(***************************************************************************)
Promise == INSTANCE TaskPromise WITH outcome <- status, notices <- callbacks

PromiseKept == Promise!Spec

PromiseIsSafe == Promise!SafeSpec
=============================================================================

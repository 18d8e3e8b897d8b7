---------------------------- MODULE RouterProofs ----------------------------
(***************************************************************************)
(* What the Router promises its callers, proved for any requests, routes   *)
(* and providers and any number of connections, losses and edits: a        *)
(* goroutine answers its caller once, and a request that leaves the queue  *)
(* has been answered.                                                      *)
(*                                                                         *)
(* Both rest on which goroutine may still acknowledge its request: the one *)
(* whose connection is open. That connection is then the latest, so the    *)
(* channel its answer goes over is the one it acknowledges on.             *)
(*                                                                         *)
(* The last part is about another component, UserConfig, whose names are   *)
(* its own: what a user's saved configuration of a plugin can come to hold.*)
(***************************************************************************)
EXTENDS Router, UserConfig, TLAPS

Fields == {"pc", "todo", "at", "ch", "answered", "sent"}
PCs    == {"none", "route", "reject", "try", "wait", "ack", "end"}
Over   == {"ack", "end"}

Places == {"unsent", "ready", "unacked", "gone"}
Supervisor == {"none", "failed", "starting", "unwatched", "watching", "backoff", "dialing", "setup", "ended"}
Signature == Key \X Slot

ConnectionTypes ==
  /\ edits \in 0..MaxEdits /\ opened \in 0..MaxConnections /\ losses \in 0..MaxLosses
  /\ alive \subseteq 1..opened /\ conn = opened
  /\ invokeCh \in 0..opened /\ dispatchCh = invokeCh
  /\ sup \in Supervisor /\ ctx \in {"live", "cancelled", "closed"}

RequestTypes ==
  /\ place \in [Request -> Places] /\ over \in [Request -> 0..opened]
  /\ DOMAIN ask = Request

CallTypes ==
  /\ DOMAIN handler = Delivery
  /\ \A d \in Delivery : DOMAIN handler[d] = Fields /\ handler[d].pc \in PCs /\ handler[d].sent \in Nat
  /\ replies \in [Delivery -> Nat]
  /\ count \in [Signature -> Nat]

Types == ConnectionTypes /\ RequestTypes /\ CallTypes

\* Only the latest connection is open, and the supervisor dials when it is not.
ConnectionInOrder ==
  /\ alive \subseteq {opened}
  /\ sup = "none" => opened = 0
  /\ sup \in {"backoff", "dialing"} => opened \notin alive

\* A request has a goroutine over connections that the reader was on, and over an open one it
\* is not delivered again. A goroutine asks on the channel it came over or a later one.
DeliveryInOrder ==
  \A d \in Delivery : handler[d].pc # "none" =>
     /\ d[2] <= invokeCh
     /\ place[d[1]] # "unsent"
     /\ d[2] \in alive => place[d[1]] # "ready"
     /\ handler[d].pc = "wait" => handler[d].ch \in d[2]..opened

\* A goroutine that has answered, or has sent what cannot be answered, only acknowledges; one
\* that can acknowledge has answered.
HandlerInOrder ==
  \A d \in Delivery :
     /\ handler[d].pc = "none" => handler[d].sent = 0
     /\ replies[d] > 0 => handler[d].pc \in Over
     /\ ~ask[d[1]].reply /\ handler[d].sent > 0 => handler[d].pc \in Over
     /\ handler[d].pc = "ack" /\ d[2] \in alive /\ ask[d[1]].reply /\ ctx = "live" => replies[d] > 0

IInv == Types /\ ConnectionInOrder /\ DeliveryInOrder /\ HandlerInOrder /\ AtMostOnce /\ AckedIsAnswered

-----------------------------------------------------------------------------
(* What a step does to the goroutines. *)

\* The parts of a goroutine's name.
LEMMA DeliveryParts ==
  ASSUME NEW d \in Delivery
  PROVE  d[1] \in Request /\ d[2] \in Connection /\ d = <<d[1], d[2]>>
BY DEF Delivery

\* The goroutine d goes on, and the others stay where they are.
Others(d) ==
  /\ DOMAIN handler' = Delivery
  /\ \A e \in Delivery \ {d} : handler'[e] = handler[e] /\ replies'[e] = replies[e]
  /\ DOMAIN handler'[d] = Fields /\ handler'[d].sent \in Nat
  /\ replies' \in [Delivery -> Nat]

\* It answers its caller, if that wanted an answer and the channel is open.
Answers(d, open) == replies'[d] = IF open THEN replies[d] + 1 ELSE replies[d]

\* The ways a goroutine goes on: it chooses, it asks one more provider, it waits for one, it gives
\* up without an answer, it ends.
Chooses(d) ==
  /\ handler[d].pc = "route" /\ handler'[d].pc \in {"reject", "try"}
  /\ handler'[d].sent = handler[d].sent \/ handler'[d].sent = 0
  /\ replies'[d] = replies[d]

Asks(d) ==
  /\ handler[d].pc = "try" /\ replies'[d] = replies[d]
  /\ handler'[d].pc = IF ask[d[1]].reply THEN "wait" ELSE "ack"
  /\ handler'[d].ch = invokeCh /\ handler'[d].sent = handler[d].sent + 1

GoesOn(d) ==
  /\ handler[d].pc \in {"try", "wait"} /\ handler'[d].pc \in {"try", handler[d].pc}
  /\ handler'[d].ch = handler[d].ch
  /\ handler'[d].sent = handler[d].sent /\ replies'[d] = replies[d]

Concludes(d) ==
  /\ handler[d].pc \in {"reject", "try", "wait"} /\ handler'[d].pc = "ack"
  /\ handler'[d].sent = handler[d].sent
  /\ \/ Answers(d, ask[d[1]].reply /\ invokeCh \in alive)
     \/ handler[d].pc = "wait" /\ Answers(d, handler[d].ch \in alive)
     \/ handler[d].pc = "wait" /\ ctx # "live" /\ replies'[d] = replies[d]

Finishes(d) ==
  /\ handler[d].pc = "ack" /\ handler'[d].pc = "end" /\ handler'[d].sent = 0
  /\ replies'[d] = replies[d]

\* What every step of a goroutine leaves alone.
Surroundings == <<routes, edits, ask, over, connVars>>

\* A goroutine that routes its request takes the candidates, or rejects it.
LEMMA RouteEffect ==
  ASSUME Types, NEW d \in Delivery, RouteRequest(d)
  PROVE  Others(d) /\ Chooses(d) /\ count' \in [Signature -> Nat] /\ UNCHANGED <<Surroundings, place>>
<1>1. count \in [Signature -> Nat]
  BY DEF Types, CallTypes
<1>2. count' \in [Signature -> Nat]
  <2>1. CASE UNCHANGED count
    BY <1>1, <2>1
  <2>2. ASSUME NEW s, nextCount(s) PROVE count' \in [Signature -> Nat]
    <3>1. CASE s \in Signature
      BY <1>1, <2>2, <3>1 DEF nextCount
    <3>2. CASE s \notin Signature
      BY <1>1, <2>2, <3>2 DEF nextCount
    <3>3. QED
      BY <3>1, <3>2
  <2>3. QED
    BY <2>1, <2>2 DEF RouteRequest
<1>3. replies' = replies /\ UNCHANGED <<Surroundings, place>> /\ handler[d].pc = "route"
  BY DEF RouteRequest, Surroundings, brokerVars, connVars
<1>4. CASE handler' = [handler EXCEPT ![d].pc = "reject"]
  BY <1>2, <1>3, <1>4 DEF Others, Chooses, Types, CallTypes, Fields
<1>5. ASSUME NEW todo, handler' = [handler EXCEPT ![d] = [Idle EXCEPT !.pc = "try", !.at = 1, !.todo = todo]]
      PROVE  Others(d) /\ Chooses(d)
  <2>1. DOMAIN handler' = Delivery /\ \A e \in Delivery \ {d} : handler'[e] = handler[e]
    BY <1>5 DEF Types, CallTypes
  <2>2. handler'[d] = [Idle EXCEPT !.pc = "try", !.at = 1, !.todo = todo]
    BY <1>5 DEF Types, CallTypes
  <2>3. DOMAIN handler'[d] = Fields /\ handler'[d].pc = "try" /\ handler'[d].sent = 0
    BY <2>2 DEF Idle, Fields
  <2>4. QED
    BY <1>3, <2>1, <2>3 DEF Others, Chooses, Types, CallTypes
<1>6. QED
  BY <1>2, <1>3, <1>4, <1>5 DEF RouteRequest

\* Every other step of a goroutine before its acknowledgement is of one of three kinds.
LEMMA HandleEffect ==
  ASSUME Types, NEW d \in Delivery,
         RejectRequest(d) \/ TryProvider(d) \/ ForwardReply(d) \/ ProviderTimesOut(d)
           \/ StopsWaiting(d) \/ AllProvidersFailed(d) \/ ProviderAnswers(d)
  PROVE  Others(d) /\ ((Asks(d) /\ invokeCh \in alive) \/ GoesOn(d) \/ Concludes(d))
           /\ UNCHANGED <<Surroundings, place, count>>
<1> USE DEF Types, CallTypes, Fields, Others, Surroundings, brokerVars, connVars
<1>0. UNCHANGED <<Surroundings, place, count>>
  BY DEF RejectRequest, TryProvider, ForwardReply, ProviderTimesOut, StopsWaiting, AllProvidersFailed,
    ProviderAnswers
<1>1. CASE RejectRequest(d)
  BY <1>0, <1>1 DEF RejectRequest, PublishError, Concludes, Answers
<1>2. CASE TryProvider(d)
  <2>1. CASE invokeCh \in alive
    BY <1>0, <1>2, <2>1 DEF TryProvider, PublishToProvider, AfterSend, Asks
  <2>2. CASE invokeCh \notin alive
    BY <1>0, <1>2, <2>2 DEF TryProvider, NextCandidate, GoesOn
  <2>3. QED
    BY <2>1, <2>2
<1>3. CASE ForwardReply(d)
  BY <1>0, <1>3 DEF ForwardReply, AfterReply, Concludes, Answers
<1>4. CASE ProviderTimesOut(d)
  BY <1>0, <1>4 DEF ProviderTimesOut, NextCandidate, GoesOn
<1>5. CASE StopsWaiting(d)
  BY <1>0, <1>5 DEF StopsWaiting, Concludes
<1>6. CASE AllProvidersFailed(d)
  BY <1>0, <1>6 DEF AllProvidersFailed, PublishError, Concludes, Answers
<1>7. CASE ProviderAnswers(d)
  BY <1>0, <1>7 DEF ProviderAnswers, GoesOn
<1>8. QED
  BY <1>1, <1>2, <1>3, <1>4, <1>5, <1>6, <1>7

\* Whether an acknowledgement gets through.
AcksOver(d) == place[d[1]] = "unacked" /\ over[d[1]] = d[2] /\ d[2] \in alive

\* The acknowledgement: the request goes, if the connection is still open.
LEMMA AcknowledgeEffect ==
  ASSUME Types, NEW d \in Delivery, Acknowledge(d)
  PROVE  /\ Others(d) /\ Finishes(d) /\ UNCHANGED <<Surroundings, count>>
         /\ place' \in [Request -> Places]
         /\ \A m \in Request : place'[m] = IF m = d[1] /\ AcksOver(d) THEN "gone" ELSE place[m]
<1>1. d[1] \in Request
  BY DeliveryParts
<1>2. UNCHANGED <<Surroundings, count, replies>> /\ handler[d].pc = "ack"
  BY DEF Acknowledge, Surroundings, connVars
<1>3. /\ place' \in [Request -> Places]
      /\ \A m \in Request : place'[m] = IF m = d[1] /\ AcksOver(d) THEN "gone" ELSE place[m]
  BY <1>1 DEF Acknowledge, AcksOver, Types, RequestTypes, Places
<1>4. DOMAIN handler' = Delivery /\ \A e \in Delivery \ {d} : handler'[e] = handler[e]
  BY DEF Acknowledge, Types, CallTypes
<1>5. handler'[d] = [Idle EXCEPT !.pc = "end"]
  BY DEF Acknowledge, Types, CallTypes
<1>6. DOMAIN handler'[d] = Fields /\ handler'[d].pc = "end" /\ handler'[d].sent = 0
  BY <1>5 DEF Idle, Fields
<1>7. QED
  BY <1>2, <1>3, <1>4, <1>6 DEF Others, Finishes, Types, CallTypes

\* The steps of the goroutine d.
Working(d) == Chooses(d) \/ (Asks(d) /\ invokeCh \in alive) \/ GoesOn(d) \/ Concludes(d)

\* Every step of a goroutine but its acknowledgement leaves the requests where they are.
LEMMA WorkEffect ==
  ASSUME Types, NEW d \in Delivery, Handle(d) \/ ProviderAnswers(d)
  PROVE  \/ Others(d) /\ Working(d) /\ count' \in [Signature -> Nat] /\ UNCHANGED <<Surroundings, place>>
         \/ Acknowledge(d)
<1>1. count' = count => count' \in [Signature -> Nat]
  BY DEF Types, CallTypes
<1>2. QED
  BY <1>1, RouteEffect, HandleEffect DEF Handle, Working

-----------------------------------------------------------------------------
(* Types and connections. *)

\* What the broker does with the requests of a connection that is gone.
LEMMA RequeueEffect ==
  ASSUME Types, NEW gone
  PROVE  /\ Requeue(gone) \in [Request -> Places]
         /\ \A m \in Request : Requeue(gone)[m] = place[m] \/ (Requeue(gone)[m] = "ready" /\ place[m] = "unacked")
BY DEF Requeue, Types, RequestTypes, Places

\* The steps that touch neither goroutines nor answers.
Callless == Connect \/ LoseConnection \/ Cancel \/ CloseAll \/ (\E t \in RouteTables : SetRoutes(t))

\* Connections open one after the other, and the latest is the open one.
ConnectionStep ==
  /\ ConnectionTypes' /\ ConnectionInOrder'
  /\ opened <= opened' /\ alive' \subseteq alive \cup {opened + 1}
  /\ invokeCh' \in {invokeCh, opened}
  /\ ctx' = "live" => ctx = "live"

\* What is not acknowledged when one goes is ready again.
RequestStep ==
  /\ UNCHANGED <<ask, over, callVars>>
  /\ place' \in [Request -> Places]
  /\ alive' # {} => UNCHANGED place
  /\ \A m \in Request : place'[m] = place[m] \/ (place'[m] = "ready" /\ place[m] = "unacked")

\* What the requests see of these steps.
LEMMA RequestEffect ==
  ASSUME Types, ConnectionInOrder, Callless
  PROVE  RequestStep
<1> USE DEF RequestStep, brokerVars, connVars
<1>1. place \in [Request -> Places]
  BY DEF Types, RequestTypes
<1>2. alive \subseteq {opened} /\ conn = opened
  BY DEF Types, ConnectionTypes, ConnectionInOrder
<1>3. CASE Start
  BY <1>1, <1>3 DEF Start
<1>4. CASE SetupTopology
  <2>1. (alive' = alive \/ alive' = {}) /\ place' = Requeue(alive \ alive')
    BY <1>2, <1>4 DEF SetupTopology, SetupSucceeds, SetupFails
  <2>2. CASE alive' = {}
    BY <1>4, <2>1, <2>2, RequeueEffect DEF SetupTopology
  <2>3. CASE alive' = alive
    <3>1. place' = place
      BY <1>1, <2>1, <2>3 DEF Requeue
    <3>2. QED
      BY <1>1, <1>4, <3>1 DEF SetupTopology
  <2>4. QED
    BY <2>1, <2>2, <2>3
<1>5. CASE NotifyClose \/ SeesClose \/ Backoff \/ DialFails \/ Cancel
  BY <1>1, <1>5 DEF NotifyClose, SeesClose, Backoff, DialFails, Cancel
<1>6. CASE DialSucceeds
  BY <1>1, <1>6 DEF DialSucceeds
<1>7. CASE LoseConnection
  BY <1>7, RequeueEffect DEF LoseConnection
<1>8. CASE CloseAll
  <2>1. alive' = {} /\ place' = Requeue({conn})
    BY <1>2, <1>8 DEF CloseAll
  <2>2. QED
    BY <1>8, <2>1, RequeueEffect DEF CloseAll
<1>9. CASE \E t \in RouteTables : SetRoutes(t)
  BY <1>1, <1>9 DEF SetRoutes
<1>10. QED
  BY <1>3, <1>4, <1>5, <1>6, <1>7, <1>8, <1>9 DEF Callless, Connect

\* What they do to the connection.
LEMMA ConnectionEffect ==
  ASSUME Types, ConnectionInOrder, Callless
  PROVE  ConnectionStep
<1> USE DEF ConnectionStep, ConnectionTypes, ConnectionInOrder, connVars
<1>0. /\ MaxEdits \in Nat /\ MaxConnections \in Nat /\ MaxLosses \in Nat /\ MaxConnections >= 1
      /\ edits \in Nat /\ opened \in Nat /\ losses \in Nat /\ invokeCh \in Nat
      /\ edits <= MaxEdits /\ opened <= MaxConnections /\ losses <= MaxLosses /\ invokeCh <= opened
      /\ conn = opened /\ dispatchCh = invokeCh /\ alive \subseteq 1..opened
      /\ sup \in Supervisor /\ ctx \in {"live", "cancelled", "closed"}
  BY RouterAssumption DEF Types
<1>2. CASE Start
  <2>1. UNCHANGED <<edits, losses, invokeCh, dispatchCh, ctx>> /\ sup = "none"
    BY <1>2 DEF Start
  <2>2. CASE opened' = opened + 1 /\ alive' = {opened + 1} /\ conn' = opened + 1 /\ sup' = "starting"
    BY <1>0, <2>1, <2>2 DEF Supervisor
  <2>3. CASE sup' = "failed" /\ UNCHANGED <<opened, alive, conn>>
    BY <1>0, <2>1, <2>3 DEF Supervisor
  <2>4. QED
    BY <1>2, <2>2, <2>3 DEF Start
<1>3. CASE SetupTopology
  <2>1. UNCHANGED <<edits, opened, losses, conn, ctx>> /\ sup' \in Supervisor
        /\ (sup' = "backoff" => conn \notin alive') /\ sup' \notin {"none", "dialing"}
    BY <1>3 DEF SetupTopology, SetupFails, Supervisor
  <2>2. alive' \subseteq alive /\ invokeCh' \in {invokeCh, conn} /\ dispatchCh' = invokeCh'
    BY <1>0, <1>3 DEF SetupTopology, SetupSucceeds, SetupFails
  <2>3. QED
    BY <1>0, <2>1, <2>2
<1>4. CASE NotifyClose \/ SeesClose \/ Backoff \/ DialFails \/ Cancel
  <2>1. UNCHANGED <<edits, opened, losses, alive, conn, invokeCh, dispatchCh>>
    BY <1>4 DEF NotifyClose, SeesClose, Backoff, DialFails, Cancel
  <2>2. sup' \in Supervisor /\ ctx' \in {"live", "cancelled", "closed"} /\ (ctx' = "live" => ctx = "live")
    BY <1>0, <1>4 DEF NotifyClose, SeesClose, Backoff, DialFails, Cancel, Supervisor
  <2>3. (sup' = "none" => sup = "none") /\ (sup' \in {"backoff", "dialing"} => conn \notin alive)
    BY <1>0, <1>4 DEF NotifyClose, SeesClose, Backoff, DialFails, Cancel
  <2>4. QED
    BY <1>0, <2>1, <2>2, <2>3
<1>5. CASE DialSucceeds
  BY <1>0, <1>5 DEF DialSucceeds, Supervisor
<1>6. CASE LoseConnection
  BY <1>0, <1>6 DEF LoseConnection
<1>7. CASE CloseAll
  BY <1>0, <1>7 DEF CloseAll
<1>8. CASE \E t \in RouteTables : SetRoutes(t)
  <2>1. edits' \in 0..MaxEdits /\ UNCHANGED connVars
    BY <1>0, <1>8 DEF SetRoutes
  <2>2. QED
    BY <1>0, <2>1
<1>9. QED
  BY <1>2, <1>3, <1>4, <1>5, <1>6, <1>7, <1>8 DEF Callless, Connect

\* A new request has no goroutine yet.
LEMMA PublishEffect ==
  ASSUME Types, NEW m \in Request, PublishRequest(m)
  PROVE  /\ place[m] = "unsent" /\ place'[m] = "ready" /\ place' \in [Request -> Places]
         /\ DOMAIN ask' = Request
         /\ \A n \in Request \ {m} : ask'[n] = ask[n] /\ place'[n] = place[n]
         /\ UNCHANGED <<edits, over, connVars, callVars>>
BY DEF PublishRequest, Types, RequestTypes, Places

\* One that is delivered gets one over the reader's connection.
LEMMA DeliverEffect ==
  ASSUME Types, NEW m \in Request, NEW c \in Connection, Deliver(m, c)
  PROVE  /\ place[m] = "ready" /\ c = invokeCh /\ c \in alive
         /\ place'[m] = "unacked" /\ place' \in [Request -> Places] /\ over' \in [Request -> 0..opened]
         /\ \A n \in Request \ {m} : place'[n] = place[n]
         /\ DOMAIN handler' = Delivery /\ <<m, c>> \in Delivery
         /\ \A e \in Delivery \ {<<m, c>>} : handler'[e] = handler[e]
         /\ handler'[<<m, c>>].pc = "route" /\ handler'[<<m, c>>].sent = handler[<<m, c>>].sent
         /\ DOMAIN handler'[<<m, c>>] = Fields
         /\ UNCHANGED <<edits, ask, connVars, count, replies>>
<1>1. <<m, c>> \in Delivery
  BY DEF Delivery
<1>2. /\ place[m] = "ready" /\ c = invokeCh /\ c \in alive
      /\ place' = [place EXCEPT ![m] = "unacked"] /\ over' = [over EXCEPT ![m] = c]
      /\ handler' = [handler EXCEPT ![<<m, c>>].pc = "route"]
      /\ UNCHANGED <<edits, ask, connVars, count, replies>>
  BY DEF Deliver
<1>3. place' \in [Request -> Places] /\ place'[m] = "unacked" /\ \A n \in Request \ {m} : place'[n] = place[n]
  BY <1>2 DEF Types, RequestTypes, Places
<1>4. over' \in [Request -> 0..opened]
  BY <1>2 DEF Types, RequestTypes, ConnectionTypes
<1> DEFINE d == <<m, c>>
<1>5. d \in Delivery /\ handler' = [handler EXCEPT ![d].pc = "route"]
  BY <1>1, <1>2
<1> HIDE DEF d
<1>6. /\ DOMAIN handler' = Delivery /\ \A e \in Delivery \ {d} : handler'[e] = handler[e]
      /\ handler'[d].pc = "route" /\ handler'[d].sent = handler[d].sent /\ DOMAIN handler'[d] = Fields
  BY <1>5 DEF Types, CallTypes, Fields
<1>7. QED
  BY <1>1, <1>2, <1>3, <1>4, <1>6 DEF d

\* Every step is one of these.
LEMMA StepIs ==
  ASSUME Types, ConnectionInOrder, [Next]_vars
  PROVE  \/ ConnectionStep /\ RequestStep
         \/ \E m \in Request : PublishRequest(m)
         \/ \E m \in Request, c \in Connection : Deliver(m, c)
         \/ \E d \in Delivery : /\ Others(d) /\ Working(d) /\ count' \in [Signature -> Nat]
                               /\ UNCHANGED <<Surroundings, place>>
         \/ \E d \in Delivery : Acknowledge(d)
         \/ UNCHANGED vars
BY RequestEffect, ConnectionEffect, WorkEffect DEF Next, Callless

-----------------------------------------------------------------------------
(* The parts of the invariant. *)

\* Every step keeps the types.
LEMMA NextTypes == Types /\ ConnectionInOrder /\ [Next]_vars => Types'
<1> SUFFICES ASSUME Types, ConnectionInOrder, [Next]_vars PROVE Types'
  OBVIOUS
<1>1. ASSUME UNCHANGED connVars, UNCHANGED edits PROVE ConnectionTypes'
  BY <1>1 DEF connVars, Types, ConnectionTypes
<1>2. CASE ConnectionStep /\ RequestStep
  <2>1. ConnectionTypes' /\ opened <= opened' /\ opened \in Nat /\ opened' \in Nat
    BY <1>2, RouterAssumption DEF ConnectionStep, ConnectionTypes, Types
  <2>2. over' = over /\ over \in [Request -> 0..opened]
    BY <1>2 DEF RequestStep, Types, RequestTypes
  <2>3. over' \in [Request -> 0..opened']
    BY <2>1, <2>2
  <2>4. RequestTypes'
    BY <1>2, <2>3 DEF RequestStep, Types, RequestTypes
  <2>5. CallTypes'
    BY <1>2 DEF RequestStep, callVars, Types, CallTypes
  <2>6. QED
    BY <2>1, <2>4, <2>5 DEF Types
<1>3. ASSUME NEW m \in Request, PublishRequest(m) PROVE Types'
  <2>1. RequestTypes'
    BY <1>3, PublishEffect DEF Types, RequestTypes, connVars
  <2>2. CallTypes'
    BY <1>3, PublishEffect DEF Types, CallTypes, callVars
  <2>3. QED
    BY <1>1, <1>3, <2>1, <2>2, PublishEffect DEF Types
<1>4. ASSUME NEW m \in Request, NEW c \in Connection, Deliver(m, c) PROVE Types'
  <2>1. RequestTypes'
    BY <1>4, DeliverEffect DEF Types, RequestTypes, connVars
  <2>2. CallTypes'
    <3> DEFINE d == <<m, c>>
    <3>1. /\ DOMAIN handler' = Delivery /\ d \in Delivery
          /\ \A e \in Delivery \ {d} : handler'[e] = handler[e]
          /\ handler'[d].pc = "route" /\ handler'[d].sent = handler[d].sent
          /\ DOMAIN handler'[d] = Fields
          /\ UNCHANGED <<count, replies>>
      BY <1>4, DeliverEffect
    <3> HIDE DEF d
    <3>2. QED
      BY <3>1 DEF Types, CallTypes, PCs
  <2>3. QED
    BY <1>1, <1>4, <2>1, <2>2, DeliverEffect DEF Types
<1>5. ASSUME NEW d \in Delivery, Others(d), Working(d) \/ Finishes(d), count' \in [Signature -> Nat]
      PROVE  CallTypes'
  <2>1. handler'[d].pc \in PCs
    BY <1>5 DEF Working, Chooses, Asks, GoesOn, Concludes, Finishes, PCs
  <2>2. QED
    BY <1>5, <2>1 DEF Others, Types, CallTypes
<1>6. ASSUME NEW d \in Delivery, Others(d), Working(d), count' \in [Signature -> Nat],
             UNCHANGED <<Surroundings, place>>
      PROVE  Types'
  <2>1. RequestTypes'
    BY <1>6 DEF Types, RequestTypes, Surroundings, connVars
  <2>2. QED
    BY <1>1, <1>5, <1>6, <2>1 DEF Types, Surroundings
<1>7. ASSUME NEW d \in Delivery, Acknowledge(d) PROVE Types'
  <2>1. /\ Others(d) /\ Finishes(d) /\ UNCHANGED <<Surroundings, count>>
        /\ place' \in [Request -> Places]
    BY <1>7, AcknowledgeEffect
  <2>2. RequestTypes'
    BY <2>1 DEF Types, RequestTypes, Surroundings, connVars
  <2>3. CallTypes'
    BY <1>5, <2>1 DEF Types, CallTypes
  <2>4. QED
    BY <1>1, <2>1, <2>2, <2>3 DEF Types, Surroundings
<1>8. CASE UNCHANGED vars
  BY <1>1, <1>8 DEF vars, brokerVars, callVars, connVars, Types, RequestTypes, CallTypes
<1>9. QED
  BY <1>2, <1>3, <1>4, <1>6, <1>7, <1>8, StepIs

\* Only the latest connection is open.
LEMMA NextConnection == Types /\ ConnectionInOrder /\ [Next]_vars => ConnectionInOrder'
<1> SUFFICES ASSUME Types, ConnectionInOrder, [Next]_vars PROVE ConnectionInOrder'
  OBVIOUS
<1>1. CASE ConnectionStep
  BY <1>1 DEF ConnectionStep
<1>2. CASE UNCHANGED connVars
  BY <1>2 DEF connVars, ConnectionInOrder
<1>3. ASSUME NEW m \in Request, PublishRequest(m) PROVE UNCHANGED connVars
  BY <1>3, PublishEffect
<1>4. ASSUME NEW m \in Request, NEW c \in Connection, Deliver(m, c) PROVE UNCHANGED connVars
  BY <1>4, DeliverEffect
<1>5. ASSUME NEW d \in Delivery, Acknowledge(d) PROVE UNCHANGED connVars
  BY <1>5, AcknowledgeEffect DEF Surroundings
<1>6. QED
  BY <1>1, <1>2, <1>3, <1>4, <1>5, StepIs DEF vars, Surroundings

\* The numbers of connections, and the goroutine's own.
LEMMA Numbers ==
  ASSUME Types, ConnectionInOrder, NEW d \in Delivery
  PROVE  /\ opened \in Nat /\ invokeCh \in Nat /\ invokeCh <= opened /\ d[2] \in Nat
         /\ d[1] \in Request /\ d[2] \in Connection /\ alive \subseteq {opened}
BY RouterAssumption, DeliveryParts DEF Types, ConnectionTypes, ConnectionInOrder, Connection

\* A goroutine's connection is one the reader was on.
LEMMA NextDelivery ==
  Types /\ ConnectionInOrder /\ DeliveryInOrder /\ [Next]_vars => DeliveryInOrder'
<1> SUFFICES ASSUME Types, ConnectionInOrder, DeliveryInOrder, [Next]_vars PROVE DeliveryInOrder'
  OBVIOUS
<1>1. CASE ConnectionStep /\ RequestStep
  <2> SUFFICES ASSUME NEW d \in Delivery, handler[d].pc # "none"
               PROVE  /\ d[2] <= invokeCh'
                      /\ place'[d[1]] # "unsent"
                      /\ d[2] \in alive' => place'[d[1]] # "ready"
                      /\ handler[d].pc = "wait" => handler[d].ch \in d[2]..opened'
    BY <1>1 DEF RequestStep, callVars, DeliveryInOrder
  <2>1. /\ d[2] <= invokeCh /\ place[d[1]] # "unsent" /\ (d[2] \in alive => place[d[1]] # "ready")
        /\ handler[d].pc = "wait" => handler[d].ch \in d[2]..opened
    BY DEF DeliveryInOrder
  <2>2. /\ opened <= opened' /\ alive' \subseteq alive \cup {opened + 1} /\ invokeCh' \in {invokeCh, opened}
        /\ opened' \in Nat
    BY <1>1, RouterAssumption DEF ConnectionStep, ConnectionTypes
  <2>3. d[2] \in alive' => d[2] \in alive /\ place' = place
    BY <1>1, <2>1, <2>2, Numbers DEF RequestStep
  <2>4. handler[d].pc = "wait" => handler[d].ch \in d[2]..opened'
    BY <2>1, <2>2, Numbers
  <2>5. place'[d[1]] # "unsent"
    BY <1>1, <2>1, Numbers DEF RequestStep
  <2>6. QED
    BY <2>1, <2>2, <2>3, <2>4, <2>5, Numbers
<1>2. ASSUME NEW m \in Request, PublishRequest(m) PROVE DeliveryInOrder'
  BY <1>2, PublishEffect, Numbers DEF DeliveryInOrder, connVars, callVars
<1>3. ASSUME NEW m \in Request, NEW c \in Connection, Deliver(m, c) PROVE DeliveryInOrder'
  <2> DEFINE e == <<m, c>>
  <2>1. /\ e \in Delivery /\ e[1] = m /\ e[2] = c /\ handler'[e].pc = "route"
        /\ \A d \in Delivery \ {e} : handler'[d] = handler[d]
    BY <1>3, DeliverEffect
  <2>2. /\ UNCHANGED <<invokeCh, alive, opened>> /\ place'[m] = "unacked" /\ c = invokeCh
        /\ \A n \in Request \ {m} : place'[n] = place[n]
    BY <1>3, DeliverEffect DEF connVars
  <2> HIDE DEF e
  <2>3. QED
    BY <2>1, <2>2, Numbers DEF DeliveryInOrder
<1>4. ASSUME NEW e \in Delivery, Others(e), Working(e), UNCHANGED <<Surroundings, place>>
      PROVE  DeliveryInOrder'
  <2>1. handler[e].pc # "none" /\ handler'[e].pc = "wait" =>
          handler'[e].ch = invokeCh \/ (handler[e].pc = "wait" /\ handler'[e].ch = handler[e].ch)
    BY <1>4 DEF Working, Chooses, Asks, GoesOn, Concludes
  <2>2. handler[e].pc # "none"
    BY <1>4 DEF Working, Chooses, Asks, GoesOn, Concludes
  <2>3. UNCHANGED <<invokeCh, alive, opened, place>>
    BY <1>4 DEF Surroundings, connVars
  <2>4. \A d \in Delivery \ {e} : handler'[d] = handler[d]
    BY <1>4 DEF Others
  <2>5. QED
    BY <2>1, <2>2, <2>3, <2>4, Numbers DEF DeliveryInOrder
<1>5. ASSUME NEW e \in Delivery, Acknowledge(e) PROVE DeliveryInOrder'
  <2>1. Others(e) /\ Finishes(e) /\ UNCHANGED <<invokeCh, alive, opened>>
    BY <1>5, AcknowledgeEffect DEF Surroundings, connVars
  <2>2. \A m \in Request : place'[m] = place[m] \/ place'[m] = "gone"
    BY <1>5, AcknowledgeEffect
  <2>3. QED
    BY <2>1, <2>2, Numbers DEF DeliveryInOrder, Others, Finishes
<1>6. CASE UNCHANGED vars
  BY <1>6 DEF vars, brokerVars, connVars, callVars, DeliveryInOrder
<1>7. QED
  BY <1>1, <1>2, <1>3, <1>4, <1>5, <1>6, StepIs

\* What a goroutine has sent and answered fits where it is.
LEMMA NextHandler ==
  Types /\ ConnectionInOrder /\ DeliveryInOrder /\ HandlerInOrder /\ AtMostOnce /\ [Next]_vars
    => HandlerInOrder' /\ AtMostOnce'
<1> SUFFICES ASSUME Types, ConnectionInOrder, DeliveryInOrder, HandlerInOrder, AtMostOnce, [Next]_vars
             PROVE  HandlerInOrder' /\ AtMostOnce'
  OBVIOUS
<1> USE DEF HandlerInOrder, AtMostOnce
<1>1. CASE ConnectionStep /\ RequestStep
  <2>1. UNCHANGED <<handler, replies, ask>> /\ (ctx' = "live" => ctx = "live")
    BY <1>1 DEF RequestStep, ConnectionStep, callVars
  <2>2. ASSUME NEW d \in Delivery, handler[d].pc # "none", d[2] \in alive' PROVE d[2] \in alive
    <3>1. d[2] <= invokeCh /\ alive' \subseteq alive \cup {opened + 1}
      BY <1>1, <2>2 DEF DeliveryInOrder, ConnectionStep
    <3>2. QED
      BY <2>2, <3>1, Numbers
  <2>3. QED
    BY <2>1, <2>2
<1>2. ASSUME NEW m \in Request, PublishRequest(m) PROVE HandlerInOrder' /\ AtMostOnce'
  <2>1. \A d \in Delivery : d[1] = m => handler[d].pc = "none"
    BY <1>2, PublishEffect DEF DeliveryInOrder
  <2>2. UNCHANGED <<handler, replies, alive, ctx>> /\ \A n \in Request \ {m} : ask'[n] = ask[n]
    BY <1>2, PublishEffect DEF callVars, connVars
  <2>3. QED
    BY <2>1, <2>2, Numbers
<1>3. ASSUME NEW m \in Request, NEW c \in Connection, Deliver(m, c) PROVE HandlerInOrder' /\ AtMostOnce'
  <2> DEFINE e == <<m, c>>
  <2>1. /\ e \in Delivery /\ e[1] = m /\ e[2] = c
        /\ handler'[e].pc = "route" /\ handler'[e].sent = handler[e].sent
        /\ \A d \in Delivery \ {e} : handler'[d] = handler[d]
    BY <1>3, DeliverEffect
  <2>2. UNCHANGED <<replies, ask, alive, ctx>> /\ place[m] = "ready" /\ c \in alive
    BY <1>3, DeliverEffect DEF connVars
  <2> HIDE DEF e
  <2>3. handler[e].pc = "none"
    BY <2>1, <2>2 DEF DeliveryInOrder
  <2>4. handler'[e].sent = 0 /\ ~(replies'[e] > 0)
    BY <2>1, <2>2, <2>3 DEF Over
  <2>5. QED
    BY <2>1, <2>2, <2>4
<1>4. ASSUME NEW e \in Delivery, Others(e), Working(e), UNCHANGED <<Surroundings, place>>
      PROVE  HandlerInOrder' /\ AtMostOnce'
  <2>1. UNCHANGED <<ask, alive, ctx, invokeCh>>
    BY <1>4 DEF Surroundings, connVars
  <2>2. /\ \A d \in Delivery \ {e} : handler'[d] = handler[d] /\ replies'[d] = replies[d]
        /\ replies[e] \in Nat /\ replies'[e] \in Nat /\ handler[e].sent \in Nat /\ handler'[e].sent \in Nat
    BY <1>4 DEF Others, Types, CallTypes
  <2>3. handler[e].pc \notin Over /\ handler[e].pc # "none"
    BY <1>4 DEF Working, Chooses, Asks, GoesOn, Concludes, Over
  <2>4. replies[e] = 0 /\ (~ask[e[1]].reply => handler[e].sent = 0)
    BY <2>2, <2>3
  <2>5. CASE Chooses(e) \/ GoesOn(e)
    BY <2>1, <2>2, <2>4, <2>5 DEF Chooses, GoesOn
  <2>6. CASE Asks(e)
    BY <2>1, <2>2, <2>4, <2>6 DEF Asks, Over
  <2>7. CASE Concludes(e)
    <3>1. replies'[e] <= 1 /\ handler'[e].pc = "ack" /\ handler'[e].sent = handler[e].sent
      BY <2>4, <2>7 DEF Concludes, Answers
    <3>2. e[2] \in alive => invokeCh \in alive /\ (handler[e].pc = "wait" => handler[e].ch \in alive)
      <4>1. e[2] <= invokeCh /\ (handler[e].pc = "wait" => handler[e].ch \in e[2]..opened)
        BY <2>3 DEF DeliveryInOrder
      <4>2. QED
        BY <4>1, Numbers
    <3>3. e[2] \in alive /\ ask[e[1]].reply /\ ctx = "live" => replies'[e] > 0
      BY <2>4, <2>7, <3>2 DEF Concludes, Answers
    <3>4. QED
      BY <2>1, <2>2, <2>4, <3>1, <3>3 DEF Over
  <2>8. QED
    BY <1>4, <2>5, <2>6, <2>7 DEF Working
<1>5. ASSUME NEW e \in Delivery, Acknowledge(e) PROVE HandlerInOrder' /\ AtMostOnce'
  <2>1. Others(e) /\ Finishes(e) /\ UNCHANGED <<ask, alive, ctx>>
    BY <1>5, AcknowledgeEffect DEF Surroundings, connVars
  <2>2. QED
    BY <2>1 DEF Others, Finishes, Over
<1>6. CASE UNCHANGED vars
  BY <1>6 DEF vars, brokerVars, connVars, callVars
<1>7. QED
  BY <1>1, <1>2, <1>3, <1>4, <1>5, <1>6, StepIs

\* A request that has left the queue stays answered.
LEMMA NextAcked ==
  IInv /\ [Next]_vars => AckedIsAnswered'
<1> SUFFICES ASSUME IInv, [Next]_vars PROVE AckedIsAnswered'
  OBVIOUS
<1> USE DEF IInv, AckedIsAnswered
<1>1. CASE ConnectionStep /\ RequestStep
  <2>1. /\ UNCHANGED <<ask, replies>> /\ (ctx' = "live" => ctx = "live")
        /\ \A m \in Request : place'[m] = "gone" => place[m] = "gone"
    BY <1>1 DEF RequestStep, ConnectionStep, callVars
  <2>2. QED
    BY <2>1
<1>2. ASSUME NEW m \in Request, PublishRequest(m) PROVE AckedIsAnswered'
  BY <1>2, PublishEffect DEF callVars, connVars
<1>3. ASSUME NEW m \in Request, NEW c \in Connection, Deliver(m, c) PROVE AckedIsAnswered'
  <2>1. /\ UNCHANGED <<replies, ask, ctx>> /\ place'[m] = "unacked"
        /\ \A n \in Request \ {m} : place'[n] = place[n]
    BY <1>3, DeliverEffect DEF connVars
  <2>2. QED
    BY <2>1
<1>4. ASSUME NEW e \in Delivery, Others(e), Working(e), UNCHANGED <<Surroundings, place>>
      PROVE  AckedIsAnswered'
  <2>1. \A d \in Delivery : replies[d] > 0 => replies'[d] > 0
    <3>1. replies[e] > 0 => FALSE
      BY <1>4 DEF HandlerInOrder, Working, Chooses, Asks, GoesOn, Concludes, Over
    <3>2. QED
      BY <1>4, <3>1 DEF Others
  <2>2. \A m \in Request, c \in Connection : <<m, c>> \in Delivery
    BY DEF Delivery
  <2>3. UNCHANGED <<ask, ctx, place>>
    BY <1>4 DEF Surroundings, connVars
  <2>4. QED
    BY <2>1, <2>2, <2>3
<1>5. ASSUME NEW e \in Delivery, Acknowledge(e) PROVE AckedIsAnswered'
  <2>1. UNCHANGED <<ask, ctx, replies>> /\ handler[e].pc = "ack"
    BY <1>5, AcknowledgeEffect DEF Surroundings, connVars, Acknowledge
  <2>2. \A m \in Request : place'[m] = IF m = e[1] /\ AcksOver(e) THEN "gone" ELSE place[m]
    BY <1>5, AcknowledgeEffect
  <2>3. AcksOver(e) /\ ask[e[1]].reply /\ ctx = "live" => replies[<<e[1], e[2]>>] > 0 /\ e[2] \in Connection
    BY <2>1, DeliveryParts DEF HandlerInOrder, AcksOver
  <2>4. QED
    BY <2>1, <2>2, <2>3
<1>6. CASE UNCHANGED vars
  BY <1>6 DEF vars, brokerVars, connVars, callVars
<1>7. QED
  BY <1>1, <1>2, <1>3, <1>4, <1>5, <1>6, StepIs

\* Before Start nothing is open and nothing is asked.
LEMMA InitIInv == Init => IInv
<1> SUFFICES ASSUME Init PROVE IInv
  OBVIOUS
<1>1. /\ edits = 0 /\ opened = 0 /\ losses = 0 /\ alive = {} /\ conn = 0 /\ invokeCh = 0 /\ dispatchCh = 0
      /\ sup = "none" /\ ctx = "live"
  BY DEF Init
<1>2. \A d \in Delivery : handler[d] = Idle /\ replies[d] = 0 /\ d[1] \in Request
  BY DeliveryParts DEF Init
<1>3. \A m \in Request : place[m] = "unsent"
  BY DEF Init
<1>4. ConnectionTypes
  BY <1>1, RouterAssumption DEF ConnectionTypes, Supervisor
<1>5. RequestTypes
  BY <1>1 DEF Init, RequestTypes, Places
<1>6. CallTypes
  <2>1. DOMAIN Idle = Fields /\ Idle.pc \in PCs /\ Idle.sent \in Nat
    BY DEF Idle, Fields, PCs
  <2>2. QED
    BY <1>2, <2>1 DEF Init, CallTypes, Signature
<1>7. ConnectionInOrder
  BY <1>1 DEF ConnectionInOrder
<1>8. Idle.pc = "none" /\ Idle.sent = 0
  BY DEF Idle
<1>9. DeliveryInOrder /\ HandlerInOrder /\ AtMostOnce
  BY <1>2, <1>8 DEF DeliveryInOrder, HandlerInOrder, AtMostOnce
<1>10. AckedIsAnswered
  BY <1>3 DEF AckedIsAnswered
<1>11. QED
  BY <1>4, <1>5, <1>6, <1>7, <1>9, <1>10 DEF IInv, Types

\* The inductive invariant holds.
LEMMA Invariance == Spec => []IInv
<1>1. IInv /\ [Next]_vars => IInv'
  BY NextTypes, NextConnection, NextDelivery, NextHandler, NextAcked DEF IInv
<1>2. QED
  BY <1>1, InitIInv, PTL DEF Spec

-----------------------------------------------------------------------------
(* The theorems. *)

\* The current connection is the one opened last, both consumers are on the same channel, and
\* every goroutine is at a step of handleMessage.
THEOREM TypeCorrect == Spec => []TypeOK
<1>1. IInv => TypeOK
  BY DEF IInv, Types, ConnectionTypes, RequestTypes, CallTypes, TypeOK, Places, Supervisor, PCs, Signature
<1>2. QED
  BY <1>1, Invariance, PTL

\* One goroutine answers its caller once, and a call that cannot be answered reaches one provider
\* at most, whatever becomes of providers and connections (tryProvider, forwardWithFailover).
THEOREM AnswersOnce == Spec => []AtMostOnce
<1>1. IInv => AtMostOnce
  BY DEF IInv
<1>2. QED
  BY <1>1, Invariance, PTL

\* While the Router is not stopped, a request that wants an answer leaves the invoke queue only
\* when something was published to its caller: the acknowledgement and the answer of a goroutine
\* go over the same connection (handleMessage, replyError, forwardWithFailover).
THEOREM AnsweredBeforeAck == Spec => []AckedIsAnswered
<1>1. IInv => AckedIsAnswered
  BY DEF IInv
<1>2. QED
  BY <1>1, Invariance, PTL
-----------------------------------------------------------------------------
(***************************************************************************)
(* UserConfig.                                                             *)
(***************************************************************************)
Configs == [top : Password \cup {Absent}, items : Seq(ItemType)]

\* What a form may show: placeholders, and items that will be refused.
Shown == [label : Account, password : Account \cup {Absent, Masked}]
         \cup {Item(Malformed, Malformed)}
Forms == [top : Password \cup {Absent, Masked}, items : Seq(Shown)]
Tabs == [pc : {"closed", "editing", "saving"}, draft : Forms, clean : Configs, edits : Nat,
         stale : BOOLEAN]

\* A POST that has read what is stored, and that no other save has come into, writes each
\* masked password back.
Restored(d, c) ==
    /\ d.top = Masked => c.top = stored.top \/ (c.top = Absent /\ upgrades > 0)
    /\ \A i \in DOMAIN c.items \cap DOMAIN stored.items :
          d.items[i].password = Masked /\ d.items[i].label = stored.items[i].label
          => c.items[i] = stored.items[i]

Short(config) == Len(config.items) <= MaxItems

CInv ==
    /\ stored \in Configs /\ Short(stored)
    /\ schema \subseteq Keys /\ (upgrades = 0 => schema = Keys)
    /\ faults \in Nat /\ upgrades \in Nat
    /\ tab \in [Tab -> Tabs]
    /\ \A t \in Tab : At(t, "saving") =>
          Short(tab[t].clean) /\ (tab[t].stale \/ Restored(Draft(t), tab[t].clean))
-----------------------------------------------------------------------------
\* A list made from another, element by element.
LEMMA MappedList ==
    ASSUME NEW S, NEW T, NEW s \in Seq(S), NEW f, f = [i \in DOMAIN s |-> f[i]],
           \A i \in DOMAIN s : f[i] \in T
    PROVE  f \in Seq(T) /\ Len(f) = Len(s) /\ DOMAIN f = DOMAIN s
<1>1. Len(s) \in Nat /\ DOMAIN s = 1..Len(s)
  OBVIOUS
<1>2. f \in [1..Len(s) -> T]
  BY <1>1
<1> QED BY <1>1, <1>2

\* A list with one element more, less or replaced.
LEMMA EditedList ==
    ASSUME NEW S, NEW s \in Seq(S)
    PROVE  /\ \A x \in S : Append(s, x) \in Seq(S)
           /\ \A i \in DOMAIN s : RemoveAt(s, i) \in Seq(S) /\ s[i] \in S
           /\ \A i \in DOMAIN s, x \in S : ReplaceAt(s, i, x) \in Seq(S)
<1>1. ASSUME NEW i \in DOMAIN s PROVE RemoveAt(s, i) \in Seq(S)
  <2>1. SubSeq(s, 1, i - 1) \in Seq(S) /\ SubSeq(s, i + 1, Len(s)) \in Seq(S)
    OBVIOUS
  <2> QED BY <2>1 DEF RemoveAt
<1>2. ASSUME NEW i \in DOMAIN s, NEW x \in S PROVE ReplaceAt(s, i, x) \in Seq(S)
  BY DEF ReplaceAt
<1> QED BY <1>1, <1>2

\* An item of a stored list has a label and a password.
LEMMA ItemsHaveTwo ==
    /\ \A x \in ItemType : x.label \in Account /\ x.password \in Account \cup {Absent}
    /\ \A x \in Shown : x.label # Malformed =>
          x.label \in Account /\ x.password \in Account \cup {Absent, Masked}
    /\ ItemType \subseteq Shown
    /\ \A a \in Account, p \in Account \cup {Absent} : Item(a, p) \in ItemType
    /\ \A a \in Account : Item(a, a) \in Shown
    /\ \A x \in Shown : Item(x.label, x.label) \in Shown
  BY DEF ItemType, Shown, Item

\* GET masks what there is (maskUserConfigValues).
LEMMA MaskedIsShown ==
    ASSUME NEW values \in Configs PROVE MaskUserConfigValues(values) \in Forms
<1> DEFINE f == [i \in DOMAIN values.items |->
                    IF "items" \in schema
                    THEN [values.items[i] EXCEPT !.password = MaskPassword(@)]
                    ELSE values.items[i]]
<1>1. values.items \in Seq(ItemType) /\ values.top \in Password \cup {Absent}
  BY DEF Configs
<1>2. ASSUME NEW i \in DOMAIN values.items PROVE f[i] \in Shown
  <2>1. values.items[i] \in ItemType
    BY <1>1
  <2> QED BY <2>1, ItemsHaveTwo DEF ItemType, Shown, MaskPassword
<1>3. f \in Seq(Shown)
  <2>1. f = [i \in DOMAIN values.items |-> f[i]]
    OBVIOUS
  <2> HIDE DEF f
  <2> QED BY <1>1, <1>2, <2>1, MappedList
<1> HIDE DEF f
<1> QED BY <1>1, <1>3 DEF MaskUserConfigValues, MaskPassword, Forms, f

\* What the user makes of a form is one.
LEMMA DraftsAreForms ==
    ASSUME NEW d \in Forms, NEW e \in Drafts(d) PROVE e \in Forms
<1>1. d.items \in Seq(Shown) /\ d.top \in Password \cup {Absent, Masked}
  BY DEF Forms
<1>2. ASSUME NEW items \in Seq(Shown) PROVE [d EXCEPT !.items = items] \in Forms
  BY <1>1 DEF Forms
<1>3. ASSUME NEW p \in Password PROVE [d EXCEPT !.top = p] \in Forms
  BY <1>1 DEF Forms
<1>4. ASSUME NEW a \in Account \cup {Malformed}
      PROVE  [d EXCEPT !.items = Append(d.items, Item(a, a))] \in Forms
  <2>1. Item(a, a) \in Shown
    BY <1>4, ItemsHaveTwo DEF Shown
  <2>2. Append(d.items, Item(a, a)) \in Seq(Shown)
    BY <1>1, <2>1, EditedList
  <2> QED BY <1>2, <2>2
<1>5. ASSUME NEW i \in DOMAIN d.items
      PROVE  /\ [d EXCEPT !.items = RemoveAt(d.items, i)] \in Forms
             /\ [d EXCEPT !.items =
                    ReplaceAt(d.items, i, Item(d.items[i].label, d.items[i].label))] \in Forms
  <2>1. d.items[i] \in Shown /\ RemoveAt(d.items, i) \in Seq(Shown)
    BY <1>1, <1>5, EditedList
  <2>2. Item(d.items[i].label, d.items[i].label) \in Shown
    BY <2>1, ItemsHaveTwo
  <2>3. ReplaceAt(d.items, i, Item(d.items[i].label, d.items[i].label)) \in Seq(Shown)
    BY <1>1, <1>5, <2>2, EditedList
  <2> QED BY <1>2, <2>1, <2>3
<1> QED BY <1>3, <1>4, <1>5 DEF Drafts

\* What a POST is about to write, of a form that was accepted (preserveExistingPasswords).
LEMMA CleanIsAConfig ==
    ASSUME UserConfigAssumption, NEW d \in Forms, Valid(d), NEW existing \in Configs,
           schema \subseteq Keys, NEW clean,
           clean = PreserveExistingPasswords(Filtered(d), existing)
    PROVE  /\ clean \in Configs /\ Short(clean)
           /\ existing = stored /\ (upgrades = 0 => schema = Keys) /\ upgrades \in Nat
              => Restored(d, clean)
<1> DEFINE n == Filtered(d)
           items == n.items
<1>1. /\ n.top = IF "top" \in schema THEN d.top ELSE Absent
      /\ items = IF "items" \in schema THEN d.items ELSE <<>>
  BY DEF Filtered
<1>2. /\ clean.top = PreserveTop(n.top, existing)
      /\ clean.items = [i \in DOMAIN items |-> PreserveItem(items, existing, i)]
      /\ clean = [top |-> clean.top, items |-> clean.items]
  BY DEF PreserveExistingPasswords
<1>3. /\ items \in Seq(Shown) /\ n.top \in Password \cup {Absent, Masked}
      /\ existing.items \in Seq(ItemType) /\ existing.top \in Password \cup {Absent}
      /\ d.items \in Seq(Shown)
  BY <1>1 DEF Forms, Configs
<1>4. Len(items) <= MaxItems /\ \A i \in DOMAIN items : items[i].label # Malformed
  <2>1. CASE "items" \in schema
    BY <1>1, <1>3, <2>1 DEF Valid, UserConfigAssumption
  <2>2. CASE "items" \notin schema
    BY <1>1, <2>2 DEF UserConfigAssumption
  <2> QED BY <2>1, <2>2
<1>5. ASSUME NEW i \in DOMAIN items
      PROVE  /\ PreserveItem(items, existing, i) \in ItemType
             /\ items[i].password = Masked /\ i \in DOMAIN existing.items
                => PreserveItem(items, existing, i)
                   = Item(items[i].label, existing.items[i].password)
  <2>1. /\ items[i] \in Shown /\ items[i].label # Malformed
        /\ Len(existing.items) \in Nat /\ DOMAIN existing.items = 1..Len(existing.items)
        /\ i \in Nat /\ i >= 1
    BY <1>3, <1>4, <1>5
  <2>2. items[i].label \in Account /\ items[i].password \in Account \cup {Absent, Masked}
    BY <2>1, ItemsHaveTwo
  <2>3. CASE items[i].password # Masked
    <3>1. items[i] \in ItemType
      BY <2>1, <2>2, <2>3 DEF Shown, ItemType, Item
    <3> QED BY <2>3, <3>1 DEF PreserveItem
  <2>4. CASE items[i].password = Masked /\ i <= Len(existing.items)
    <3>1. i \in DOMAIN existing.items /\ existing.items[i] \in ItemType
      BY <1>3, <2>1, <2>4
    <3>2. PreserveItem(items, existing, i) = Item(items[i].label, existing.items[i].password)
      BY <2>4 DEF PreserveItem
    <3> QED BY <2>2, <3>1, <3>2, ItemsHaveTwo
  <2>5. CASE items[i].password = Masked /\ ~(i <= Len(existing.items))
    <3>1. PreserveItem(items, existing, i) = Item(items[i].label, Absent)
      BY <2>5 DEF PreserveItem
    <3> QED BY <2>1, <2>2, <2>5, <3>1, ItemsHaveTwo
  <2> QED BY <2>3, <2>4, <2>5
<1> HIDE DEF n, items
<1>6. clean.items \in Seq(ItemType) /\ Len(clean.items) = Len(items) /\ DOMAIN clean.items = DOMAIN items
  <2>1. clean.items = [i \in DOMAIN items |-> clean.items[i]]
        /\ \A i \in DOMAIN items : clean.items[i] \in ItemType
    BY <1>2, <1>5
  <2> QED BY <1>3, <2>1, MappedList
<1>7. clean.top \in Password \cup {Absent}
  BY <1>2, <1>3 DEF PreserveTop
<1>8. clean \in Configs /\ Short(clean)
  BY <1>2, <1>4, <1>6, <1>7 DEF Configs, Short
<1>9. ASSUME existing = stored, upgrades = 0 => schema = Keys, upgrades \in Nat
      PROVE  Restored(d, clean)
  <2>1. d.top = Masked => clean.top = stored.top \/ (clean.top = Absent /\ upgrades > 0)
    <3>1. CASE "top" \in schema
      BY <1>1, <1>2, <1>9, <3>1 DEF PreserveTop
    <3>2. CASE "top" \notin schema
      <4>1. clean.top = Absent
        BY <1>1, <1>2, <3>2 DEF PreserveTop, UserConfigAssumption
      <4> QED BY <1>9, <3>2, <4>1 DEF Keys
    <3> QED BY <3>1, <3>2
  <2>2. ASSUME NEW i \in DOMAIN clean.items \cap DOMAIN stored.items,
               d.items[i].password = Masked, d.items[i].label = stored.items[i].label
        PROVE  clean.items[i] = stored.items[i]
    <3>1. i \in DOMAIN items /\ items = d.items
      BY <1>1, <1>6, <2>2
    <3>2. clean.items[i] = Item(stored.items[i].label, stored.items[i].password)
      BY <1>2, <1>5, <1>9, <2>2, <3>1
    <3>3. stored.items[i] \in ItemType
      BY <1>3, <1>9, <2>2
    <3> QED BY <3>2, <3>3 DEF Item, ItemType
  <2> QED BY <2>1, <2>2 DEF Restored
<1> QED BY <1>8, <1>9

\* A step of one tab after which it is not saving, and which stores nothing.
LEMMA TabStep ==
    ASSUME CInv, NEW t \in Tab, tab' \in [Tab -> Tabs], \A u \in Tab \ {t} : tab'[u] = tab[u],
           tab'[t].pc # "saving", UNCHANGED <<stored, schema, upgrades>>, faults' \in Nat
    PROVE  CInv'
<1>1. ASSUME NEW u \in Tab, At(u, "saving")'
      PROVE  (Short(tab[u].clean) /\ (tab[u].stale \/ Restored(Draft(u), tab[u].clean)))'
  <2>1. u # t /\ tab'[u] = tab[u] /\ At(u, "saving")
    BY <1>1 DEF At
  <2> QED BY <2>1 DEF CInv, Short, Restored, Draft
<1> QED BY <1>1 DEF CInv, Short

\* A tab is closed.
LEMMA CloseStep ==
    ASSUME UserConfigAssumption, CInv, NEW t \in Tab, Close(t),
           UNCHANGED <<stored, schema, upgrades>>, faults' \in Nat
    PROVE  CInv'
<1>1. IdleTab \in Tabs /\ IdleTab.pc = "closed"
  <2>1. <<>> \in Seq(Shown) /\ <<>> \in Seq(ItemType)
    OBVIOUS
  <2> QED BY <2>1 DEF IdleTab, Tabs, Nothing, Forms, Configs
<1>2. /\ tab' \in [Tab -> Tabs] /\ tab'[t].pc = "closed"
      /\ \A u \in Tab \ {t} : tab'[u] = tab[u]
  BY <1>1 DEF Close, CInv
<1> QED BY <1>2, TabStep

\* Each step keeps the invariant.
LEMMA NextCInv ==
    ASSUME UserConfigAssumption, CInv, [ConfigNext]_configVars PROVE CInv'
<1>1. ASSUME NEW t \in Tab, Load(t) PROVE CInv'
  <2> DEFINE d == MaskUserConfigValues(stored)
  <2>1. d \in Forms
    BY MaskedIsShown DEF CInv
  <2> HIDE DEF d
  <2>2. tab' = [tab EXCEPT ![t].pc = "editing", ![t].draft = d]
    BY <1>1 DEF Load, d
  <2>3. /\ tab' \in [Tab -> Tabs] /\ tab'[t].pc = "editing"
        /\ \A u \in Tab \ {t} : tab'[u] = tab[u]
    BY <2>1, <2>2 DEF CInv, Tabs
  <2> QED BY <1>1, <2>3, TabStep DEF Load, boundVars, CInv
<1>2. ASSUME NEW t \in Tab, Edit(t) PROVE CInv'
  <2>1. PICK d \in Drafts(Draft(t)) : tab' = [tab EXCEPT ![t].draft = d, ![t].edits = @ + 1]
    BY <1>2 DEF Edit
  <2>2. d \in Forms
    BY DraftsAreForms DEF CInv, Tabs, Draft
  <2>3. /\ tab' \in [Tab -> Tabs] /\ tab'[t].pc = "editing"
        /\ \A u \in Tab \ {t} : tab'[u] = tab[u]
    BY <1>2, <2>1, <2>2 DEF CInv, Tabs, Edit, At
  <2> QED BY <1>2, <2>3, TabStep DEF Edit, boundVars, CInv
<1>3. ASSUME NEW t \in Tab, Reject(t) PROVE CInv'
  BY <1>3, CloseStep DEF Reject, CInv
<1>4. ASSUME NEW t \in Tab, SaveFails(t) PROVE CInv'
  BY <1>4, CloseStep DEF SaveFails, Fails, CInv
<1>5. ASSUME NEW t \in Tab, Read(t) PROVE CInv'
  <2>1. PICK existing \in {Get, Nothing} :
          /\ \/ existing = Get /\ UNCHANGED faults
             \/ existing = Nothing /\ Fails
          /\ tab' = [tab EXCEPT
                ![t].pc = "saving",
                ![t].clean = PreserveExistingPasswords(Filtered(Draft(t)), existing),
                ![t].stale = existing # stored]
    BY <1>5 DEF Read
  <2>2. PICK clean, d : /\ clean = PreserveExistingPasswords(Filtered(Draft(t)), existing)
                        /\ d = Draft(t)
    OBVIOUS
  <2>3. existing \in Configs /\ d \in Forms
    <3>1. Nothing \in Configs
      <4>1. <<>> \in Seq(ItemType)
        OBVIOUS
      <4> QED BY <4>1 DEF Nothing, Configs
    <3>2. Get \in Configs
      BY DEF Get, CInv
    <3>3. tab[t] \in Tabs
      BY DEF CInv
    <3>4. d \in Forms
      BY <2>2, <3>3 DEF Tabs, Draft
    <3> QED BY <2>1, <3>1, <3>2, <3>4
  <2>4. /\ clean \in Configs /\ Short(clean)
        /\ existing = stored => Restored(d, clean)
    BY <1>5, <2>2, <2>3, CleanIsAConfig DEF Read, CInv
  <2>5. /\ tab' \in [Tab -> Tabs] /\ tab'[t].clean = clean /\ tab'[t].draft = d
        /\ tab'[t].stale = (existing # stored) /\ \A u \in Tab \ {t} : tab'[u] = tab[u]
    BY <2>1, <2>2, <2>4 DEF CInv, Tabs, Draft
  <2>6. UNCHANGED <<stored, schema, upgrades>> /\ faults' \in Nat
    BY <1>5, <2>1 DEF Read, Fails, CInv
  <2>7. ASSUME NEW u \in Tab, At(u, "saving")'
        PROVE  (Short(tab[u].clean) /\ (tab[u].stale \/ Restored(Draft(u), tab[u].clean)))'
    <3>1. CASE u = t
      BY <2>4, <2>5, <2>6, <3>1 DEF Short, Restored, Draft
    <3>2. CASE u # t
      <4>1. tab'[u] = tab[u] /\ At(u, "saving")
        BY <2>5, <2>7, <3>2 DEF At
      <4> QED BY <2>6, <4>1 DEF CInv, Short, Restored, Draft
    <3> QED BY <3>1, <3>2
  <2> QED BY <2>5, <2>6, <2>7 DEF CInv, Short
<1>6. ASSUME NEW t \in Tab, Save(t) PROVE CInv'
  <2>1. stored' \in Configs /\ Short(stored)' /\ UNCHANGED <<schema, upgrades, faults>>
    BY <1>6 DEF Save, Set, CInv, Tabs, Short, boundVars
  <2>2. IdleTab \in Tabs /\ IdleTab.pc = "closed"
    <3>1. <<>> \in Seq(Shown) /\ <<>> \in Seq(ItemType)
      OBVIOUS
    <3> QED BY <3>1 DEF IdleTab, Tabs, Nothing, Forms, Configs
  <2>3. /\ tab'[t] = IdleTab
        /\ \A u \in Tab \ {t} : tab'[u] = [tab[u] EXCEPT !.stale = @ \/ tab[u].pc = "saving"]
        /\ tab' = [u \in Tab |-> tab'[u]]
    BY <1>6 DEF Save
  <2>4. ASSUME NEW u \in Tab \ {t}
        PROVE  /\ tab'[u] \in Tabs /\ tab'[u].pc = tab[u].pc /\ tab'[u].clean = tab[u].clean
               /\ tab[u].pc = "saving" => tab'[u].stale
    <3>1. tab[u] \in Tabs
      BY <2>4 DEF CInv
    <3>2. PICK stale \in BOOLEAN : stale = (tab[u].stale \/ tab[u].pc = "saving")
      OBVIOUS
    <3>3. tab'[u] = [tab[u] EXCEPT !.stale = stale]
      BY <2>3, <2>4, <3>2
    <3>4. tab'[u] \in Tabs /\ tab'[u].stale = stale /\ tab'[u].pc = tab[u].pc
          /\ tab'[u].clean = tab[u].clean
      BY <3>1, <3>3 DEF Tabs
    <3> QED BY <3>2, <3>4
  <2>5. tab' \in [Tab -> Tabs]
    BY <2>2, <2>3, <2>4
  <2>6. ASSUME NEW u \in Tab, At(u, "saving")'
        PROVE  (Short(tab[u].clean) /\ (tab[u].stale \/ Restored(Draft(u), tab[u].clean)))'
    BY <2>2, <2>3, <2>4, <2>6 DEF CInv, Short, At
  <2> QED BY <2>1, <2>5, <2>6 DEF CInv
<1>7. CASE Upgrade
  <2>1. /\ schema' \subseteq Keys /\ upgrades' = upgrades + 1 /\ UNCHANGED <<stored, tab, faults>>
        /\ upgrades \in Nat /\ upgrades' > 0 /\ upgrades' # 0
    BY <1>7 DEF Upgrade, CInv
  <2>2. ASSUME NEW u \in Tab, At(u, "saving")'
        PROVE  (Short(tab[u].clean) /\ (tab[u].stale \/ Restored(Draft(u), tab[u].clean)))'
    BY <2>1, <2>2 DEF CInv, Short, Restored, Draft, At
  <2> QED BY <2>1, <2>2 DEF CInv, Short
<1>8. CASE UNCHANGED configVars
  BY <1>8 DEF configVars, boundVars, CInv, Short, Restored, Draft, At
<1> QED BY <1>1, <1>2, <1>3, <1>4, <1>5, <1>6, <1>7, <1>8 DEF ConfigNext

\* It holds at first.
LEMMA InitCInv ==
    ASSUME UserConfigAssumption, ConfigInit PROVE CInv
<1>1. PICK p \in Password \cup {Absent}, accounts \in BoundedSeq(Account, MaxItems) :
        stored = [top |-> p, items |-> [i \in DOMAIN accounts |-> Item(accounts[i], accounts[i])]]
  BY DEF ConfigInit
<1>2. PICK m \in 0..MaxItems : accounts \in [1..m -> Account]
  BY DEF BoundedSeq, SeqOf
<1>3. accounts \in Seq(Account) /\ Len(accounts) = m /\ m <= MaxItems
  BY <1>2, UserConfigAssumption DEF UserConfigAssumption
<1> DEFINE f == [i \in DOMAIN accounts |-> Item(accounts[i], accounts[i])]
<1>4. f \in Seq(ItemType) /\ Len(f) = Len(accounts)
  <2>1. \A i \in DOMAIN accounts : f[i] \in ItemType
    BY <1>2 DEF Item, ItemType
  <2>2. f = [i \in DOMAIN accounts |-> f[i]]
    OBVIOUS
  <2> HIDE DEF f
  <2> QED BY <1>3, <2>1, <2>2, MappedList
<1> HIDE DEF f
<1>5. stored \in Configs /\ Short(stored)
  BY <1>1, <1>3, <1>4 DEF Configs, Short, f
<1>6. IdleTab \in Tabs /\ IdleTab.pc = "closed"
  <2>1. <<>> \in Seq(Shown) /\ <<>> \in Seq(ItemType)
    OBVIOUS
  <2> QED BY <2>1 DEF IdleTab, Tabs, Nothing, Forms, Configs
<1>7. tab \in [Tab -> Tabs] /\ \A t \in Tab : ~At(t, "saving")
  BY <1>6 DEF ConfigInit, At
<1> QED BY <1>5, <1>7 DEF ConfigInit, CInv

\* The inductive invariant of a user's configuration.
LEMMA ConfigInvariance == ConfigSpec => []CInv
<1>1. ConfigInit => CInv
  BY InitCInv, UserConfigAssumption
<1>2. CInv /\ [ConfigNext]_configVars => CInv'
  BY NextCInv, UserConfigAssumption
<1> QED BY <1>1, <1>2, PTL DEF ConfigSpec

\* No placeholder and no refused item is ever stored, whatever was masked, removed, saved from
\* another tab, dropped by another version's schema or lost in a failed read
\* (preserveExistingPasswords, normalizeUserConfigValue).
THEOREM NoPlaceholderIsStored == ConfigSpec => []ConfigTypeOK
<1>1. CInv => ConfigTypeOK
  BY DEF CInv, ConfigTypeOK, Configs, Short, Tabs
<1> QED BY <1>1, ConfigInvariance, PTL

\* What the save of a tab does to the passwords it was sent masked.
PreservesMasked ==
    \A t \in Tab : At(t, "saving") /\ tab'[t].pc = "closed" /\ faults' = faults /\ ~tab[t].stale =>
       /\ Draft(t).top = Masked /\ stored'.top # stored.top => stored'.top = Absent /\ upgrades > 0
       /\ \A i \in DOMAIN stored'.items \cap DOMAIN stored.items :
             /\ Draft(t).items[i].password = Masked
             /\ Draft(t).items[i].label = stored.items[i].label
             => stored'.items[i] = stored.items[i]

\* "the existing stored secret is preserved" (passwordPlaceholder): a password that was sent
\* masked at the place where it is stored is the same after the save, unless the stored values
\* could not be read, another save came between the read and the write, or a version of the
\* plugin without that key was in use.
THEOREM MaskedStays == ConfigSpec => MaskedIsPreserved
<1>1. ASSUME CInv, [ConfigNext]_configVars PROVE [PreservesMasked]_configVars
  <2> SUFFICES ASSUME ConfigNext, NEW t \in Tab, At(t, "saving"), tab'[t].pc = "closed",
                      faults' = faults, ~tab[t].stale
               PROVE  /\ Draft(t).top = Masked /\ stored'.top # stored.top
                         => stored'.top = Absent /\ upgrades > 0
                      /\ \A i \in DOMAIN stored'.items \cap DOMAIN stored.items :
                            /\ Draft(t).items[i].password = Masked
                            /\ Draft(t).items[i].label = stored.items[i].label
                            => stored'.items[i] = stored.items[i]
    BY <1>1 DEF PreservesMasked
  <2>1. tab[t].pc = "saving" /\ Restored(Draft(t), tab[t].clean)
    BY <1>1 DEF CInv, At
  <2>2. stored' = tab[t].clean
    <3>1. CASE Save(t)
      BY <3>1 DEF Save, Set
    <3>2. ASSUME NEW u \in Tab, Load(u) \/ Edit(u) \/ Reject(u) \/ Read(u) PROVE FALSE
      <4>1. u # t /\ tab'[t] = tab[t]
        BY <1>1, <2>1, <3>2 DEF Load, Edit, Reject, Read, Close, At, CInv
      <4> QED BY <2>1, <4>1
    <3>3. ASSUME NEW u \in Tab, SaveFails(u) PROVE FALSE
      BY <1>1, <3>3 DEF SaveFails, Fails, CInv
    <3>4. ASSUME NEW u \in Tab \ {t}, Save(u) PROVE FALSE
      <4>1. tab'[t] = [tab[t] EXCEPT !.stale = @ \/ tab[t].pc = "saving"]
        BY <3>4 DEF Save
      <4> QED BY <1>1, <2>1, <4>1 DEF CInv, Tabs
    <3>5. CASE Upgrade
      BY <2>1, <3>5 DEF Upgrade
    <3> QED BY <3>1, <3>2, <3>3, <3>4, <3>5 DEF ConfigNext
  <2> QED BY <2>1, <2>2 DEF Restored
<1> QED BY <1>1, ConfigInvariance, PTL DEF ConfigSpec, MaskedIsPreserved, PreservesMasked
=============================================================================

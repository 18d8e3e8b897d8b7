------------------------------- MODULE Router -------------------------------
(***************************************************************************)
(* The Router (internal/router): it consumes the invoke queue, forwards    *)
(* each request to the providers of the caller's route one after the other *)
(* until one replies, and acknowledges the request; a supervisor replaces  *)
(* the AMQP connection when it is lost.                                    *)
(*                                                                         *)
(* Every delivery of a request has a goroutine of its own (handleMessage), *)
(* named by the pair <<request, connection it came over>>: a request that  *)
(* was not acknowledged when its connection went is delivered again over   *)
(* the next one, while the old goroutine is still at work.                 *)
(***************************************************************************)
EXTENDS RouteSelection, FiniteSets

CONSTANTS
    Request,          \* the requests plugins publish to the invoke queue
    Key, Slot,        \* what a request asks for
    Provider,         \* providers that may be down when a route is used
    RouteTables,      \* the tables a user may store, as the client sends them
    Declared,         \* the major a provider's manifest declares, or NoMajor
    Installed,        \* providers that have a manifest for the capability
    MaxConnections,   \* BOUND: connections opened
    MaxLosses,        \* BOUND: connections lost
    MaxEdits          \* BOUND: times the table is replaced

ASSUME RouterAssumption ==
    /\ MaxConnections \in Nat \ {0}
    /\ MaxLosses \in Nat
    /\ MaxEdits \in Nat
    /\ Installed \subseteq Provider
    /\ NoSlot \in Slot

Connection == 1..MaxConnections
Delivery == Request \X Connection

VARIABLES
    routes,      \* the stored table of the user
    edits,       \* times it was replaced
    ask,         \* what each request asks, once published: [key, slot, reply]
    place,       \* where it is: "unsent", "ready", "unacked" or "gone"
    over,        \* the connection it was last delivered over
    opened,      \* connections opened so far
    losses,      \* of them, lost
    alive,       \* the open ones
    conn,        \* r.amqpConn, 0 if nil
    invokeCh,    \* the connection r.amqpCh belongs to, 0 if nil
    dispatchCh,  \* the same for r.dispatchCh
    sup,         \* where Start, or after it the supervisor, is
    ctx,         \* "live", "cancelled" or "closed": how far Stop has come
    handler,     \* the goroutine of each delivery
    count,       \* rrCounters: round-robin calls so far
    replies      \* how often each goroutine has published something to its caller

brokerVars == <<ask, place, over>>
connVars == <<opened, losses, alive, conn, invokeCh, dispatchCh, sup, ctx>>
callVars == <<handler, count, replies>>
vars == <<routes, edits, brokerVars, connVars, callVars>>

\* todo: the candidates; at: the one being tried; ch: the channel it was tried on;
\* answered: whether its reply queue holds an answer; sent: attempts that went out.
Idle == [pc |-> "none", todo |-> <<>>, at |-> 0, ch |-> 0, answered |-> FALSE, sent |-> 0]

(***************************************************************************)
(* handleSetRoutes: the reference of every provider that has a manifest for*)
(* the capability replaces what the client sent.                           *)
(***************************************************************************)
ByManifest(p) == IF p.id \in Installed THEN [p EXCEPT !.major = Declared[p.id]] ELSE p

enrichRouteInterfaceRefs(table) ==
    [n \in DOMAIN table |->
        [table[n] EXCEPT !.providers = [k \in DOMAIN @ |-> ByManifest(@[k])]]]

-----------------------------------------------------------------------------
(***************************************************************************)
(* The connection.                                                         *)
(***************************************************************************)

\* Start dials, and gives up if it cannot.
Start ==
    /\ sup = "none"
    /\ \/ /\ opened' = opened + 1
          /\ alive' = {opened + 1}
          /\ conn' = opened + 1
          /\ sup' = "starting"
       \/ /\ sup' = "failed"
          /\ UNCHANGED <<opened, alive, conn>>
    /\ UNCHANGED <<routes, edits, brokerVars, losses, invokeCh, dispatchCh, ctx, callVars>>

\* MUTANT: the new connection is up but the old invoke channel stays in use.
SwapsDispatchOnly ==
    /\ conn \in alive
    /\ dispatchCh' = conn
    /\ invokeCh' = IF invokeCh = 0 THEN conn ELSE invokeCh
    /\ UNCHANGED alive

(***************************************************************************)
(* setupTopology on the current connection: it declares, binds and consumes*)
(* on two new channels and then makes them the current ones. If anything   *)
(* fails the channels in use stay and the caller closes the connection.    *)
(***************************************************************************)
SetupSucceeds ==
    /\ conn \in alive
    /\ invokeCh' = conn
    /\ dispatchCh' = conn
    /\ UNCHANGED alive

SetupFails ==
    /\ conn \notin alive \/ opened < MaxConnections
    /\ alive' = alive \ {conn}
    /\ UNCHANGED <<invokeCh, dispatchCh>>

\* What the broker does with the requests a closed connection has not acknowledged.
Requeue(gone) ==
    [m \in Request |-> IF place[m] = "unacked" /\ over[m] \in gone THEN "ready" ELSE place[m]]

SetupTopology ==
    /\ sup \in {"starting", "setup"}
    /\ \/ /\ SetupSucceeds
          /\ sup' = "unwatched"
       \/ /\ SetupFails
          /\ sup' = IF sup = "starting" THEN "failed" ELSE "backoff"
    /\ place' = Requeue(alive \ alive')
    /\ UNCHANGED <<routes, edits, ask, over, opened, losses, conn, ctx, callVars>>

(***************************************************************************)
(* superviseConnection registers for the connection's closing. A library   *)
(* connection that is closed already closes the new listener without an    *)
(* error, which the supervisor takes for a graceful close: it ends.        *)
(***************************************************************************)
NotifyClose ==
    /\ sup = "unwatched"
    /\ sup' = IF conn \in alive THEN "watching" ELSE "ended"
    /\ UNCHANGED <<routes, edits, brokerVars, opened, losses, alive, conn, invokeCh, dispatchCh, ctx,
                   callVars>>

\* The registered listener reports the loss, or Stop.
SeesClose ==
    /\ sup = "watching"
    /\ \/ conn \notin alive /\ ctx # "closed" /\ sup' = "backoff"
       \/ ctx # "live" /\ sup' = "ended"
    /\ UNCHANGED <<routes, edits, brokerVars, opened, losses, alive, conn, invokeCh, dispatchCh, ctx,
                   callVars>>

\* reconnect waits, unless the Router is stopped meanwhile.
Backoff ==
    /\ sup = "backoff"
    /\ \/ sup' = "dialing"
       \/ ctx # "live" /\ sup' = "ended"
    /\ UNCHANGED <<routes, edits, brokerVars, opened, losses, alive, conn, invokeCh, dispatchCh, ctx,
                   callVars>>

DialSucceeds ==
    /\ sup = "dialing"
    /\ opened < MaxConnections
    /\ opened' = opened + 1
    /\ alive' = alive \cup {opened + 1}
    /\ conn' = opened + 1
    /\ sup' = "setup"
    /\ UNCHANGED <<routes, edits, brokerVars, losses, invokeCh, dispatchCh, ctx, callVars>>

\* MUTANT: a failed redial ends the supervisor.
DialsOnce ==
    /\ sup = "dialing"
    /\ sup' = "ended"
    /\ UNCHANGED <<routes, edits, brokerVars, opened, losses, alive, conn, invokeCh, dispatchCh, ctx,
                   callVars>>

DialFails ==
    /\ sup = "dialing"
    /\ sup' = "backoff"
    /\ UNCHANGED <<routes, edits, brokerVars, opened, losses, alive, conn, invokeCh, dispatchCh, ctx,
                   callVars>>

\* The broker or the network drops the connection.
LoseConnection ==
    /\ losses < MaxLosses /\ opened < MaxConnections
    /\ alive # {}
    /\ losses' = losses + 1
    /\ alive' = {}
    /\ place' = Requeue(alive)
    /\ UNCHANGED <<routes, edits, ask, over, opened, conn, invokeCh, dispatchCh, sup, ctx, callVars>>

\* Stop cancels the context and then closes the channels and the connection.
Cancel ==
    /\ sup \notin {"none", "starting", "failed"}
    /\ ctx = "live"
    /\ ctx' = "cancelled"
    /\ UNCHANGED <<routes, edits, brokerVars, opened, losses, alive, conn, invokeCh, dispatchCh, sup,
                   callVars>>

CloseAll ==
    /\ ctx = "cancelled"
    /\ ctx' = "closed"
    /\ alive' = alive \ {conn}
    /\ place' = Requeue({conn})
    /\ UNCHANGED <<routes, edits, ask, over, opened, losses, conn, invokeCh, dispatchCh, sup,
                   callVars>>

-----------------------------------------------------------------------------
(***************************************************************************)
(* The requests.                                                           *)
(***************************************************************************)

\* POST /users/routes replaces the whole table.
SetRoutes(table) ==
    /\ edits < MaxEdits
    /\ edits' = edits + 1
    /\ routes' = enrichRouteInterfaceRefs(table)
    /\ UNCHANGED <<brokerVars, connVars, callVars>>

\* A plugin publishes a request (external).
PublishRequest(m) ==
    /\ place[m] = "unsent"
    /\ \E key \in Key, slot \in Slot, reply \in BOOLEAN :
          ask' = [ask EXCEPT ![m] = [key |-> key, slot |-> slot, reply |-> reply]]
    /\ place' = [place EXCEPT ![m] = "ready"]
    /\ UNCHANGED <<routes, edits, over, connVars, callVars>>

\* The reader of the invoke channel starts a goroutine for what the broker delivers.
Deliver(m, c) ==
    /\ place[m] = "ready"
    /\ c = invokeCh /\ c \in alive
    /\ place' = [place EXCEPT ![m] = "unacked"]
    /\ over' = [over EXCEPT ![m] = c]
    /\ handler' = [handler EXCEPT ![<<m, c>>].pc = "route"]
    /\ UNCHANGED <<routes, edits, ask, connVars, count, replies>>

\* The calls of a route are numbered from 0.
nextCount(signature) == count' = [count EXCEPT ![signature] = @ + 1]

\* handleMessage: the route and its candidates, from the table as it is now
\* and the providers down now. A request without a provider is
\* rejected, and so is any that cannot be parsed or while the table cannot be read.
RouteRequest(d) ==
    LET a == ask[d[1]]
        route == findRoute(routes, a.key, a.slot)
        Reject == handler' = [handler EXCEPT ![d].pc = "reject"] /\ UNCHANGED count
    IN  /\ handler[d].pc = "route"
        /\ \/ Reject
           \/ /\ route.providers # <<>>
              /\ \E down \in SUBSET Provider :
                    /\ handler' = [handler EXCEPT ![d] =
                          [Idle EXCEPT !.pc = "try", !.at = 1,
                              !.todo = orderedProviders(route, down, count[routeSignature(route)])]]
                    /\ IF TurnsWheel(route, down) THEN nextCount(routeSignature(route))
                       ELSE UNCHANGED count
        /\ UNCHANGED <<routes, edits, brokerVars, connVars, replies>>

\* An error goes to the caller over the current channel, if that is open.
PublishError(d) ==
    replies' = [replies EXCEPT ![d] = IF ask[d[1]].reply /\ invokeCh \in alive THEN @ + 1 ELSE @]

RejectRequest(d) ==
    /\ handler[d].pc = "reject"
    /\ PublishError(d)
    /\ handler' = [handler EXCEPT ![d].pc = "ack"]
    /\ UNCHANGED <<routes, edits, brokerVars, connVars, count>>

(***************************************************************************)
(* tryProvider: on the current channel, a request that wants no answer is  *)
(* sent and done with; one that wants one gets a reply queue of its own,   *)
(* and the goroutine waits. On a closed channel the attempt fails.         *)
(***************************************************************************)
NextCandidate(d) ==
    handler' = [handler EXCEPT ![d].pc = "try", ![d].at = @ + 1, ![d].answered = FALSE]

\* MUTANT: a request sent without a reply queue goes to the next provider too.
SendsToAll(d) == IF ask[d[1]].reply THEN "wait" ELSE "try"

AfterSend(d) == IF ask[d[1]].reply THEN "wait" ELSE "ack"

PublishToProvider(d) ==
    handler' = [handler EXCEPT ![d].pc = AfterSend(d), ![d].ch = invokeCh, ![d].sent = @ + 1,
                               ![d].at = IF AfterSend(d) = "try" THEN @ + 1 ELSE @]

TryProvider(d) ==
    /\ handler[d].pc = "try"
    /\ handler[d].at <= Len(handler[d].todo)
    /\ IF invokeCh \in alive THEN PublishToProvider(d) ELSE NextCandidate(d)
    /\ UNCHANGED <<routes, edits, brokerVars, connVars, count, replies>>

\* The provider answers the call, or never does (external). The queue the answer
\* goes to lives as long as the attempt and its connection.
ProviderAnswers(d) ==
    /\ handler[d].pc = "wait"
    /\ handler[d].ch \in alive
    /\ handler' = [handler EXCEPT ![d].answered = TRUE]
    /\ UNCHANGED <<routes, edits, brokerVars, connVars, count, replies>>

\* MUTANT: the next provider is asked although this one has answered.
AsksOn(d) == "try"

AfterReply(d) == "ack"

ForwardReply(d) ==
    /\ handler[d].pc = "wait"
    /\ handler[d].answered
    /\ replies' = [replies EXCEPT ![d] = IF handler[d].ch \in alive THEN @ + 1 ELSE @]
    /\ handler' = [handler EXCEPT ![d].pc = AfterReply(d), ![d].at = @ + 1, ![d].answered = FALSE]
    /\ UNCHANGED <<routes, edits, brokerVars, connVars, count>>

\* No answer in time, or none to come because the channel is closed.
ProviderTimesOut(d) ==
    /\ handler[d].pc = "wait"
    /\ NextCandidate(d)
    /\ UNCHANGED <<routes, edits, brokerVars, connVars, count, replies>>

\* Stop while waiting: the request counts as handled.
StopsWaiting(d) ==
    /\ handler[d].pc = "wait"
    /\ ctx # "live"
    /\ handler' = [handler EXCEPT ![d].pc = "ack"]
    /\ UNCHANGED <<routes, edits, brokerVars, connVars, count, replies>>

\* MUTANT: a call that failed everywhere is dropped without a word.
FailsSilently(d) ==
    /\ handler[d].pc = "try"
    /\ handler[d].at > Len(handler[d].todo)
    /\ handler' = [handler EXCEPT ![d].pc = "ack"]
    /\ UNCHANGED <<routes, edits, brokerVars, connVars, count, replies>>

AllProvidersFailed(d) ==
    /\ handler[d].pc = "try"
    /\ handler[d].at > Len(handler[d].todo)
    /\ PublishError(d)
    /\ handler' = [handler EXCEPT ![d].pc = "ack"]
    /\ UNCHANGED <<routes, edits, brokerVars, connVars, count>>

\* The acknowledgement goes over the channel the request came over; on a
\* closed one it is lost.
Acknowledge(d) ==
    /\ handler[d].pc = "ack"
    /\ place' = IF place[d[1]] = "unacked" /\ over[d[1]] = d[2] /\ d[2] \in alive
                THEN [place EXCEPT ![d[1]] = "gone"] ELSE place
    /\ handler' = [handler EXCEPT ![d] = [Idle EXCEPT !.pc = "end"]]
    /\ UNCHANGED <<routes, edits, ask, over, connVars, count, replies>>
-----------------------------------------------------------------------------

NoAsk == [key |-> NoSlot, slot |-> NoSlot, reply |-> FALSE]

Init ==
    /\ routes = <<>>
    /\ edits = 0
    /\ ask = [m \in Request |-> NoAsk]
    /\ place = [m \in Request |-> "unsent"]
    /\ over = [m \in Request |-> 0]
    /\ opened = 0 /\ losses = 0 /\ alive = {} /\ conn = 0 /\ invokeCh = 0 /\ dispatchCh = 0
    /\ sup = "none" /\ ctx = "live"
    /\ handler = [d \in Delivery |-> Idle]
    /\ count = [signature \in Key \X Slot |-> 0]
    /\ replies = [d \in Delivery |-> 0]

Connect == Start \/ SetupTopology \/ NotifyClose \/ SeesClose \/ Backoff \/ DialSucceeds \/ DialFails

Handle(d) ==
    \/ RouteRequest(d) \/ RejectRequest(d) \/ TryProvider(d) \/ ForwardReply(d)
    \/ ProviderTimesOut(d) \/ StopsWaiting(d) \/ AllProvidersFailed(d) \/ Acknowledge(d)

Next ==
    \/ Connect \/ LoseConnection \/ Cancel \/ CloseAll
    \/ \E t \in RouteTables : SetRoutes(t)
    \/ \E m \in Request : PublishRequest(m) \/ \E c \in Connection : Deliver(m, c)
    \/ \E d \in Delivery : Handle(d) \/ ProviderAnswers(d)

Spec == Init /\ [][Next]_vars

(***************************************************************************)
(* The goroutines run, and the broker delivers what is ready on an open    *)
(* channel. A dial that is repeated without end succeeds some time and so  *)
(* does a set-up: the broker comes back. Nothing is assumed of providers.  *)
(***************************************************************************)
Fairness ==
    /\ WF_vars(SetupTopology) /\ WF_vars(NotifyClose) /\ WF_vars(SeesClose) /\ WF_vars(Backoff)
    /\ WF_vars(DialSucceeds \/ DialFails) /\ SF_vars(DialSucceeds)
    /\ SF_vars(SetupTopology /\ SetupSucceeds)
    /\ \A m \in Request : WF_vars(\E c \in Connection : Deliver(m, c))
    /\ \A d \in Delivery : WF_vars(Handle(d))

FairSpec == Spec /\ Fairness
-----------------------------------------------------------------------------
TypeOK ==
    /\ edits \in 0..MaxEdits
    /\ place \in [Request -> {"unsent", "ready", "unacked", "gone"}]
    /\ over \in [Request -> 0..opened]
    /\ opened \in 0..MaxConnections
    /\ losses \in 0..MaxLosses
    /\ alive \subseteq 1..opened
    /\ conn = opened
    /\ invokeCh \in 0..opened /\ dispatchCh = invokeCh
    /\ sup \in {"none", "failed", "starting", "unwatched", "watching", "backoff", "dialing",
                "setup", "ended"}
    /\ ctx \in {"live", "cancelled", "closed"}
    /\ \A d \in Delivery : handler[d].pc \in {"none", "route", "reject", "try", "wait", "ack", "end"}
    /\ count \in [Key \X Slot -> Nat]
    /\ replies \in [Delivery -> Nat]

(***************************************************************************)
(* A request leaves the invoke queue only when its caller has been told    *)
(* something, if it asked for an answer and the Router was not stopped:    *)
(* publishing the answer and acknowledging the request may go over two     *)
(* connections, and each of them may be gone (handleMessage, replyError,   *)
(* forwardWithFailover).                                                   *)
(***************************************************************************)
AckedIsAnswered ==
    \A m \in Request :
        (place[m] = "gone" /\ ask[m].reply /\ ctx = "live")
            => \E c \in Connection : replies[<<m, c>>] > 0

(***************************************************************************)
(* One goroutine answers its caller once, however many providers it tried  *)
(* and whichever of them answered late; and a call that nobody can answer, *)
(* for want of a reply queue, is not failed over: one provider at most gets*)
(* it (tryProvider, "so no failover").                                     *)
(***************************************************************************)
AtMostOnce ==
    \A d \in Delivery : replies[d] <= 1 /\ (ask[d[1]].reply \/ handler[d].sent <= 1)

(***************************************************************************)
(* A provider is tried only if it declares the major version of the route's*)
(* primary interface, or none: a provider declaring a different one is     *)
(* never silently taken for interchangeable (comment at compatibleProviders)*)
(***************************************************************************)
PrimaryMajor(route) ==
    LET typed == {n \in DOMAIN route.providers : route.providers[n].major # NoMajor}
    IN  IF typed = {} THEN NoMajor ELSE route.providers[Min(typed)].major

PrimaryInterfaceOnly ==
    [][\A d \in Delivery :
          (handler[d].pc = "route" /\ handler'[d].pc = "try") =>
              LET route == findRoute(routes, ask[d[1]].key, ask[d[1]].slot)
              IN  \A n \in DOMAIN handler'[d].todo :
                     handler'[d].todo[n].major \in {NoMajor, PrimaryMajor(route)}]_vars

(***************************************************************************)
(* A supervised connection that is lost is replaced, unless the Router is  *)
(* stopped, and both consumers run on the new one: the supervisor never    *)
(* settles on a connection nobody reads from (reconnect, setupTopology).   *)
(***************************************************************************)
Consuming == conn \in alive /\ invokeCh = conn /\ dispatchCh = conn

Reconnected ==
    (sup = "watching" /\ conn \notin alive) ~> (Consuming \/ ctx # "live")

(***************************************************************************)
(* Every request reaches its end, whatever providers and connections do,   *)
(* as long as somebody supervises the connection.                          *)
(***************************************************************************)
RequestEnds ==
    \A m \in Request :
        (place[m] = "ready" /\ sup = "watching")
            ~> (place[m] = "gone" \/ ctx # "live" \/ sup = "ended")
=============================================================================

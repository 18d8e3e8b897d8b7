------------------------- MODULE RouteSelection -------------------------
(***************************************************************************)
(* How the Router chooses the providers of a call: the route of the caller,*)
(* the providers that may serve it and the order in which they are tried.  *)
(*                                                                         *)
(* A route is [key, slot, providers, strategy], key standing for the pair  *)
(* pluginId, capabilityType; a provider entry is [id, major, weight], where *)
(* major is what interfaceMajor reads off its interfaceRef. NoSlot is the  *)
(* empty slot and NoMajor the missing reference.                           *)
(***************************************************************************)
EXTENDS Integers, Sequences, SequencesExt, FiniteSetsExt

CONSTANTS NoSlot, NoMajor

\* No route, which serves a call as little as a route without providers.
NoRoute == [providers |-> <<>>]

(***************************************************************************)
(* The route stored for exactly this slot, the first one if there are      *)
(* several; failing that, for a call with a slot, the last route without   *)
(* one; failing that, none.                                                *)
(***************************************************************************)
findRoute(routes, key, slot) ==
    LET Of(s) == {n \in DOMAIN routes : routes[n].key = key /\ routes[n].slot = s}
    IN  IF Of(slot) # {} THEN routes[Min(Of(slot))]
        ELSE IF slot # NoSlot /\ Of(NoSlot) # {} THEN routes[Max(Of(NoSlot))]
        ELSE NoRoute

\* Providers known to be down are left out, unless that leaves nobody.
healthyProviders(all, down) ==
    LET up == SelectSeq(all, LAMBDA p : p.id \notin down)
    IN  IF up = <<>> THEN all ELSE up

(***************************************************************************)
(* The first provider that declares a major version sets the reference, and*)
(* those that declare another one are left out.                            *)
(***************************************************************************)
compatibleProviders(all) ==
    LET typed == {n \in DOMAIN all : all[n].major # NoMajor}
    IN  IF typed = {} THEN all
        ELSE SelectSeq(all, LAMBDA p : p.major \in {NoMajor, all[Min(typed)].major})

providerWeight(p) == IF p.weight <= 0 THEN 1 ELSE p.weight

Total(ps) == FoldSeq(LAMBDA p, sum : sum + providerWeight(p), 0, ps)

\* Where the weighted wheel stands after `count` calls: the provider whose
\* stretch of the wheel holds that position.
WheelStart(ps, count) ==
    LET pos == count % Total(ps)
    IN  CHOOSE n \in DOMAIN ps : /\ Total(SubSeq(ps, 1, n - 1)) <= pos
                                 /\ pos < Total(SubSeq(ps, 1, n))

Ring(ps, start) ==
    [n \in DOMAIN ps |-> ps[((start + n - 2) % Len(ps)) + 1]]

Candidates(route, down) == compatibleProviders(healthyProviders(route.providers, down))

TurnsWheel(route, down) ==
    /\ route.providers # <<>>
    /\ Len(Candidates(route, down)) # 1
    /\ route.strategy = "round_robin"

\* What the calls of a route are counted under: never the user.
routeSignature(route) == <<route.key, route.slot>>

(***************************************************************************)
(* The candidates in the order they are tried. `count` is the number of    *)
(* earlier round-robin calls of the route (nextCount): only a call that    *)
(* turns the wheel takes a number.                                         *)
(***************************************************************************)
orderedProviders(route, down, count) ==
    LET ps == Candidates(route, down)
    IN  IF route.providers = <<>> THEN <<>>
        ELSE IF TurnsWheel(route, down) THEN Ring(ps, WheelStart(ps, count)) ELSE ps
=============================================================================

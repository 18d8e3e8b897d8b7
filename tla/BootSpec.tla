------------------------------ MODULE BootSpec ------------------------------
(***************************************************************************)
(* What a plugin's plugin.boot.yml asks for: its services, their images    *)
(* and the order in which they start (pkg/manifest, pkg/container,         *)
(* internal/imagecheck). A boot spec is a function from its services to    *)
(* their image and the list of services they depend on. No state.          *)
(***************************************************************************)
EXTENDS Sequences, SequencesExt, FiniteSets

CONSTANTS
    Main,       \* mainServiceId
    Official    \* images with the prefix ghcr.io/griffinguard/

\* A map, so finitely many services, each with the list of those it depends on.
IsBootSpec(spec) ==
    /\ IsFiniteSet(DOMAIN spec)
    /\ \A s \in DOMAIN spec : spec[s].deps \in Seq(ToSet(spec[s].deps))

Failed == <<"failed">>

Images(spec) == {spec[s].image : s \in DOMAIN spec}

\* Main first, then the others as Go iterates over the map: in any order.
VisitOrders(spec) == {<<Main>> \o others : others \in SetToSeqs(DOMAIN spec \ {Main})}

\* MUTANT: the services start as the map yields them
IgnoresDependencies(spec, order) == order

\* MUTANT: a dependency that is no service is sorted like one
TakesUnknown(spec, order) ==
    SetToSeq((UNION {ToSet(spec[s].deps) : s \in DOMAIN spec}) \ DOMAIN spec) \o order

\* The sort under way: what the loop has still to visit, and the calls of visit that have not
\* returned, the innermost last, each with the dependencies it has still to visit.
Names(spec) == {Main} \cup DOMAIN spec \cup UNION {ToSet(spec[s].deps) : s \in DOMAIN spec}
Calls(spec) == [id : DOMAIN spec, deps : Seq(Names(spec))]
Sorts(spec) ==
    [order : Seq(Names(spec)), calls : Seq(Calls(spec)), visited : SUBSET DOMAIN spec,
     result : Seq(DOMAIN spec), ok : BOOLEAN]

Finished(sort) == sort.calls = <<>> /\ sort.order = <<>>

\* A service is marked visited before its dependencies are, so a cycle is broken and not
\* reported; a dependency that is no service fails the sort.
Visit(spec, sort, id) ==
    IF id \in sort.visited THEN sort
    ELSE IF id \in DOMAIN spec
    THEN [sort EXCEPT !.visited = @ \cup {id},
                      !.calls = Append(@, [id |-> id, deps |-> spec[id].deps])]
    ELSE [sort EXCEPT !.ok = FALSE, !.order = <<>>, !.calls = <<>>]

\* The loop calls visit; a call that has visited its dependencies appends its service and
\* returns; one that has not visits the next.
SortStep(spec, sort) ==
    LET n == Len(sort.calls)
    IN  IF sort.calls = <<>>
        THEN Visit(spec, [sort EXCEPT !.order = Tail(@)], Head(sort.order))
        ELSE IF sort.calls[n].deps = <<>>
        THEN [sort EXCEPT !.result = Append(@, sort.calls[n].id), !.calls = Front(@)]
        ELSE Visit(spec, [sort EXCEPT !.calls[n].deps = Tail(@)], Head(sort.calls[n].deps))

Sorted(spec) ==
    LET end[sort \in Sorts(spec)] ==
            IF Finished(sort) THEN sort ELSE end[SortStep(spec, sort)]
    IN  end

TopoSort(spec, order) ==
    LET start  == [order |-> order, calls |-> <<>>, visited |-> {}, result |-> <<>>, ok |-> TRUE]
        sorted == Sorted(spec)[start]
    IN  IF sorted.ok THEN sorted.result ELSE Failed

\* Of the checks of a loaded package, those of the boot spec.
Validate(spec) ==
    /\ Main \in DOMAIN spec
    /\ \A s \in DOMAIN spec : ToSet(spec[s].deps) \subseteq DOMAIN spec

\* Every image of a sub-service has to be on the list; the main service's is CI's affair.
SubImages(spec) == {spec[s].image : s \in DOMAIN spec \ {Main}}
CheckBootSpec(spec, approved) == SubImages(spec) \subseteq approved

\* What may be pulled at the start: the main service's image by its prefix.
IsAllowedToPull(image, spec, approved) ==
    IF Main \in DOMAIN spec /\ image = spec[Main].image
    THEN image \in Official ELSE image \in approved
=============================================================================

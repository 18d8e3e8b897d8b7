--------------------------- MODULE PackagesProofs ---------------------------
(***************************************************************************)
(* Theorems about Packages and the sort of BootSpec, for any versions,     *)
(* services, files and images, and any bound on the faults and crashes.    *)
(* The types hold for any number of requests at once; the order of the     *)
(* starts, the files and the disk for requests that come one at a time.    *)
(***************************************************************************)
EXTENDS Packages, TLAPS, WellFoundedInduction, FiniteSetTheorems

-----------------------------------------------------------------------------
(***************************************************************************)
(* Induction and recursion. The library's theorems on them take a          *)
(* predicate; these take sets and functions, which the provers can be      *)
(* given.                                                                  *)
(***************************************************************************)
\* Numbers that are not none have a least.
LEMMA LeastNumber ==
    ASSUME NEW T, T \subseteq Nat, T # {}
    PROVE  \E n \in T : \A m \in T : n <= m
<1> DEFINE R == {ss \in Nat \X Nat : ss[1] < ss[2]}
<1>1. IsWellFoundedOn(R, Nat)
  BY NatLessThanWellFounded DEF OpToRel
<1>2. PICK n \in T : \A m \in T : ~(<<m, n>> \in R)
  <2> HIDE DEF R
  <2> QED BY <1>1, WFMin
<1>3. ASSUME NEW m \in T PROVE n <= m
  <2>1. n \in Nat /\ m \in Nat /\ <<m, n>> \in Nat \X Nat /\ <<m, n>>[1] = m /\ <<m, n>>[2] = n
    OBVIOUS
  <2>2. ~(m < n)
    BY <1>2, <2>1
  <2> QED BY <2>1, <2>2
<1> QED BY <1>3

\* So has anything that is measured by a number.
LEMMA LeastMeasured ==
    ASSUME NEW B, B # {}, NEW f \in [B -> Nat]
    PROVE  \E s \in B : \A t \in B : f[s] <= f[t]
<1> DEFINE T == {f[s] : s \in B}
<1>1. T \subseteq Nat /\ T # {}
  OBVIOUS
<1>2. PICK n \in T : \A m \in T : n <= m
  <2> HIDE DEF T
  <2> QED BY <1>1, LeastNumber
<1> QED BY <1>2

\* A function that calls itself last exists: its value is where the steps end, if they do.
Path(S, next, Final, s, n, t) ==
    \E p \in [0..n -> S] :
        /\ p[0] = s /\ p[n] = t /\ t \in Final
        /\ \A i \in 0..(n - 1) : p[i] \notin Final /\ p[i + 1] = next[p[i]]

Ends(S, next, Final, s) == {t \in S : \E n \in Nat : Path(S, next, Final, s, n, t)}

\* A step does not change where the steps end.
LEMMA SameEnds ==
    ASSUME NEW S, NEW next \in [S -> S], NEW Final, NEW s \in S, s \notin Final
    PROVE  Ends(S, next, Final, s) = Ends(S, next, Final, next[s])
<1>1. ASSUME NEW t \in Ends(S, next, Final, s)
      PROVE  t \in Ends(S, next, Final, next[s])
  <2>0. PICK n \in Nat : Path(S, next, Final, s, n, t)
    BY <1>1 DEF Ends
  <2>1. PICK p \in [0..n -> S] :
           /\ p[0] = s /\ p[n] = t /\ t \in Final
           /\ \A i \in 0..(n - 1) : p[i] \notin Final /\ p[i + 1] = next[p[i]]
    BY <2>0 DEF Path
  <2>2. n # 0 /\ n - 1 \in Nat
    BY <2>1
  <2> DEFINE q == [i \in 0..(n - 1) |-> p[i + 1]]
  <2>3. q \in [0..(n - 1) -> S]
    BY <2>1, <2>2
  <2>4. q[0] = next[s] /\ q[n - 1] = t
    BY <2>1, <2>2
  <2>5. ASSUME NEW i \in 0..((n - 1) - 1) PROVE q[i] \notin Final /\ q[i + 1] = next[q[i]]
    <3>1. i \in 0..(n - 1) /\ i + 1 \in 0..(n - 1)
      BY <2>2
    <3>2. q[i] = p[i + 1] /\ q[i + 1] = p[(i + 1) + 1]
      BY <3>1
    <3> QED BY <2>1, <3>1, <3>2
  <2> HIDE DEF q
  <2>6. Path(S, next, Final, next[s], n - 1, t)
    BY <2>1, <2>3, <2>4, <2>5 DEF Path
  <2> QED BY <1>1, <2>2, <2>6 DEF Ends
<1>2. ASSUME NEW t \in Ends(S, next, Final, next[s])
      PROVE  t \in Ends(S, next, Final, s)
  <2>0. PICK n \in Nat : Path(S, next, Final, next[s], n, t)
    BY <1>2 DEF Ends
  <2>1. PICK p \in [0..n -> S] :
           /\ p[0] = next[s] /\ p[n] = t /\ t \in Final
           /\ \A i \in 0..(n - 1) : p[i] \notin Final /\ p[i + 1] = next[p[i]]
    BY <2>0 DEF Path
  <2> DEFINE q == [i \in 0..(n + 1) |-> IF i = 0 THEN s ELSE p[i - 1]]
  <2>2. q \in [0..(n + 1) -> S]
    <3>1. ASSUME NEW i \in 0..(n + 1), i # 0 PROVE i - 1 \in 0..n
      BY <3>1
    <3> QED BY <2>1, <3>1
  <2>3. q[0] = s /\ q[n + 1] = t
    BY <2>1
  <2>4. ASSUME NEW i \in 0..((n + 1) - 1) PROVE q[i] \notin Final /\ q[i + 1] = next[q[i]]
    <3>1. i \in 0..(n + 1) /\ i + 1 \in 0..(n + 1) /\ i + 1 # 0
      BY <2>1
    <3>2. q[i + 1] = p[i]
      BY <3>1
    <3>3. CASE i = 0
      BY <2>1, <3>2, <3>3
    <3>4. CASE i # 0
      <4>1. q[i] = p[i - 1] /\ i - 1 \in 0..(n - 1) /\ (i - 1) + 1 = i
        BY <3>1, <3>4
      <4> QED BY <2>1, <3>2, <4>1
    <3> QED BY <3>3, <3>4
  <2> HIDE DEF q
  <2>5. Path(S, next, Final, s, n + 1, t)
    BY <2>1, <2>2, <2>3, <2>4 DEF Path
  <2>6. n + 1 \in Nat /\ t \in S
    BY <2>1
  <2> QED BY <2>5, <2>6 DEF Ends
<1> QED BY <1>1, <1>2 DEF Ends

\* So the function there should be is the one that maps each argument there.
LEMMA TailRecursion ==
    ASSUME NEW S, NEW next \in [S -> S], NEW Final
    PROVE  \E end : end = [s \in S |-> IF s \in Final THEN s ELSE end[next[s]]]
<1> DEFINE end == [s \in S |-> IF s \in Final THEN s
                               ELSE CHOOSE t : t \in Ends(S, next, Final, s)]
<1>1. SUFFICES ASSUME NEW s \in S
               PROVE  end[s] = IF s \in Final THEN s ELSE end[next[s]]
  <2>1. end = [s \in S |-> IF s \in Final THEN s ELSE end[next[s]]]
    BY <1>1
  <2> HIDE DEF end
  <2> QED BY <2>1
<1>2. CASE s \in Final
  BY <1>2
<1>3. CASE s \notin Final
  <2>1. end[s] = CHOOSE t : t \in Ends(S, next, Final, s)
    BY <1>3
  <2>2. Ends(S, next, Final, s) = Ends(S, next, Final, next[s]) /\ next[s] \in S
    BY <1>3, SameEnds
  <2>3. CASE next[s] \in Final
    <3> DEFINE E == Ends(S, next, Final, next[s])
    <3>1. ASSUME NEW t \in E PROVE t = next[s]
      <4>0. PICK n \in Nat : Path(S, next, Final, next[s], n, t)
        BY <3>1 DEF Ends
      <4>1. PICK p \in [0..n -> S] :
               /\ p[0] = next[s] /\ p[n] = t
               /\ \A i \in 0..(n - 1) : p[i] \notin Final /\ p[i + 1] = next[p[i]]
        BY <4>0 DEF Path
      <4>2. n = 0
        <5>1. n # 0 => 0 \in 0..(n - 1)
          OBVIOUS
        <5> QED BY <2>3, <4>1, <5>1
      <4> QED BY <4>1, <4>2
    <3>2. next[s] \in E
      <4> DEFINE p == [i \in 0..0 |-> next[s]]
      <4>1. p \in [0..0 -> S] /\ p[0] = next[s] /\ 0..(0 - 1) = {}
        BY <2>2
      <4> HIDE DEF p
      <4>2. Path(S, next, Final, next[s], 0, next[s])
        BY <2>3, <4>1 DEF Path
      <4> QED BY <2>2, <4>2 DEF Ends
    <3> HIDE DEF E
    <3>3. (CHOOSE t : t \in E) = next[s]
      BY <3>1, <3>2
    <3> QED BY <1>3, <2>1, <2>2, <2>3, <3>3 DEF E
  <2>4. CASE next[s] \notin Final
    BY <1>3, <2>1, <2>2, <2>4
  <2> QED BY <2>3, <2>4
<1> QED BY <1>2, <1>3

-----------------------------------------------------------------------------
(***************************************************************************)
(* The order of the services (BootSpec). The sort is a recursion over the  *)
(* calls of visit that are under way.                                      *)
(***************************************************************************)
\* One sort is another up to what the loop or the innermost call has yet to visit.
Popped(spec, sort, id, rest) ==
    /\ sort \in Sorts(spec) /\ rest \in Sorts(spec) /\ id \in Names(spec)
    /\ rest.visited = sort.visited /\ rest.result = sort.result /\ rest.ok = sort.ok
    /\ \/ /\ sort.calls = <<>> /\ rest.calls = <<>>
          /\ sort.order # <<>> /\ id = Head(sort.order) /\ rest.order = Tail(sort.order)
       \/ /\ sort.calls # <<>> /\ rest.order = sort.order
          /\ LET n == Len(sort.calls)
             IN  /\ Len(rest.calls) = n
                 /\ \A k \in 1..(n - 1) : rest.calls[k] = sort.calls[k]
                 /\ rest.calls[n].id = sort.calls[n].id
                 /\ sort.calls[n].deps # <<>> /\ id = Head(sort.calls[n].deps)
                 /\ rest.calls[n].deps = Tail(sort.calls[n].deps)

Returned(spec, sort, next) ==
    /\ sort \in Sorts(spec) /\ next \in Sorts(spec)
    /\ next.visited = sort.visited /\ next.ok = sort.ok /\ next.order = sort.order
    /\ LET n == Len(sort.calls)
       IN  /\ sort.calls # <<>> /\ sort.calls[n].deps = <<>>
           /\ next.result = Append(sort.result, sort.calls[n].id)
           /\ Len(next.calls) = n - 1
           /\ \A k \in 1..(n - 1) : next.calls[k] = sort.calls[k]

Called(spec, rest, id, next) ==
    /\ next \in Sorts(spec)
    /\ \/ id \in rest.visited /\ next = rest
       \/ /\ id \notin DOMAIN spec /\ next.ok = FALSE /\ next.order = <<>> /\ next.calls = <<>>
          /\ next.visited = rest.visited
       \/ /\ id \in DOMAIN spec \ rest.visited
          /\ next.order = rest.order /\ next.result = rest.result /\ next.ok = rest.ok
          /\ next.visited = rest.visited \cup {id}
          /\ next.calls = Append(rest.calls, [id |-> id, deps |-> spec[id].deps])

\* One element of a list is replaced.
LEMMA ReplaceLast ==
    ASSUME NEW C, NEW s \in Seq(C), s # <<>>, NEW x \in C
    PROVE  /\ [s EXCEPT ![Len(s)] = x] \in Seq(C)
           /\ Len([s EXCEPT ![Len(s)] = x]) = Len(s)
           /\ [s EXCEPT ![Len(s)] = x][Len(s)] = x
           /\ \A k \in 1..(Len(s) - 1) : [s EXCEPT ![Len(s)] = x][k] = s[k]
  OBVIOUS

PopDep(calls) == [calls EXCEPT ![Len(calls)].deps = Tail(@)]

\* The innermost call goes on to its next dependency.
LEMMA PopDepCalls ==
    ASSUME NEW spec, NEW calls \in Seq(Calls(spec)), calls # <<>>,
           calls[Len(calls)].deps # <<>>
    PROVE  /\ PopDep(calls) \in Seq(Calls(spec)) /\ Len(PopDep(calls)) = Len(calls)
           /\ \A k \in 1..(Len(calls) - 1) : PopDep(calls)[k] = calls[k]
           /\ PopDep(calls)[Len(calls)].id = calls[Len(calls)].id
           /\ PopDep(calls)[Len(calls)].deps = Tail(calls[Len(calls)].deps)
           /\ Head(calls[Len(calls)].deps) \in Names(spec)
<1> DEFINE n == Len(calls)
           last == [calls[n] EXCEPT !.deps = Tail(calls[n].deps)]
<1>1. calls[n] \in Calls(spec)
  OBVIOUS
<1>2. Tail(calls[n].deps) \in Seq(Names(spec)) /\ Head(calls[n].deps) \in Names(spec)
  BY <1>1 DEF Calls
<1>3. last \in Calls(spec) /\ last.id = calls[n].id /\ last.deps = Tail(calls[n].deps)
  BY <1>1, <1>2 DEF Calls
<1>4. PopDep(calls) = [calls EXCEPT ![Len(calls)] = last]
  BY DEF PopDep
<1> HIDE DEF last
<1> QED BY <1>2, <1>3, <1>4, ReplaceLast

\* A call of visit.
LEMMA VisitCalls ==
    ASSUME NEW spec, IsBootSpec(spec), NEW rest \in Sorts(spec), NEW id \in Names(spec)
    PROVE  Called(spec, rest, id, Visit(spec, rest, id))
<1> DEFINE call == [id |-> id, deps |-> spec[id].deps]
           next == Visit(spec, rest, id)
<1>1. CASE id \in rest.visited
  BY <1>1 DEF Called, Visit
<1>2. CASE id \notin rest.visited /\ id \notin DOMAIN spec
  <2>1. next = [rest EXCEPT !.ok = FALSE, !.order = <<>>, !.calls = <<>>]
    BY <1>2 DEF Visit
  <2>2. next \in Sorts(spec) /\ next.ok = FALSE /\ next.order = <<>> /\ next.calls = <<>>
        /\ next.visited = rest.visited
    <3>1. <<>> \in Seq(Names(spec)) /\ <<>> \in Seq(Calls(spec)) /\ FALSE \in BOOLEAN
      OBVIOUS
    <3> QED BY <2>1, <3>1 DEF Sorts
  <2> QED BY <1>2, <2>2 DEF Called
<1>3. CASE id \notin rest.visited /\ id \in DOMAIN spec
  <2>1. spec[id].deps \in Seq(Names(spec))
    <3> DEFINE D == ToSet(spec[id].deps)
    <3>1. spec[id].deps \in Seq(D) /\ D \subseteq Names(spec)
      BY <1>3 DEF IsBootSpec, Names
    <3> HIDE DEF D
    <3> QED BY <3>1
  <2>2. call \in Calls(spec)
    BY <1>3, <2>1 DEF Calls
  <2> HIDE DEF call
  <2>3. next = [rest EXCEPT !.visited = rest.visited \cup {id}, !.calls = Append(rest.calls, call)]
    BY <1>3 DEF Visit, call
  <2>4. Append(rest.calls, call) \in Seq(Calls(spec)) /\ rest.visited \cup {id} \subseteq DOMAIN spec
    BY <1>3, <2>2 DEF Sorts
  <2>5. /\ next \in Sorts(spec) /\ next.order = rest.order /\ next.result = rest.result
        /\ next.ok = rest.ok /\ next.visited = rest.visited \cup {id}
        /\ next.calls = Append(rest.calls, call)
    BY <2>3, <2>4 DEF Sorts
  <2> QED BY <1>3, <2>5 DEF Called, call
<1> QED BY <1>1, <1>2, <1>3

\* What a step of the sort does.
LEMMA SortSteps ==
    ASSUME NEW spec, IsBootSpec(spec), NEW sort \in Sorts(spec), ~Finished(sort)
    PROVE  LET next == SortStep(spec, sort)
           IN  \/ Returned(spec, sort, next)
               \/ \E id, rest : Popped(spec, sort, id, rest) /\ Called(spec, rest, id, next)
<1> DEFINE next == SortStep(spec, sort)
           n == Len(sort.calls)
<1>0. /\ sort.order \in Seq(Names(spec)) /\ sort.calls \in Seq(Calls(spec))
      /\ sort.visited \subseteq DOMAIN spec /\ sort.result \in Seq(DOMAIN spec)
      /\ sort.ok \in BOOLEAN
  BY DEF Sorts
<1>1. CASE sort.calls = <<>>
  <2> DEFINE rest == [sort EXCEPT !.order = Tail(sort.order)]
             id == Head(sort.order)
  <2>1. sort.order # <<>>
    BY <1>1 DEF Finished
  <2>2. Tail(sort.order) \in Seq(Names(spec)) /\ id \in Names(spec)
    BY <1>0, <2>1
  <2>3. /\ rest \in Sorts(spec) /\ rest.order = Tail(sort.order) /\ rest.calls = sort.calls
        /\ rest.visited = sort.visited /\ rest.result = sort.result /\ rest.ok = sort.ok
    BY <2>2 DEF Sorts
  <2>4. next = Visit(spec, rest, id)
    BY <1>1 DEF SortStep
  <2> HIDE DEF rest, id
  <2>5. Popped(spec, sort, id, rest)
    BY <1>1, <2>1, <2>2, <2>3 DEF Popped, rest, id
  <2>6. Called(spec, rest, id, next)
    BY <2>2, <2>3, <2>4, VisitCalls
  <2> QED BY <2>5, <2>6
<1>2. CASE sort.calls # <<>> /\ sort.calls[n].deps = <<>>
  <2>1. next = [sort EXCEPT !.result = Append(sort.result, sort.calls[n].id),
                            !.calls = Front(sort.calls)]
    BY <1>2 DEF SortStep
  <2>2. n \in Nat /\ n > 0 /\ sort.calls[n] \in Calls(spec)
    BY <1>0, <1>2
  <2>3. Append(sort.result, sort.calls[n].id) \in Seq(DOMAIN spec)
    BY <1>0, <2>2 DEF Calls
  <2>4. Front(sort.calls) \in Seq(Calls(spec)) /\ Len(Front(sort.calls)) = n - 1
        /\ \A k \in 1..(n - 1) : Front(sort.calls)[k] = sort.calls[k]
    BY <1>0, <2>2 DEF Front
  <2>5. /\ next \in Sorts(spec) /\ next.visited = sort.visited /\ next.ok = sort.ok
        /\ next.order = sort.order /\ next.calls = Front(sort.calls)
        /\ next.result = Append(sort.result, sort.calls[n].id)
    BY <2>1, <2>3, <2>4 DEF Sorts
  <2>6. Returned(spec, sort, next)
    BY <1>2, <2>4, <2>5 DEF Returned
  <2> QED BY <2>6
<1>3. CASE sort.calls # <<>> /\ sort.calls[n].deps # <<>>
  <2> DEFINE calls == PopDep(sort.calls)
             rest == [sort EXCEPT !.calls = calls]
             id == Head(sort.calls[n].deps)
  <2>1. /\ calls \in Seq(Calls(spec)) /\ Len(calls) = n
        /\ \A k \in 1..(n - 1) : calls[k] = sort.calls[k]
        /\ calls[n].id = sort.calls[n].id /\ calls[n].deps = Tail(sort.calls[n].deps)
        /\ id \in Names(spec)
    BY <1>0, <1>3, PopDepCalls
  <2>2. [sort EXCEPT !.calls[n].deps = Tail(@)] = rest
    BY DEF PopDep
  <2>3. next = Visit(spec, rest, id)
    BY <1>3, <2>2 DEF SortStep
  <2> HIDE DEF calls
  <2>4. /\ rest \in Sorts(spec) /\ rest.order = sort.order /\ rest.calls = calls
        /\ rest.visited = sort.visited /\ rest.result = sort.result /\ rest.ok = sort.ok
    BY <2>1 DEF Sorts
  <2> HIDE DEF rest, id
  <2>5. Popped(spec, sort, id, rest)
    BY <1>3, <2>1, <2>4 DEF Popped, id
  <2>6. Called(spec, rest, id, next)
    BY <2>1, <2>3, <2>4, VisitCalls
  <2> QED BY <2>5, <2>6
<1> QED BY <1>1, <1>2, <1>3

\* The sort is the recursion its definition says.
LEMMA SortedRecurs ==
    ASSUME NEW spec, IsBootSpec(spec)
    PROVE  \A sort \in Sorts(spec) :
              Sorted(spec)[sort] = IF Finished(sort) THEN sort
                                   ELSE Sorted(spec)[SortStep(spec, sort)]
<1> DEFINE S == Sorts(spec)
           next == [s \in S |-> IF Finished(s) THEN s ELSE SortStep(spec, s)]
           Final == {s \in S : Finished(s)}
<1>1. next \in [S -> S]
  <2>1. ASSUME NEW s \in S, ~Finished(s) PROVE SortStep(spec, s) \in S
    BY <2>1, SortSteps DEF Returned, Called
  <2> QED BY <2>1
<1>2. PICK f : f = [s \in S |-> IF s \in Final THEN s ELSE f[next[s]]]
  <2> HIDE DEF S, next, Final
  <2> QED BY <1>1, TailRecursion
<1>3. f = [s \in S |-> IF Finished(s) THEN s ELSE f[SortStep(spec, s)]]
  <2>1. ASSUME NEW s \in S PROVE (IF s \in Final THEN s ELSE f[next[s]])
                               = (IF Finished(s) THEN s ELSE f[SortStep(spec, s)])
    OBVIOUS
  <2> HIDE DEF S, next, Final
  <2> QED BY <1>2, <2>1
<1>4. Sorted(spec) = CHOOSE g : g = [s \in S |-> IF Finished(s) THEN s ELSE g[SortStep(spec, s)]]
  BY DEF Sorted
<1>5. Sorted(spec) = [s \in S |-> IF Finished(s) THEN s ELSE Sorted(spec)[SortStep(spec, s)]]
  <2> HIDE DEF S
  <2> QED BY <1>3, <1>4
<1> QED BY <1>5

-----------------------------------------------------------------------------
\* What there is left of a sort, in four numbers, of which the first counts most.
Unvisited(spec, sort) == Cardinality(DOMAIN spec \ sort.visited)
DepsLeft(sort) == IF sort.calls = <<>> THEN 0 ELSE Len(sort.calls[Len(sort.calls)].deps)

\* Every step leaves less.
Less(spec, next, sort) ==
    \/ Unvisited(spec, next) < Unvisited(spec, sort)
    \/ /\ Unvisited(spec, next) = Unvisited(spec, sort)
       /\ \/ Len(next.order) < Len(sort.order)
          \/ /\ Len(next.order) = Len(sort.order)
             /\ \/ Len(next.calls) < Len(sort.calls)
                \/ /\ Len(next.calls) = Len(sort.calls)
                   /\ DepsLeft(next) < DepsLeft(sort)

\* The four are numbers.
LEMMA Measures ==
    ASSUME NEW spec, IsBootSpec(spec), NEW sort \in Sorts(spec)
    PROVE  /\ Unvisited(spec, sort) \in Nat /\ Len(sort.order) \in Nat
           /\ Len(sort.calls) \in Nat /\ DepsLeft(sort) \in Nat
<1>1. IsFiniteSet(DOMAIN spec \ sort.visited)
  BY FS_Difference DEF IsBootSpec
<1>2. Unvisited(spec, sort) \in Nat
  BY <1>1, FS_CardinalityType DEF Unvisited
<1>3. sort.order \in Seq(Names(spec)) /\ sort.calls \in Seq(Calls(spec))
  BY DEF Sorts
<1>4. DepsLeft(sort) \in Nat
  <2>1. ASSUME sort.calls # <<>> PROVE sort.calls[Len(sort.calls)] \in Calls(spec)
    BY <1>3, <2>1
  <2> QED BY <2>1 DEF DepsLeft, Calls
<1> QED BY <1>2, <1>3, <1>4

\* A list without its first element.
LEMMA TailIsShorter ==
    ASSUME NEW S, NEW s \in Seq(S), s # <<>>
    PROVE  /\ Tail(s) \in Seq(S) /\ Len(Tail(s)) = Len(s) - 1 /\ Len(s) \in Nat
           /\ Len(Tail(s)) < Len(s) /\ Head(s) \in S
  OBVIOUS

\* No step of a sort can be taken for ever.
LEMMA SortGetsLess ==
    ASSUME NEW spec, IsBootSpec(spec), NEW sort \in Sorts(spec), ~Finished(sort)
    PROVE  /\ SortStep(spec, sort) \in Sorts(spec)
           /\ Less(spec, SortStep(spec, sort), sort)
<1> DEFINE next == SortStep(spec, sort)
<1>0. /\ sort.order \in Seq(Names(spec)) /\ sort.calls \in Seq(Calls(spec))
      /\ Len(sort.order) \in Nat /\ Len(sort.calls) \in Nat /\ Unvisited(spec, sort) \in Nat
  BY Measures DEF Sorts
<1>1. CASE Returned(spec, sort, next)
  <2> HIDE DEF next
  <2>1. Len(next.calls) < Len(sort.calls)
    BY <1>0, <1>1 DEF Returned
  <2>2. Unvisited(spec, next) = Unvisited(spec, sort) /\ next.order = sort.order
        /\ next \in Sorts(spec)
    BY <1>1 DEF Returned, Unvisited
  <2> QED BY <2>1, <2>2 DEF Less, next
<1>2. ASSUME NEW id, NEW rest, Popped(spec, sort, id, rest), Called(spec, rest, id, next)
      PROVE  next \in Sorts(spec) /\ Less(spec, next, sort)
  <2> HIDE DEF next
  <2>1. next \in Sorts(spec) /\ rest \in Sorts(spec)
    BY <1>2 DEF Called, Popped
  <2>2. /\ rest.order \in Seq(Names(spec)) /\ rest.calls \in Seq(Calls(spec))
        /\ Len(rest.order) \in Nat /\ Len(rest.calls) \in Nat /\ DepsLeft(rest) \in Nat
        /\ rest.visited \subseteq DOMAIN spec
    BY <2>1, Measures DEF Sorts
  <2>3. Unvisited(spec, rest) = Unvisited(spec, sort)
    BY <1>2 DEF Popped, Unvisited
  <2>4. \/ Len(rest.order) < Len(sort.order) /\ rest.calls = <<>>
        \/ rest.order = sort.order /\ Len(rest.calls) = Len(sort.calls) /\ rest.calls # <<>>
           /\ Len(sort.calls) > 0 /\ DepsLeft(rest) < DepsLeft(sort)
    <3>1. CASE sort.calls = <<>>
      <4>1. /\ rest.calls = <<>> /\ sort.order # <<>> /\ rest.order = Tail(sort.order)
        BY <1>2, <3>1 DEF Popped
      <4> QED BY <1>0, <4>1, TailIsShorter
    <3>2. CASE sort.calls # <<>>
      <4> DEFINE n == Len(sort.calls)
      <4>1. n \in Nat /\ n > 0 /\ sort.calls[n] \in Calls(spec)
        BY <1>0, <3>2
      <4>2. /\ rest.order = sort.order /\ Len(rest.calls) = n /\ sort.calls[n].deps # <<>>
            /\ rest.calls[n].deps = Tail(sort.calls[n].deps)
        BY <1>2, <3>2 DEF Popped
      <4>3. sort.calls[n].deps \in Seq(Names(spec))
        BY <4>1 DEF Calls
      <4>4. rest.calls # <<>>
        BY <4>1, <4>2
      <4>5. DepsLeft(rest) = Len(Tail(sort.calls[n].deps)) /\ DepsLeft(sort) = Len(sort.calls[n].deps)
        BY <3>2, <4>2, <4>4 DEF DepsLeft
      <4>6. DepsLeft(rest) < DepsLeft(sort)
        BY <4>2, <4>3, <4>5, TailIsShorter
      <4> QED BY <4>1, <4>2, <4>4, <4>6
    <3> QED BY <3>1, <3>2
  <2>5. CASE id \in rest.visited /\ next = rest
    BY <2>1, <2>3, <2>4, <2>5 DEF Less
  <2>6. CASE next.order = <<>> /\ next.calls = <<>> /\ next.visited = rest.visited
    <3>1. Unvisited(spec, next) = Unvisited(spec, sort) /\ Len(next.order) = 0 /\ Len(next.calls) = 0
      BY <2>3, <2>6 DEF Unvisited
    <3>2. Len(next.order) < Len(sort.order) \/ (Len(next.order) = Len(sort.order)
             /\ Len(next.calls) < Len(sort.calls))
      BY <1>0, <2>2, <2>4, <3>1
    <3> QED BY <2>1, <3>1, <3>2 DEF Less
  <2>7. CASE id \in DOMAIN spec \ rest.visited /\ next.visited = rest.visited \cup {id}
    <3> DEFINE D == DOMAIN spec \ rest.visited
    <3>1. IsFiniteSet(D) /\ id \in D /\ D \ {id} = DOMAIN spec \ next.visited
      BY <2>7, FS_Difference DEF IsBootSpec
    <3> HIDE DEF D
    <3>2. Cardinality(D \ {id}) = Cardinality(D) - 1 /\ Cardinality(D) \in Nat
      BY <3>1, FS_RemoveElement, FS_CardinalityType
    <3>3. Unvisited(spec, next) < Unvisited(spec, rest)
      <4>1. Unvisited(spec, next) = Cardinality(D \ {id}) /\ Unvisited(spec, rest) = Cardinality(D)
        BY <3>1 DEF Unvisited, D
      <4> QED BY <3>2, <4>1
    <3> QED BY <2>1, <2>3, <3>3 DEF Less
  <2> QED BY <1>2, <2>5, <2>6, <2>7 DEF Called
<1> QED BY <1>1, <1>2, SortSteps

\* What holds at first and after every step of a sort holds at its end, and it has one.
LEMMA SortInduction ==
    ASSUME NEW spec, IsBootSpec(spec), NEW G, G \subseteq Sorts(spec),
           \A sort \in G : ~Finished(sort) => SortStep(spec, sort) \in G
    PROVE  \A sort \in G : Sorted(spec)[sort] \in G /\ Finished(Sorted(spec)[sort])
<1> DEFINE Good(sort) == Sorted(spec)[sort] \in G /\ Finished(Sorted(spec)[sort])
           B == {sort \in G : ~Good(sort)}
<1>1. ASSUME B # {} PROVE FALSE
  <2>0. \A sort \in B : sort \in Sorts(spec)
    OBVIOUS
  <2> DEFINE f1 == [sort \in B |-> Unvisited(spec, sort)]
  <2>1. PICK s1 \in B : \A t \in B : Unvisited(spec, s1) <= Unvisited(spec, t)
    <3>1. f1 \in [B -> Nat]
      BY <2>0, Measures
    <3>2. \E s \in B : \A t \in B : f1[s] <= f1[t]
      <4> HIDE DEF B, f1
      <4> QED BY <1>1, <3>1, LeastMeasured
    <3> HIDE DEF B
    <3> QED BY <3>2
  <2> DEFINE B2 == {t \in B : Unvisited(spec, t) = Unvisited(spec, s1)}
             f2 == [sort \in B2 |-> Len(sort.order)]
  <2>2. PICK s2 \in B2 : \A t \in B2 : Len(s2.order) <= Len(t.order)
    <3>1. f2 \in [B2 -> Nat] /\ B2 # {}
      BY <2>0, <2>1, Measures
    <3>2. \E s \in B2 : \A t \in B2 : f2[s] <= f2[t]
      <4> HIDE DEF B2, f2
      <4> QED BY <3>1, LeastMeasured
    <3> HIDE DEF B2
    <3> QED BY <3>2
  <2> DEFINE B3 == {t \in B2 : Len(t.order) = Len(s2.order)}
             f3 == [sort \in B3 |-> Len(sort.calls)]
  <2>3. PICK s3 \in B3 : \A t \in B3 : Len(s3.calls) <= Len(t.calls)
    <3>1. f3 \in [B3 -> Nat] /\ B3 # {}
      BY <2>0, <2>2, Measures
    <3>2. \E s \in B3 : \A t \in B3 : f3[s] <= f3[t]
      <4> HIDE DEF B3, f3
      <4> QED BY <3>1, LeastMeasured
    <3> HIDE DEF B3
    <3> QED BY <3>2
  <2> DEFINE B4 == {t \in B3 : Len(t.calls) = Len(s3.calls)}
             f4 == [sort \in B4 |-> DepsLeft(sort)]
  <2>4. PICK s \in B4 : \A t \in B4 : DepsLeft(s) <= DepsLeft(t)
    <3>1. f4 \in [B4 -> Nat] /\ B4 # {}
      BY <2>0, <2>3, Measures
    <3>2. \E s \in B4 : \A t \in B4 : f4[s] <= f4[t]
      <4> HIDE DEF B4, f4
      <4> QED BY <3>1, LeastMeasured
    <3> HIDE DEF B4
    <3> QED BY <3>2
  <2>5. /\ s \in B /\ s \in Sorts(spec) /\ Unvisited(spec, s) = Unvisited(spec, s1)
        /\ Len(s.order) = Len(s2.order) /\ Len(s.calls) = Len(s3.calls)
    BY <2>4
  <2>6. ~Finished(s)
    BY <2>5, SortedRecurs
  <2> DEFINE t == SortStep(spec, s)
  <2>7. t \in G /\ t \in Sorts(spec) /\ Sorted(spec)[s] = Sorted(spec)[t]
    BY <2>5, <2>6, SortedRecurs
  <2>8. t \in B
    BY <2>5, <2>7
  <2>9. Less(spec, t, s)
    BY <2>5, <2>6, SortGetsLess
  <2>10. /\ Unvisited(spec, s) \in Nat /\ Len(s.order) \in Nat /\ Len(s.calls) \in Nat
         /\ DepsLeft(s) \in Nat /\ Unvisited(spec, t) \in Nat /\ Len(t.order) \in Nat
         /\ Len(t.calls) \in Nat /\ DepsLeft(t) \in Nat
    BY <2>5, <2>7, Measures
  <2> HIDE DEF t, B
  <2>11. Unvisited(spec, t) = Unvisited(spec, s)
    BY <2>1, <2>5, <2>8, <2>9, <2>10 DEF Less
  <2>12. t \in B2
    BY <2>5, <2>8, <2>11
  <2>13. Len(t.order) = Len(s.order)
    <3> HIDE DEF B2
    <3> QED BY <2>2, <2>5, <2>9, <2>10, <2>11, <2>12 DEF Less
  <2>14. t \in B3
    BY <2>5, <2>12, <2>13
  <2>15. Len(t.calls) = Len(s.calls)
    <3> HIDE DEF B3
    <3> QED BY <2>3, <2>5, <2>9, <2>10, <2>11, <2>13, <2>14 DEF Less
  <2>16. t \in B4
    BY <2>5, <2>14, <2>15
  <2> HIDE DEF B4
  <2> QED BY <2>4, <2>9, <2>10, <2>11, <2>13, <2>15, <2>16 DEF Less
<1> QED BY <1>1

-----------------------------------------------------------------------------
\* Every service has yet to be visited by the loop, or is being visited, or is in the result,
\* where it is once.
Calling(sort) == {sort.calls[k].id : k \in 1..Len(sort.calls)}

EachOnce(spec, sort) ==
    /\ DOMAIN spec \subseteq sort.visited \cup ToSet(sort.order)
    /\ sort.visited = ToSet(sort.result) \cup Calling(sort)
    /\ \A i, j \in 1..Len(sort.result) : sort.result[i] = sort.result[j] => i = j
    /\ \A k, l \in 1..Len(sort.calls) : sort.calls[k].id = sort.calls[l].id => k = l
    /\ ToSet(sort.result) \cap Calling(sort) = {}

\* An element more at the end of a list.
LEMMA AppendElements ==
    ASSUME NEW S, NEW s \in Seq(S), NEW x \in S
    PROVE  /\ ToSet(Append(s, x)) = ToSet(s) \cup {x} /\ Len(Append(s, x)) = Len(s) + 1
           /\ Append(s, x)[Len(s) + 1] = x /\ \A k \in 1..Len(s) : Append(s, x)[k] = s[k]
<1>1. /\ Len(Append(s, x)) = Len(s) + 1 /\ Append(s, x)[Len(s) + 1] = x
      /\ \A k \in 1..Len(s) : Append(s, x)[k] = s[k]
      /\ Len(s) \in Nat /\ DOMAIN s = 1..Len(s) /\ DOMAIN Append(s, x) = 1..(Len(s) + 1)
  OBVIOUS
<1> QED BY <1>1 DEF ToSet

\* The elements of a list are those at its indices.
LEMMA Elements ==
    ASSUME NEW S, NEW s \in Seq(S)
    PROVE  ToSet(s) = {s[k] : k \in 1..Len(s)} /\ Len(s) \in Nat
  BY DEF ToSet

\* An element less at the start.
LEMMA TailElements ==
    ASSUME NEW S, NEW s \in Seq(S), s # <<>>
    PROVE  ToSet(s) = {Head(s)} \cup ToSet(Tail(s))
<1>1. /\ Len(s) \in Nat /\ Len(s) > 0 /\ DOMAIN s = 1..Len(s) /\ DOMAIN Tail(s) = 1..(Len(s) - 1)
      /\ Head(s) = s[1] /\ \A k \in 1..(Len(s) - 1) : Tail(s)[k] = s[k + 1]
  OBVIOUS
<1>2. ASSUME NEW k \in 1..Len(s), k # 1
      PROVE  k - 1 \in 1..(Len(s) - 1) /\ Tail(s)[k - 1] = s[k]
  <2>1. k - 1 \in 1..(Len(s) - 1) /\ (k - 1) + 1 = k
    BY <1>1, <1>2
  <2> QED BY <1>1, <2>1
<1>3. ASSUME NEW k \in 1..(Len(s) - 1) PROVE k + 1 \in 1..Len(s)
  BY <1>1
<1> DEFINE n == Len(s)
           r == Tail(s)
<1>4. ToSet(s) = {s[k] : k \in 1..n} /\ ToSet(r) = {r[k] : k \in 1..(n - 1)} /\ 1 \in 1..n
  <2>1. r \in Seq(S) /\ Len(r) = n - 1 /\ 1 \in 1..n
    BY <1>1
  <2> HIDE DEF r
  <2> QED BY <2>1, Elements
<1>5. Head(s) = s[1] /\ (\A k \in 1..(n - 1) : r[k] = s[k + 1] /\ k + 1 \in 1..n)
      /\ \A k \in 1..n : k # 1 => k - 1 \in 1..(n - 1) /\ r[k - 1] = s[k]
  BY <1>1, <1>2, <1>3
<1> HIDE DEF n, r
<1>6. ToSet(s) \subseteq {s[1]} \cup ToSet(r)
  BY <1>4, <1>5
<1>7. {s[1]} \cup ToSet(r) \subseteq ToSet(s)
  BY <1>4, <1>5
<1> QED BY <1>5, <1>6, <1>7 DEF r

\* A step of the sort loses no service and repeats none.
LEMMA EachOnceStep ==
    ASSUME NEW spec, IsBootSpec(spec), NEW sort \in Sorts(spec), ~Finished(sort),
           sort.ok => EachOnce(spec, sort)
    PROVE  SortStep(spec, sort).ok => EachOnce(spec, SortStep(spec, sort))
<1> DEFINE next == SortStep(spec, sort)
           n == Len(sort.calls)
<1> SUFFICES ASSUME next.ok PROVE EachOnce(spec, next)
  OBVIOUS
<1>0. /\ sort.order \in Seq(Names(spec)) /\ sort.calls \in Seq(Calls(spec))
      /\ sort.result \in Seq(DOMAIN spec) /\ n \in Nat
  BY Measures DEF Sorts
<1>1. CASE Returned(spec, sort, next)
  <2> HIDE DEF next
  <2> DEFINE id == sort.calls[n].id
  <2>1. /\ EachOnce(spec, sort) /\ next.visited = sort.visited /\ next.order = sort.order
        /\ n > 0 /\ next.result = Append(sort.result, id) /\ Len(next.calls) = n - 1
        /\ \A k \in 1..(n - 1) : next.calls[k] = sort.calls[k]
    BY <1>0, <1>1 DEF Returned
  <2>2. sort.calls[n] \in Calls(spec) /\ id \in DOMAIN spec
    <3>1. sort.calls[n] \in Calls(spec)
      BY <1>0, <2>1
    <3> QED BY <3>1 DEF Calls
  <2> DEFINE m == Len(sort.result)
  <2>3. /\ ToSet(next.result) = ToSet(sort.result) \cup {id} /\ Len(next.result) = m + 1
        /\ next.result[m + 1] = id /\ \A k \in 1..m : next.result[k] = sort.result[k]
        /\ m \in Nat /\ ToSet(sort.result) = {sort.result[k] : k \in 1..m}
    BY <1>0, <2>1, <2>2, AppendElements, Elements
  <2>4. Calling(sort) = Calling(next) \cup {id} /\ id \in Calling(sort) /\ id \notin Calling(next)
    <3>1. \A k \in 1..n : k \in 1..(n - 1) \/ k = n
      BY <1>0
    <3>2. \A k \in 1..(n - 1) : k \in 1..n /\ k # n /\ next.calls[k].id = sort.calls[k].id
      BY <1>0, <2>1
    <3>3. n \in 1..n
      BY <1>0, <2>1
    <3>4. Calling(sort) = {sort.calls[k].id : k \in 1..n}
          /\ Calling(next) = {next.calls[k].id : k \in 1..(n - 1)}
          /\ \A k, l \in 1..n : sort.calls[k].id = sort.calls[l].id => k = l
      BY <2>1 DEF Calling, EachOnce
    <3>5. id = sort.calls[n].id
      OBVIOUS
    <3> HIDE DEF n, id
    <3>6. id \in Calling(sort) /\ Calling(next) \subseteq Calling(sort)
      BY <3>2, <3>3, <3>4, <3>5
    <3>7. Calling(sort) \subseteq Calling(next) \cup {id}
      BY <3>1, <3>2, <3>4, <3>5
    <3>8. id \notin Calling(next)
      BY <3>2, <3>3, <3>4, <3>5
    <3> QED BY <3>6, <3>7, <3>8
  <2>5. id \notin ToSet(sort.result)
    BY <2>1, <2>4 DEF EachOnce
  <2>6. \A i, j \in 1..Len(next.result) : next.result[i] = next.result[j] => i = j
    <3>1. \A i \in 1..(m + 1) : i \in 1..m \/ i = m + 1
      BY <2>3
    <3> HIDE DEF id
    <3>2. \A i \in 1..m : next.result[i] # id /\ next.result[i] = sort.result[i]
      BY <2>3, <2>5
    <3>3. \A i, j \in 1..m : sort.result[i] = sort.result[j] => i = j
      BY <2>1 DEF EachOnce
    <3> HIDE DEF m
    <3> QED BY <2>3, <3>1, <3>2, <3>3
  <2>7. \A k, l \in 1..Len(next.calls) : next.calls[k].id = next.calls[l].id => k = l
    <3>1. \A k \in 1..(n - 1) : k \in 1..n
      BY <1>0
    <3> QED BY <2>1, <3>1 DEF EachOnce
  <2>8. ToSet(next.result) \cap Calling(next) = {}
    BY <2>1, <2>3, <2>4 DEF EachOnce
  <2>9. /\ DOMAIN spec \subseteq next.visited \cup ToSet(next.order)
        /\ next.visited = ToSet(next.result) \cup Calling(next)
    BY <2>1, <2>3, <2>4 DEF EachOnce
  <2> QED BY <2>6, <2>7, <2>8, <2>9 DEF EachOnce
<1>2. ASSUME NEW id, NEW rest, Popped(spec, sort, id, rest), Called(spec, rest, id, next)
      PROVE  EachOnce(spec, next)
  <2> HIDE DEF next
  <2>1. rest \in Sorts(spec) /\ rest.ok = sort.ok /\ rest.visited = sort.visited
        /\ rest.result = sort.result
    BY <1>2 DEF Popped
  <2>2. next.ok = rest.ok
    BY <1>2 DEF Called
  <2>3. EachOnce(spec, sort)
    BY <2>1, <2>2
  <2>4. Len(rest.calls) = n /\ \A k \in 1..n : rest.calls[k].id = sort.calls[k].id
    <3>1. \A k \in 1..n : k \in 1..(n - 1) \/ k = n
      BY <1>0
    <3> QED BY <1>0, <1>2, <3>1 DEF Popped
  <2>5. ToSet(sort.order) \subseteq ToSet(rest.order) \cup {id}
    BY <1>0, <1>2, TailElements DEF Popped
  <2>6. Calling(rest) = Calling(sort)
    BY <2>4 DEF Calling
  <2>7. CASE id \in rest.visited /\ next = rest
    BY <2>1, <2>3, <2>4, <2>5, <2>6, <2>7 DEF EachOnce
  <2>8. CASE /\ id \in DOMAIN spec \ rest.visited
             /\ next.order = rest.order /\ next.result = rest.result
             /\ next.visited = rest.visited \cup {id}
             /\ next.calls = Append(rest.calls, [id |-> id, deps |-> spec[id].deps])
    <3> DEFINE call == [id |-> id, deps |-> spec[id].deps]
    <3>1. rest.calls \in Seq(Calls(spec)) /\ Len(next.calls) = n + 1
          /\ next.calls[n + 1] = call /\ \A k \in 1..n : next.calls[k] = rest.calls[k]
      <4>1. rest.calls \in Seq(Calls(spec)) /\ call \in Calls(spec)
        <5> DEFINE D == ToSet(spec[id].deps)
        <5>1. spec[id].deps \in Seq(D) /\ D \subseteq Names(spec)
          BY <2>8 DEF IsBootSpec, Names
        <5> HIDE DEF D
        <5>2. spec[id].deps \in Seq(Names(spec))
          BY <5>1
        <5> QED BY <2>1, <2>8, <5>2 DEF Sorts, Calls
      <4> HIDE DEF call
      <4> QED BY <2>4, <2>8, <4>1, AppendElements DEF call
    <3>2. \A k \in 1..(n + 1) : k \in 1..n \/ k = n + 1
      BY <1>0
    <3>3. \A k \in 1..n : k \in 1..(n + 1) /\ next.calls[k].id = sort.calls[k].id
      BY <1>0, <2>4, <3>1
    <3>4. n + 1 \in 1..(n + 1) /\ next.calls[n + 1].id = id
      BY <1>0, <3>1
    <3> HIDE DEF call, n
    <3>5. Calling(next) = Calling(sort) \cup {id}
      BY <2>4, <3>1, <3>2, <3>3, <3>4 DEF Calling, n
    <3>6. id \notin ToSet(sort.result) /\ id \notin Calling(sort)
      BY <2>1, <2>3, <2>8 DEF EachOnce
    <3>7. \A k, l \in 1..Len(next.calls) : next.calls[k].id = next.calls[l].id => k = l
      <4>1. \A k \in 1..n : sort.calls[k].id # id
        BY <3>6 DEF Calling, n
      <4>2. \A k, l \in 1..n : sort.calls[k].id = sort.calls[l].id => k = l
        BY <2>3 DEF EachOnce, n
      <4> QED BY <3>1, <3>2, <3>3, <3>4, <4>1, <4>2
    <3> QED BY <2>1, <2>3, <2>5, <2>8, <3>5, <3>6, <3>7 DEF EachOnce
  <2> QED BY <1>2, <2>2, <2>3, <2>7, <2>8 DEF Called
<1> QED BY <1>1, <1>2, SortSteps

-----------------------------------------------------------------------------
\* No service depends on itself, whatever the number of steps: there is a number for each
\* that those it depends on are below.
Falls(spec, rank) ==
    \A s \in DOMAIN spec : \A d \in ToSet(spec[s].deps) \cap DOMAIN spec : rank[d] < rank[s]

Acyclic(spec) == \E rank \in [DOMAIN spec -> Nat] : Falls(spec, rank)

\* A dependency of a service in a list comes before it.
InDependencyOrder(spec, list) ==
    \A i \in 1..Len(list) : \A d \in ToSet(spec[list[i]].deps) :
        \E j \in 1..(i - 1) : list[j] = d

\* A dependency of a call is in the result, or has yet to be visited, or is being visited by
\* the next call; the calls are of services one below the other.
CallsGoDown(spec, rank, sort) ==
    LET n == Len(sort.calls)
    IN  /\ \A k \in 1..n : \A d \in ToSet(spec[sort.calls[k].id].deps) :
              \/ d \in ToSet(sort.result)
              \/ d \in ToSet(sort.calls[k].deps)
              \/ k < n /\ sort.calls[k + 1].id = d
        /\ \A k \in 1..n : ToSet(sort.calls[k].deps) \subseteq ToSet(spec[sort.calls[k].id].deps)
        /\ \A k, l \in 1..n : k < l => rank[sort.calls[l].id] < rank[sort.calls[k].id]

\* A dependency that has been visited, of the innermost call, is in the result.
LEMMA VisitedIsInResult ==
    ASSUME NEW spec, NEW rank \in [DOMAIN spec -> Nat], Falls(spec, rank),
           NEW sort \in Sorts(spec), EachOnce(spec, sort), CallsGoDown(spec, rank, sort),
           NEW n, n = Len(sort.calls), n > 0,
           NEW d \in ToSet(spec[sort.calls[n].id].deps)
    PROVE  /\ d \in sort.visited => d \in ToSet(sort.result)
           /\ d \in DOMAIN spec => \A k \in 1..n : rank[d] < rank[sort.calls[k].id]
<1>0. sort.calls \in Seq(Calls(spec)) /\ sort.visited \subseteq DOMAIN spec /\ n \in Nat
  BY DEF Sorts
<1>1. ASSUME NEW k \in 1..n PROVE sort.calls[k].id \in DOMAIN spec
  <2>1. sort.calls[k] \in Calls(spec)
    BY <1>0
  <2> QED BY <2>1 DEF Calls
<1>2. n \in 1..n
  BY <1>0
<1>3. ASSUME d \in DOMAIN spec, NEW k \in 1..n PROVE rank[d] < rank[sort.calls[k].id]
  <2>1. rank[d] < rank[sort.calls[n].id]
    BY <1>1, <1>2, <1>3 DEF Falls
  <2>2. CASE k = n
    BY <2>1, <2>2
  <2>3. CASE k # n
    <3>1. k < n
      BY <1>0, <2>3
    <3>2. rank[sort.calls[n].id] < rank[sort.calls[k].id]
      BY <1>2, <3>1 DEF CallsGoDown
    <3>3. rank[d] \in Nat /\ rank[sort.calls[n].id] \in Nat /\ rank[sort.calls[k].id] \in Nat
      BY <1>1, <1>2, <1>3
    <3> QED BY <2>1, <3>2, <3>3
  <2> QED BY <2>2, <2>3
<1>4. ASSUME d \in sort.visited, d \notin ToSet(sort.result) PROVE FALSE
  <2>1. PICK k \in 1..n : d = sort.calls[k].id
    BY <1>4 DEF EachOnce, Calling
  <2>2. d \in DOMAIN spec /\ rank[d] \in Nat /\ rank[d] < rank[sort.calls[k].id]
    BY <1>0, <1>3, <1>4
  <2>3. ~(rank[d] < rank[d])
    BY <2>2
  <2> QED BY <2>1, <2>2, <2>3
<1> QED BY <1>3, <1>4

\* A step appends a service when all it depends on is in the result.
LEMMA CallsGoDownStep ==
    ASSUME NEW spec, IsBootSpec(spec), NEW rank \in [DOMAIN spec -> Nat], Falls(spec, rank),
           NEW sort \in Sorts(spec), ~Finished(sort),
           sort.ok => /\ EachOnce(spec, sort) /\ CallsGoDown(spec, rank, sort)
                      /\ InDependencyOrder(spec, sort.result)
    PROVE  LET next == SortStep(spec, sort)
           IN  next.ok => CallsGoDown(spec, rank, next) /\ InDependencyOrder(spec, next.result)
<1> DEFINE next == SortStep(spec, sort)
           n == Len(sort.calls)
           Id(k) == sort.calls[k].id
           Deps(k) == ToSet(sort.calls[k].deps)
           Got == ToSet(sort.result)
<1> SUFFICES ASSUME next.ok
             PROVE  CallsGoDown(spec, rank, next) /\ InDependencyOrder(spec, next.result)
  OBVIOUS
<1>0. /\ sort.order \in Seq(Names(spec)) /\ sort.calls \in Seq(Calls(spec))
      /\ sort.result \in Seq(DOMAIN spec) /\ n \in Nat
  BY Measures DEF Sorts
<1>1. CASE Returned(spec, sort, next)
  <2> HIDE DEF next
  <2>1. /\ EachOnce(spec, sort) /\ CallsGoDown(spec, rank, sort)
        /\ InDependencyOrder(spec, sort.result)
        /\ n > 0 /\ n - 1 \in Nat /\ next.result = Append(sort.result, Id(n))
        /\ Len(next.calls) = n - 1 /\ sort.calls[n].deps = <<>>
        /\ \A k \in 1..(n - 1) : next.calls[k] = sort.calls[k]
    BY <1>0, <1>1 DEF Returned
  <2>2. Id(n) \in DOMAIN spec
    <3>1. sort.calls[n] \in Calls(spec)
      BY <1>0, <2>1
    <3> QED BY <3>1 DEF Calls
  <2> DEFINE m == Len(sort.result)
  <2>3. /\ ToSet(next.result) = Got \cup {Id(n)} /\ Len(next.result) = m + 1
        /\ next.result[m + 1] = Id(n) /\ \A k \in 1..m : next.result[k] = sort.result[k]
        /\ m \in Nat /\ Got = {sort.result[k] : k \in 1..m}
    <3> DEFINE id == Id(n)
    <3>1. next.result = Append(sort.result, id) /\ id \in DOMAIN spec
      BY <2>1, <2>2
    <3> HIDE DEF id, Id, n
    <3>2. /\ ToSet(next.result) = Got \cup {id} /\ Len(next.result) = m + 1
          /\ next.result[m + 1] = id /\ \A k \in 1..m : next.result[k] = sort.result[k]
      BY <1>0, <3>1, AppendElements
    <3>3. m \in Nat /\ Got = {sort.result[k] : k \in 1..m}
      BY <1>0, Elements
    <3> QED BY <3>2, <3>3 DEF id
  <2>4. \A k \in 1..(n - 1) : k \in 1..n /\ k < n /\ (k < n - 1 => k + 1 \in 1..(n - 1))
                              /\ (k < n - 1 \/ k + 1 = n)
    BY <2>1
  <2>5. ASSUME NEW d \in ToSet(spec[Id(n)].deps) PROVE d \in Got
    <3>1. n \in 1..n /\ ~(n < n) /\ Deps(n) = {}
      BY <1>0, <2>1 DEF ToSet
    <3> QED BY <2>1, <2>5, <3>1 DEF CallsGoDown
  <2>6. InDependencyOrder(spec, next.result)
    <3> HIDE DEF m
    <3>1. ASSUME NEW i \in 1..(m + 1), NEW d \in ToSet(spec[next.result[i]].deps)
          PROVE  \E j \in 1..(i - 1) : next.result[j] = d
      <4>1. CASE i = m + 1
        <5>0. next.result[i] = Id(n)
          BY <2>3, <4>1
        <5>1. d \in Got
          <6> HIDE DEF Got, Id
          <6> QED BY <2>5, <3>1, <5>0
        <5>2. i - 1 = m
          BY <2>3, <4>1
        <5> QED BY <2>3, <5>1, <5>2
      <4>2. CASE i # m + 1
        <5>1. i \in 1..m /\ \A j \in 1..(i - 1) : j \in 1..m
          BY <2>3, <4>2
        <5>2. PICK j \in 1..(i - 1) : sort.result[j] = d
          BY <2>1, <2>3, <3>1, <5>1 DEF InDependencyOrder, m
        <5> QED BY <2>3, <5>1, <5>2
      <4> QED BY <4>1, <4>2
    <3> QED BY <2>3, <3>1 DEF InDependencyOrder
  <2>7. CallsGoDown(spec, rank, next)
    <3> HIDE DEF n
    <3>1. ASSUME NEW k \in 1..(n - 1), NEW d \in ToSet(spec[next.calls[k].id].deps)
          PROVE  \/ d \in ToSet(next.result)
                 \/ d \in ToSet(next.calls[k].deps)
                 \/ k < n - 1 /\ next.calls[k + 1].id = d
      <4>1. d \in Got \/ d \in Deps(k) \/ Id(k + 1) = d
        BY <2>1, <2>4, <3>1 DEF CallsGoDown, n
      <4> QED BY <2>1, <2>3, <2>4, <4>1
    <3>2. \A k \in 1..(n - 1) :
             ToSet(next.calls[k].deps) \subseteq ToSet(spec[next.calls[k].id].deps)
      BY <2>1, <2>4 DEF CallsGoDown, n
    <3>3. \A k, l \in 1..(n - 1) : k < l => rank[next.calls[l].id] < rank[next.calls[k].id]
      BY <2>1, <2>4 DEF CallsGoDown, n
    <3> QED BY <2>1, <3>1, <3>2, <3>3 DEF CallsGoDown
  <2> QED BY <2>6, <2>7
<1>2. ASSUME NEW id, NEW rest, Popped(spec, sort, id, rest), Called(spec, rest, id, next)
      PROVE  CallsGoDown(spec, rank, next) /\ InDependencyOrder(spec, next.result)
  <2> HIDE DEF next
  <2>1. /\ rest \in Sorts(spec) /\ rest.ok = sort.ok /\ rest.visited = sort.visited
        /\ rest.result = sort.result /\ next.ok = rest.ok
    BY <1>2 DEF Popped, Called
  <2>2. EachOnce(spec, sort) /\ CallsGoDown(spec, rank, sort)
        /\ InDependencyOrder(spec, sort.result)
    BY <2>1
  <2>3. /\ Len(rest.calls) = n /\ \A k \in 1..n : rest.calls[k].id = Id(k)
        /\ \A k \in 1..(n - 1) : rest.calls[k] = sort.calls[k]
        /\ rest.calls \in Seq(Calls(spec))
    <3>1. \A k \in 1..n : k \in 1..(n - 1) \/ k = n
      BY <1>0
    <3>2. rest.calls \in Seq(Calls(spec))
      BY <2>1 DEF Sorts
    <3> QED BY <1>0, <1>2, <3>1, <3>2 DEF Popped
  <2>4. n > 0 => /\ Deps(n) = {id} \cup ToSet(rest.calls[n].deps)
                 /\ id \in ToSet(spec[Id(n)].deps)
    <3> SUFFICES ASSUME n > 0 PROVE /\ Deps(n) = {id} \cup ToSet(rest.calls[n].deps)
                                    /\ id \in ToSet(spec[Id(n)].deps)
      OBVIOUS
    <3>1. n \in 1..n /\ sort.calls # <<>> /\ sort.calls[n] \in Calls(spec)
      BY <1>0
    <3>2. sort.calls[n].deps \in Seq(Names(spec))
      BY <3>1 DEF Calls
    <3>3. /\ sort.calls[n].deps # <<>> /\ id = Head(sort.calls[n].deps)
          /\ rest.calls[n].deps = Tail(sort.calls[n].deps)
      BY <1>2, <3>1 DEF Popped
    <3>4. Deps(n) = {id} \cup ToSet(rest.calls[n].deps)
      BY <3>2, <3>3, TailElements
    <3> QED BY <2>2, <3>1, <3>4 DEF CallsGoDown
  <2>5. \A k \in 1..n : k \in 1..(n - 1) \/ (k = n /\ n > 0)
    BY <1>0
  <2>6. \A k \in 1..n : ToSet(rest.calls[k].deps) \subseteq ToSet(spec[Id(k)].deps)
    BY <2>2, <2>3, <2>4, <2>5 DEF CallsGoDown
  <2>7. \A k \in 1..n : \A d \in ToSet(spec[Id(k)].deps) :
           \/ d \in Got
           \/ d \in ToSet(rest.calls[k].deps)
           \/ k < n /\ Id(k + 1) = d
           \/ k = n /\ d = id
    BY <2>2, <2>3, <2>4, <2>5 DEF CallsGoDown
  <2>8. \A k, l \in 1..n : k < l => rank[Id(l)] < rank[Id(k)]
    BY <2>2 DEF CallsGoDown
  <2>9. CASE id \in rest.visited /\ next = rest
    <3>1. n > 0 => id \in Got
      BY <2>1, <2>2, <2>4, <2>9, VisitedIsInResult
    <3> HIDE DEF n
    <3>2. ASSUME NEW k \in 1..n
          PROVE  next.calls[k].id = Id(k) /\ (k < n => next.calls[k + 1].id = Id(k + 1))
                 /\ (k = n => n > 0)
      <4>1. k < n => k + 1 \in 1..n
        BY <1>0
      <4>2. k = n => n > 0
        BY <1>0
      <4> HIDE DEF Id
      <4>3. next.calls[k].id = Id(k) /\ (k + 1 \in 1..n => next.calls[k + 1].id = Id(k + 1))
        BY <2>3, <2>9
      <4> QED BY <4>1, <4>2, <4>3
    <3>3. \A k \in 1..n : \A d \in ToSet(spec[next.calls[k].id].deps) :
             \/ d \in ToSet(next.result)
             \/ d \in ToSet(next.calls[k].deps)
             \/ k < n /\ next.calls[k + 1].id = d
      BY <2>1, <2>7, <2>9, <3>1, <3>2
    <3>4. /\ \A k \in 1..n :
                ToSet(next.calls[k].deps) \subseteq ToSet(spec[next.calls[k].id].deps)
          /\ \A k, l \in 1..n : k < l => rank[next.calls[l].id] < rank[next.calls[k].id]
      BY <2>6, <2>8, <2>9, <3>2
    <3>5. Len(next.calls) = n /\ InDependencyOrder(spec, next.result)
      BY <2>1, <2>2, <2>3, <2>9
    <3> QED BY <3>3, <3>4, <3>5 DEF CallsGoDown
  <2>10. CASE /\ id \in DOMAIN spec \ rest.visited
              /\ next.order = rest.order /\ next.result = rest.result
              /\ next.visited = rest.visited \cup {id}
              /\ next.calls = Append(rest.calls, [id |-> id, deps |-> spec[id].deps])
    <3> DEFINE call == [id |-> id, deps |-> spec[id].deps]
    <3>1. /\ Len(next.calls) = n + 1 /\ next.calls[n + 1] = call
          /\ \A k \in 1..n : next.calls[k] = rest.calls[k]
      <4>1. call \in Calls(spec)
        <5> DEFINE D == ToSet(spec[id].deps)
        <5>1. spec[id].deps \in Seq(D) /\ D \subseteq Names(spec)
          BY <2>10 DEF IsBootSpec, Names
        <5> HIDE DEF D
        <5>2. spec[id].deps \in Seq(Names(spec))
          BY <5>1
        <5> QED BY <2>10, <5>2 DEF Calls
      <4> HIDE DEF call
      <4> QED BY <2>3, <2>10, <4>1, AppendElements DEF call
    <3>2. \A k \in 1..(n + 1) : k \in 1..n \/ k = n + 1
      BY <1>0
    <3>3. \A k \in 1..n : k < n + 1 /\ (k < n => k + 1 \in 1..n)
      BY <1>0
    <3>4. next.calls[n + 1].id = id /\ next.calls[n + 1].deps = spec[id].deps
      BY <3>1
    <3>5. ASSUME NEW k \in 1..n PROVE rank[id] < rank[Id(k)]
      <4>1. n > 0
        BY <1>0
      <4> QED BY <2>2, <2>4, <2>10, <4>1, VisitedIsInResult
    <3>6. ASSUME NEW k \in 1..(n + 1), NEW d \in ToSet(spec[next.calls[k].id].deps)
          PROVE  \/ d \in ToSet(next.result)
                 \/ d \in ToSet(next.calls[k].deps)
                 \/ k < n + 1 /\ next.calls[k + 1].id = d
      <4>1. CASE k = n + 1
        BY <3>4, <3>6, <4>1
      <4>2. CASE k \in 1..n
        <5>1. next.calls[k] = rest.calls[k] /\ rest.calls[k].id = Id(k)
              /\ next.result = sort.result
          BY <2>1, <2>3, <2>10, <3>1, <4>2
        <5>2. k < n => next.calls[k + 1].id = Id(k + 1)
          BY <2>3, <3>1, <3>3, <4>2
        <5>3. k = n => next.calls[k + 1].id = id
          BY <3>4
        <5> HIDE DEF n
        <5> QED BY <2>7, <3>3, <3>6, <4>2, <5>1, <5>2, <5>3
      <4> QED BY <3>2, <4>1, <4>2
    <3>7. \A k \in 1..(n + 1) :
             ToSet(next.calls[k].deps) \subseteq ToSet(spec[next.calls[k].id].deps)
      BY <2>3, <2>6, <3>1, <3>2, <3>4
    <3>8. \A k, l \in 1..(n + 1) : k < l => rank[next.calls[l].id] < rank[next.calls[k].id]
      <4>0. n \in Nat
        BY <1>0
      <4>2. \A k \in 1..n : next.calls[k].id = Id(k)
        BY <2>3, <3>1
      <4> HIDE DEF n
      <4>1. \A k, l \in 1..(n + 1) : k < l => k \in 1..n /\ (l \in 1..n \/ l = n + 1)
        BY <4>0
      <4> QED BY <2>8, <3>4, <3>5, <4>1, <4>2
    <3> HIDE DEF n, call
    <3> QED BY <2>1, <2>2, <2>10, <3>1, <3>6, <3>7, <3>8 DEF CallsGoDown
  <2> QED BY <1>2, <2>1, <2>2, <2>9, <2>10 DEF Called
<1> QED BY <1>1, <1>2, SortSteps

-----------------------------------------------------------------------------
\* A set in any order is a list of its elements.
LEMMA AnyOrder ==
    ASSUME NEW S, IsFiniteSet(S), NEW s \in SetToSeqs(S)
    PROVE  s \in Seq(S) /\ ToSet(s) = S
<1> DEFINE n == Cardinality(S)
<1>1. n \in Nat
  BY FS_CardinalityType
<1>2. s \in [1..n -> S] /\ \A i, j \in 1..n : i # j => s[i] # s[j]
  BY DEF SetToSeqs
<1> HIDE DEF n
<1>3. s \in Injection(1..n, S)
  BY <1>2 DEF Injection, IsInjective
<1>4. Cardinality(1..n) = n
  BY <1>1, FS_Interval
<1>5. s \in Surjection(1..n, S)
  BY <1>3, <1>4, FS_Injection DEF n
<1>6. \A x \in S : \E i \in 1..n : s[i] = x
  BY <1>5 DEF Surjection
<1>7. s \in Seq(S) /\ DOMAIN s = 1..n
  BY <1>1, <1>2
<1> QED BY <1>2, <1>6, <1>7 DEF ToSet

\* The loop visits the main service and every other one.
LEMMA VisitOrdersVisitAll ==
    ASSUME NEW spec, IsBootSpec(spec), NEW order \in VisitOrders(spec)
    PROVE  order \in Seq(Names(spec)) /\ ToSet(order) = {Main} \cup DOMAIN spec
<1> DEFINE S == DOMAIN spec \ {Main}
<1>1. PICK others \in SetToSeqs(S) : order = <<Main>> \o others
  BY DEF VisitOrders
<1>2. IsFiniteSet(S)
  BY FS_Difference DEF IsBootSpec
<1>3. others \in Seq(S) /\ ToSet(others) = S
  <2> HIDE DEF S
  <2> QED BY <1>2, AnyOrder
<1> DEFINE D == Names(spec)
<1>4. others \in Seq(D)
  <2>1. S \subseteq D
    BY DEF Names
  <2> HIDE DEF S, D
  <2> QED BY <1>3, <2>1
<1> HIDE DEF D
<1>5. order \in Seq(D) /\ order # <<>> /\ Head(order) = Main /\ Tail(order) = others
  <2>1. Main \in D
    BY DEF D, Names
  <2> QED BY <1>1, <1>4, <2>1
<1>6. ToSet(order) = {Main} \cup ToSet(others)
  BY <1>5, TailElements
<1> QED BY <1>3, <1>5, <1>6 DEF D

\* A sort starts with nothing done.
Start(order) ==
    [order |-> order, calls |-> <<>>, visited |-> {}, result |-> <<>>, ok |-> TRUE]

\* All of this holds then.
LEMMA StartOfSort ==
    ASSUME NEW spec, IsBootSpec(spec), NEW order \in VisitOrders(spec)
    PROVE  /\ Start(order) \in Sorts(spec) /\ EachOnce(spec, Start(order))
           /\ InDependencyOrder(spec, Start(order).result)
           /\ \A rank : CallsGoDown(spec, rank, Start(order))
<1> DEFINE s == Start(order)
<1>1. /\ s.order = order /\ s.calls = <<>> /\ s.visited = {} /\ s.result = <<>> /\ s.ok = TRUE
      /\ s = [order |-> order, calls |-> <<>>, visited |-> {}, result |-> <<>>, ok |-> TRUE]
  BY DEF Start
<1>2. order \in Seq(Names(spec)) /\ ToSet(order) = {Main} \cup DOMAIN spec
  BY VisitOrdersVisitAll
<1>3. <<>> \in Seq(Calls(spec)) /\ <<>> \in Seq(DOMAIN spec) /\ TRUE \in BOOLEAN
      /\ {} \in SUBSET DOMAIN spec
  OBVIOUS
<1>4. s \in Sorts(spec)
  BY <1>1, <1>2, <1>3 DEF Sorts
<1>5. Len(s.calls) = 0 /\ Len(s.result) = 0 /\ 1..0 = {} /\ ToSet(<<>>) = {}
  BY <1>1 DEF ToSet
<1> HIDE DEF s
<1>6. EachOnce(spec, s)
  BY <1>1, <1>2, <1>5 DEF EachOnce, Calling
<1>7. InDependencyOrder(spec, s.result) /\ \A rank : CallsGoDown(spec, rank, s)
  BY <1>5 DEF InDependencyOrder, CallsGoDown
<1> QED BY <1>4, <1>6, <1>7 DEF s

\* A sort of a spec that passed Validate never fails.
LEMMA ValidatedNeverFails ==
    ASSUME NEW spec, IsBootSpec(spec), Validate(spec), NEW order \in VisitOrders(spec)
    PROVE  Sorted(spec)[Start(order)].ok
<1> DEFINE G == {s \in Sorts(spec) : s.ok}
<1>1. Names(spec) \subseteq DOMAIN spec
  BY DEF Validate, Names
<1>2. ASSUME NEW s \in G, ~Finished(s) PROVE SortStep(spec, s) \in G
  <2>1. SortStep(spec, s) \in Sorts(spec)
    BY <1>2, SortGetsLess
  <2>2. SortStep(spec, s).ok
    <3> DEFINE n == SortStep(spec, s)
    <3>1. \/ Returned(spec, s, n)
          \/ \E id, rest : Popped(spec, s, id, rest) /\ Called(spec, rest, id, n)
      BY <1>2, SortSteps
    <3> HIDE DEF n
    <3>2. CASE Returned(spec, s, n)
      BY <1>2, <3>2 DEF Returned, n
    <3>3. ASSUME NEW id, NEW rest, Popped(spec, s, id, rest), Called(spec, rest, id, n)
          PROVE  n.ok
      <4>1. id \in DOMAIN spec /\ rest.ok = s.ok
        BY <1>1, <3>3 DEF Popped
      <4> QED BY <1>2, <3>3, <4>1 DEF Called
    <3> QED BY <3>1, <3>2, <3>3 DEF n
  <2> QED BY <2>1, <2>2
<1>3. G \subseteq Sorts(spec) /\ Start(order) \in G
  BY StartOfSort DEF Validate, Start
<1> HIDE DEF G
<1>4. Sorted(spec)[Start(order)] \in G
  BY <1>2, <1>3, SortInduction
<1> QED BY <1>4 DEF G

\* topoSort, where it does not fail, and it does not after Validate, returns every service
\* once, also when the dependencies have a cycle, and in any order in which Go iterates over
\* the map.
THEOREM TopoSortHasEachOnce ==
    ASSUME NEW spec, IsBootSpec(spec),
           NEW order \in VisitOrders(spec),
           NEW list, list = TopoSort(spec, order), list # Failed \/ Validate(spec)
    PROVE  /\ list \in Seq(DOMAIN spec) /\ ToSet(list) = DOMAIN spec
           /\ \A i, j \in 1..Len(list) : list[i] = list[j] => i = j
<1> DEFINE G == {s \in Sorts(spec) : s.ok => EachOnce(spec, s)}
           end == Sorted(spec)[Start(order)]
<1>1. \A s \in G : ~Finished(s) => SortStep(spec, s) \in G
  BY EachOnceStep, SortGetsLess
<1>2. G \subseteq Sorts(spec) /\ Start(order) \in G
  BY StartOfSort
<1>3. end \in G /\ Finished(end)
  <2> HIDE DEF G
  <2> QED BY <1>1, <1>2, SortInduction
<1>4. end.ok /\ list = end.result
  BY ValidatedNeverFails DEF TopoSort, Start
<1> HIDE DEF end
<1>5. EachOnce(spec, end) /\ end.calls = <<>> /\ end.order = <<>> /\ end \in Sorts(spec)
  BY <1>3, <1>4 DEF Finished
<1>6. ToSet(end.order) = {} /\ Calling(end) = {}
  BY <1>5 DEF ToSet, Calling
<1>7. end.visited \subseteq DOMAIN spec /\ end.result \in Seq(DOMAIN spec)
  BY <1>5 DEF Sorts
<1> QED BY <1>4, <1>5, <1>6, <1>7 DEF EachOnce

\* Where no service depends on itself, it returns them in an order of dependencies.
THEOREM TopoSortIsTopological ==
    ASSUME NEW spec, IsBootSpec(spec), Acyclic(spec),
           NEW order \in VisitOrders(spec), TopoSort(spec, order) # Failed \/ Validate(spec)
    PROVE  InDependencyOrder(spec, TopoSort(spec, order))
<1>1. PICK rank \in [DOMAIN spec -> Nat] : Falls(spec, rank)
  BY DEF Acyclic
<1> DEFINE Good(s) == /\ EachOnce(spec, s) /\ CallsGoDown(spec, rank, s)
                      /\ InDependencyOrder(spec, s.result)
           G == {s \in Sorts(spec) : s.ok => Good(s)}
           end == Sorted(spec)[Start(order)]
<1>2. ASSUME NEW s \in G, ~Finished(s) PROVE SortStep(spec, s) \in G
  <2>1. SortStep(spec, s) \in Sorts(spec)
    BY <1>2, SortGetsLess
  <2>2. SortStep(spec, s).ok => EachOnce(spec, SortStep(spec, s))
    BY <1>2, EachOnceStep
  <2>3. SortStep(spec, s).ok => CallsGoDown(spec, rank, SortStep(spec, s))
                                /\ InDependencyOrder(spec, SortStep(spec, s).result)
    BY <1>1, <1>2, CallsGoDownStep
  <2> QED BY <2>1, <2>2, <2>3
<1>3. G \subseteq Sorts(spec) /\ Start(order) \in G
  BY StartOfSort
<1>4. end \in G /\ Finished(end)
  <2> HIDE DEF G
  <2> QED BY <1>2, <1>3, SortInduction
<1>5. end.ok /\ TopoSort(spec, order) = end.result
  BY ValidatedNeverFails DEF TopoSort, Start
<1> QED BY <1>4, <1>5

-----------------------------------------------------------------------------
(***************************************************************************)
(* Files and records, requests coming one at a time.                       *)
(***************************************************************************)
\* What the theorems are for: two requests at once can take the files from under the
\* record (MCPackagesRace.cfg).
OneWorker == \A v, w \in Worker : v = w

Record == [dir : Version, status : Statuses]
Ops == {"none", "install", "upgrade", "uninstall", "start", "stop"}

JobTypes(j) ==
    /\ j \in [pc : PCs, op : Ops, new : Version \cup {NoRecord}, inst : Records,
              left : {j.left}, restart : BOOLEAN]
    /\ j.restart => j.new \in Version

Types ==
    /\ record \in Records
    /\ dirs = [v \in Version |-> dirs[v]]
    /\ job = [w \in Worker |-> job[w]]
    /\ \A w \in Worker : JobTypes(job[w])
    /\ crashes \in Nat

\* The handlers that download, and the two steps of an upgrade that has stopped the plugin
\* or is about to.
Downloading(j) == j.pc \in {"fetch", "copy", "register", "upgrade"}
Upgrading(j) == j.op = "upgrade" /\ j.pc \in {"stop", "switch"}

\* The steps that save or delete the instance the request was given.
HoldsRecord(j) == j.pc \in {"switch", "delete"} \/ (j.pc = "stop" /\ j.op # "start")

OpOfPc(j) ==
    /\ j.pc \in {"fetch", "copy"} => j.op \in {"install", "upgrade"}
    /\ j.pc = "upgrade" => j.op = "upgrade"
    /\ j.pc \in {"pull", "containers", "undo"} => j.op = "start"
    /\ j.pc = "stop" => j.op \in {"start", "stop", "upgrade", "uninstall"}
    /\ j.pc = "switch" => j.op = "upgrade"
    /\ j.pc = "delete" => j.op = "uninstall"
    /\ j.pc = "cleanup" => j.op \in {"upgrade", "uninstall"}

\* What a download writes and what a failed upgrade deletes is not what the record points at,
\* and what a cleanup deletes no longer is.
InOrder(w) ==
    LET j == job[w]
    IN  /\ OpOfPc(j)
        /\ j.pc # "idle" => booted
        /\ Downloading(j) \/ Upgrading(j) =>
              j.new \in Version /\ (record # NoRecord => record.dir # j.new)
        /\ At(w, "upgrade") \/ Upgrading(j) => Load(j.new)
        /\ HoldsRecord(j) => record # NoRecord /\ j.inst # NoRecord /\ j.inst.dir = record.dir
        /\ At(w, "cleanup") =>
              /\ j.inst # NoRecord
              /\ j.op = "upgrade" => /\ record # NoRecord /\ record.dir = j.new
                                     /\ j.inst.dir # j.new
              /\ j.op = "uninstall" => record = NoRecord

JobsInOrder == \A w \in Worker : InOrder(w)

\* What a request that did not end has put on disk, or has yet to take away.
InHand(j) ==
    IF Downloading(j) \/ Upgrading(j) THEN {j.new}
    ELSE IF j.pc = "cleanup" THEN {j.inst.dir} ELSE {}

NothingStray ==
    crashes = 0 =>
        \A v \in OnDisk : \/ record # NoRecord /\ v = record.dir
                          \/ v \in unregistered
                          \/ \E w \in Worker : v \in InHand(job[w])

IInv == Types /\ JobsInOrder /\ RecordHasItsPackage /\ NothingStray

-----------------------------------------------------------------------------
(***************************************************************************)
(* Lemmas: what the operators do to a request.                             *)
(***************************************************************************)
Moved(w, pc, op, new, inst, restart) ==
    /\ job' = [x \in Worker |-> job'[x]]
    /\ JobTypes(job'[w])
    /\ job'[w].pc = pc /\ job'[w].op = op /\ job'[w].new = new
    /\ job'[w].inst = inst /\ job'[w].restart = restart

\* One job is replaced by another.
LEMMA SetJobMoves ==
    ASSUME Types, NEW w \in Worker, NEW j, JobTypes(j), SetJob(w, j)
    PROVE  Moved(w, j.pc, j.op, j.new, j.inst, j.restart)
<1>1. job' = [x \in Worker |-> job'[x]] /\ job'[w] = j
  BY DEF SetJob, Types
<1> QED BY <1>1 DEF Moved

\* A request goes on with what it holds.
LEMMA GotoMoves ==
    ASSUME Types, NEW w \in Worker, NEW pc \in PCs, NEW left,
           \/ Goto(w, pc) \/ GotoWith(w, pc, left) \/ (Advance(w) /\ At(w, pc))
    PROVE  Moved(w, pc, job[w].op, job[w].new, job[w].inst, job[w].restart)
<1> DEFINE old == job[w]
<1>1. JobTypes(old)
  BY DEF Types
<1>2. CASE Goto(w, pc)
  <2> DEFINE j == [old EXCEPT !.pc = pc]
  <2>1. JobTypes(j) /\ j.pc = pc /\ j.op = old.op /\ j.new = old.new /\ j.inst = old.inst
        /\ j.restart = old.restart
    BY <1>1 DEF JobTypes
  <2>2. SetJob(w, j)
    BY <1>2 DEF Goto
  <2> HIDE DEF j
  <2>3. Moved(w, j.pc, j.op, j.new, j.inst, j.restart)
    BY <2>1, <2>2, SetJobMoves
  <2> QED BY <2>1, <2>3
<1>3. CASE GotoWith(w, pc, left)
  <2> DEFINE j == [old EXCEPT !.pc = pc, !.left = left]
  <2>1. JobTypes(j) /\ j.pc = pc /\ j.op = old.op /\ j.new = old.new /\ j.inst = old.inst
        /\ j.restart = old.restart
    BY <1>1 DEF JobTypes
  <2>2. SetJob(w, j)
    BY <1>3 DEF GotoWith
  <2> HIDE DEF j
  <2>3. Moved(w, j.pc, j.op, j.new, j.inst, j.restart)
    BY <2>1, <2>2, SetJobMoves
  <2> QED BY <2>1, <2>3
<1>4. CASE Advance(w) /\ At(w, pc)
  <2> DEFINE j == [old EXCEPT !.left = Tail(old.left)]
  <2>1. JobTypes(j) /\ j.pc = pc /\ j.op = old.op /\ j.new = old.new /\ j.inst = old.inst
        /\ j.restart = old.restart
    BY <1>1, <1>4 DEF JobTypes, At
  <2>2. SetJob(w, j)
    BY <1>1, <1>4 DEF Advance, JobTypes
  <2> HIDE DEF j
  <2>3. Moved(w, j.pc, j.op, j.new, j.inst, j.restart)
    BY <2>1, <2>2, SetJobMoves
  <2> QED BY <2>1, <2>3
<1> QED BY <1>2, <1>3, <1>4

\* A request ends.
LEMMA DoneMoves ==
    ASSUME Types, NEW w \in Worker, Done(w)
    PROVE  Moved(w, "idle", "none", NoRecord, NoRecord, FALSE)
<1>1. /\ JobTypes(IdleJob) /\ IdleJob.pc = "idle" /\ IdleJob.op = "none"
      /\ IdleJob.new = NoRecord /\ IdleJob.inst = NoRecord /\ IdleJob.restart = FALSE
  BY DEF IdleJob, JobTypes, PCs, Ops, Records
<1>2. Moved(w, IdleJob.pc, IdleJob.op, IdleJob.new, IdleJob.inst, IdleJob.restart)
  BY <1>1, SetJobMoves DEF Done
<1> QED BY <1>1, <1>2

\* A request stops containers.
LEMMA BeginStopMoves ==
    ASSUME Types, NEW w \in Worker, NEW old, JobTypes(old), BeginStop(w, old)
    PROVE  Moved(w, "stop", old.op, old.new, old.inst, old.restart)
<1>1. PICK listed \in SetToSeqs(Listing) : SetJob(w, [old EXCEPT !.pc = "stop", !.left = listed])
  BY DEF BeginStop
<1> DEFINE j == [old EXCEPT !.pc = "stop", !.left = listed]
<1>2. /\ JobTypes(j) /\ j.pc = "stop" /\ j.op = old.op /\ j.new = old.new
      /\ j.inst = old.inst /\ j.restart = old.restart
  BY DEF JobTypes, PCs
<1> HIDE DEF j
<1>3. Moved(w, j.pc, j.op, j.new, j.inst, j.restart)
  BY <1>1, <1>2, SetJobMoves DEF j
<1> QED BY <1>2, <1>3

\* A request starts what an instance points at.
LEMMA BeginStartMoves ==
    ASSUME Types, NEW w \in Worker, NEW inst \in Records, BeginStart(w, inst)
    PROVE  Moved(w, "pull", "start", NoRecord, inst, FALSE)
<1>1. PICK services \in SetToSeqs(DOMAIN SpecOf[inst.dir]) :
        SetJob(w, [IdleJob EXCEPT !.pc = "pull", !.op = "start", !.inst = inst, !.left = services])
  BY DEF BeginStart
<1> DEFINE j == [IdleJob EXCEPT !.pc = "pull", !.op = "start", !.inst = inst, !.left = services]
<1>2. /\ JobTypes(j) /\ j.pc = "pull" /\ j.op = "start" /\ j.new = NoRecord
      /\ j.inst = inst /\ j.restart = FALSE
  BY DEF JobTypes, PCs, Ops, IdleJob
<1> HIDE DEF j
<1>3. Moved(w, j.pc, j.op, j.new, j.inst, j.restart)
  BY <1>1, <1>2, SetJobMoves DEF j
<1> QED BY <1>2, <1>3

-----------------------------------------------------------------------------
(***************************************************************************)
(* Lemmas: what a step has to show.                                        *)
(***************************************************************************)
\* With one request at a time, what is to be shown of every job is to be shown of one.
LEMMA StepShows ==
    ASSUME OneWorker, NEW w \in Worker, Types', InOrder(w)', RecordHasItsPackage',
           crashes' = 0 =>
              \A v \in OnDisk' : \/ record' # NoRecord /\ v = record'.dir
                                 \/ v \in unregistered'
                                 \/ v \in InHand(job'[w])
    PROVE  IInv'
<1>1. JobsInOrder'
  BY DEF JobsInOrder, OneWorker
<1>2. NothingStray'
  BY DEF NothingStray
<1> QED BY <1>1, <1>2 DEF IInv

\* A job that touches neither files nor the place the record points at.
Free(j) ==
    \/ j.pc \in {"idle", "images", "pull", "containers", "undo"}
    \/ j.pc = "stop" /\ j.op \in {"start", "stop", "uninstall"}
    \/ j.pc = "delete" /\ j.op = "uninstall"

\* Nothing on disk changes, nor where the record points.
SameFiles ==
    /\ record' \in Records
    /\ record' # NoRecord <=> record # NoRecord
    /\ record # NoRecord => record'.dir = record.dir
    /\ UNCHANGED <<dirs, crashes, unregistered>>

\* A request that is free goes on and stays free.
LEMMA FreeStep ==
    ASSUME OneWorker, IInv, NEW w \in Worker, NEW pc, NEW op, NEW new, NEW inst, NEW restart,
           Free(job[w]), SameFiles, Moved(w, pc, op, new, inst, restart),
           Free(job'[w]), pc # "idle" => booted',
           pc \in {"pull", "containers", "undo"} => op = "start",
           pc = "delete" \/ (pc = "stop" /\ op # "start") =>
              record # NoRecord /\ inst # NoRecord /\ inst.dir = record.dir
    PROVE  IInv'
<1> DEFINE j == job'[w]
<1>1. j.pc = pc /\ j.op = op /\ j.inst = inst /\ JobTypes(j) /\ job' = [x \in Worker |-> job'[x]]
  BY DEF Moved
<1>2. Types'
  BY <1>1 DEF Types, IInv, SameFiles, OneWorker
<1>3. /\ OpOfPc(j) /\ ~Downloading(j) /\ ~Upgrading(j) /\ pc # "cleanup" /\ pc # "upgrade"
      /\ HoldsRecord(j) => pc = "delete" \/ (pc = "stop" /\ op # "start")
  BY <1>1 DEF Free, OpOfPc, Downloading, Upgrading, HoldsRecord
<1>4. InOrder(w)'
  BY <1>1, <1>3 DEF InOrder, At, SameFiles
<1>5. RecordHasItsPackage'
  BY DEF RecordHasItsPackage, SameFiles, IInv, Load
<1>6. ASSUME NEW v \in OnDisk', crashes' = 0
      PROVE  (record' # NoRecord /\ v = record'.dir) \/ v \in unregistered'
  <2>1. v \in OnDisk /\ crashes = 0
    BY <1>6 DEF SameFiles, OnDisk
  <2>2. InHand(job[w]) = {}
    BY DEF InHand, Free, Downloading, Upgrading
  <2> QED BY <2>1, <2>2 DEF IInv, NothingStray, OneWorker, SameFiles
<1> QED BY <1>2, <1>4, <1>5, <1>6, StepShows

\* What everybody reads of the invariant.
LEMMA InvGives ==
    ASSUME IInv, NEW w \in Worker
    PROVE  Types /\ JobTypes(job[w]) /\ InOrder(w) /\ OpOfPc(job[w])
  BY DEF IInv, Types, JobsInOrder, InOrder

\* UpdateStatus and Saved change the status only.
LEMMA StatusOnly ==
    ASSUME Types, NEW status \in Statuses,
           UpdateStatus(status) \/ (record # NoRecord /\ Saved(status))
    PROVE  /\ record' \in Records
           /\ record' # NoRecord <=> record # NoRecord
           /\ record # NoRecord => record'.dir = record.dir
<1>1. CASE record = NoRecord
  BY <1>1 DEF UpdateStatus, Types
<1>2. CASE record # NoRecord
  <2>1. record \in Record /\ record' = [record EXCEPT !.status = status]
    BY <1>2 DEF UpdateStatus, Saved, Types, Records, Record
  <2>2. record' \in Record /\ record'.dir = record.dir
    BY <2>1 DEF Record
  <2>3. record' # NoRecord
    BY <2>2, PackagesAssumption DEF Record
  <2> QED BY <1>2, <2>2, <2>3 DEF Records, Record
<1> QED BY <1>1, <1>2

-----------------------------------------------------------------------------
\* It holds at first.
LEMMA InitIInv == Init => IInv
<1> SUFFICES ASSUME Init PROVE IInv
  OBVIOUS
<1>1. \A w \in Worker : job[w] = IdleJob
  BY DEF Init
<1>2. JobTypes(IdleJob) /\ IdleJob.pc = "idle" /\ IdleJob.op = "none"
  BY DEF IdleJob, JobTypes, PCs, Ops, Records
<1>3. Types
  <2>1. job = [w \in Worker |-> job[w]] /\ dirs = [v \in Version |-> dirs[v]]
    BY DEF Init
  <2> QED BY <1>1, <1>2, <2>1 DEF Init, Types, Records
<1>4. JobsInOrder
  BY <1>1, <1>2 DEF JobsInOrder, InOrder, OpOfPc, Downloading, Upgrading, HoldsRecord, At
<1>5. RecordHasItsPackage /\ NothingStray
  BY DEF Init, RecordHasItsPackage, NothingStray, OnDisk
<1> QED BY <1>3, <1>4, <1>5 DEF IInv

-----------------------------------------------------------------------------
(***************************************************************************)
(* Downloads.                                                              *)
(***************************************************************************)
\* A request, or nobody, moves while the disk and the record stay: what it has in hand
\* does too.
LEMMA SameStep ==
    ASSUME OneWorker, IInv, NEW w \in Worker, SameFiles, UNCHANGED booted,
           Moved(w, job[w].pc, job[w].op, job[w].new, job[w].inst, job[w].restart)
    PROVE  IInv'
<1> DEFINE j == job'[w]
<1>1. /\ j.pc = job[w].pc /\ j.op = job[w].op /\ j.new = job[w].new /\ j.inst = job[w].inst
      /\ JobTypes(j) /\ job' = [x \in Worker |-> job'[x]]
  BY DEF Moved
<1>2. Types'
  BY <1>1 DEF Types, IInv, SameFiles, OneWorker
<1>3. /\ OpOfPc(j) <=> OpOfPc(job[w])
      /\ Downloading(j) <=> Downloading(job[w])
      /\ Upgrading(j) <=> Upgrading(job[w])
      /\ HoldsRecord(j) <=> HoldsRecord(job[w])
      /\ InHand(j) = InHand(job[w])
  BY <1>1 DEF OpOfPc, Downloading, Upgrading, HoldsRecord, InHand
<1>4. InOrder(w) /\ UNCHANGED dirs /\ booted' = booted
  BY InvGives DEF SameFiles
<1>5. InOrder(w)'
  BY <1>1, <1>3, <1>4 DEF InOrder, At, SameFiles, Load
<1>6. RecordHasItsPackage'
  BY DEF RecordHasItsPackage, SameFiles, IInv, Load
<1>7. ASSUME NEW v \in OnDisk', crashes' = 0
      PROVE  \/ record' # NoRecord /\ v = record'.dir
             \/ v \in unregistered'
             \/ v \in InHand(job'[w])
  <2>1. v \in OnDisk /\ crashes = 0
    BY <1>7 DEF SameFiles, OnDisk
  <2> QED BY <1>3, <2>1 DEF IInv, NothingStray, OneWorker, SameFiles
<1> QED BY <1>2, <1>5, <1>6, <1>7, StepShows

\* A request starts to download what the record does not point at.
LEMMA BeginDownload ==
    ASSUME OneWorker, IInv, NEW w \in Worker, NEW v \in Version, NEW op \in {"install", "upgrade"},
           At(w, "idle"), booted, record # NoRecord => record.dir # v,
           SetJob(w, [IdleJob EXCEPT !.pc = "fetch", !.op = op, !.new = v, !.left = Files]),
           UNCHANGED <<record, dirs, booted, crashes, unregistered>>
    PROVE  IInv'
<1> DEFINE j == [IdleJob EXCEPT !.pc = "fetch", !.op = op, !.new = v, !.left = Files]
<1>1. JobTypes(j) /\ j.pc = "fetch" /\ j.op = op /\ j.new = v
  BY DEF JobTypes, IdleJob, PCs, Ops, Records
<1>2. SetJob(w, j)
  OBVIOUS
<1> HIDE DEF j
<1>3. job' = [x \in Worker |-> job'[x]] /\ job'[w] = j
  BY <1>2 DEF SetJob, IInv, Types
<1>4. Types'
  BY <1>1, <1>3 DEF Types, IInv, OneWorker
<1>5. /\ OpOfPc(j) /\ Downloading(j) /\ ~Upgrading(j) /\ ~HoldsRecord(j)
      /\ InHand(job[w]) = {}
  BY <1>1 DEF OpOfPc, Downloading, Upgrading, HoldsRecord, InHand, At
<1>6. InOrder(w)'
  BY <1>1, <1>3, <1>5 DEF InOrder, At
<1>7. RecordHasItsPackage'
  BY DEF RecordHasItsPackage, IInv, Load
<1>8. ASSUME NEW u \in OnDisk', crashes' = 0
      PROVE  (record' # NoRecord /\ u = record'.dir) \/ u \in unregistered'
  <2>1. u \in OnDisk /\ crashes = 0
    BY <1>8 DEF OnDisk
  <2> QED BY <1>5, <2>1 DEF IInv, NothingStray, OneWorker
<1> QED BY <1>4, <1>6, <1>7, <1>8, StepShows

\* The two handlers.
LEMMA InstallRegistryPluginKeeps ==
    ASSUME OneWorker, IInv, NEW w \in Worker, NEW v \in Version, InstallRegistryPlugin(w, v)
    PROVE  IInv'
  BY BeginDownload DEF InstallRegistryPlugin, boundVars, dockerVars

\* An upgrade is refused when the record points at the version already.
LEMMA UpgradeRegistryPluginKeeps ==
    ASSUME OneWorker, IInv, NEW w \in Worker, NEW v \in Version, UpgradeRegistryPlugin(w, v)
    PROVE  IInv'
  BY BeginDownload DEF UpgradeRegistryPlugin, NotUpToDate, boundVars, dockerVars

\* The directories but one are as they were.
OnlyDir(v) ==
    /\ dirs' = [u \in Version |-> dirs'[u]]
    /\ \A u \in Version : u # v => dirs'[u] = dirs[u]

\* RemoveAll and Write touch one directory.
LEMMA OneDirectory ==
    ASSUME Types, NEW v \in Version, NEW n, NEW state,
           RemoveAll(v) \/ Write(v, n, state)
    PROVE  OnlyDir(v) /\ (RemoveAll(v) => dirs'[v] = NoFiles)
  BY DEF RemoveAll, Write, OnlyDir, Types

\* A request writes a file of what it downloads.
LEMMA DownloadStep ==
    ASSUME OneWorker, IInv, NEW w \in Worker, NEW pc \in {"fetch", "copy"},
           job[w].pc \in {"fetch", "copy"}, OnlyDir(job[w].new),
           Moved(w, pc, job[w].op, job[w].new, job[w].inst, job[w].restart),
           UNCHANGED <<record, booted, crashes, unregistered>>
    PROVE  IInv'
<1> DEFINE j == job'[w]
<1>1. /\ j.pc = pc /\ j.op = job[w].op /\ j.new = job[w].new
      /\ JobTypes(j) /\ job' = [x \in Worker |-> job'[x]]
  BY DEF Moved
<1>2. Types'
  BY <1>1 DEF Types, IInv, OneWorker, OnlyDir
<1>3. /\ OpOfPc(j) /\ Downloading(j) /\ ~Upgrading(j) /\ ~HoldsRecord(j)
      /\ Downloading(job[w]) /\ InHand(job[w]) = {job[w].new} /\ InHand(j) = {job[w].new}
  BY <1>1, InvGives DEF OpOfPc, Downloading, Upgrading, HoldsRecord, InHand
<1>4. /\ job[w].new \in Version /\ (record # NoRecord => record.dir # job[w].new)
      /\ booted
  BY <1>3, InvGives DEF InOrder
<1>5. InOrder(w)'
  BY <1>1, <1>3, <1>4 DEF InOrder, At
<1>6. RecordHasItsPackage'
  <2>1. record # NoRecord => record.dir \in Version
    BY DEF IInv, Types, Records
  <2> QED BY <1>4, <2>1 DEF RecordHasItsPackage, IInv, Load, OnlyDir
<1>7. ASSUME NEW v \in OnDisk', crashes' = 0
      PROVE  \/ record' # NoRecord /\ v = record'.dir
             \/ v \in unregistered'
             \/ v \in InHand(job'[w])
  <2>1. CASE v = job[w].new
    BY <1>3, <2>1
  <2>2. CASE v # job[w].new
    <3>1. v \in OnDisk /\ crashes = 0
      BY <1>7, <2>2 DEF OnDisk, OnlyDir
    <3> QED BY <1>3, <2>2, <3>1 DEF IInv, NothingStray, OneWorker
  <2> QED BY <2>1, <2>2
<1> QED BY <1>2, <1>5, <1>6, <1>7, StepShows

\* os.Create truncates a file of the version that is downloaded, never of the one recorded.
LEMMA CreateFileKeeps ==
    ASSUME OneWorker, IInv, NEW w \in Worker, CreateFile(w) PROVE IInv'
<1>1. job[w].new \in Version
  BY InvGives DEF CreateFile, At, InOrder, Downloading
<1>2. OnlyDir(job[w].new)
  BY <1>1, OneDirectory DEF CreateFile, IInv
<1>3. Moved(w, "copy", job[w].op, job[w].new, job[w].inst, job[w].restart)
  BY GotoMoves DEF CreateFile, IInv, PCs
<1> QED BY <1>2, <1>3, DownloadStep DEF CreateFile, At, boundVars

\* io.Copy fills it.
LEMMA CopyFileKeeps ==
    ASSUME OneWorker, IInv, NEW w \in Worker, CopyFile(w) PROVE IInv'
<1>1. job[w].new \in Version
  BY InvGives DEF CopyFile, At, InOrder, Downloading
<1>2. OnlyDir(job[w].new)
  BY <1>1, OneDirectory DEF CopyFile, IInv
<1>3. Moved(w, "fetch", job[w].op, job[w].new, job[w].inst, job[w].restart)
  BY GotoMoves DEF CopyFile, IInv, PCs
<1> QED BY <1>2, <1>3, DownloadStep DEF CopyFile, At, boundVars

\* A download or an upgrade that fails deletes what it brought, and nothing the record
\* points at.
LEMMA FailureCleansUp ==
    ASSUME OneWorker, IInv, NEW w \in Worker, Downloading(job[w]) \/ Upgrading(job[w]),
           RemoveAll(job[w].new), Done(w),
           record' \in Records, record' # NoRecord <=> record # NoRecord,
           record # NoRecord => record'.dir = record.dir,
           UNCHANGED <<crashes, unregistered>>
    PROVE  IInv'
<1> DEFINE new == job[w].new
<1>1. new \in Version /\ (record # NoRecord => record.dir # new)
  BY InvGives DEF InOrder
<1>2. OnlyDir(new) /\ dirs'[new] = NoFiles
  BY <1>1, OneDirectory DEF IInv
<1>3. /\ job' = [x \in Worker |-> job'[x]] /\ JobTypes(job'[w])
      /\ job'[w].pc = "idle" /\ job'[w].op = "none"
  BY DoneMoves DEF Moved, IInv
<1>4. InHand(job[w]) = {new}
  BY DEF InHand
<1> HIDE DEF new
<1>5. Types'
  BY <1>2, <1>3 DEF Types, IInv, OneWorker, OnlyDir
<1>6. InOrder(w)'
  BY <1>3 DEF InOrder, OpOfPc, Downloading, Upgrading, HoldsRecord, At
<1>7. RecordHasItsPackage'
  <2>1. record # NoRecord => record.dir \in Version
    BY DEF IInv, Types, Records
  <2> QED BY <1>1, <1>2, <2>1 DEF RecordHasItsPackage, IInv, Load, OnlyDir
<1>8. ASSUME NEW v \in OnDisk', crashes' = 0
      PROVE  (record' # NoRecord /\ v = record'.dir) \/ v \in unregistered'
  <2>1. v # new /\ v \in OnDisk /\ crashes = 0
    BY <1>2, <1>8 DEF OnDisk, OnlyDir
  <2> QED BY <1>4, <2>1 DEF IInv, NothingStray, OneWorker
<1> QED BY <1>5, <1>6, <1>7, <1>8, StepShows

\* A file that could not be fetched.
LEMMA FetchFailsKeeps ==
    ASSUME OneWorker, IInv, NEW w \in Worker, FetchFails(w) PROVE IInv'
  BY FailureCleansUp DEF FetchFails, At, Downloading, NoLimits, IInv, Types

\* A request that leaves the download with all the files has them.
LEMMA VerifyVersionKeeps ==
    ASSUME OneWorker, IInv, NEW w \in Worker, VerifyVersion(w) PROVE IInv'
<1> DEFINE new == job[w].new
           pc  == IF job[w].op = "install" THEN "register" ELSE "upgrade"
<1>1. Downloading(job[w]) /\ UNCHANGED <<record, booted, crashes, unregistered>>
      /\ job[w].op \in {"install", "upgrade"}
  BY InvGives DEF VerifyVersion, At, Downloading, NoLimits, OpOfPc
<1>2. CASE RemoveAll(new) /\ Done(w)
  BY <1>1, <1>2, FailureCleansUp DEF IInv, Types
<1>3. CASE Load(new) /\ Goto(w, pc) /\ UNCHANGED dirs
  <2> DEFINE j == job'[w]
  <2>1. Moved(w, pc, job[w].op, new, job[w].inst, job[w].restart)
    BY <1>3, GotoMoves DEF IInv, PCs
  <2>2. /\ j.pc = pc /\ j.op = job[w].op /\ j.new = new
        /\ JobTypes(j) /\ job' = [x \in Worker |-> job'[x]]
    BY <2>1 DEF Moved
  <2>3. Types'
    BY <1>1, <1>3, <2>2 DEF Types, IInv, OneWorker
  <2>4. /\ OpOfPc(j) /\ Downloading(j) /\ ~Upgrading(j) /\ ~HoldsRecord(j) /\ pc # "cleanup"
        /\ InHand(job[w]) = {new} /\ InHand(j) = {new}
    BY <1>1, <2>2 DEF OpOfPc, Downloading, Upgrading, HoldsRecord, InHand
  <2>5. new \in Version /\ (record # NoRecord => record.dir # new) /\ booted
    BY <1>1, InvGives DEF InOrder, Downloading
  <2> HIDE DEF pc
  <2>7. InOrder(w)'
    BY <1>1, <2>2, <2>4, <2>5, <1>3 DEF InOrder, At, Load
  <2>8. RecordHasItsPackage'
    BY <1>1, <1>3 DEF RecordHasItsPackage, IInv, Load
  <2>9. ASSUME NEW v \in OnDisk', crashes' = 0
        PROVE  \/ record' # NoRecord /\ v = record'.dir
               \/ v \in unregistered'
               \/ v \in InHand(job'[w])
    <3>1. v \in OnDisk /\ crashes = 0
      BY <1>1, <1>3, <2>9 DEF OnDisk
    <3> QED BY <1>1, <2>4, <3>1 DEF IInv, NothingStray, OneWorker
  <2> QED BY <2>3, <2>7, <2>8, <2>9, StepShows
<1> QED BY <1>2, <1>3 DEF VerifyVersion

\* What is registered was loaded; what is not is left over, and known to be.
LEMMA InstallFromRegistryKeeps ==
    ASSUME OneWorker, IInv, NEW w \in Worker, InstallFromRegistry(w) PROVE IInv'
<1> DEFINE new == job[w].new
<1>1. Downloading(job[w]) /\ Done(w) /\ UNCHANGED <<dirs, booted, crashes>>
  BY DEF InstallFromRegistry, At, Downloading, NoLimits
<1>2. new \in Version
  BY <1>1, InvGives DEF InOrder
<1>3. /\ job' = [x \in Worker |-> job'[x]] /\ JobTypes(job'[w])
      /\ job'[w].pc = "idle" /\ job'[w].op = "none"
  BY <1>1, DoneMoves DEF Moved, IInv
<1>4. InHand(job[w]) = {new}
  BY <1>1 DEF InHand
<1>5. \/ /\ record = NoRecord /\ Load(new) /\ record' = [dir |-> new, status |-> "pending_setup"]
         /\ unregistered' = unregistered \ {new}
      \/ unregistered' = unregistered \cup {new} /\ UNCHANGED record
  BY DEF InstallFromRegistry
<1> HIDE DEF new
<1>6. record' \in Records
  BY <1>2, <1>5 DEF Records, Statuses, IInv, Types
<1>7. Types'
  BY <1>1, <1>3, <1>6 DEF Types, IInv, OneWorker
<1>8. InOrder(w)'
  BY <1>3 DEF InOrder, OpOfPc, Downloading, Upgrading, HoldsRecord, At
<1>9. RecordHasItsPackage'
  BY <1>1, <1>5 DEF RecordHasItsPackage, IInv, Load
<1>10. ASSUME NEW v \in OnDisk', crashes' = 0
       PROVE  (record' # NoRecord /\ v = record'.dir) \/ v \in unregistered'
  <2>1. v \in OnDisk /\ crashes = 0
    BY <1>1, <1>10 DEF OnDisk
  <2>2. \/ record # NoRecord /\ v = record.dir
        \/ v \in unregistered
        \/ v = new
    BY <1>4, <2>1 DEF IInv, NothingStray, OneWorker
  <2>3. CASE unregistered' = unregistered \cup {new} /\ UNCHANGED record
    BY <2>2, <2>3
  <2>4. CASE /\ record = NoRecord /\ record' = [dir |-> new, status |-> "pending_setup"]
             /\ unregistered' = unregistered \ {new}
    <3>1. record' # NoRecord
      BY <1>2, <2>4, PackagesAssumption DEF Statuses
    <3> QED BY <2>2, <2>4, <3>1
  <2> QED BY <1>5, <2>3, <2>4
<1> QED BY <1>7, <1>8, <1>9, <1>10, StepShows

-----------------------------------------------------------------------------
(***************************************************************************)
(* Stopping, and UpgradePlugin.                                            *)
(***************************************************************************)
\* UpgradeFails cleans up: the record never points at the new version yet.
LEMMA UpgradeFailsKeeps ==
    ASSUME OneWorker, IInv, NEW w \in Worker, UpgradeFails(w),
           At(w, "upgrade") \/ Upgrading(job[w]), UNCHANGED <<crashes, unregistered>>
    PROVE  IInv'
<1>1. Downloading(job[w]) \/ Upgrading(job[w])
  BY DEF At, Downloading
<1>2. record # NoRecord => record.dir # job[w].new
  BY <1>1, InvGives DEF InOrder
<1>3. RemoveAll(job[w].new) /\ Done(w) /\ UNCHANGED record
  BY <1>2 DEF UpgradeFails, Unused
<1> QED BY <1>1, <1>3, FailureCleansUp DEF IInv, Types

\* The next container of a list.
LEMMA StopContainerKeeps ==
    ASSUME OneWorker, IInv, NEW w \in Worker, StopContainer(w) PROVE IInv'
<1>1. SameFiles /\ UNCHANGED booted
  BY DEF StopContainer, SameFiles, boundVars, IInv, Types
<1>2. Moved(w, "stop", job[w].op, job[w].new, job[w].inst, job[w].restart)
  BY GotoMoves DEF StopContainer, IInv, PCs
<1> QED BY <1>1, <1>2, SameStep DEF StopContainer, At

\* A request that ends, where it was free.
LEMMA FreeEnds ==
    ASSUME OneWorker, IInv, NEW w \in Worker, Free(job[w]), SameFiles, Done(w) PROVE IInv'
<1>1. Moved(w, "idle", "none", NoRecord, NoRecord, FALSE)
  BY DoneMoves DEF IInv
<1>2. Free(job'[w])
  BY <1>1 DEF Moved, Free
<1> QED BY <1>1, <1>2, FreeStep

\* A stop that fails leaves the plugin as it is, or marks it failed, or gives the upgrade up.
LEMMA StopFailsKeeps ==
    ASSUME OneWorker, IInv, NEW w \in Worker, StopFails(w) PROVE IInv'
<1>1. At(w, "stop") /\ UNCHANGED <<crashes, unregistered, booted>>
  BY DEF StopFails, NoLimits
<1>2. job[w].op \in {"start", "stop", "upgrade", "uninstall"}
  BY <1>1, InvGives DEF OpOfPc, At
<1>3. CASE job[w].op = "start"
  <2>1. UpdateStatus("failed") /\ Done(w) /\ UNCHANGED dirs
    BY <1>3 DEF StopFails
  <2>2. SameFiles
    BY <1>1, <2>1, StatusOnly DEF SameFiles, IInv, Statuses
  <2>3. Free(job[w])
    BY <1>1, <1>3 DEF Free, At
  <2> QED BY <2>1, <2>2, <2>3, FreeEnds
<1>4. CASE job[w].op = "upgrade"
  <2>1. UpgradeFails(w)
    BY <1>4 DEF StopFails
  <2> QED BY <1>1, <1>4, <2>1, UpgradeFailsKeeps DEF Upgrading, At
<1>5. CASE job[w].op \in {"stop", "uninstall"}
  <2>1. Done(w) /\ UNCHANGED <<record, dirs>>
    BY <1>5 DEF StopFails
  <2>2. SameFiles
    BY <1>1, <2>1 DEF SameFiles, IInv, Types
  <2>3. Free(job[w])
    BY <1>1, <1>5 DEF Free, At
  <2> QED BY <2>1, <2>2, <2>3, FreeEnds
<1> QED BY <1>2, <1>3, <1>4, <1>5

\* stopCore saves the instance the request was given, which is the one recorded.
LEMMA StoppedSaves ==
    ASSUME IInv, NEW w \in Worker, At(w, "stop"), job[w].op # "start",
           record' = [job[w].inst EXCEPT !.status = "stopped"]
    PROVE  /\ record' \in Records /\ record' # NoRecord /\ record # NoRecord
           /\ record'.dir = record.dir /\ job[w].inst # NoRecord /\ job[w].inst.dir = record.dir
<1>1. record # NoRecord /\ job[w].inst # NoRecord /\ job[w].inst.dir = record.dir
  BY InvGives DEF InOrder, HoldsRecord, At
<1>2. job[w].inst \in Record
  BY <1>1, InvGives DEF JobTypes, Records, Record
<1>3. record' \in Record /\ record'.dir = record.dir
  BY <1>1, <1>2 DEF Record, Statuses
<1>4. record' # NoRecord
  BY <1>3, PackagesAssumption DEF Record
<1> QED BY <1>1, <1>3, <1>4 DEF Records, Record

\* A plugin that was stopped: to be left so, marked failed, deleted or switched.
LEMMA StoppedKeeps ==
    ASSUME OneWorker, IInv, NEW w \in Worker, Stopped(w) PROVE IInv'
<1>1. At(w, "stop") /\ UNCHANGED <<dirs, crashes, unregistered, booted>>
  BY DEF Stopped, boundVars
<1>2. job[w].op \in {"start", "stop", "upgrade", "uninstall"} /\ booted
  BY <1>1, InvGives DEF OpOfPc, At, InOrder
<1>3. CASE job[w].op = "start"
  <2>1. UpdateStatus("failed") /\ Done(w)
    BY <1>3 DEF Stopped
  <2>2. SameFiles
    BY <1>1, <2>1, StatusOnly DEF SameFiles, IInv, Statuses
  <2> QED BY <1>1, <1>3, <2>1, <2>2, FreeEnds DEF Free, At
<1>4. CASE job[w].op = "stop"
  <2>1. record' = [job[w].inst EXCEPT !.status = "stopped"] /\ Done(w)
    BY <1>4 DEF Stopped
  <2>2. SameFiles
    BY <1>1, <1>4, <2>1, StoppedSaves DEF SameFiles
  <2> QED BY <1>1, <1>4, <2>1, <2>2, FreeEnds DEF Free, At
<1>5. CASE job[w].op = "uninstall"
  <2>1. record' = [job[w].inst EXCEPT !.status = "stopped"] /\ Goto(w, "delete")
    BY <1>5 DEF Stopped
  <2>2. SameFiles /\ record # NoRecord /\ job[w].inst # NoRecord /\ job[w].inst.dir = record.dir
    BY <1>1, <1>5, <2>1, StoppedSaves DEF SameFiles
  <2>3. Moved(w, "delete", job[w].op, job[w].new, job[w].inst, job[w].restart)
    BY <2>1, GotoMoves DEF IInv, PCs
  <2>4. Free(job[w]) /\ Free(job'[w])
    BY <1>1, <1>5, <2>3 DEF Free, At, Moved
  <2> QED BY <1>1, <1>2, <2>2, <2>3, <2>4, FreeStep
<1>6. CASE job[w].op = "upgrade"
  <2> DEFINE j == job'[w]
             new == job[w].new
  <2>1. record' = [job[w].inst EXCEPT !.status = "stopped"] /\ Goto(w, "switch")
    BY <1>6 DEF Stopped
  <2>2. /\ record' \in Records /\ record' # NoRecord /\ record # NoRecord
        /\ record'.dir = record.dir /\ job[w].inst # NoRecord /\ job[w].inst.dir = record.dir
    BY <1>1, <1>6, <2>1, StoppedSaves
  <2>3. Moved(w, "switch", job[w].op, new, job[w].inst, job[w].restart)
    BY <2>1, GotoMoves DEF IInv, PCs
  <2>4. /\ j.pc = "switch" /\ j.op = "upgrade" /\ j.new = new /\ j.inst = job[w].inst
        /\ JobTypes(j) /\ job' = [x \in Worker |-> job'[x]]
    BY <1>6, <2>3 DEF Moved
  <2>5. Types'
    BY <1>1, <2>2, <2>4 DEF Types, IInv, OneWorker
  <2>6. /\ OpOfPc(j) /\ ~Downloading(j) /\ Upgrading(j) /\ HoldsRecord(j) /\ Upgrading(job[w])
        /\ InHand(job[w]) = {new} /\ InHand(j) = {new}
    BY <1>1, <1>6, <2>4 DEF OpOfPc, Downloading, Upgrading, HoldsRecord, InHand, At
  <2>7. new \in Version /\ record.dir # new /\ Load(new)
    BY <2>2, <2>6, InvGives DEF InOrder
  <2>8. InOrder(w)'
    BY <1>1, <1>2, <2>2, <2>4, <2>6, <2>7 DEF InOrder, At, Load
  <2>9. RecordHasItsPackage'
    BY <1>1, <2>2 DEF RecordHasItsPackage, IInv, Load
  <2>10. ASSUME NEW v \in OnDisk', crashes' = 0
         PROVE  \/ record' # NoRecord /\ v = record'.dir
                \/ v \in unregistered'
                \/ v \in InHand(job'[w])
    <3>1. v \in OnDisk /\ crashes = 0
      BY <1>1, <2>10 DEF OnDisk
    <3> QED BY <1>1, <2>2, <2>6, <3>1 DEF IInv, NothingStray, OneWorker
  <2> QED BY <2>5, <2>8, <2>9, <2>10, StepShows
<1> QED BY <1>2, <1>3, <1>4, <1>5, <1>6

\* A stop starts with the instance that is recorded.
LEMMA StopPluginKeeps ==
    ASSUME OneWorker, IInv, NEW w \in Worker, StopPlugin(w) PROVE IInv'
<1> DEFINE old == [IdleJob EXCEPT !.op = "stop", !.inst = record]
<1>1. /\ At(w, "idle") /\ booted /\ booted' = booted /\ record # NoRecord /\ BeginStop(w, old)
      /\ UNCHANGED <<record, dirs, crashes, unregistered>>
  BY DEF StopPlugin, HasStatus, boundVars
<1>2. record \in Records /\ Types
  BY DEF IInv, Types
<1>3. JobTypes(old) /\ old.op = "stop" /\ old.inst = record /\ old.new = NoRecord /\ old.restart = FALSE
  BY <1>2 DEF JobTypes, IdleJob, PCs, Ops
<1> HIDE DEF old
<1>4. Moved(w, "stop", old.op, old.new, old.inst, old.restart)
  BY <1>1, <1>2, <1>3, BeginStopMoves
<1>5. Free(job[w]) /\ Free(job'[w]) /\ SameFiles
  BY <1>1, <1>2, <1>3, <1>4 DEF Free, Moved, SameFiles, At
<1> QED BY <1>1, <1>3, <1>4, <1>5, FreeStep

\* So does an uninstallation.
LEMMA UninstallPluginKeeps ==
    ASSUME OneWorker, IInv, NEW w \in Worker, UninstallPlugin(w) PROVE IInv'
<1> DEFINE old == [IdleJob EXCEPT !.op = "uninstall", !.inst = record]
           deleting == [old EXCEPT !.pc = "delete"]
<1>1. /\ At(w, "idle") /\ booted /\ booted' = booted /\ record # NoRecord
      /\ BeginStop(w, old) \/ SetJob(w, deleting)
      /\ UNCHANGED <<record, dirs, crashes, unregistered>>
  BY DEF UninstallPlugin, boundVars
<1>2. record \in Records /\ Types
  BY DEF IInv, Types
<1>3. /\ JobTypes(old) /\ old.op = "uninstall" /\ old.inst = record /\ old.new = NoRecord
      /\ old.restart = FALSE
      /\ JobTypes(deleting) /\ deleting.op = "uninstall" /\ deleting.inst = record
      /\ deleting.pc = "delete"
  BY <1>2 DEF JobTypes, IdleJob, PCs, Ops
<1> HIDE DEF old, deleting
<1>4. CASE BeginStop(w, old)
  <2>1. Moved(w, "stop", old.op, old.new, old.inst, old.restart)
    BY <1>2, <1>3, <1>4, BeginStopMoves
  <2>2. Free(job[w]) /\ Free(job'[w]) /\ SameFiles
    BY <1>1, <1>2, <1>3, <2>1 DEF Free, Moved, SameFiles, At
  <2> QED BY <1>1, <1>3, <2>1, <2>2, FreeStep
<1>5. CASE SetJob(w, deleting)
  <2>1. Moved(w, "delete", deleting.op, deleting.new, deleting.inst, deleting.restart)
    BY <1>2, <1>3, <1>5, SetJobMoves
  <2>2. Free(job[w]) /\ Free(job'[w]) /\ SameFiles
    BY <1>1, <1>2, <1>3, <2>1 DEF Free, Moved, SameFiles, At
  <2> QED BY <1>1, <1>3, <2>1, <2>2, FreeStep
<1> QED BY <1>1, <1>4, <1>5

\* An upgrade takes the record as it is now.
LEMMA UpgradeGetKeeps ==
    ASSUME OneWorker, IInv, NEW w \in Worker, UpgradeGet(w) PROVE IInv'
<1> DEFINE new  == job[w].new
           held == [job[w] EXCEPT !.inst = record, !.restart = HasStatus({"running"})]
           next == [held EXCEPT !.pc = "switch"]
           j    == job'[w]
<1>1. /\ At(w, "upgrade") /\ UNCHANGED <<booted, crashes, unregistered>>
      /\ \/ UpgradeFails(w)
         \/ record # NoRecord /\ BeginStop(w, held) /\ UNCHANGED <<record, dirs>>
         \/ record # NoRecord /\ SetJob(w, next) /\ UNCHANGED <<record, dirs>>
  BY DEF UpgradeGet, HasStatus, boundVars
<1>2. /\ JobTypes(job[w]) /\ Types /\ record \in Records /\ job[w].op = "upgrade" /\ booted
      /\ Downloading(job[w]) /\ new \in Version /\ (record # NoRecord => record.dir # new) /\ Load(new)
  BY <1>1, InvGives DEF Types, InOrder, Downloading, At, OpOfPc
<1>3. HasStatus({"running"}) \in BOOLEAN
  BY DEF HasStatus
<1>4. /\ JobTypes(held) /\ held.op = "upgrade" /\ held.new = new /\ held.inst = record
      /\ JobTypes(next) /\ next.op = "upgrade" /\ next.new = new /\ next.inst = record
      /\ next.pc = "switch"
  BY <1>2, <1>3 DEF JobTypes, PCs
<1> HIDE DEF held, next
<1>5. CASE UpgradeFails(w)
  BY <1>1, <1>5, UpgradeFailsKeeps
<1>6. ASSUME record # NoRecord, BeginStop(w, held) \/ SetJob(w, next), UNCHANGED <<record, dirs>>
      PROVE  IInv'
  <2>1. /\ j.pc \in {"stop", "switch"} /\ j.op = "upgrade" /\ j.new = new /\ j.inst = record
        /\ JobTypes(j) /\ job' = [x \in Worker |-> job'[x]]
    BY <1>2, <1>4, <1>6, BeginStopMoves, SetJobMoves DEF Moved
  <2>2. Types'
    BY <1>1, <1>2, <1>6, <2>1 DEF Types, OneWorker
  <2>3. /\ OpOfPc(j) /\ ~Downloading(j) /\ Upgrading(j) /\ HoldsRecord(j) /\ j.pc # "cleanup"
        /\ InHand(job[w]) = {new} /\ InHand(j) = {new}
    BY <1>2, <2>1 DEF OpOfPc, Downloading, Upgrading, HoldsRecord, InHand
  <2>4. InOrder(w)'
    BY <1>1, <1>2, <1>6, <2>1, <2>3 DEF InOrder, At, Load
  <2>5. RecordHasItsPackage'
    BY <1>6 DEF RecordHasItsPackage, IInv, Load
  <2>6. ASSUME NEW v \in OnDisk', crashes' = 0
        PROVE  \/ record' # NoRecord /\ v = record'.dir
               \/ v \in unregistered'
               \/ v \in InHand(job'[w])
    <3>1. v \in OnDisk /\ crashes = 0
      BY <1>1, <1>6, <2>6 DEF OnDisk
    <3> QED BY <1>1, <1>6, <2>3, <3>1 DEF IInv, NothingStray, OneWorker
  <2> QED BY <2>2, <2>4, <2>5, <2>6, StepShows
<1> QED BY <1>1, <1>5, <1>6

\* A switched record points at the new version.
LEMMA SwitchedIsARecord ==
    ASSUME NEW inst \in Record, NEW new \in Version, NEW compatible \in BOOLEAN,
           NEW running \in BOOLEAN
    PROVE  /\ Switched(inst, new, compatible, running) \in Record
           /\ Switched(inst, new, compatible, running).dir = new
<1> DEFINE status == CASE ~compatible -> "ready"
                       [] compatible /\ running -> "stopped"
                       [] compatible /\ ~running ->
                             IF inst.status = "failed" THEN "ready" ELSE inst.status
<1>1. status \in Statuses
  BY DEF Record, Statuses
<1>2. Switched(inst, new, compatible, running) = [dir |-> new, status |-> status]
  BY DEF Switched
<1> HIDE DEF status
<1> QED BY <1>1, <1>2 DEF Record

\* The step that moves the record to the new version, with all its files.
LEMMA SwitchVersionKeeps ==
    ASSUME OneWorker, IInv, NEW w \in Worker, SwitchVersion(w) PROVE IInv'
<1> DEFINE new  == job[w].new
           old  == job[w].inst.dir
           inst == IF job[w].restart THEN record ELSE job[w].inst
           j    == job'[w]
<1>1. At(w, "switch") /\ UNCHANGED <<booted, crashes, unregistered>>
  BY DEF SwitchVersion, NoLimits
<1>2. /\ job[w].op = "upgrade" /\ booted /\ JobTypes(job[w]) /\ Types
  BY <1>1, InvGives DEF OpOfPc, At, InOrder
<1>3. Upgrading(job[w]) /\ HoldsRecord(job[w]) /\ InHand(job[w]) = {new}
  BY <1>1, <1>2 DEF Upgrading, HoldsRecord, InHand, At
<1>4. /\ new \in Version /\ Load(new) /\ record.dir # new
      /\ record # NoRecord /\ job[w].inst # NoRecord /\ old = record.dir
  BY <1>3, InvGives DEF InOrder
<1>5. /\ record \in Record /\ inst \in Record /\ job[w].inst \in Record
      /\ job[w].restart \in BOOLEAN
  BY <1>2, <1>4 DEF JobTypes, Types, Records, Record
<1>6. \/ \E compatible \in BOOLEAN, left \in SetToSeqs(OldImages(w) \ Images(SpecOf[new])) :
            /\ record' = Switched(inst, new, compatible, job[w].restart)
            /\ SetJob(w, [job[w] EXCEPT !.pc = "cleanup", !.left = left,
                                        !.restart = @ /\ compatible])
            /\ UNCHANGED dirs
      \/ /\ \E compatible \in BOOLEAN :
               record' \in {record, [Switched(inst, new, compatible, job[w].restart)
                                        EXCEPT !.dir = old]}
         /\ IF new # old THEN RemoveAll(new) ELSE UNCHANGED dirs
         /\ Done(w)
  BY <1>4 DEF SwitchVersion
<1> HIDE DEF new, old, inst
<1>7. ASSUME NEW compatible \in BOOLEAN, NEW left,
             record' = Switched(inst, new, compatible, job[w].restart),
             SetJob(w, [job[w] EXCEPT !.pc = "cleanup", !.left = left,
                                      !.restart = @ /\ compatible]),
             UNCHANGED dirs
      PROVE  IInv'
  <2> DEFINE next == [job[w] EXCEPT !.pc = "cleanup", !.left = left,
                                    !.restart = @ /\ compatible]
  <2>1. /\ JobTypes(next) /\ next.pc = "cleanup" /\ next.op = "upgrade" /\ next.new = new
        /\ next.inst = job[w].inst
    BY <1>2, <1>5 DEF JobTypes, PCs, new
  <2> HIDE DEF next
  <2>2. /\ j.pc = "cleanup" /\ j.op = "upgrade" /\ j.new = new /\ j.inst = job[w].inst
        /\ JobTypes(j) /\ job' = [x \in Worker |-> job'[x]]
    BY <1>2, <1>7, <2>1, SetJobMoves DEF Moved, next
  <2>3. record' \in Record /\ record'.dir = new
    BY <1>4, <1>5, <1>7, SwitchedIsARecord
  <2>4. record' # NoRecord
    BY <2>3, PackagesAssumption DEF Record
  <2>5. Types'
    BY <1>1, <1>2, <1>7, <2>2, <2>3 DEF Types, OneWorker, Records, Record
  <2>6. OpOfPc(j) /\ ~Downloading(j) /\ ~Upgrading(j) /\ ~HoldsRecord(j) /\ InHand(j) = {old}
    BY <2>2 DEF OpOfPc, Downloading, Upgrading, HoldsRecord, InHand, old
  <2>7. InOrder(w)'
    BY <1>1, <1>2, <1>4, <2>2, <2>3, <2>4, <2>6 DEF InOrder, At, old
  <2>8. RecordHasItsPackage'
    BY <1>4, <1>7, <2>3 DEF RecordHasItsPackage, Load
  <2>9. ASSUME NEW v \in OnDisk', crashes' = 0
        PROVE  \/ record' # NoRecord /\ v = record'.dir
               \/ v \in unregistered'
               \/ v \in InHand(job'[w])
    <3>1. v \in OnDisk /\ crashes = 0
      BY <1>1, <1>7, <2>9 DEF OnDisk
    <3>2. v = record.dir \/ v \in unregistered \/ v = new
      BY <1>3, <3>1 DEF IInv, NothingStray, OneWorker
    <3> QED BY <1>1, <1>4, <2>3, <2>4, <2>6, <3>2
  <2> QED BY <2>5, <2>7, <2>8, <2>9, StepShows
<1>8. ASSUME NEW compatible \in BOOLEAN,
             record' \in {record, [Switched(inst, new, compatible, job[w].restart) EXCEPT !.dir = old]},
             IF new # old THEN RemoveAll(new) ELSE UNCHANGED dirs, Done(w)
      PROVE  IInv'
  <2>1. RemoveAll(new)
    BY <1>4, <1>8
  <2>2. record' \in Record /\ record'.dir = record.dir
    <3>1. CASE record' = record
      BY <1>5, <3>1
    <3>2. CASE record' = [Switched(inst, new, compatible, job[w].restart) EXCEPT !.dir = old]
      <4>1. Switched(inst, new, compatible, job[w].restart) \in Record /\ old \in Version
        BY <1>4, <1>5, SwitchedIsARecord DEF Record
      <4>2. record' \in Record /\ record'.dir = old
        BY <3>2, <4>1 DEF Record
      <4> QED BY <1>4, <4>2
    <3> QED BY <1>8, <3>1, <3>2
  <2>3. record' # NoRecord /\ record' \in Records
    BY <2>2, PackagesAssumption DEF Record, Records
  <2> QED BY <1>1, <1>3, <1>4, <1>8, <2>1, <2>2, <2>3, FailureCleansUp DEF new
<1> QED BY <1>6, <1>7, <1>8

\* The old version of an upgrade, the only one of an uninstallation: nothing points at it.
LEMMA RemoveDirectoryKeeps ==
    ASSUME OneWorker, IInv, NEW w \in Worker, RemoveDirectory(w) PROVE IInv'
<1> DEFINE old == job[w].inst.dir
           j   == job'[w]
<1>1. At(w, "cleanup") /\ UNCHANGED <<record, booted, crashes, unregistered>> /\ Goto(w, "images")
  BY DEF RemoveDirectory, boundVars
<1>2. /\ JobTypes(job[w]) /\ Types /\ booted /\ job[w].inst # NoRecord
      /\ job[w].op \in {"upgrade", "uninstall"}
      /\ job[w].op = "upgrade" => record # NoRecord /\ record.dir # old /\ old # job[w].new
      /\ job[w].op = "uninstall" => record = NoRecord
  BY <1>1, InvGives DEF InOrder, OpOfPc, At
<1>3. RemoveAll(old) /\ old \in Version
  BY <1>1, <1>2 DEF RemoveDirectory, JobTypes, Records
<1>4. OnlyDir(old) /\ dirs'[old] = NoFiles
  BY <1>2, <1>3, OneDirectory
<1>5. InHand(job[w]) = {old}
  BY <1>1 DEF InHand, Downloading, Upgrading, At
<1> HIDE DEF old
<1>6. /\ j.pc = "images" /\ j.op = job[w].op
      /\ JobTypes(j) /\ job' = [x \in Worker |-> job'[x]]
  BY <1>1, <1>2, GotoMoves DEF Moved, PCs
<1>7. Types'
  BY <1>1, <1>2, <1>4, <1>6 DEF Types, OneWorker, OnlyDir
<1>8. InOrder(w)'
  BY <1>1, <1>2, <1>6 DEF InOrder, OpOfPc, Downloading, Upgrading, HoldsRecord, At
<1>9. RecordHasItsPackage'
  <2>1. record # NoRecord => record.dir \in Version /\ record.dir # old
    BY <1>2 DEF Types, Records
  <2> QED BY <1>1, <1>4, <2>1 DEF RecordHasItsPackage, IInv, Load, OnlyDir
<1>10. ASSUME NEW v \in OnDisk', crashes' = 0
       PROVE  (record' # NoRecord /\ v = record'.dir) \/ v \in unregistered'
  <2>1. v # old /\ v \in OnDisk /\ crashes = 0
    BY <1>1, <1>4, <1>10 DEF OnDisk, OnlyDir
  <2> QED BY <1>1, <1>5, <2>1 DEF IInv, NothingStray, OneWorker
<1> QED BY <1>7, <1>8, <1>9, <1>10, StepShows

\* The record goes before the files do.
LEMMA DeletePluginKeeps ==
    ASSUME OneWorker, IInv, NEW w \in Worker, DeletePlugin(w) PROVE IInv'
<1> DEFINE j == job'[w]
<1>1. At(w, "delete") /\ UNCHANGED <<dirs, booted, crashes, unregistered>>
      /\ (\/ Done(w) /\ UNCHANGED record
          \/ record' = NoRecord /\ \E left \in SetToSeqs(OldImages(w)) : GotoWith(w, "cleanup", left))
  BY DEF DeletePlugin, NoLimits
<1>2. /\ JobTypes(job[w]) /\ Types /\ booted /\ job[w].op = "uninstall"
  BY <1>1, InvGives DEF InOrder, OpOfPc, At
<1>3. record # NoRecord /\ job[w].inst # NoRecord /\ job[w].inst.dir = record.dir
  BY <1>1, InvGives DEF InOrder, HoldsRecord, At
<1>4. Free(job[w]) /\ InHand(job[w]) = {}
  BY <1>1, <1>2 DEF Free, InHand, Downloading, Upgrading, At
<1>5. CASE Done(w) /\ UNCHANGED record
  <2>1. SameFiles
    BY <1>1, <1>2, <1>5 DEF SameFiles, Types
  <2> QED BY <1>4, <1>5, <2>1, FreeEnds
<1>6. CASE record' = NoRecord /\ \E left \in SetToSeqs(OldImages(w)) : GotoWith(w, "cleanup", left)
  <2>1. /\ j.pc = "cleanup" /\ j.op = "uninstall" /\ j.inst = job[w].inst
        /\ JobTypes(j) /\ job' = [x \in Worker |-> job'[x]]
    BY <1>2, <1>6, GotoMoves DEF Moved, PCs
  <2>2. Types'
    BY <1>1, <1>2, <1>6, <2>1 DEF Types, OneWorker, Records
  <2>3. /\ OpOfPc(j) /\ ~Downloading(j) /\ ~Upgrading(j) /\ ~HoldsRecord(j)
        /\ InHand(j) = {record.dir}
    BY <1>3, <2>1 DEF OpOfPc, Downloading, Upgrading, HoldsRecord, InHand
  <2>4. InOrder(w)'
    BY <1>1, <1>2, <1>3, <1>6, <2>1, <2>3 DEF InOrder, At
  <2>5. RecordHasItsPackage'
    BY <1>6 DEF RecordHasItsPackage
  <2>6. ASSUME NEW v \in OnDisk', crashes' = 0
        PROVE  v \in unregistered' \/ v \in InHand(job'[w])
    <3>1. v \in OnDisk /\ crashes = 0
      BY <1>1, <2>6 DEF OnDisk
    <3> QED BY <1>1, <1>4, <2>3, <3>1 DEF IInv, NothingStray, OneWorker
  <2> QED BY <2>2, <2>4, <2>5, <2>6, StepShows
<1> QED BY <1>1, <1>5, <1>6

\* An image at a time.
LEMMA RemoveImageKeeps ==
    ASSUME OneWorker, IInv, NEW w \in Worker, RemoveImage(w) PROVE IInv'
<1>1. SameFiles /\ UNCHANGED booted
  BY DEF RemoveImage, SameFiles, NoLimits, IInv, Types
<1>2. Moved(w, "images", job[w].op, job[w].new, job[w].inst, job[w].restart)
  BY GotoMoves DEF RemoveImage, IInv, PCs
<1> QED BY <1>1, <1>2, SameStep DEF RemoveImage, At

-----------------------------------------------------------------------------
(***************************************************************************)
(* Starting: no step of it touches the files.                              *)
(***************************************************************************)
\* A request that was free starts something.
LEMMA FreeStarts ==
    ASSUME OneWorker, IInv, NEW w \in Worker, NEW inst \in Records,
           Free(job[w]), SameFiles, booted', BeginStart(w, inst)
    PROVE  IInv'
<1>1. Moved(w, "pull", "start", NoRecord, inst, FALSE)
  BY BeginStartMoves DEF IInv
<1>2. Free(job'[w])
  BY <1>1 DEF Moved, Free
<1> QED BY <1>1, <1>2, FreeStep

\* Nobody moves but the record's status.
LEMMA NobodyMoves ==
    ASSUME OneWorker, IInv, NEW w \in Worker, SameFiles, UNCHANGED <<job, booted>>
    PROVE  IInv'
<1>1. Moved(w, job[w].pc, job[w].op, job[w].new, job[w].inst, job[w].restart)
  BY DEF Moved, IInv, Types
<1> QED BY <1>1, SameStep

\* The first save of the configuration.
LEMMA ConfigPluginKeeps ==
    ASSUME OneWorker, IInv, NEW w \in Worker, ConfigPlugin(w) PROVE IInv'
<1>1. SameFiles
  BY StatusOnly DEF ConfigPlugin, HasStatus, SameFiles, Statuses, IInv, boundVars
<1> QED BY <1>1, NobodyMoves DEF ConfigPlugin, boundVars

\* What is recorded is started.
LEMMA StartPluginKeeps ==
    ASSUME OneWorker, IInv, NEW w \in Worker, StartPlugin(w) PROVE IInv'
<1>1. SameFiles /\ record \in Records
  BY DEF StartPlugin, SameFiles, IInv, Types, NoLimits
<1> QED BY <1>1, FreeStarts DEF StartPlugin, Free, At

\* The end of an upgrade or an uninstallation, and the restart of what was running.
LEMMA FinishKeeps ==
    ASSUME OneWorker, IInv, NEW w \in Worker, Finish(w) PROVE IInv'
<1>1. /\ SameFiles /\ At(w, "images") /\ UNCHANGED booted
      /\ \/ job[w].restart /\ BeginStart(w, [dir |-> job[w].new, status |-> "stopped"])
         \/ Done(w)
  BY DEF Finish, SameFiles, IInv, Types, NoLimits
<1>2. Free(job[w]) /\ booted'
  BY <1>1, InvGives DEF Free, At, InOrder
<1>3. CASE Done(w)
  BY <1>1, <1>2, <1>3, FreeEnds
<1>4. CASE job[w].restart /\ BeginStart(w, [dir |-> job[w].new, status |-> "stopped"])
  <2>1. job[w].new \in Version
    BY <1>4, InvGives DEF JobTypes
  <2>2. [dir |-> job[w].new, status |-> "stopped"] \in Records
    BY <2>1 DEF Records, Statuses
  <2> QED BY <1>1, <1>2, <1>4, <2>2, FreeStarts
<1> QED BY <1>1, <1>3, <1>4

\* An image at a time.
LEMMA PullImageKeeps ==
    ASSUME OneWorker, IInv, NEW w \in Worker, PullImage(w) PROVE IInv'
<1>1. SameFiles /\ UNCHANGED booted
  BY StatusOnly DEF PullImage, SameFiles, NoLimits, IInv, Statuses
<1>2. Moved(w, "pull", job[w].op, job[w].new, job[w].inst, job[w].restart)
  BY GotoMoves DEF PullImage, IInv, PCs
<1> QED BY <1>1, <1>2, SameStep DEF PullImage, At

\* One that cannot be pulled ends the start.
LEMMA PullFailsKeeps ==
    ASSUME OneWorker, IInv, NEW w \in Worker, PullFails(w) PROVE IInv'
<1>1. SameFiles
  BY StatusOnly DEF PullFails, SameFiles, NoLimits, IInv, Statuses
<1> QED BY <1>1, FreeEnds DEF PullFails, Free, At

\* A start that fails goes on to stop what it made.
LEMMA StartStops ==
    ASSUME OneWorker, IInv, NEW w \in Worker, job[w].pc \in {"pull", "containers", "undo"},
           SameFiles, UNCHANGED booted, BeginStop(w, job[w])
    PROVE  IInv'
<1>1. JobTypes(job[w]) /\ job[w].op = "start" /\ booted
  BY InvGives DEF OpOfPc, InOrder
<1>2. Moved(w, "stop", "start", job[w].new, job[w].inst, job[w].restart)
  BY <1>1, BeginStopMoves DEF IInv
<1>3. Free(job[w]) /\ Free(job'[w])
  BY <1>2 DEF Moved, Free
<1> QED BY <1>1, <1>2, <1>3, FreeStep

\* A start that goes on.
LEMMA StartGoesOn ==
    ASSUME OneWorker, IInv, NEW w \in Worker, job[w].pc \in {"pull", "containers", "undo"},
           NEW pc \in {"pull", "containers", "undo"},
           SameFiles, UNCHANGED booted,
           Moved(w, pc, job[w].op, job[w].new, job[w].inst, job[w].restart)
    PROVE  IInv'
<1>1. job[w].op = "start" /\ booted
  BY InvGives DEF OpOfPc, InOrder
<1>2. Free(job[w]) /\ Free(job'[w])
  BY DEF Moved, Free
<1> QED BY <1>1, <1>2, FreeStep

\* The services in an order, whichever the sort yields, or none.
LEMMA SortServicesKeeps ==
    ASSUME OneWorker, IInv, NEW w \in Worker, SortServices(w) PROVE IInv'
<1>1. SameFiles /\ UNCHANGED booted /\ job[w].pc = "pull"
  BY StatusOnly DEF SortServices, SameFiles, IInv, Statuses, boundVars, At
<1>2. BeginStop(w, job[w]) \/ \E sorted : GotoWith(w, "containers", sorted)
  BY DEF SortServices
<1>3. CASE BeginStop(w, job[w])
  BY <1>1, <1>3, StartStops
<1>4. ASSUME NEW sorted, GotoWith(w, "containers", sorted) PROVE IInv'
  <2>1. Moved(w, "containers", job[w].op, job[w].new, job[w].inst, job[w].restart)
    BY <1>4, GotoMoves DEF IInv, PCs
  <2> QED BY <1>1, <2>1, StartGoesOn
<1> QED BY <1>2, <1>3, <1>4

\* A container at a time.
LEMMA StartContainerKeeps ==
    ASSUME OneWorker, IInv, NEW w \in Worker, StartContainer(w) PROVE IInv'
<1>1. SameFiles /\ UNCHANGED booted
  BY DEF StartContainer, SameFiles, IInv, Types, boundVars
<1>2. Moved(w, "containers", job[w].op, job[w].new, job[w].inst, job[w].restart)
  BY GotoMoves DEF StartContainer, IInv, PCs
<1> QED BY <1>1, <1>2, SameStep DEF StartContainer, At

\* One that fails.
LEMMA StartFailsKeeps ==
    ASSUME OneWorker, IInv, NEW w \in Worker, StartFails(w) PROVE IInv'
<1>1. SameFiles /\ UNCHANGED booted /\ job[w].pc = "containers"
  BY DEF StartFails, SameFiles, IInv, Types, NoLimits, At
<1>2. Moved(w, "undo", job[w].op, job[w].new, job[w].inst, job[w].restart)
  BY GotoMoves DEF StartFails, IInv, PCs
<1> QED BY <1>1, <1>2, StartGoesOn

\* What a start made is stopped.
LEMMA UndoStartKeeps ==
    ASSUME OneWorker, IInv, NEW w \in Worker, UndoStart(w) PROVE IInv'
  BY StartStops DEF UndoStart, SameFiles, IInv, Types, boundVars, At

\* The last container runs.
LEMMA MarkRunningKeeps ==
    ASSUME OneWorker, IInv, NEW w \in Worker, MarkRunning(w) PROVE IInv'
<1>1. SameFiles
  BY StatusOnly DEF MarkRunning, SameFiles, IInv, Statuses, boundVars
<1> QED BY <1>1, FreeEnds DEF MarkRunning, Free, At

-----------------------------------------------------------------------------
(***************************************************************************)
(* The daemon dies and comes back.                                         *)
(***************************************************************************)
\* A crash forgets the requests: what they had in hand stays on disk, but no file is taken
\* from the record.
LEMMA CrashKeeps ==
    ASSUME OneWorker, IInv, Crash PROVE IInv'
<1>1. /\ UNCHANGED <<record, dirs>> /\ job' = [w \in Worker |-> IdleJob]
      /\ crashes' = crashes + 1
  BY DEF Crash
<1>2. JobTypes(IdleJob) /\ IdleJob.pc = "idle" /\ IdleJob.op = "none"
  BY DEF IdleJob, JobTypes, PCs, Ops, Records
<1>3. job' = [w \in Worker |-> job'[w]] /\ \A w \in Worker : job'[w] = IdleJob
  BY <1>1
<1>4. Types'
  BY <1>1, <1>2, <1>3 DEF Types, IInv
<1>5. JobsInOrder'
  BY <1>2, <1>3 DEF JobsInOrder, InOrder, OpOfPc, Downloading, Upgrading, HoldsRecord, At
<1>6. RecordHasItsPackage'
  BY <1>1 DEF RecordHasItsPackage, IInv, Load
<1>7. crashes' # 0
  BY <1>1 DEF IInv, Types
<1> QED BY <1>4, <1>5, <1>6, <1>7 DEF IInv, NothingStray

\* The restore loop starts what was running.
LEMMA RestoreKeeps ==
    ASSUME OneWorker, IInv, NEW w \in Worker, Restore(w) PROVE IInv'
<1>1. ~booted /\ booted' /\ UNCHANGED <<dirs, crashes, unregistered>>
  BY DEF Restore, NoLimits
<1>2. job[w].pc = "idle" /\ Free(job[w]) /\ Types
  BY <1>1, InvGives DEF InOrder, Free
<1>3. CASE UNCHANGED job /\ (UNCHANGED record \/ (record # NoRecord /\ Saved("failed")))
  <2>1. SameFiles
    BY <1>1, <1>2, <1>3, StatusOnly DEF SameFiles, Types, Statuses
  <2>2. Moved(w, "idle", job[w].op, job[w].new, job[w].inst, job[w].restart)
    BY <1>2, <1>3 DEF Moved, Types
  <2>3. Free(job'[w])
    BY <1>2, <1>3
  <2> QED BY <1>1, <1>2, <2>1, <2>2, <2>3, FreeStep
<1>4. CASE /\ record # NoRecord /\ Saved("stopped")
           /\ BeginStart(w, [record EXCEPT !.status = "stopped"])
  <2>1. SameFiles
    BY <1>1, <1>2, <1>4, StatusOnly DEF SameFiles, Statuses
  <2>2. [record EXCEPT !.status = "stopped"] \in Records
    BY <1>2, <1>4 DEF Types, Records, Statuses
  <2> QED BY <1>1, <1>2, <1>4, <2>1, <2>2, FreeStarts
<1> QED BY <1>3, <1>4 DEF Restore, HasStatus

\* The list of images is no concern of the files, and neither is a step that changes nothing.
LEMMA UnchangedKeeps ==
    ASSUME IInv, UNCHANGED <<record, dirs, job, booted, crashes, unregistered>> PROVE IInv'
<1>1. Types'
  BY DEF IInv, Types
<1>2. JobsInOrder'
  BY DEF IInv, JobsInOrder, InOrder, At, Load
<1>3. RecordHasItsPackage' /\ NothingStray'
  BY DEF IInv, RecordHasItsPackage, NothingStray, Load, OnDisk
<1> QED BY <1>1, <1>2, <1>3 DEF IInv

-----------------------------------------------------------------------------
(***************************************************************************)
(* The theorems.                                                           *)
(***************************************************************************)
\* Each handler's step keeps the invariant.
LEMMA WorkerKeeps ==
    ASSUME OneWorker, IInv, NEW w \in Worker, Download(w) \/ Change(w) \/ Run(w)
    PROVE  IInv'
<1>1. CASE Download(w)
  <2>1. ASSUME NEW v \in Version, InstallRegistryPlugin(w, v) PROVE IInv'
    BY <2>1, InstallRegistryPluginKeeps
  <2>2. ASSUME NEW v \in Version, UpgradeRegistryPlugin(w, v) PROVE IInv'
    BY <2>2, UpgradeRegistryPluginKeeps
  <2>3. CASE CreateFile(w)
    BY <2>3, CreateFileKeeps
  <2>4. CASE CopyFile(w)
    BY <2>4, CopyFileKeeps
  <2>5. CASE FetchFails(w)
    BY <2>5, FetchFailsKeeps
  <2>6. CASE VerifyVersion(w)
    BY <2>6, VerifyVersionKeeps
  <2>7. CASE InstallFromRegistry(w)
    BY <2>7, InstallFromRegistryKeeps
  <2> QED BY <1>1, <2>1, <2>2, <2>3, <2>4, <2>5, <2>6, <2>7 DEF Download
<1>2. CASE Change(w)
  <2>1. CASE UpgradeGet(w)
    BY <2>1, UpgradeGetKeeps
  <2>2. CASE SwitchVersion(w)
    BY <2>2, SwitchVersionKeeps
  <2>3. CASE UninstallPlugin(w)
    BY <2>3, UninstallPluginKeeps
  <2>4. CASE DeletePlugin(w)
    BY <2>4, DeletePluginKeeps
  <2>5. CASE RemoveDirectory(w)
    BY <2>5, RemoveDirectoryKeeps
  <2>6. CASE RemoveImage(w)
    BY <2>6, RemoveImageKeeps
  <2>7. CASE Finish(w)
    BY <2>7, FinishKeeps
  <2>8. CASE ConfigPlugin(w)
    BY <2>8, ConfigPluginKeeps
  <2> QED BY <1>2, <2>1, <2>2, <2>3, <2>4, <2>5, <2>6, <2>7, <2>8 DEF Change
<1>3. CASE Run(w)
  <2>1. CASE StartPlugin(w)
    BY <2>1, StartPluginKeeps
  <2>2. CASE PullImage(w)
    BY <2>2, PullImageKeeps
  <2>3. CASE PullFails(w)
    BY <2>3, PullFailsKeeps
  <2>4. CASE SortServices(w)
    BY <2>4, SortServicesKeeps
  <2>5. CASE StartContainer(w)
    BY <2>5, StartContainerKeeps
  <2>6. CASE StartFails(w)
    BY <2>6, StartFailsKeeps
  <2>7. CASE UndoStart(w)
    BY <2>7, UndoStartKeeps
  <2>8. CASE MarkRunning(w)
    BY <2>8, MarkRunningKeeps
  <2>9. CASE StopPlugin(w)
    BY <2>9, StopPluginKeeps
  <2>10. CASE StopContainer(w)
    BY <2>10, StopContainerKeeps
  <2>11. CASE StopFails(w)
    BY <2>11, StopFailsKeeps
  <2>12. CASE Stopped(w)
    BY <2>12, StoppedKeeps
  <2>13. CASE Restore(w)
    BY <2>13, RestoreKeeps
  <2> QED BY <1>3, <2>1, <2>2, <2>3, <2>4, <2>5, <2>6, <2>7, <2>8, <2>9, <2>10, <2>11, <2>12,
             <2>13 DEF Run
<1> QED BY <1>1, <1>2, <1>3

\* The inductive invariant: what each step of a request may take for granted of the files and
\* of the record.
THEOREM Invariance == OneWorker => (Spec => []IInv)
<1> SUFFICES ASSUME OneWorker PROVE Spec => []IInv
  OBVIOUS
<1>1. IInv /\ [Next]_vars => IInv'
  <2> SUFFICES ASSUME IInv, [Next]_vars PROVE IInv'
    OBVIOUS
  <2>1. ASSUME NEW w \in Worker, Download(w) \/ Change(w) \/ Run(w) PROVE IInv'
    BY <2>1, WorkerKeeps
  <2>2. CASE Crash
    BY <2>2, CrashKeeps
  <2>3. ASSUME NEW i \in AllImages, Revoke(i) PROVE IInv'
    BY <2>3, UnchangedKeeps DEF Revoke
  <2>4. CASE UNCHANGED vars
    BY <2>4, UnchangedKeeps DEF vars, boundVars
  <2> QED BY <2>1, <2>2, <2>3, <2>4 DEF Next
<1> QED BY <1>1, InitIInv, PTL DEF Spec

\* An installed plugin has every file of its package, at each step of a download, an upgrade
\* and an uninstallation, whichever calls fail and wherever the daemon dies, when requests
\* come one at a time (service.UpgradePlugin, UninstallPlugin).
THEOREM PackageStays == OneWorker => (Spec => []RecordHasItsPackage)
<1>1. IInv => RecordHasItsPackage
  BY DEF IInv
<1> QED BY <1>1, Invariance, PTL

\* Between requests, if the daemon never died, the disk holds the installed version and what
\* an install could not register ("clean up to avoid leftovers", handlers_registry.go:298).
THEOREM DiskIsClean == OneWorker => (Spec => []NoLeftovers)
<1> SUFFICES ASSUME OneWorker PROVE Spec => []NoLeftovers
  OBVIOUS
<1>1. IInv => NoLeftovers
  <2> SUFFICES ASSUME IInv, Quiet, crashes = 0, NEW v \in OnDisk
               PROVE  v \in {record.dir : r \in {record} \ {NoRecord}} \/ v \in unregistered
    BY DEF NoLeftovers
  <2>1. \A w \in Worker : InHand(job[w]) = {}
    BY DEF Quiet, At, InHand, Downloading, Upgrading
  <2>2. (record # NoRecord /\ v = record.dir) \/ v \in unregistered
    BY <2>1 DEF IInv, NothingStray
  <2> QED BY <2>2
<1>2. Spec => []IInv
  BY Invariance
<1> QED BY <1>1, <1>2, PTL

-----------------------------------------------------------------------------
(***************************************************************************)
(* Types, for any number of requests at once: what a request holds depends *)
(* on where it is, and on nobody else.                                     *)
(***************************************************************************)
Package == [Version -> [DOMAIN Files -> {"none", "part", "whole"}]]
Container == [image : AllImages, up : BOOLEAN]
Counts ==
    /\ faults \in 0..MaxFaults /\ crashes \in 0..MaxCrashes
    /\ revocations \in 0..MaxRevocations

StateTypes ==
    /\ record \in Records
    /\ dirs \in Package
    /\ images \subseteq AllImages /\ approved \subseteq AllImages
    /\ containers \in [Service -> Container \cup {NoContainer}]
    /\ booted \in BOOLEAN
    /\ Counts
    /\ unregistered \subseteq Version

OpsAt(pc) ==
    CASE pc \in {"fetch", "copy"}               -> {"install", "upgrade"}
      [] pc \in {"upgrade", "switch"}           -> {"upgrade"}
      [] pc = "stop"                            -> {"start", "stop", "upgrade", "uninstall"}
      [] pc = "delete"                          -> {"uninstall"}
      [] pc \in {"cleanup", "images"}           -> {"upgrade", "uninstall"}
      [] pc \in {"pull", "containers", "undo"}  -> {"start"}
      [] OTHER                                  -> Ops

\* What a request holds: a version if it downloads or upgrades, else a record.
Holds(pc, op, new, inst, restart) ==
    /\ pc \in PCs /\ op \in OpsAt(pc) /\ op \in Ops
    /\ new \in Version \cup {NoRecord} /\ inst \in Records /\ restart \in BOOLEAN
    /\ op = "upgrade" \/ pc \in {"fetch", "copy", "register"} => new \in Version
    /\ restart => op = "upgrade"
    /\ pc \notin {"idle", "fetch", "copy", "register", "upgrade"} => inst # NoRecord

\* What it has left to do, and that it has nothing left once it is done.
ToDo(pc, inst) ==
    CASE pc \in {"cleanup", "images"}           -> AllImages
      [] pc \in {"pull", "containers", "undo"}  -> DOMAIN SpecOf[inst.dir]
      [] pc \in {"fetch", "copy"}               -> ToSet(Files)
      [] pc = "stop"                            -> Service
      [] OTHER                                  -> {}

JobOK(j) ==
    /\ j \in [pc : PCs, op : Ops, new : Version \cup {NoRecord}, inst : Records,
              left : {j.left}, restart : BOOLEAN]
    /\ Holds(j.pc, j.op, j.new, j.inst, j.restart)
    /\ j.left \in Seq(ToDo(j.pc, j.inst)) /\ (j.pc = "copy" => j.left # <<>>)

TInv ==
    /\ StateTypes
    /\ job = [w \in Worker |-> job[w]]
    /\ \A w \in Worker : JobOK(job[w])

-----------------------------------------------------------------------------
\* The services, and the images of all versions or of one, are finitely many.
LEMMA FinitelyMany ==
    /\ IsFiniteSet(Service)
    /\ \A v \in Version : /\ IsFiniteSet(DOMAIN SpecOf[v]) /\ DOMAIN SpecOf[v] \subseteq Service
                          /\ IsFiniteSet(Images(SpecOf[v])) /\ Images(SpecOf[v]) \subseteq AllImages
<1>1. IsFiniteSet(Service)
  <2> DEFINE T == {DOMAIN SpecOf[v] : v \in Version}
             f == [v \in Version |-> DOMAIN SpecOf[v]]
  <2>1. f \in Surjection(Version, T)
    BY DEF Surjection
  <2>2. IsFiniteSet(T)
    <3> HIDE DEF f, T
    <3> QED BY <2>1, FS_Surjection, PackagesAssumption
  <2>3. \A t \in T : IsFiniteSet(t)
    BY PackagesAssumption DEF IsBootSpec
  <2> QED BY <2>2, <2>3, FS_UNION DEF Service
<1>2. ASSUME NEW v \in Version
      PROVE  /\ IsFiniteSet(DOMAIN SpecOf[v]) /\ DOMAIN SpecOf[v] \subseteq Service
             /\ IsFiniteSet(Images(SpecOf[v])) /\ Images(SpecOf[v]) \subseteq AllImages
  <2> DEFINE D == DOMAIN SpecOf[v]
             f == [s \in D |-> SpecOf[v][s].image]
  <2>1. IsFiniteSet(D)
    BY PackagesAssumption DEF IsBootSpec
  <2>2. f \in Surjection(D, Images(SpecOf[v]))
    BY DEF Surjection, Images
  <2>3. IsFiniteSet(Images(SpecOf[v]))
    <3> HIDE DEF f, D
    <3> QED BY <2>1, <2>2, FS_Surjection
  <2> QED BY <2>1, <2>3 DEF Service, AllImages
<1> QED BY <1>1, <1>2

\* A tail has no new elements.
LEMMA TailStays ==
    ASSUME NEW S, NEW s \in Seq(S), s # <<>>
    PROVE  Tail(s) \in Seq(S) /\ Head(s) \in S
  OBVIOUS

\* The empty list is a list of anything.
LEMMA NothingLeft == \A S : <<>> \in Seq(S)
  OBVIOUS

\* A call fails within the bound on faults, or none does.
LEMMA CountsHold ==
    ASSUME StateTypes, ((Fails \/ Succeeds) /\ NoLimits) \/ UNCHANGED boundVars
    PROVE  Counts'
  BY PackagesAssumption DEF StateTypes, Counts, Fails, Succeeds, NoLimits, boundVars

\* One request changes what it holds.
LEMMA JobReplaced ==
    ASSUME TInv, StateTypes', NEW w \in Worker, NEW j, JobOK(j), SetJob(w, j)
    PROVE  TInv'
<1>1. job' = [x \in Worker |-> job'[x]] /\ job'[w] = j
      /\ \A x \in Worker \ {w} : job'[x] = job[x]
  BY DEF SetJob, TInv
<1>2. ASSUME NEW x \in Worker PROVE JobOK(job'[x])
  BY <1>1 DEF TInv
<1> QED BY <1>1, <1>2 DEF TInv

\* It goes on, with what it holds.
LEMMA JobGoesOn ==
    ASSUME TInv, StateTypes', NEW w \in Worker, NEW pc, NEW left,
           \/ Goto(w, pc) /\ left = Left(w)
           \/ GotoWith(w, pc, left)
           \/ Advance(w) /\ At(w, pc) /\ left = Tail(Left(w)),
           Holds(pc, job[w].op, job[w].new, job[w].inst, job[w].restart),
           left \in Seq(ToDo(pc, job[w].inst)), pc = "copy" => left # <<>>
    PROVE  TInv'
<1> DEFINE old == job[w]
           Goes(j) == /\ j.pc = pc /\ j.op = old.op /\ j.new = old.new /\ j.inst = old.inst
                      /\ j.left = left /\ j.restart = old.restart
                      /\ j \in [pc : PCs, op : Ops, new : Version \cup {NoRecord},
                                inst : Records, left : {j.left}, restart : BOOLEAN]
<1>1. /\ JobOK(old)
      /\ old \in [pc : PCs, op : Ops, new : Version \cup {NoRecord}, inst : Records,
                  left : {old.left}, restart : BOOLEAN]
      /\ pc \in PCs
  BY DEF TInv, JobOK, Holds
<1>2. ASSUME NEW j, Goes(j) PROVE JobOK(j)
  BY <1>2 DEF JobOK
<1>3. CASE Goto(w, pc) /\ left = Left(w)
  <2>1. Goes([old EXCEPT !.pc = pc])
    BY <1>1, <1>3 DEF Left
  <2> QED BY <1>2, <1>3, <2>1, JobReplaced DEF Goto
<1>4. CASE GotoWith(w, pc, left)
  <2>1. Goes([old EXCEPT !.pc = pc, !.left = left])
    BY <1>1
  <2> QED BY <1>2, <1>4, <2>1, JobReplaced DEF GotoWith
<1>5. CASE Advance(w) /\ At(w, pc) /\ left = Tail(Left(w))
  <2>1. Goes([old EXCEPT !.left = Tail(old.left)])
    BY <1>1, <1>5 DEF Left, At
  <2>2. SetJob(w, [old EXCEPT !.left = Tail(old.left)])
    BY <1>1, <1>5 DEF Advance
  <2> QED BY <1>2, <2>1, <2>2, JobReplaced
<1> QED BY <1>3, <1>4, <1>5

\* It ends.
LEMMA JobEnds ==
    ASSUME TInv, StateTypes', NEW w \in Worker, Done(w) PROVE TInv'
<1>1. JobOK(IdleJob)
  BY NothingLeft DEF JobOK, IdleJob, Holds, OpsAt, ToDo, PCs, Ops, Records
<1> QED BY <1>1, JobReplaced DEF Done

\* It stops the containers that Docker lists.
LEMMA JobStops ==
    ASSUME TInv, StateTypes', NEW w \in Worker, NEW old,
           old \in [pc : PCs, op : Ops, new : Version \cup {NoRecord}, inst : Records,
                    left : {old.left}, restart : BOOLEAN],
           Holds("stop", old.op, old.new, old.inst, old.restart), BeginStop(w, old)
    PROVE  TInv'
<1>1. PICK listed \in SetToSeqs(Listing) : SetJob(w, [old EXCEPT !.pc = "stop", !.left = listed])
  BY DEF BeginStop
<1>2. listed \in Seq(Service)
  <2>1. Listing \subseteq Service /\ IsFiniteSet(Listing)
    BY FinitelyMany, FS_Subset DEF Listing
  <2>2. listed \in Seq(Listing)
    BY <2>1, AnyOrder
  <2> QED BY <2>1, <2>2
<1> DEFINE j == [old EXCEPT !.pc = "stop", !.left = listed]
<1>3. /\ j.pc = "stop" /\ j.op = old.op /\ j.new = old.new /\ j.inst = old.inst
      /\ j.left = listed /\ j.restart = old.restart
      /\ j \in [pc : PCs, op : Ops, new : Version \cup {NoRecord}, inst : Records,
                left : {j.left}, restart : BOOLEAN]
  BY DEF PCs
<1> HIDE DEF j
<1>4. ToDo(j.pc, j.inst) = Service
  BY <1>3 DEF ToDo
<1>5. JobOK(j)
  BY <1>2, <1>3, <1>4 DEF JobOK
<1> QED BY <1>1, <1>5, JobReplaced DEF j

\* It starts what an instance points at.
LEMMA JobStarts ==
    ASSUME TInv, StateTypes', NEW w \in Worker, NEW inst \in Record, BeginStart(w, inst)
    PROVE  TInv'
<1>1. PICK services \in SetToSeqs(DOMAIN SpecOf[inst.dir]) :
        SetJob(w, [IdleJob EXCEPT !.pc = "pull", !.op = "start", !.inst = inst, !.left = services])
  BY DEF BeginStart
<1>2. services \in Seq(DOMAIN SpecOf[inst.dir])
  BY FinitelyMany, AnyOrder DEF Record
<1>3. inst \in Records /\ inst # NoRecord
  BY PackagesAssumption DEF Record, Records
<1> DEFINE j == [IdleJob EXCEPT !.pc = "pull", !.op = "start", !.inst = inst, !.left = services]
<1>4. /\ j.pc = "pull" /\ j.op = "start" /\ j.new = NoRecord /\ j.inst = inst
      /\ j.left = services /\ j.restart = FALSE
      /\ j \in [pc : PCs, op : Ops, new : Version \cup {NoRecord}, inst : Records,
                left : {j.left}, restart : BOOLEAN]
  BY <1>3 DEF PCs, Ops, IdleJob
<1> HIDE DEF j
<1>5. Holds(j.pc, j.op, j.new, j.inst, j.restart)
  BY <1>3, <1>4 DEF Holds, OpsAt, PCs, Ops
<1>6. ToDo(j.pc, j.inst) = DOMAIN SpecOf[inst.dir]
  BY <1>4 DEF ToDo
<1>7. JobOK(j)
  BY <1>2, <1>4, <1>5, <1>6 DEF JobOK
<1> QED BY <1>1, <1>7, JobReplaced DEF j

\* The invariant is about the record and the requests of the theorems above, too.
LEMMA TypesOfTInv ==
    ASSUME TInv PROVE Types
<1>1. ASSUME NEW w \in Worker PROVE JobTypes(job[w])
  BY DEF TInv, JobOK, Holds, JobTypes
<1>2. crashes \in Nat /\ dirs = [v \in Version |-> dirs[v]]
  BY DEF TInv, StateTypes, Counts, Package
<1> QED BY <1>1, <1>2 DEF Types, TInv, StateTypes

\* What a step of a request starts from.
LEMMA TInvGives ==
    ASSUME TInv, NEW w \in Worker
    PROVE  /\ StateTypes /\ JobOK(job[w])
           /\ Holds(job[w].pc, job[w].op, job[w].new, job[w].inst, job[w].restart)
           /\ Left(w) \in Seq(ToDo(job[w].pc, job[w].inst))
           /\ At(w, "copy") => Left(w) # <<>>
           /\ job[w].inst # NoRecord => job[w].inst \in Record /\ job[w].inst.dir \in Version
  BY DEF TInv, JobOK, Left, At, Holds, Records, Record
\* It has done the next of what was left.
LEMMA JobAdvances ==
    ASSUME TInv, StateTypes', NEW w \in Worker, Left(w) # <<>>, Advance(w), ~At(w, "copy")
    PROVE  TInv'
<1> DEFINE rest == Tail(Left(w))
           pc == job[w].pc
<1>1. /\ Holds(pc, job[w].op, job[w].new, job[w].inst, job[w].restart)
      /\ rest \in Seq(ToDo(pc, job[w].inst)) /\ rest = Tail(Left(w))
      /\ At(w, pc) /\ pc # "copy"
  BY TInvGives, TailStays DEF At
<1> HIDE DEF rest, pc
<1> QED BY <1>1, JobGoesOn DEF pc

\* A step without a request.
LEMMA NoJobChanges ==
    ASSUME TInv, StateTypes', UNCHANGED job PROVE TInv'
  BY DEF TInv

\* It downloads the files of a version.
LEMMA JobFetches ==
    ASSUME TInv, StateTypes', NEW w \in Worker, NEW v \in Version,
           NEW op \in {"install", "upgrade"},
           SetJob(w, [IdleJob EXCEPT !.pc = "fetch", !.op = op, !.new = v, !.left = Files])
    PROVE  TInv'
<1> DEFINE j == [IdleJob EXCEPT !.pc = "fetch", !.op = op, !.new = v, !.left = Files]
<1>1. /\ j.pc = "fetch" /\ j.op = op /\ j.new = v /\ j.inst = NoRecord
      /\ j.left = Files /\ j.restart = FALSE
      /\ j \in [pc : PCs, op : Ops, new : Version \cup {NoRecord}, inst : Records,
                left : {j.left}, restart : BOOLEAN]
  BY DEF PCs, Ops, IdleJob, Records
<1> HIDE DEF j
<1>2. Holds(j.pc, j.op, j.new, j.inst, j.restart)
  BY <1>1 DEF Holds, OpsAt, PCs, Ops, Records
<1>3. ToDo(j.pc, j.inst) = ToSet(Files)
  BY <1>1 DEF ToDo
<1>4. JobOK(j)
  BY <1>1, <1>2, <1>3, PackagesAssumption DEF JobOK
<1> QED BY <1>4, JobReplaced DEF j

\* Files are written and directories removed.
LEMMA DirsStay ==
    ASSUME StateTypes, NEW v, NEW n,
           \/ RemoveAll(v) \/ UNCHANGED dirs
           \/ Write(v, n, "part") \/ Write(v, n, "whole")
    PROVE  dirs' \in Package
<1>1. dirs \in Package
  BY DEF StateTypes
<1>2. NoFiles \in [DOMAIN Files -> {"none", "part", "whole"}]
  BY DEF NoFiles
<1> QED BY <1>1, <1>2 DEF Package, RemoveAll, Write

\* The record is a record, whatever its status.
LEMMA RecordStays ==
    ASSUME TInv, NEW status \in Statuses, UpdateStatus(status)
    PROVE  record' \in Records
  BY TypesOfTInv, StatusOnly

-----------------------------------------------------------------------------
\* The downloads keep the types.
LEMMA DownloadKeepsTypes ==
    ASSUME TInv, NEW w \in Worker, Download(w) PROVE TInv'
<1> USE TInvGives
<1>1. ASSUME NEW v \in Version, InstallRegistryPlugin(w, v) PROVE TInv'
  <2>1. StateTypes'
    BY <1>1, CountsHold DEF InstallRegistryPlugin, StateTypes, dockerVars
  <2> QED BY <1>1, <2>1, JobFetches DEF InstallRegistryPlugin
<1>2. ASSUME NEW v \in Version, UpgradeRegistryPlugin(w, v) PROVE TInv'
  <2>1. StateTypes'
    BY <1>2, CountsHold DEF UpgradeRegistryPlugin, StateTypes, dockerVars
  <2> QED BY <1>2, <2>1, JobFetches DEF UpgradeRegistryPlugin
<1>3. CASE CreateFile(w)
  <2>1. StateTypes'
    BY <1>3, CountsHold, DirsStay DEF CreateFile, StateTypes, dockerVars
  <2>2. /\ Holds("copy", job[w].op, job[w].new, job[w].inst, job[w].restart)
        /\ Left(w) \in Seq(ToDo("copy", job[w].inst)) /\ Left(w) # <<>>
    BY <1>3 DEF CreateFile, At, Holds, OpsAt, ToDo, PCs
  <2> QED BY <1>3, <2>1, <2>2, JobGoesOn DEF CreateFile
<1>4. CASE CopyFile(w)
  <2>1. StateTypes'
    BY <1>4, CountsHold, DirsStay DEF CopyFile, StateTypes, dockerVars
  <2>2. /\ Holds("fetch", job[w].op, job[w].new, job[w].inst, job[w].restart)
        /\ Left(w) \in Seq(ToDo("fetch", job[w].inst)) /\ Left(w) # <<>>
    BY <1>4 DEF CopyFile, At, Holds, OpsAt, ToDo, PCs
  <2> DEFINE rest == Tail(Left(w))
  <2>3. rest \in Seq(ToDo("fetch", job[w].inst))
    BY <2>2, TailStays
  <2>4. GotoWith(w, "fetch", rest)
    BY <1>4 DEF CopyFile
  <2> HIDE DEF rest
  <2> QED BY <2>1, <2>2, <2>3, <2>4, JobGoesOn
<1>5. CASE FetchFails(w)
  <2>1. StateTypes'
    BY <1>5, CountsHold, DirsStay DEF FetchFails, StateTypes, dockerVars
  <2> QED BY <1>5, <2>1, JobEnds DEF FetchFails
<1>6. CASE VerifyVersion(w)
  <2>1. StateTypes'
    BY <1>6, CountsHold, DirsStay DEF VerifyVersion, Approves, Refuses, StateTypes, dockerVars
  <2>2. CASE Goto(w, IF job[w].op = "install" THEN "register" ELSE "upgrade")
    <3> DEFINE pc == IF job[w].op = "install" THEN "register" ELSE "upgrade"
    <3>1. /\ Holds(pc, job[w].op, job[w].new, job[w].inst, job[w].restart) /\ pc # "copy"
          /\ Left(w) = <<>>
      BY <1>6 DEF VerifyVersion, At, Holds, OpsAt, PCs, Ops
    <3>2. Left(w) \in Seq(ToDo(pc, job[w].inst))
      BY <3>1, NothingLeft
    <3> QED BY <2>1, <2>2, <3>1, <3>2, JobGoesOn
  <2> QED BY <1>6, <2>1, <2>2, JobEnds DEF VerifyVersion
<1>7. CASE InstallFromRegistry(w)
  <2>1. Counts'
    BY <1>7, CountsHold DEF InstallFromRegistry
  <2>2. job[w].new \in Version
    BY <1>7 DEF InstallFromRegistry, At, Holds
  <2>3. record' \in Records
    BY <1>7, <2>2 DEF InstallFromRegistry, StateTypes, Records, Statuses
  <2>4. StateTypes'
    BY <1>7, <2>1, <2>2, <2>3 DEF InstallFromRegistry, StateTypes, dockerVars
  <2> QED BY <1>7, <2>4, JobEnds DEF InstallFromRegistry
<1> QED BY <1>1, <1>2, <1>3, <1>4, <1>5, <1>6, <1>7 DEF Download
\* The upgrades and uninstallations keep them.
LEMMA ChangeKeepsTypes ==
    ASSUME TInv, NEW w \in Worker, Change(w) PROVE TInv'
<1> USE TInvGives
<1> DEFINE next(pc) == Holds(pc, job[w].op, job[w].new, job[w].inst, job[w].restart)
<1>1. CASE UpgradeGet(w)
  <2> DEFINE running == HasStatus({"running"})
             j == [job[w] EXCEPT !.inst = record, !.restart = running]
             r == [j EXCEPT !.pc = "switch"]
             Job == [pc : PCs, op : Ops, new : Version \cup {NoRecord}, inst : Records,
                     left : {job[w].left}, restart : BOOLEAN]
  <2>1. StateTypes'
    BY <1>1, CountsHold, DirsStay DEF UpgradeGet, UpgradeFails, BeginStop, StateTypes, dockerVars
  <2>2. job[w] \in Job /\ job[w].pc = "upgrade" /\ Left(w) = job[w].left
    BY <1>1 DEF UpgradeGet, At, JobOK, Left
  <2>3. /\ j \in Job /\ j.op = job[w].op /\ j.new = job[w].new /\ j.inst = record
        /\ j.left = job[w].left /\ j.restart = running
    BY <2>2 DEF StateTypes, HasStatus
  <2>4. CASE record = NoRecord /\ UpgradeFails(w)
    BY <2>1, <2>4, JobEnds DEF UpgradeFails
  <2>5. CASE running /\ BeginStop(w, j)
    <3>1. Holds("stop", j.op, j.new, j.inst, j.restart)
      BY <2>2, <2>3, <2>5 DEF Holds, OpsAt, PCs, HasStatus, StateTypes
    <3> HIDE DEF j
    <3> QED BY <2>1, <2>3, <2>5, <3>1, JobStops
  <2>6. CASE record # NoRecord /\ SetJob(w, r)
    <3>1. /\ r \in Job /\ r.pc = "switch" /\ r.op = job[w].op /\ r.new = job[w].new
          /\ r.inst = record /\ r.left = job[w].left /\ r.restart = running
      <4> HIDE DEF j
      <4> QED BY <2>3 DEF PCs
    <3> HIDE DEF r
    <3>2. Holds(r.pc, r.op, r.new, r.inst, r.restart)
      BY <2>2, <2>6, <3>1 DEF Holds, OpsAt, PCs, HasStatus, StateTypes
    <3>3. ToDo(job[w].pc, job[w].inst) = {} /\ ToDo(r.pc, r.inst) = {}
      BY <2>2, <3>1 DEF ToDo
    <3>4. JobOK(r)
      BY <2>2, <3>1, <3>2, <3>3 DEF JobOK
    <3> QED BY <2>1, <2>6, <3>4, JobReplaced
  <2> QED BY <1>1, <2>4, <2>5, <2>6 DEF UpgradeGet
<1>2. CASE SwitchVersion(w)
  <2> DEFINE inst == IF job[w].restart THEN record ELSE job[w].inst
             old == job[w].inst.dir
             new == job[w].new
  <2>1. /\ job[w].pc = "switch" /\ job[w].op = "upgrade" /\ new \in Version
        /\ job[w].inst \in Record /\ old \in Version
    BY <1>2 DEF SwitchVersion, At, Holds, OpsAt
  <2>2. Counts' /\ dirs' \in Package
    BY <1>2, CountsHold, DirsStay DEF SwitchVersion, UpgradeFails
  <2>3. CASE UpgradeFails(w)
    <3>1. StateTypes'
      BY <1>2, <2>2, <2>3 DEF SwitchVersion, UpgradeFails, StateTypes, dockerVars
    <3> QED BY <2>3, <3>1, JobEnds DEF UpgradeFails
  <2>4. CASE ~(job[w].restart /\ record = NoRecord)
    <3>1. inst \in Record /\ job[w].restart \in BOOLEAN
      BY <2>1, <2>4 DEF StateTypes, Records, Record, Holds
    <3> HIDE DEF inst
    <3>2. ASSUME NEW compatible \in BOOLEAN,
                 NEW left \in SetToSeqs(OldImages(w) \ Images(SpecOf[new])),
                 record' = Switched(inst, new, compatible, job[w].restart),
                 SetJob(w, [job[w] EXCEPT !.pc = "cleanup", !.left = left,
                                          !.restart = @ /\ compatible])
          PROVE  TInv'
      <4> DEFINE j == [job[w] EXCEPT !.pc = "cleanup", !.left = left,
                                     !.restart = @ /\ compatible]
      <4>1. StateTypes'
        BY <1>2, <2>1, <2>2, <3>1, <3>2, SwitchedIsARecord
           DEF SwitchVersion, StateTypes, dockerVars, Records, Record
      <4>2. left \in Seq(AllImages)
        <5> DEFINE S == OldImages(w) \ Images(SpecOf[new])
        <5>1. S \subseteq AllImages /\ IsFiniteSet(S)
          BY <2>1, FinitelyMany, FS_Difference, FS_EmptySet DEF OldImages
        <5>2. left \in Seq(S)
          <6> HIDE DEF S
          <6> QED BY <3>2, <5>1, AnyOrder DEF S
        <5> QED BY <5>1, <5>2
      <4>3. /\ j.pc = "cleanup" /\ j.op = "upgrade" /\ j.new = new /\ j.inst = job[w].inst
            /\ j.left = left /\ j.restart \in BOOLEAN
            /\ j \in [pc : PCs, op : Ops, new : Version \cup {NoRecord}, inst : Records,
                      left : {j.left}, restart : BOOLEAN]
        BY <2>1, <3>1 DEF JobOK, PCs
      <4> HIDE DEF j
      <4>4. Holds(j.pc, j.op, j.new, j.inst, j.restart)
        BY <2>1, <4>3 DEF Holds, OpsAt, PCs
      <4>5. ToDo(j.pc, j.inst) = AllImages
        BY <4>3 DEF ToDo
      <4>6. JobOK(j)
        BY <4>2, <4>3, <4>4, <4>5 DEF JobOK
      <4> QED BY <3>2, <4>1, <4>6, JobReplaced DEF j
    <3>3. ASSUME NEW compatible \in BOOLEAN,
                 record' \in {record, [Switched(inst, new, compatible, job[w].restart)
                                          EXCEPT !.dir = old]},
                 Done(w)
          PROVE  TInv'
      <4>1. Switched(inst, new, compatible, job[w].restart) \in Record
        BY <2>1, <3>1, SwitchedIsARecord
      <4>2. record' \in Records
        BY <2>1, <3>3, <4>1 DEF Records, Record, StateTypes
      <4>3. StateTypes'
        BY <1>2, <2>2, <4>2 DEF SwitchVersion, StateTypes, dockerVars
      <4> QED BY <3>3, <4>3, JobEnds
    <3> QED BY <1>2, <2>4, <3>2, <3>3 DEF SwitchVersion, inst
  <2> QED BY <1>2, <2>3, <2>4 DEF SwitchVersion
<1>3. CASE UninstallPlugin(w)
  <2> DEFINE j == [IdleJob EXCEPT !.op = "uninstall", !.inst = record]
             r == [j EXCEPT !.pc = "delete"]
             Job == [pc : PCs, op : Ops, new : Version \cup {NoRecord}, inst : Records,
                     left : {<<>>}, restart : BOOLEAN]
  <2>1. StateTypes' /\ record \in Records /\ record # NoRecord
    BY <1>3, CountsHold DEF UninstallPlugin, StateTypes, dockerVars
  <2>2. /\ j \in Job /\ j.op = "uninstall" /\ j.new = NoRecord /\ j.inst = record
        /\ j.left = <<>> /\ j.restart = FALSE
    BY <2>1 DEF IdleJob, PCs, Ops
  <2>3. CASE BeginStop(w, j)
    <3>1. Holds("stop", j.op, j.new, j.inst, j.restart)
      BY <2>1, <2>2 DEF Holds, OpsAt, PCs, Ops
    <3> HIDE DEF j
    <3> QED BY <2>1, <2>2, <2>3, <3>1, JobStops
  <2>4. CASE SetJob(w, r)
    <3>1. /\ r \in Job /\ r.pc = "delete" /\ r.op = "uninstall" /\ r.new = NoRecord
          /\ r.inst = record /\ r.left = <<>> /\ r.restart = FALSE
      <4> HIDE DEF j
      <4> QED BY <2>2 DEF PCs
    <3> HIDE DEF r
    <3>2. JobOK(r)
      BY <2>1, <3>1, NothingLeft DEF JobOK, Holds, OpsAt, PCs, Ops
    <3> QED BY <2>1, <2>4, <3>2, JobReplaced
  <2> QED BY <1>3, <2>3, <2>4 DEF UninstallPlugin
<1>4. CASE DeletePlugin(w)
  <2>1. StateTypes'
    BY <1>4, CountsHold DEF DeletePlugin, StateTypes, dockerVars, Records
  <2>2. CASE Done(w)
    BY <2>1, <2>2, JobEnds
  <2>3. ASSUME NEW left \in SetToSeqs(OldImages(w)), GotoWith(w, "cleanup", left) PROVE TInv'
    <3>1. next("cleanup") /\ job[w].inst.dir \in Version
      BY <1>4 DEF DeletePlugin, At, Holds, OpsAt, PCs
    <3>2. OldImages(w) \subseteq AllImages /\ IsFiniteSet(OldImages(w))
      BY <3>1, FinitelyMany, FS_EmptySet DEF OldImages
    <3>3. left \in Seq(AllImages)
      <4>1. left \in Seq(OldImages(w))
        BY <2>3, <3>2, AnyOrder
      <4> QED BY <3>2, <4>1
    <3>4. ToDo("cleanup", job[w].inst) = AllImages
      BY DEF ToDo
    <3> QED BY <2>1, <2>3, <3>1, <3>3, <3>4, JobGoesOn
  <2> QED BY <1>4, <2>2, <2>3 DEF DeletePlugin
<1>5. CASE RemoveDirectory(w)
  <2>1. StateTypes'
    BY <1>5, CountsHold, DirsStay DEF RemoveDirectory, StateTypes, dockerVars
  <2>2. next("images") /\ Left(w) \in Seq(ToDo("images", job[w].inst))
    BY <1>5 DEF RemoveDirectory, At, Holds, OpsAt, ToDo, PCs
  <2> QED BY <1>5, <2>1, <2>2, JobGoesOn DEF RemoveDirectory
<1>6. CASE RemoveImage(w)
  <2>1. StateTypes'
    BY <1>6, CountsHold DEF RemoveImage, StateTypes
  <2> QED BY <1>6, <2>1, JobAdvances DEF RemoveImage, At
<1>7. CASE Finish(w)
  <2>1. StateTypes'
    BY <1>7, CountsHold DEF Finish, Approves, Refuses, StateTypes, dockerVars
  <2>2. CASE job[w].restart /\ BeginStart(w, [dir |-> job[w].new, status |-> "stopped"])
    <3>1. [dir |-> job[w].new, status |-> "stopped"] \in Record
      BY <2>2 DEF Holds, Record, Statuses
    <3> QED BY <2>1, <2>2, <3>1, JobStarts
  <2> QED BY <1>7, <2>1, <2>2, JobEnds DEF Finish
<1>8. CASE ConfigPlugin(w)
  <2>1. record' \in Records
    BY <1>8, TypesOfTInv, StatusOnly DEF ConfigPlugin, HasStatus, Statuses
  <2>2. StateTypes'
    BY <1>8, <2>1, CountsHold DEF ConfigPlugin, StateTypes, dockerVars
  <2> QED BY <1>8, <2>2, NoJobChanges DEF ConfigPlugin
<1> QED BY <1>1, <1>2, <1>3, <1>4, <1>5, <1>6, <1>7, <1>8 DEF Change
\* Starting and stopping keep them, and so does the restore loop.
LEMMA RunKeepsTypes ==
    ASSUME TInv, NEW w \in Worker, Run(w) PROVE TInv'
<1> USE TInvGives
<1> DEFINE next(pc) == Holds(pc, job[w].op, job[w].new, job[w].inst, job[w].restart)
           spec == SpecOf[job[w].inst.dir]
<1>0. job[w] \in [pc : PCs, op : Ops, new : Version \cup {NoRecord}, inst : Records,
                  left : {job[w].left}, restart : BOOLEAN]
  BY DEF JobOK
<1>a. ASSUME job[w].pc \in {"pull", "containers", "undo"}
      PROVE  /\ job[w].op = "start" /\ job[w].inst # NoRecord /\ job[w].inst.dir \in Version
             /\ IsBootSpec(spec) /\ DOMAIN spec \subseteq Service
             /\ Left(w) \in Seq(DOMAIN spec)
             /\ next("pull") /\ next("containers") /\ next("undo") /\ next("stop")
  <2>1. /\ Holds(job[w].pc, job[w].op, job[w].new, job[w].inst, job[w].restart)
        /\ Left(w) \in Seq(ToDo(job[w].pc, job[w].inst))
    OBVIOUS
  <2>2. job[w].op = "start" /\ job[w].inst # NoRecord /\ job[w].inst.dir \in Version
    BY <1>a, <2>1 DEF Holds, OpsAt
  <2>3. next("pull") /\ next("containers") /\ next("undo") /\ next("stop")
    BY <2>1, <2>2 DEF Holds, OpsAt, PCs
  <2>4. IsBootSpec(spec) /\ DOMAIN spec \subseteq Service
    BY <2>2, PackagesAssumption, FinitelyMany
  <2>5. ToDo(job[w].pc, job[w].inst) = DOMAIN spec
    BY <1>a DEF ToDo
  <2> QED BY <2>1, <2>2, <2>3, <2>4, <2>5
<1> HIDE DEF spec
<1>1. CASE StartPlugin(w)
  <2>1. StateTypes'
    BY <1>1, CountsHold DEF StartPlugin, Approves, StateTypes, dockerVars
  <2>2. record \in Record
    BY <1>1 DEF StartPlugin, HasStatus, StateTypes, Records, Record
  <2> QED BY <1>1, <2>1, <2>2, JobStarts DEF StartPlugin
<1>2. CASE PullImage(w)
  <2>1. At(w, "pull") /\ Left(w) # <<>> /\ job[w].pc = "pull"
    BY <1>2 DEF PullImage, At
  <2>2. record' \in Records
    BY <1>2, RecordStays DEF PullImage, Statuses
  <2>3. Pulls(w) \in AllImages
    BY <1>a, <2>1, FinitelyMany, TailStays DEF Pulls, spec, Images
  <2>4. StateTypes'
    BY <1>2, <2>2, <2>3, CountsHold DEF PullImage, StateTypes
  <2> QED BY <1>2, <2>1, <2>4, JobAdvances DEF PullImage, At
<1>3. CASE PullFails(w)
  <2>1. record' \in Records
    BY <1>3, RecordStays DEF PullFails, Statuses
  <2>2. StateTypes'
    BY <1>3, <2>1, CountsHold DEF PullFails, StateTypes, dockerVars
  <2> QED BY <1>3, <2>2, JobEnds DEF PullFails
<1>4. CASE SortServices(w)
  <2>1. record' \in Records
    BY <1>4, RecordStays DEF SortServices, Statuses
  <2>2. StateTypes'
    BY <1>4, <2>1, CountsHold DEF SortServices, StateTypes, dockerVars
  <2>3. job[w].pc = "pull"
    BY <1>4 DEF SortServices, At
  <2>4. CASE BeginStop(w, job[w])
    BY <1>0, <1>a, <2>2, <2>3, <2>4, JobStops
  <2>5. ASSUME NEW order \in VisitOrders(spec), TopoSort(spec, order) # Failed,
               GotoWith(w, "containers", TopoSort(spec, order))
        PROVE  TInv'
    <3> DEFINE sorted == TopoSort(spec, order)
    <3>1. sorted \in Seq(DOMAIN spec)
      BY <1>a, <2>3, <2>5, TopoSortHasEachOnce
    <3>2. sorted \in Seq(ToDo("containers", job[w].inst))
      BY <3>1 DEF ToDo, spec
    <3> HIDE DEF sorted
    <3> QED BY <1>a, <2>2, <2>3, <2>5, <3>2, JobGoesOn DEF sorted
  <2> QED BY <1>4, <2>4, <2>5 DEF SortServices, spec
<1>5. CASE StartContainer(w)
  <2>1. At(w, "containers") /\ Left(w) # <<>> /\ job[w].pc = "containers"
    BY <1>5 DEF StartContainer, At
  <2>2. Head(Left(w)) \in DOMAIN spec /\ Head(Left(w)) \in Service
    BY <1>a, <2>1, TailStays
  <2>3. Running(Head(Left(w)), job[w].inst.dir) \in Container
    <3>1. spec[Head(Left(w))].image \in AllImages
      BY <1>a, <2>1, <2>2, FinitelyMany DEF spec, Images
    <3> QED BY <2>2, <3>1 DEF Running, Container, StateTypes, spec
  <2>4. StateTypes'
    BY <1>5, <2>2, <2>3, CountsHold DEF StartContainer, StateTypes
  <2> QED BY <1>5, <2>1, <2>4, JobAdvances DEF StartContainer, At
<1>6. CASE StartFails(w)
  <2>1. Left(w) # <<>> /\ job[w].pc = "containers" /\ Goto(w, "undo")
    BY <1>6 DEF StartFails, At
  <2>2. Head(Left(w)) \in DOMAIN spec /\ Head(Left(w)) \in Service
    BY <1>a, <2>1, TailStays
  <2>3. spec[Head(Left(w))].image \in AllImages
    BY <1>a, <2>1, <2>2, FinitelyMany DEF spec, Images
  <2>4. containers' \in [Service -> Container \cup {NoContainer}]
    <3> DEFINE s == Head(Left(w))
               made == [image |-> spec[s].image, up |-> FALSE]
    <3>1. made \in Container
      BY <2>3 DEF Container
    <3>2. containers' = containers \/ containers' = [containers EXCEPT ![s] = made]
      BY <1>6 DEF StartFails, spec
    <3> HIDE DEF s, made
    <3> QED BY <2>2, <3>1, <3>2 DEF StateTypes, s
  <2>5. StateTypes'
    BY <1>6, <2>4, CountsHold DEF StartFails, StateTypes
  <2>6. next("undo") /\ Left(w) \in Seq(ToDo("undo", job[w].inst))
    BY <1>a, <2>1 DEF ToDo, spec
  <2> QED BY <2>1, <2>5, <2>6, JobGoesOn
<1>7. CASE UndoStart(w)
  <2>1. StateTypes' /\ job[w].pc = "undo" /\ BeginStop(w, job[w])
    BY <1>7, CountsHold DEF UndoStart, StateTypes, dockerVars, At
  <2> QED BY <1>0, <1>a, <2>1, JobStops
<1>8. CASE MarkRunning(w)
  <2>1. record' \in Records
    BY <1>8, RecordStays DEF MarkRunning, Statuses
  <2>2. StateTypes'
    BY <1>8, <2>1, CountsHold DEF MarkRunning, StateTypes, dockerVars
  <2> QED BY <1>8, <2>2, JobEnds DEF MarkRunning
<1>9. CASE StopPlugin(w)
  <2> DEFINE j == [IdleJob EXCEPT !.op = "stop", !.inst = record]
  <2>1. StateTypes' /\ record \in Records /\ record # NoRecord /\ BeginStop(w, j)
    BY <1>9, CountsHold DEF StopPlugin, HasStatus, StateTypes, dockerVars
  <2>2. /\ j.op = "stop" /\ j.new = NoRecord /\ j.inst = record /\ j.restart = FALSE
        /\ j \in [pc : PCs, op : Ops, new : Version \cup {NoRecord}, inst : Records,
                  left : {j.left}, restart : BOOLEAN]
    BY <2>1 DEF IdleJob, PCs, Ops
  <2> HIDE DEF j
  <2>3. Holds("stop", j.op, j.new, j.inst, j.restart)
    BY <2>1, <2>2 DEF Holds, OpsAt, PCs, Ops
  <2> QED BY <2>1, <2>2, <2>3, JobStops
<1>10. CASE StopContainer(w)
  <2>1. At(w, "stop") /\ Left(w) # <<>> /\ job[w].pc = "stop" /\ Advance(w)
    BY <1>10 DEF StopContainer, At
  <2>2. StateTypes'
    BY <1>10, CountsHold DEF StopContainer, StateTypes
  <2> QED BY <2>1, <2>2, JobAdvances DEF At
<1>11. CASE StopFails(w)
  <2>1. record' \in Records /\ Done(w) /\ dirs' \in Package
    BY <1>11, RecordStays, DirsStay DEF StopFails, UpgradeFails, StateTypes, Statuses
  <2>2. containers' \in [Service -> Container \cup {NoContainer}]
    <3>1. ASSUME NEW s, containers[s] # NoContainer,
                 containers' = [containers EXCEPT ![s].up = FALSE]
          PROVE  containers' \in [Service -> Container \cup {NoContainer}]
      BY <3>1 DEF StateTypes, Container
    <3> QED BY <1>11, <3>1 DEF StopFails, StateTypes
  <2>3. StateTypes'
    BY <1>11, <2>1, <2>2, CountsHold DEF StopFails, StateTypes
  <2> QED BY <2>1, <2>3, JobEnds
<1>12. CASE Stopped(w)
  <2>1. /\ job[w].pc = "stop" /\ job[w].inst \in Record
        /\ Left(w) = <<>> /\ job[w].op \in {"start", "stop", "upgrade", "uninstall"}
    BY <1>12 DEF Stopped, At, Holds, OpsAt
  <2>2. record' \in Records
    <3>1. CASE UpdateStatus("failed")
      BY <3>1, RecordStays DEF Statuses
    <3>2. CASE record' = [job[w].inst EXCEPT !.status = "stopped"]
      BY <2>1, <3>2 DEF Record, Records, Statuses
    <3> QED BY <1>12, <2>1, <3>1, <3>2 DEF Stopped
  <2>3. StateTypes'
    BY <1>12, <2>2, CountsHold DEF Stopped, StateTypes, dockerVars
  <2>4. CASE Done(w)
    BY <2>3, <2>4, JobEnds
  <2>5. ASSUME NEW pc, (pc = "switch" /\ job[w].op = "upgrade")
                       \/ (pc = "delete" /\ job[w].op = "uninstall"),
               Goto(w, pc)
        PROVE  TInv'
    <3>1. next(pc) /\ pc # "copy"
      BY <2>1, <2>5 DEF Holds, OpsAt, PCs
    <3>2. Left(w) \in Seq(ToDo(pc, job[w].inst))
      BY <2>1, NothingLeft
    <3> QED BY <2>3, <2>5, <3>1, <3>2, JobGoesOn
  <2>6. CASE job[w].op = "upgrade" /\ Goto(w, "switch")
    BY <2>5, <2>6
  <2>7. CASE job[w].op = "uninstall" /\ Goto(w, "delete")
    BY <2>5, <2>7
  <2> QED BY <1>12, <2>1, <2>4, <2>6, <2>7 DEF Stopped
<1>13. CASE Restore(w)
  <2>1. Counts' /\ booted' \in BOOLEAN
    BY <1>13, CountsHold DEF Restore, Approves, Refuses
  <2>2. record' \in Records
    BY <1>13, TypesOfTInv, StatusOnly DEF Restore, HasStatus, StateTypes, Statuses
  <2>3. StateTypes'
    BY <1>13, <2>1, <2>2 DEF Restore, StateTypes, dockerVars
  <2>4. CASE UNCHANGED job
    BY <2>3, <2>4, NoJobChanges
  <2>5. CASE record # NoRecord /\ BeginStart(w, [record EXCEPT !.status = "stopped"])
    <3>1. [record EXCEPT !.status = "stopped"] \in Record
      BY <2>5 DEF StateTypes, Records, Record, Statuses
    <3> QED BY <2>3, <2>5, <3>1, JobStarts
  <2> QED BY <1>13, <2>4, <2>5 DEF Restore, HasStatus
<1> QED BY <1>1, <1>2, <1>3, <1>4, <1>5, <1>6, <1>7, <1>8, <1>9, <1>10, <1>11, <1>12, <1>13 DEF Run

\* The types hold at first.
LEMMA InitTInv == Init => TInv
<1> SUFFICES ASSUME Init PROVE TInv
  OBVIOUS
<1>1. JobOK(IdleJob)
  BY NothingLeft DEF JobOK, IdleJob, Holds, OpsAt, ToDo, PCs, Ops, Records
<1>2. StateTypes
  <2>1. dirs \in Package
    BY DEF Init, Package, NoFiles
  <2> QED BY <2>1, PackagesAssumption DEF Init, StateTypes, Records, Counts
<1> QED BY <1>1, <1>2 DEF Init, TInv

\* What a request holds is right for where it is, after every step of however many requests
\* at once: what there is left to do are services of the version it starts, images, containers
\* or files, and the sorted list is one of services.
THEOREM TypedInvariance == Spec => []TInv
<1>1. TInv /\ [Next]_vars => TInv'
  <2> SUFFICES ASSUME TInv, [Next]_vars PROVE TInv'
    OBVIOUS
  <2>1. ASSUME NEW w \in Worker, Download(w) \/ Change(w) \/ Run(w) PROVE TInv'
    BY <2>1, DownloadKeepsTypes, ChangeKeepsTypes, RunKeepsTypes
  <2>2. CASE Crash
    <3>1. JobOK(IdleJob)
      BY NothingLeft DEF JobOK, IdleJob, Holds, OpsAt, ToDo, PCs, Ops, Records
    <3>2. Counts'
      BY <2>2, PackagesAssumption DEF TInv, StateTypes, Counts, Crash
    <3>3. StateTypes'
      BY <2>2, <3>2 DEF TInv, StateTypes, Crash, dockerVars
    <3> QED BY <2>2, <3>1, <3>3 DEF TInv, Crash
  <2>3. ASSUME NEW i \in AllImages, Revoke(i) PROVE TInv'
    <3>1. Counts'
      BY <2>3, PackagesAssumption DEF TInv, StateTypes, Counts, Revoke
    <3>2. StateTypes'
      BY <2>3, <3>1 DEF TInv, StateTypes, Revoke, dockerVars
    <3> QED BY <2>3, <3>2, NoJobChanges DEF Revoke
  <2>4. CASE UNCHANGED vars
    <3>1. StateTypes'
      BY <2>4 DEF TInv, StateTypes, Counts, vars, dockerVars, boundVars
    <3> QED BY <2>4, <3>1, NoJobChanges DEF vars
  <2> QED BY <2>1, <2>2, <2>3, <2>4 DEF Next
<1> QED BY <1>1, InitTInv, PTL DEF Spec

\* Every variable has its type, for any number of requests, faults and crashes.
THEOREM TypesHold == Spec => []TypeOK
<1>1. TInv => TypeOK
  <2> SUFFICES ASSUME TInv PROVE TypeOK
    OBVIOUS
  <2>1. ASSUME NEW w \in Worker
        PROVE  /\ job[w].pc \in PCs /\ job[w].inst \in Records /\ job[w].restart \in BOOLEAN
               /\ ToSet(Left(w)) \subseteq
                     CASE At(w, "images")                   -> AllImages
                       [] job[w].pc \in {"pull", "containers"} -> DOMAIN SpecOf[job[w].inst.dir]
                       [] job[w].pc \in {"fetch", "copy"}      -> ToSet(Files)
                       [] OTHER                              -> Service \cup AllImages
    <3> DEFINE T == ToDo(job[w].pc, job[w].inst)
    <3>1. /\ Holds(job[w].pc, job[w].op, job[w].new, job[w].inst, job[w].restart)
          /\ Left(w) \in Seq(T)
          /\ job[w].inst # NoRecord => job[w].inst.dir \in Version
      BY TInvGives
    <3>2. ToSet(Left(w)) \subseteq T
      <4> HIDE DEF T
      <4> QED BY <3>1 DEF ToSet
    <3>3. job[w].pc = "undo" => DOMAIN SpecOf[job[w].inst.dir] \subseteq Service
      BY <3>1, FinitelyMany DEF Holds
    <3>4. T \subseteq CASE At(w, "images")                   -> AllImages
                        [] job[w].pc \in {"pull", "containers"} -> DOMAIN SpecOf[job[w].inst.dir]
                        [] job[w].pc \in {"fetch", "copy"}      -> ToSet(Files)
                        [] OTHER                              -> Service \cup AllImages
      BY <3>3 DEF ToDo, At
    <3> QED BY <3>1, <3>2, <3>4 DEF Holds
  <2> QED BY <2>1 DEF TypeOK, TInv, StateTypes, Package, Container, Counts
<1> QED BY <1>1, TypedInvariance, PTL
-----------------------------------------------------------------------------
(***************************************************************************)
(* The order in which services start, requests coming one at a time.       *)
(***************************************************************************)
Up(s) == containers[s] # NoContainer /\ containers[s].up

\* Every dependency of a service that is left to start is up, or starts before it.
UpOrBefore(spec, left) ==
    \A i \in 1..Len(left) : \A d \in ToSet(spec[left[i]].deps) :
        Up(d) \/ \E k \in 1..(i - 1) : left[k] = d

\* A start is of the version in the record, and an upgrade that will start it is of it, too.
Starts(w) ==
    LET j == job[w]
    IN  /\ j.pc \in {"pull", "containers"} => record # NoRecord /\ j.inst.dir = record.dir
        /\ j.pc \in {"cleanup", "images"} /\ j.restart =>
              record # NoRecord /\ record.dir = j.new
        /\ j.pc = "containers" => UpOrBefore(SpecOf[j.inst.dir], j.left)

SInv == \A w \in Worker : Starts(w)

NoneComesUp == \A s \in Service : Up(s)' => Up(s)

\* One whose dependencies are in order has them up or before.
LEMMA OrderedIsUpOrBefore ==
    ASSUME NEW spec, NEW list, InDependencyOrder(spec, list) PROVE UpOrBefore(spec, list)
  BY DEF InDependencyOrder, UpOrBefore

\* When the first has come up, the rest goes on.
LEMMA FirstComesUp ==
    ASSUME NEW S, NEW spec, NEW left \in Seq(S), left # <<>>, UpOrBefore(spec, left),
           Up(Head(left))', \A s \in S \cup UNION {ToSet(spec[x].deps) : x \in S} : Up(s) => Up(s)'
    PROVE  UpOrBefore(spec, Tail(left))'
<1> DEFINE rest == Tail(left)
<1>1. /\ rest \in Seq(S) /\ Len(rest) = Len(left) - 1 /\ Len(left) \in Nat /\ left[1] = Head(left)
      /\ \A i \in 1..Len(rest) : i + 1 \in 1..Len(left) /\ rest[i] = left[i + 1] /\ rest[i] \in S
  OBVIOUS
<1> HIDE DEF rest
<1>2. ASSUME NEW i \in 1..Len(rest), NEW d \in ToSet(spec[rest[i]].deps)
      PROVE  Up(d)' \/ \E k \in 1..(i - 1) : rest[k] = d
  <2>1. Up(d) \/ \E k \in 1..i : left[k] = d
    BY <1>1 DEF UpOrBefore
  <2>2. CASE Up(d)
    BY <1>1, <2>2
  <2>3. ASSUME NEW k \in 1..i, left[k] = d
        PROVE  Up(d)' \/ \E l \in 1..(i - 1) : rest[l] = d
    <3>1. CASE k = 1
      BY <1>1, <2>3, <3>1
    <3>2. CASE k # 1
      <4>1. k - 1 \in 1..(i - 1) /\ k - 1 \in 1..Len(rest)
        BY <1>1, <3>2
      <4>2. rest[k - 1] = left[(k - 1) + 1] /\ (k - 1) + 1 = k
        BY <1>1, <4>1
      <4> QED BY <2>3, <4>1, <4>2
    <3> QED BY <3>1, <3>2
  <2> QED BY <2>1, <2>2, <2>3
<1> QED BY <1>2 DEF UpOrBefore, rest
\* One that has not come to a cleanup or a start has nothing to show.
LEMMA OthersShowNothing ==
    ASSUME NEW w \in Worker, job'[w].pc \notin {"pull", "containers", "cleanup", "images"}
    PROVE  Starts(w)'
  BY DEF Starts

\* The record keeps its version, and so does the start of it.
LEMMA SameVersion ==
    ASSUME TInv, SInv, NEW w \in Worker, NEW pc \in {"pull", "images"},
           job[w].pc = pc \/ (pc = "images" /\ job[w].pc = "cleanup"),
           Moved(w, pc, job[w].op, job[w].new, job[w].inst, job[w].restart),
           record # NoRecord => record' # NoRecord /\ record'.dir = record.dir
    PROVE  Starts(w)'
  BY DEF Starts, SInv, Moved

\* A request that starts an instance starts the version in the record.
LEMMA StartsTheRecord ==
    ASSUME Types, NEW w \in Worker, NEW inst \in Record, BeginStart(w, inst),
           record' # NoRecord, record'.dir = inst.dir
    PROVE  Starts(w)'
<1>1. Moved(w, "pull", "start", NoRecord, inst, FALSE)
  BY BeginStartMoves DEF Record, Records
<1> QED BY <1>1 DEF Moved, Starts

\* Downloads start nothing.
LEMMA DownloadStartsNothing ==
    ASSUME TInv, NEW w \in Worker, Download(w) PROVE Starts(w)' /\ NoneComesUp
<1> USE TypesOfTInv, OthersShowNothing
<1>1. ASSUME NEW v \in Version, NEW op,
             SetJob(w, [IdleJob EXCEPT !.pc = "fetch", !.op = op, !.new = v, !.left = Files])
      PROVE  Starts(w)'
  BY <1>1 DEF SetJob, IdleJob, Types
<1>2. ASSUME NEW v \in Version, InstallRegistryPlugin(w, v) PROVE Starts(w)' /\ NoneComesUp
  BY <1>1, <1>2 DEF InstallRegistryPlugin, NoneComesUp, Up, dockerVars
<1>3. ASSUME NEW v \in Version, UpgradeRegistryPlugin(w, v) PROVE Starts(w)' /\ NoneComesUp
  BY <1>1, <1>3 DEF UpgradeRegistryPlugin, NoneComesUp, Up, dockerVars
<1>4. ASSUME NEW pc \in PCs, NEW left, Goto(w, pc) \/ GotoWith(w, pc, left),
             pc \notin {"pull", "containers", "cleanup", "images"}
      PROVE  Starts(w)'
  BY <1>4, GotoMoves DEF Moved
<1>5. ASSUME Done(w) PROVE Starts(w)'
  BY <1>5, DoneMoves DEF Moved
<1>6. CASE CreateFile(w)
  BY <1>4, <1>6 DEF CreateFile, NoneComesUp, Up, dockerVars, PCs
<1>7. CASE CopyFile(w)
  BY <1>4, <1>7 DEF CopyFile, NoneComesUp, Up, dockerVars, PCs
<1>8. CASE FetchFails(w)
  BY <1>5, <1>8 DEF FetchFails, NoneComesUp, Up, dockerVars
<1>9. CASE VerifyVersion(w)
  <2>1. NoneComesUp
    BY <1>9 DEF VerifyVersion, NoneComesUp, Up, dockerVars
  <2>2. Starts(w)'
    BY <1>4, <1>5, <1>9 DEF VerifyVersion, PCs
  <2> QED BY <2>1, <2>2
<1>10. CASE InstallFromRegistry(w)
  BY <1>5, <1>10 DEF InstallFromRegistry, NoneComesUp, Up, dockerVars
<1> QED BY <1>2, <1>3, <1>6, <1>7, <1>8, <1>9, <1>10 DEF Download

\* Neither do upgrades and uninstallations, up to the start of what an upgrade stopped.
LEMMA ChangeStartsTheRecord ==
    ASSUME OneWorker, IInv, TInv, SInv, NEW w \in Worker, Change(w)
    PROVE  Starts(w)' /\ NoneComesUp
<1> USE TypesOfTInv, OthersShowNothing
<1>1. NoneComesUp
  BY DEF Change, UpgradeGet, SwitchVersion, UninstallPlugin, DeletePlugin, RemoveDirectory,
         RemoveImage, Finish, ConfigPlugin, NoneComesUp, Up, dockerVars
<1> SUFFICES Starts(w)'
  BY <1>1
<1>2. Holds(job[w].pc, job[w].op, job[w].new, job[w].inst, job[w].restart) /\ JobTypes(job[w])
  BY TInvGives DEF Types
<1>3. ASSUME Done(w) PROVE Starts(w)'
  BY <1>3, DoneMoves DEF Moved
<1>4. CASE UpgradeGet(w)
  <2> DEFINE n == [job[w] EXCEPT !.inst = record, !.restart = HasStatus({"running"})]
             r == [n EXCEPT !.pc = "switch"]
  <2>1. n.pc = "upgrade" /\ r.pc = "switch"
    BY <1>2, <1>4 DEF UpgradeGet, JobTypes, At
  <2>2. CASE SetJob(w, r)
    <3> HIDE DEF r
    <3> QED BY <2>1, <2>2 DEF SetJob, Types
  <2>3. CASE BeginStop(w, n)
    <3>1. PICK listed : SetJob(w, [n EXCEPT !.pc = "stop", !.left = listed])
      BY <2>3 DEF BeginStop
    <3>2. [n EXCEPT !.pc = "stop", !.left = listed].pc = "stop"
      BY <1>2 DEF JobTypes
    <3> HIDE DEF n
    <3> QED BY <3>1, <3>2 DEF SetJob, Types
  <2> QED BY <1>3, <1>4, <2>2, <2>3 DEF UpgradeGet, UpgradeFails
<1>5. CASE SwitchVersion(w)
  <2> DEFINE inst == IF job[w].restart THEN record ELSE job[w].inst
             new == job[w].new
  <2>1. /\ job[w].pc = "switch" /\ new \in Version
        /\ job[w].inst \in Record /\ job[w].restart \in BOOLEAN
    BY <1>2, <1>5, TInvGives DEF SwitchVersion, At, Holds, OpsAt
  <2>2. ASSUME NEW compatible \in BOOLEAN, NEW left, ~(job[w].restart /\ record = NoRecord),
               record' = Switched(inst, new, compatible, job[w].restart),
               SetJob(w, [job[w] EXCEPT !.pc = "cleanup", !.left = left,
                                        !.restart = @ /\ compatible])
        PROVE  Starts(w)'
    <3>1. inst \in Record
      BY <2>1, <2>2 DEF TInv, StateTypes, Records, Record
    <3>2. record' \in Record /\ record'.dir = new
      BY <2>1, <2>2, <3>1, SwitchedIsARecord
    <3>3. job'[w].pc = "cleanup" /\ job'[w].new = new
      BY <1>2, <2>2 DEF SetJob, Types, JobTypes
    <3> QED BY <3>2, <3>3, PackagesAssumption DEF Starts, Record
  <2> QED BY <1>3, <1>5, <2>2 DEF SwitchVersion, UpgradeFails
<1>6. CASE UninstallPlugin(w)
  <2> DEFINE n == [IdleJob EXCEPT !.op = "uninstall", !.inst = record]
             r == [n EXCEPT !.pc = "delete"]
  <2>1. r.pc = "delete"
    BY DEF IdleJob
  <2>2. CASE SetJob(w, r)
    <3> HIDE DEF r
    <3> QED BY <2>1, <2>2 DEF SetJob, Types
  <2>3. CASE BeginStop(w, n)
    <3>1. PICK listed : SetJob(w, [n EXCEPT !.pc = "stop", !.left = listed])
      BY <2>3 DEF BeginStop
    <3>2. [n EXCEPT !.pc = "stop", !.left = listed].pc = "stop"
      BY DEF IdleJob
    <3> HIDE DEF n
    <3> QED BY <3>1, <3>2 DEF SetJob, Types
  <2> QED BY <1>6, <2>2, <2>3 DEF UninstallPlugin
<1>7. CASE DeletePlugin(w)
  <2>1. ~job[w].restart
    BY <1>2, <1>7 DEF DeletePlugin, At, Holds, OpsAt
  <2>2. ASSUME NEW left, GotoWith(w, "cleanup", left) PROVE Starts(w)'
    <3>1. Moved(w, "cleanup", job[w].op, job[w].new, job[w].inst, job[w].restart)
      BY <2>2, GotoMoves DEF PCs
    <3> QED BY <2>1, <3>1 DEF Moved, Starts
  <2> QED BY <1>3, <1>7, <2>2 DEF DeletePlugin
<1>8. CASE RemoveDirectory(w)
  <2>1. Moved(w, "images", job[w].op, job[w].new, job[w].inst, job[w].restart)
    BY <1>8, GotoMoves DEF RemoveDirectory, PCs
  <2> QED BY <1>8, <2>1, SameVersion DEF RemoveDirectory, At
<1>9. CASE RemoveImage(w)
  <2>1. Moved(w, "images", job[w].op, job[w].new, job[w].inst, job[w].restart)
    BY <1>9, GotoMoves DEF RemoveImage, PCs
  <2> QED BY <1>9, <2>1, SameVersion DEF RemoveImage, At
<1>10. CASE Finish(w)
  <2>1. CASE job[w].restart /\ BeginStart(w, [dir |-> job[w].new, status |-> "stopped"])
    <3> DEFINE inst == [dir |-> job[w].new, status |-> "stopped"]
    <3>1. inst \in Record /\ inst.dir = job[w].new
      BY <1>2, <2>1 DEF Holds, Record, Statuses
    <3>2. record' # NoRecord /\ record'.dir = inst.dir
      BY <1>10, <2>1 DEF Finish, SInv, Starts, At
    <3> HIDE DEF inst
    <3> QED BY <2>1, <3>1, <3>2, StartsTheRecord DEF inst
  <2> QED BY <1>3, <1>10, <2>1 DEF Finish
<1>11. CASE ConfigPlugin(w)
  BY <1>11 DEF ConfigPlugin, At
<1> QED BY <1>4, <1>5, <1>6, <1>7, <1>8, <1>9, <1>10, <1>11 DEF Change
\* The only step in which a container comes up: everything it depends on is up.
LEMMA StartsAfterItsDependencies ==
    ASSUME TInv, SInv, NEW w \in Worker, StartContainer(w)
    PROVE  /\ Starts(w)'
           /\ \A s \in Service : Up(s)' /\ ~Up(s) =>
                 \A d \in ToSet(SpecOf[record.dir][s].deps) : Up(d)
<1>0. PICK v, left, s : v = job[w].inst.dir /\ left = job[w].left /\ s = Head(left)
  OBVIOUS
<1> DEFINE S == DOMAIN SpecOf[v]
<1>1. /\ job[w].pc = "containers" /\ left # <<>> /\ Left(w) = left
      /\ containers' = [containers EXCEPT ![s] = Running(s, v)]
      /\ UNCHANGED record /\ Advance(w)
  BY <1>0 DEF StartContainer, At, Left
<1>2. /\ job[w].inst # NoRecord /\ v \in Version /\ left \in Seq(S) /\ S \subseteq Service
      /\ record # NoRecord /\ v = record.dir /\ UpOrBefore(SpecOf[v], left)
  <2>1. ToDo(job[w].pc, job[w].inst) = S
    BY <1>0, <1>1 DEF ToDo
  <2>2. job[w].inst # NoRecord /\ v \in Version /\ left \in Seq(S)
    BY <1>0, <1>1, <2>1, TInvGives DEF Holds
  <2> QED BY <1>0, <1>1, <2>2, FinitelyMany DEF SInv, Starts
<1>3. s \in S /\ s \in Service /\ 1 \in 1..Len(left) /\ left[1] = s
  <2> HIDE DEF S
  <2> QED BY <1>0, <1>1, <1>2
<1>4. Running(s, v) \in Container /\ Running(s, v).up
  <2>1. SpecOf[v][s].image \in AllImages
    BY <1>2, <1>3 DEF AllImages, Images
  <2>2. containers[s] \in Container \cup {NoContainer}
    BY <1>3 DEF TInv, StateTypes
  <2> QED BY <2>1, <2>2 DEF Running, Container
<1>5. containers \in [Service -> Container \cup {NoContainer}]
  BY DEF TInv, StateTypes
<1> HIDE DEF S
<1>6. /\ \A x \in Service \ {s} : containers'[x] = containers[x]
      /\ containers'[s] = Running(s, v)
      /\ DOMAIN containers' = DOMAIN containers
  BY <1>1, <1>3, <1>5
<1>7. Up(s)' /\ \A x \in Service : Up(x) => Up(x)'
  BY <1>4, <1>6, PackagesAssumption DEF Up, Container
<1>8. \A d \in ToSet(SpecOf[v][s].deps) : Up(d)
  BY <1>2, <1>3 DEF UpOrBefore
<1>9. \A d : Up(d) => Up(d)'
  BY <1>1, <1>4, <1>5, <1>7, PackagesAssumption DEF Up, Container
<1>10. UpOrBefore(SpecOf[v], Tail(left))'
  BY <1>0, <1>1, <1>2, <1>7, <1>9, FirstComesUp
<1>11. /\ job'[w].pc = "containers" /\ job'[w].inst = job[w].inst /\ job'[w].left = Tail(left)
  BY <1>0, <1>1, TInvGives DEF Advance, SetJob, TInv, JobOK
<1>12. Starts(w)'
  BY <1>0, <1>1, <1>2, <1>10, <1>11 DEF Starts
<1> QED BY <1>2, <1>6, <1>8, <1>12 DEF Up

\* The others bring none up, and a start is of the version in the record, in the order of the
\* sort.
LEMMA RunStartsTheRecord ==
    ASSUME OneWorker, IInv, TInv, SInv, \A v \in Version : Acyclic(SpecOf[v]),
           NEW w \in Worker, Run(w), ~StartContainer(w)
    PROVE  Starts(w)' /\ NoneComesUp
<1> USE TypesOfTInv, OthersShowNothing
<1>1. NoneComesUp
  <2>1. CASE StartFails(w)
    BY <2>1 DEF StartFails, NoneComesUp, Up, TInv, StateTypes
  <2>2. CASE StopFails(w)
    <3>1. ASSUME NEW s, containers[s] # NoContainer,
                 containers' = [containers EXCEPT ![s].up = FALSE]
          PROVE  NoneComesUp
      BY <3>1 DEF NoneComesUp, Up, TInv, StateTypes, Container
    <3>2. CASE UNCHANGED containers
      BY <3>2 DEF NoneComesUp, Up
    <3> QED BY <2>2, <3>1, <3>2 DEF StopFails
  <2>3. CASE StopContainer(w)
    BY <2>3 DEF StopContainer, NoneComesUp, Up, TInv, StateTypes
  <2>4. CASE UNCHANGED containers
    BY <2>4 DEF NoneComesUp, Up
  <2> QED BY <2>1, <2>2, <2>3, <2>4
          DEF Run, StartPlugin, PullImage, PullFails, SortServices, UndoStart, MarkRunning,
              StopPlugin, Stopped, Restore, dockerVars
<1> SUFFICES Starts(w)'
  BY <1>1
<1>2. ASSUME Done(w) PROVE Starts(w)'
  BY <1>2, DoneMoves DEF Moved
<1>3. ASSUME NEW pc \in PCs, Goto(w, pc), pc \notin {"pull", "containers", "cleanup", "images"}
      PROVE  Starts(w)'
  BY <1>3, GotoMoves DEF Moved
<1>4. ASSUME BeginStop(w, job[w]) PROVE Starts(w)'
  BY <1>4, BeginStopMoves DEF Moved, Types
<1>5. CASE StartPlugin(w)
  <2>1. record \in Record /\ record' # NoRecord /\ record'.dir = record.dir
    BY <1>5 DEF StartPlugin, HasStatus, TInv, StateTypes, Records, Record
  <2> QED BY <1>5, <2>1, StartsTheRecord DEF StartPlugin
<1>6. CASE PullImage(w)
  <2>1. Moved(w, "pull", job[w].op, job[w].new, job[w].inst, job[w].restart)
    BY <1>6, GotoMoves DEF PullImage, PCs
  <2>2. record # NoRecord => record' # NoRecord /\ record'.dir = record.dir
    BY <1>6, StatusOnly DEF PullImage, Statuses
  <2> QED BY <1>6, <2>1, <2>2, SameVersion DEF PullImage, At
<1>7. CASE PullFails(w)
  BY <1>2, <1>7 DEF PullFails
<1>8. CASE SortServices(w)
  <2>0. PICK v, spec : v = job[w].inst.dir /\ spec = SpecOf[v]
    OBVIOUS
  <2>1. job[w].pc = "pull" /\ UpdateStatus("starting")
    BY <1>8 DEF SortServices, At
  <2>2. v \in Version /\ record # NoRecord /\ v = record.dir
    BY <2>0, <2>1, TInvGives DEF Holds, SInv, Starts
  <2>3. record' # NoRecord /\ record'.dir = record.dir
    BY <2>1, <2>2, StatusOnly DEF Statuses
  <2>4. IsBootSpec(spec) /\ Acyclic(spec)
    BY <2>0, <2>2, PackagesAssumption
  <2>5. ASSUME NEW order \in VisitOrders(spec), TopoSort(spec, order) # Failed,
               GotoWith(w, "containers", TopoSort(spec, order))
        PROVE  Starts(w)'
    <3>0. PICK list : list = TopoSort(spec, order)
      OBVIOUS
    <3>1. InDependencyOrder(spec, list)
      BY <2>4, <2>5, <3>0, TopoSortIsTopological
    <3>2. UpOrBefore(spec, list)'
      BY <3>1 DEF InDependencyOrder, UpOrBefore
    <3>3. /\ job'[w].pc = "containers" /\ job'[w].inst = job[w].inst /\ job'[w].left = list
      BY <2>5, <3>0, TInvGives DEF GotoWith, SetJob, TInv, JobOK
    <3> QED BY <2>0, <2>2, <2>3, <3>2, <3>3 DEF Starts
  <2> QED BY <1>4, <1>8, <2>0, <2>5 DEF SortServices
<1>9. CASE StartFails(w)
  BY <1>3, <1>9 DEF StartFails, PCs
<1>10. CASE UndoStart(w)
  BY <1>4, <1>10 DEF UndoStart
<1>11. CASE MarkRunning(w)
  BY <1>2, <1>11 DEF MarkRunning
<1>12. CASE StopPlugin(w)
  <2> DEFINE n == [IdleJob EXCEPT !.op = "stop", !.inst = record]
  <2>1. PICK listed : SetJob(w, [n EXCEPT !.pc = "stop", !.left = listed])
    BY <1>12 DEF StopPlugin, BeginStop
  <2>2. [n EXCEPT !.pc = "stop", !.left = listed].pc = "stop"
    BY DEF IdleJob
  <2> HIDE DEF n
  <2> QED BY <2>1, <2>2 DEF SetJob, Types
<1>13. CASE StopContainer(w)
  <2>1. Moved(w, "stop", job[w].op, job[w].new, job[w].inst, job[w].restart)
    BY <1>13, GotoMoves DEF StopContainer, PCs
  <2> QED BY <2>1 DEF Moved
<1>14. CASE StopFails(w)
  BY <1>2, <1>14 DEF StopFails, UpgradeFails
<1>15. CASE Stopped(w)
  <2>1. job[w].op \in {"start", "stop", "upgrade", "uninstall"}
    BY <1>15, TInvGives DEF Stopped, At, Holds, OpsAt
  <2> QED BY <1>2, <1>3, <1>15, <2>1 DEF Stopped, PCs
<1>16. CASE Restore(w)
  <2>1. job[w].pc = "idle"
    BY <1>16, InvGives DEF Restore, InOrder
  <2>2. CASE UNCHANGED job
    BY <2>1, <2>2
  <2>3. CASE /\ record # NoRecord /\ Saved("stopped")
             /\ BeginStart(w, [record EXCEPT !.status = "stopped"])
    <3> DEFINE inst == [record EXCEPT !.status = "stopped"]
    <3>1. inst \in Record /\ record' = inst
      BY <2>3 DEF TInv, StateTypes, Records, Record, Statuses, Saved
    <3> HIDE DEF inst
    <3>2. record' # NoRecord /\ record'.dir = inst.dir
      BY <3>1, PackagesAssumption DEF Record
    <3> QED BY <2>3, <3>1, <3>2, StartsTheRecord DEF inst
  <2> QED BY <1>16, <2>2, <2>3 DEF Restore, HasStatus
<1> QED BY <1>5, <1>6, <1>7, <1>8, <1>9, <1>10, <1>11, <1>12, <1>13, <1>14, <1>15, <1>16 DEF Run

\* What a step does to the containers that come up.
DepsAreUp ==
    \A s \in Service :
       containers'[s] # NoContainer /\ containers'[s].up
       /\ ~(containers[s] # NoContainer /\ containers[s].up)
       => \A d \in ToSet(SpecOf[record.dir][s].deps) :
             containers[d] # NoContainer /\ containers[d].up

\* A container comes up only when those it depends on are up, whatever order the map is
\* iterated in, whichever calls failed before and wherever the daemon died (StartContainers),
\* when requests come one at a time and no service depends on itself; the code does not
\* look for a cycle.
THEOREM ServicesStartInOrder ==
    OneWorker /\ (\A v \in Version : Acyclic(SpecOf[v])) => (Spec => DependenciesFirst)
<1> SUFFICES ASSUME OneWorker, \A v \in Version : Acyclic(SpecOf[v])
             PROVE  Spec => DependenciesFirst
  OBVIOUS
<1>1. ASSUME IInv, TInv, SInv, [Next]_vars PROVE SInv' /\ [DepsAreUp]_vars
  <2>1. ASSUME NEW w \in Worker, Starts(w)' PROVE SInv'
    BY <2>1 DEF OneWorker, SInv
  <2>2. ASSUME NoneComesUp PROVE DepsAreUp
    BY <2>2 DEF NoneComesUp, DepsAreUp, Up
  <2>3. ASSUME NEW w \in Worker, StartContainer(w) PROVE SInv' /\ DepsAreUp
    BY <1>1, <2>1, <2>3, StartsAfterItsDependencies DEF DepsAreUp, Up
  <2>4. ASSUME NEW w \in Worker, Download(w) \/ Change(w) \/ Run(w) PROVE SInv' /\ DepsAreUp
    BY <1>1, <2>1, <2>2, <2>3, <2>4, DownloadStartsNothing, ChangeStartsTheRecord,
       RunStartsTheRecord
  <2>5. CASE Crash
    <3>1. NoneComesUp
      BY <2>5 DEF Crash, NoneComesUp, Up, dockerVars
    <3>2. \A w \in Worker : job'[w].pc = "idle"
      BY <2>5 DEF Crash, IdleJob
    <3> QED BY <2>2, <3>1, <3>2, OthersShowNothing DEF SInv
  <2>6. CASE UNCHANGED <<record, containers, job>>
    BY <1>1, <2>2, <2>6 DEF SInv, Starts, UpOrBefore, Up, NoneComesUp
  <2>7. ASSUME NEW i \in AllImages, Revoke(i) PROVE UNCHANGED <<record, containers, job>>
    BY <2>7 DEF Revoke, dockerVars
  <2>8. CASE UNCHANGED vars
    BY <2>6, <2>8 DEF vars, dockerVars
  <2> QED BY <1>1, <2>4, <2>5, <2>6, <2>7, <2>8 DEF Next
<1>2. Init => SInv
  BY DEF Init, IdleJob, SInv, Starts
<1>3. Spec => []IInv /\ []TInv
  BY Invariance, TypedInvariance
<1> QED BY <1>1, <1>2, <1>3, PTL DEF Spec, DependenciesFirst, DepsAreUp
=============================================================================

--------------------------- MODULE MCTaskScheduler ---------------------------
(***************************************************************************)
(* Small Blueprints for TaskScheduler's runs.                              *)
(***************************************************************************)
EXTENDS TaskScheduler, TLC

CONSTANTS a, b, c, d, e, f, g, j, k, u, v, dangling

NoLimits == [n \in Node |-> 0]

LineKind == [n \in Node |-> "plugin"]
LineNext == (a :> <<b>>) @@ (b :> <<>>)

\* A fixed-count LOOP a around a fork: b forks to c and d, which meet at the
\* JOIN j that goes back to a, and to e, a leaf that is also the LOOP's exit.
LoopKind == (a :> "loop") @@ (j :> "join") @@ (e :> "output") @@ [n \in Node |-> "plugin"]
LoopNext == (a :> <<b, e>>) @@ (b :> <<c, d, e>>) @@ (c :> <<j>>) @@ (d :> <<j>>)
              @@ (j :> <<a>>) @@ (e :> <<>>)
LoopTwice == [n \in Node |-> IF n = a THEN 2 ELSE 0]

\* Each pass of the LOOP's body forks once, so a Task that completed has
\* minted two branch ids a pass beside the first: the body ran exactly as
\* often as the count says although its branches and the LOOP node are
\* executed by different goroutines.  handleLoopNode.
LoopBodyRunsExactly ==
  status = "completed" => minted = 1 + LoopLimit[a] * (Len(NextNodes[b]) - 1)

\* Every way a built-in node can go, on two branches that meet at the JOIN j:
\* an INPUT, IFs, an expression LOOP around a plugin node, an OUTPUT, a
\* capability nobody knows, the empty id, and an id that is in no node, met
\* by an IF and by a fan-out.
BuiltinKind == (a :> "input") @@ (b :> "if") @@ (c :> "while") @@ (d :> "plugin")
                 @@ (e :> "output") @@ (f :> "if") @@ (g :> "if") @@ (j :> "join")
                 @@ (k :> "plugin") @@ (u :> "unknown") @@ (v :> "if")
BuiltinNext == (a :> <<b, c>>) @@ (b :> <<d, g>>) @@ (d :> <<j>>)
                 @@ (c :> <<k, j>>) @@ (k :> <<f>>) @@ (f :> <<c, dangling>>)
                 @@ (g :> <<e, v>>) @@ (e :> <<dangling>>) @@ (v :> <<u, Exit>>)
                 @@ (u :> <<>>) @@ (j :> <<>>)

\* b and c both lead to the plugin node d: no JOIN, so d runs twice.
SharedNext == (a :> <<b, c>>) @@ (b :> <<d>>) @@ (c :> <<d>>) @@ (d :> <<>>)

\* One branch is an IF whose true side is the empty id, the other works on.
ExitKind == (b :> "if") @@ [n \in Node |-> "plugin"]
ExitNext == (a :> <<b, c>>) @@ (b :> <<Exit, d>>) @@ (c :> <<>>) @@ (d :> <<>>)

\* In both the forks come together again, as WellNested says: j is the only
\* JOIN that waits, and a branch is worth one half until it gets there.
Worth(ns) == [n \in Node |-> IF n \in ns THEN 1 ELSE 0]

ASSUME LoopNests ==
  NextNodes = LoopNext /\ Kind = LoopKind =>
    /\ {n \in Node : Merges(n)} = {j}
    /\ Nests([n \in Node |-> 0], j, 2, Worth({c, d, j}), Worth({c, d}))

ASSUME BuiltinNests ==
  NextNodes = BuiltinNext /\ Kind = BuiltinKind =>
    /\ {n \in Node : Merges(n)} = {j}
    /\ Nests([n \in Node |-> 0], j, 2, Worth(Node \ {a}), Worth({d, e, k}))

\* And which places are beside which: the sides of the fork beside each other, and beside
\* everything the leaf e, which each pass leaves behind.
Together(ps, qs) == (ps \X qs) \union (qs \X ps)
Side(ns) == {p \in Places : p[Len(p)] \in ns \/ (p[1] \in ns /\ p[Len(p)] = j)}

ASSUME LoopKeepsApart ==
  NextNodes = LoopNext /\ Kind = LoopKind =>
    KeepsApart(Together(Side({c}), Side({d})) \union Together(Side({e}), Places))

ASSUME BuiltinKeepsApart ==
  NextNodes = BuiltinNext /\ Kind = BuiltinKind =>
    KeepsApart(Together(Side(Node \ {a, c, f, j, k}), Side({c, f, k})))

Permute == Permutations(Handler)
=============================================================================

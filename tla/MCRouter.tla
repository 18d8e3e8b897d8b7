----------------------------- MODULE MCRouter -----------------------------
(* Router on small tables: two providers of two major versions. *)
EXTENDS Router, TLC

CONSTANTS m1, p, q, cap, left

Entry(id, major, weight) == [id |-> id, major |-> major, weight |-> weight]
RouteFor(slot, providers, strategy) ==
    [key |-> cap, slot |-> slot, providers |-> providers, strategy |-> strategy]

Two == <<Entry(p, NoMajor, 1), Entry(q, NoMajor, 0)>>
Wheel == <<RouteFor(NoSlot, Two, "round_robin")>>
Exact == <<RouteFor(left, <<Entry(q, 2, 0)>>, "fallback"), RouteFor(NoSlot, Two, "fallback")>>
Tables == {Wheel, Exact}

Majors == (p :> 1) @@ (q :> 2)
SameMajor == (p :> 1) @@ (q :> 1)

=============================================================================

--------------------------- MODULE MCProvisioning ---------------------------
(***************************************************************************)
(* The second version moves a queue to another topic and has one more.     *)
(***************************************************************************)
EXTENDS Provisioning, TLC

CONSTANTS v1, v2

Provider(name, pattern) == [queue |-> name, exchange |-> "griffino.plugins", topic |-> pattern]

TwoVersions ==
    (v1 :> <<Provider("one", "one.v1")>>)
        @@ (v2 :> <<Provider("one", "one.v2"), Provider("two", "two.v1")>>)

Permute == Permutations(Password)
=============================================================================

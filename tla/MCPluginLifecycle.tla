-------------------------- MODULE MCPluginLifecycle --------------------------
(***************************************************************************)
(* A plugin of two versions, the second of which needs two saves of the    *)
(* configuration.                                                          *)
(***************************************************************************)
EXTENDS PluginLifecycle, TLC

CONSTANTS v1, v2

SecondNeedsMore == [v \in Version |-> IF v = v2 THEN 2 ELSE 0]

Permute == Permutations(Credential)
=============================================================================

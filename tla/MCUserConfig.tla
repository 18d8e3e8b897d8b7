---------------------------- MODULE MCUserConfig ----------------------------
(* UserConfig with two tabs and two accounts. *)
EXTENDS UserConfig, TLC

CONSTANTS a, b, p1, p2, tab1, tab2

Permute == Permutations(Tab) \cup Permutations(Account)
=============================================================================

---------------------------- MODULE MCBootstrap ----------------------------
(* Bootstrap with two daemon processes. *)
EXTENDS Bootstrap

CONSTANTS d1, d2
=============================================================================

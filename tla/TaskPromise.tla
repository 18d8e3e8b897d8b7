----------------------------- MODULE TaskPromise -----------------------------
(***************************************************************************)
(* What the task scheduler promises to the plugin whose event started a    *)
(* Task: once the Task runs it reaches exactly one of two outcomes, the    *)
(* outcome never changes, and the plugin is told of it once, by a          *)
(* task.completed or a task.failed message that agrees with the outcome.   *)
(***************************************************************************)
EXTENDS Naturals, Sequences

CONSTANT HasTriggerPlugin  \* is there a triggering plugin to call back?

VARIABLES
  outcome,   \* "none" before the Task is created, then types.go's TaskStatus
  notices    \* the callback events sent so far

vars == <<outcome, notices>>

Outcomes == {"completed", "failed"}

Init ==
  /\ outcome = "none"
  /\ notices = <<>>

Start ==
  /\ outcome = "none"
  /\ outcome' = "running"
  /\ UNCHANGED notices

Finish ==
  /\ outcome = "running"
  /\ outcome' \in Outcomes
  /\ UNCHANGED notices

Notify ==
  /\ HasTriggerPlugin
  /\ outcome \in Outcomes
  /\ notices = <<>>
  /\ notices' = <<outcome>>
  /\ UNCHANGED outcome

Next == Start \/ Finish \/ Notify

SafeSpec == Init /\ [][Next]_vars

(***************************************************************************)
(* The Task does end, and its end is announced.                            *)
(***************************************************************************)
Spec == SafeSpec /\ WF_vars(Finish) /\ WF_vars(Notify)
=============================================================================

------------------------------ MODULE MCTasks ------------------------------
(* The scheduler with three task slots. *)
EXTENDS Tasks

\* The timer interrupts everything but a schedule() called by kernel code.
OutsideSchedule == PC \ {"picked", "switch"}

=============================================================================

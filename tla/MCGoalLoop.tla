----------------------------- MODULE MCGoalLoop ------------------------------
(* Small instances of GoalLoop; the constants are given by the configurations. *)
EXTENDS GoalLoop
=============================================================================

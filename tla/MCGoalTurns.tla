---------------------------- MODULE MCGoalTurns ----------------------------
(* Instances of GoalTurns for TLC. *)
EXTENDS GoalTurns

=============================================================================

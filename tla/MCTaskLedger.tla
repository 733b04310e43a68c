--------------------------- MODULE MCTaskLedger ---------------------------
(* Instances of TaskLedger for TLC. *)
EXTENDS TaskLedger, TLC

Symmetry == Permutations(Procs) \cup Permutations(Cards) \cup Permutations(Messages)
=============================================================================

--------------------------- MODULE MCHubDispatch ---------------------------
(* Instances of HubDispatch for TLC. *)
EXTENDS HubDispatch, TLC

Symmetry == Permutations(Dispatches) \cup Permutations(Reports)
=============================================================================

--------------------------- MODULE MCClientTurns ---------------------------
(* Instances of ClientTurns for TLC. *)
EXTENDS ClientTurns

=============================================================================

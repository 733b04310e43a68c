--------------------------- MODULE MCHubElection ---------------------------
(* The election on a small instance.  The agents are interchangeable.      *)
EXTENDS HubElection, TLC

AgentSymmetry == Permutations(Agents)
=============================================================================

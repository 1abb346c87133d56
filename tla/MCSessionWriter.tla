-------------------------- MODULE MCSessionWriter --------------------------
(* Instances of SessionWriter for TLC. *)
EXTENDS SessionWriter, TLC

CONSTANTS c1, c2

MCClients == {c1, c2}
ClientSymmetry == Permutations(MCClients)

OneClient == {c1}
=============================================================================

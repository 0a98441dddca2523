-------------------------- MODULE MCClientRecovery --------------------------
(* Small instances of ClientRecovery.                                       *)
EXTENDS ClientRecovery, TLC

CONSTANTS C1, C2, D1, D2

ClientSymmetry == Permutations(Clients)
DatabaseSymmetry == Permutations(Databases)
=============================================================================

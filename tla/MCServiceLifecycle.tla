------------------------- MODULE MCServiceLifecycle -------------------------
(* Small instances of ServiceLifecycle.                                     *)
EXTENDS ServiceLifecycle, TLC

CONSTANTS C1, C2, C3, C4

ConnSymmetry == Permutations(Conns)
=============================================================================

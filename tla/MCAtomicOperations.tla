------------------------ MODULE MCAtomicOperations ------------------------
(* Instances of AtomicOperations: the names of the tokens of a call, which *)
(* nothing but their place in an operation tells apart.                    *)
EXTENDS AtomicOperations, TLC

CONSTANTS t1, t2

TwoTokens == {t1, t2}
NoTokens  == {}

TokenSymmetry == Permutations({t1, t2})
=============================================================================

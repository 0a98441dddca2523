------------------------ MODULE MCServicePublication ------------------------
(* Small instances of ServicePublication.                                   *)
EXTENDS ServicePublication, TLC

CONSTANTS T1, T2, T3, A, B, C, D

Rq(id, hash, kind, after, ifs) ==
    [id |-> id, hash |-> hash, kind |-> kind, after |-> after, ifs |-> ifs]

\* Enough writes to fill the window, evict A's receipt, retry A and reuse its ID.
WindowRequests ==
    {Rq(A, "a0", "plain", 0, None),
     Rq(B, "b0", "plain", 0, None),
     Rq(A, "a2", "plain", 2, None),
     Rq(C, "c1", "plain", 1, 2),
     Rq(D, "d2", "schema", 2, None)}

\* Every kind of call.
CallRequests ==
    {Rq(A, "a0", "plain", 0, 0),
     Rq(B, "b0", "schema", 0, None),
     Rq(C, "c1", "bad", 1, None),
     Rq(D, "r1", "read", 1, None),
     Rq(D, "i0", "info", 0, None)}

\* A write that may turn out to need the exclusive lock, a schema change, a read.
LiveRequests ==
    {Rq(A, "a0", "plain", 0, None),
     Rq(B, "b0", "schema", 0, None),
     Rq(D, "r0", "read", 0, None)}

ThreadSymmetry == Permutations(Threads)
=============================================================================

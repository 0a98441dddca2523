-------------------------- MODULE MCMvccTransactions --------------------------
EXTENDS MvccTransactions

CONSTANTS T1, T2, T3

Three == {T1, T2, T3}
One == {1}
Both == {1, 2}

Get(r) == <<"read", r>>
Put(r) == <<"put", r>>
Del(r) == <<"delete", r>>

Setup(programs, exclusives, grouped, threads, drops) ==
  [programs |-> programs, exclusive |-> exclusives, grouped |-> grouped,
   threads |-> threads, drops |-> drops]

\* A writer of both rows, one that deletes the first, and a reader of both.
Snapshot ==
  (T1 :> {<<Put(1), Put(2)>>})
    @@ (T2 :> {<<Del(1)>>})
    @@ (T3 :> {<<Get(1), Get(2)>>})

\* Two writers that meet in a row of the B-tree and in a row outside it.
Writers ==
  (T1 :> {<<Put(1), Put(2)>>})
    @@ (T2 :> {<<Del(1), Put(2)>>})

\* Two concurrent transactions and one that becomes exclusive.
Upgrades ==
  (T1 :> {<<Put(1)>>})
    @@ (T2 :> {<<Put(2)>>})
    @@ (T3 :> {<<Get(1), Put(2)>>, <<Put(1)>>})

\* Two transactions, each writing a row and reading the other's.
Crossing ==
  (T1 :> {<<Put(1), Get(2)>>, <<Get(2), Put(1)>>})
    @@ (T2 :> {<<Put(2), Get(1)>>, <<Get(1), Put(2)>>})

\* Two writers that share a batch and a reader of what they write.
Batch ==
  (T1 :> {<<Put(1)>>})
    @@ (T2 :> {<<Put(2)>>})
    @@ (T3 :> {<<Get(2)>>, <<Get(1), Put(2)>>})

MCSetups ==
  {Setup(Snapshot, {}, FALSE, TRUE, 0),
   Setup(Writers, {}, TRUE, TRUE, 2),
   Setup(Upgrades, {T3}, FALSE, FALSE, 0),
   Setup(Crossing, {T1, T2}, FALSE, TRUE, 0),
   Setup(Crossing, {}, TRUE, TRUE, 2),
   Setup(Batch, {}, TRUE, FALSE, 1)}
===============================================================================

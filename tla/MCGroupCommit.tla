----------------------------- MODULE MCGroupCommit -----------------------------
EXTENDS GroupCommit, TLC

CONSTANTS T1, T2, T3

Setup(exclusive, readFrom, modes, threads, limit) ==
  [exclusive |-> exclusive, readFrom |-> readFrom, modes |-> modes,
   threads |-> threads, drops |-> limit]

\* One thread and two failures; one thread, an exclusive transaction and the pragma
\* changing under it; a thread for each connection.
MCSetups ==
  {Setup({}, {}, {TRUE}, FALSE, 2),
   Setup({T3}, {T1}, BOOLEAN, FALSE, 1),
   Setup({}, {}, {TRUE}, TRUE, 2)}

Three == {T1, T2, T3}
Only2 == {T2}
================================================================================

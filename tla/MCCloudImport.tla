----------------------------- MODULE MCCloudImport -----------------------------
EXTENDS CloudImport, TLC

CONSTANTS S1, S2, R1, C1, P

Cast(runs, limit) == [runs |-> runs, crashes |-> limit]

\* Two starts race while the machine stops; a start is resumed after the machine
\* stopped or while it goes on; a start is cancelled.
MCCasts == {Cast({S1, S2}, 1), Cast({S1, R1}, 1), Cast({S1, C1}, 0)}

\* Everybody is given the same journal.
OneJournal == [r \in Uploads |-> P]
================================================================================

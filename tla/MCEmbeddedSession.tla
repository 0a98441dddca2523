------------------------- MODULE MCEmbeddedSession --------------------------
(* A small instance of EmbeddedSession.                                     *)
EXTENDS EmbeddedSession

CONSTANTS S1, S2, F1, F2

\* One more file than adapters; or one file, opened again while it is closing.
MCBudgets == {[files |-> {F1, F2}, opens |-> 2], [files |-> {F1}, opens |-> 3]}
=============================================================================

------------------------- MODULE MCOfflineConversion -------------------------
EXTENDS OfflineConversion, TLC

CONSTANTS M1, M2, R1, B1, B2, O1, O2

\* Two conversions race for one output; a restore of the first one's backup.
MCCommands == {M1, M2, R1}
MCRestores == {R1}
MCBackupOf == (M1 :> B1) @@ (M2 :> B2) @@ (R1 :> B1)
MCOutputOf == (M1 :> O1) @@ (M2 :> O1) @@ (R1 :> O2)
==============================================================================

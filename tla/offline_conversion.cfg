SPECIFICATION Spec
CONSTANTS
  M1 = M1
  M2 = M2
  R1 = R1
  B1 = B1
  B2 = B2
  O1 = O1
  O2 = O2
  None = None
  Torn = Torn
  Commands <- MCCommands
  Restores <- MCRestores
  BackupOf <- MCBackupOf
  OutputOf <- MCOutputOf
  MaxVersion = 2
  MaxCrashes = 1
INVARIANTS ConversionHasBackup
PROPERTIES ReportedSurvives
CHECK_DEADLOCK FALSE

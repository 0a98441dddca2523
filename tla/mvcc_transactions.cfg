SPECIFICATION Spec
CONSTANTS
  T1 = T1  T2 = T2  T3 = T3
  None = None
  Txs <- Three
  Rows <- Both
  Resident <- One
  Setups <- MCSetups
INVARIANTS SnapshotReads FirstCommitterWins ExclusiveSerial Bookkeeping

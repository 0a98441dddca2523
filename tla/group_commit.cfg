SPECIFICATION FairSpec
CONSTANTS
  T1 = T1  T2 = T2  T3 = T3
  None = None
  Txs <- Three
  Full <- Only2
  Setups <- MCSetups
INVARIANTS Coordinated
PROPERTIES ImplementsCommitLog EveryCommitEnds

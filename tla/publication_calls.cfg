SPECIFICATION FairSpec
CONSTANTS
  T1 = T1  T2 = T2  T3 = T3
  A = A  B = B  C = C  D = D
  None = None
  Threads = {T1, T2}
  Requests <- CallRequests
  W = 2  Attempts = 2  Limit = 2
INVARIANTS SchemaChangeAlone
PROPERTIES ImplementsLedger Answered

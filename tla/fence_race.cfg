SPECIFICATION FairSpec
CONSTANTS
  T1 = T1  T2 = T2  T3 = T3
  A = A  B = B  C = C  D = D
  None = None
  Threads = {T1, T2}
  Requests <- LiveRequests
  W = 2  Attempts = 1  Limit = 2
PROPERTIES FenceStopsPublication

SPECIFICATION Spec
CONSTANTS
  S1 = S1  S2 = S2  R1 = R1  C1 = C1  P = P
  None = None
  Starts = {S1, S2}
  Resumes = {R1}
  Cancels = {C1}
  Paths = {P}
  PathOf <- OneJournal
  Casts <- MCCasts
  N = 2  PageSize = 1  MaxPolls = 1  MaxChanges = 2
INVARIANTS JobHasJournal CompleteWhole
CHECK_DEADLOCK FALSE

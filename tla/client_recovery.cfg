SPECIFICATION Spec
CONSTANTS
  C1 = C1  C2 = C2  D1 = D1  D2 = D2
  None = None  Torn = Torn
  Clients = {C1}  Databases = {D1, D2}
  W = 2  MaxSeq = 3  MaxDrafts = 2  MaxCalls = 3
SYMMETRY DatabaseSymmetry
INVARIANTS NoStray ClaimsHold IntentOnce JournalCovers
PROPERTIES NotSentIsTrue

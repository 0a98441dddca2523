SPECIFICATION LiveSpec
CONSTANTS
  S1 = S1  S2 = S2  F1 = F1  F2 = F2
  Other = Other  None = None
  Slots = {S1, S2}  Files = {F1, F2}
  MaxSessions = 1  MaxPending = 1  MaxCalls = 2
  Budgets <- MCBudgets
INVARIANTS AdapterExact
PROPERTIES EveryWaitEnds
CHECK_DEADLOCK FALSE

SPECIFICATION Spec
CONSTANTS
    t1 = t1
    t2 = t2
    NoToken = NoToken
    Tokens <- TwoTokens
    MaxDepth = 2
    MaxIds = 3
    MaxWrites = 3
    MaxCalls = 2
    MaxInterrupts = 1
SYMMETRY TokenSymmetry
INVARIANT CommittedWhole
PROPERTIES OutcomeTold CancelRestores

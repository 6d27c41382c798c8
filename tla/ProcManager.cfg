SPECIFICATION FairSpec
CONSTANTS
    c1 = c1
    c2 = c2
    Callers <- TwoCallers
    Nobody = nobody
    MaxRestarts = 2
    MaxChildren = 4
    MaxGen = 5
INVARIANTS ProcTypeOK Bookkeeping NoOrphan StatusHonest RestartBudget
PROPERTIES StopIsFinal SuccessIsOwnChild CallsReturn RestartingEnds
\* at the bounds no further call is made
CHECK_DEADLOCK FALSE

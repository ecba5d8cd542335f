CONSTANTS
    m1 = m1
    m2 = m2
    small = small
    large = large
    NoOne = NoOne
    Members = {m1, m2}
    Plan <- MCPlan
    Allowed <- MCAllowed
    PackageCap = 1
    Amounts = {1, 19}
    Funding = 19
    CancelPeriods = 2
    MaxPacks = 3
    MaxMonth = 2
    MaxRewards = 2
    MaxAborts = 1
    Rounds = 2
SPECIFICATION FairSpec
CONSTRAINT ThreePacksEarly
INVARIANTS
    BarsNeverOverfilled
    LockedMatches
    
    CancelBalances
PROPERTY DueIsSettled
CHECK_DEADLOCK FALSE

SPECIFICATION FairSpec
CONSTANTS
    Numbers = {n}
    Amounts = {a1, a2}
    Nothing = Nothing
    MaxMounts = 3
    MaxKeys = 2
    MaxWire = 2
    LaunchHours = 2
    MaxChanges = 1
    MaxGivenUp = 2
CHECK_DEADLOCK FALSE
INVARIANTS
    RetryIsSafe
PROPERTY
    ShownCatchesUp

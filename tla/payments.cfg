CONSTANTS
    m1 = m1
    i1 = i1
    i2 = i2
    i3 = i3
    gold = gold
    platinum = platinum
    None = None
    Members = {m1}
    Invoices = {i1, i2}
    Payer <- OneMember
    Price <- Prices
    Bought <- Packages
    Code <- Codes
    Initial = {gold}
    Advanced = {platinum}
    Repeatable = {}
    Life = 1
    Skew = 0
    MaxAttempts = 2
    Registering = {i1}
    MaxDeposits = 2
    MaxTime = 2
    MaxFaults = 1
SPECIFICATION FairSpec
INVARIANTS
    CreditedOnce OnePackage CursorPassesSettled
PROPERTIES
    WorkerProves FinalIsFinal CursorCatchesUp

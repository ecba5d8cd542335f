CONSTANTS
    w1 = w1
    w2 = w2
    u1 = u1
    h1 = h1
    None = None
    Withdrawals = {w1, w2}
    Users = {u1}
    Owner <- OneOwner
    Amount <- Amounts
    Funds <- JustEnough
    Minimum = 100
    FeeBps = 150
    AutoMax = 250
    Modes = {TRUE}
    AdminStatuses = {"REJECTED"}
    Hashes = {}
    Validity = 1
    StaleAfter = 1
    MaxTime = 2
    MaxFaults = 1
    LastFault = 1
SPECIFICATION Spec
INVARIANT ReleasedNeverPaid

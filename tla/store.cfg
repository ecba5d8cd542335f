SPECIFICATION Spec
CONSTANTS
    Members = {"u", "v"}
    Items = {"boost", "pass"}
    Rounds = {r}
    Requests = {s1, s2}
    Keys = {k}
    None = None
    FirstItem <- McFirstItem
    Patches <- McPatches
    EntryPrices = {1, 2}
    Prizes = {1}
    Amounts = {1}
    Deltas <- McDeltas
    Adjusted = {"u"}
    StartGen = 2
    StartUsdt = 1
    StartVouchers = 1
    MaxCap = 1
    MaxVouchers = 1
    MaxBought <- McMaxBought
SYMMETRY TwoWindows
CONSTRAINT ShopOrLottery
INVARIANTS
    BooksMatch
    OneBoost
    WithinMeans
    OnePrize
CHECK_DEADLOCK FALSE

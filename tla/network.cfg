SPECIFICATION FairSpec
CONSTANTS
    Users = {1, 2, 3, 4, 5, 6, 7}
    Admins = {7}
    Nobody = 0
    FirstSponsor <- McSponsor
    Codes <- McCodes
    Purchases = {"b", "c", "d", "e", "f", "g"}
    Buyer <- McBuyer
    Amount <- McAmount
    SoldOnce = {"b", "c", "d", "e", "f"}
    Unit = 2
    CycleReward = 1
    VoucherEvery = 2
    Limit = 1
    PageSize = 1
    Broken = {1}
    LastDay = 1
INVARIANTS
    BelowSponsor
    PurchasesCount
    DailyLimitHolds
PROPERTY
    MatchedIsSettled
CHECK_DEADLOCK FALSE

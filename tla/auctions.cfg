CONSTANTS
    m1 = m1
    m2 = m2
    m3 = m3
    None = None
    Members = {m1, m2, m3}
    Halls = {1, 2, 3}
    Series = {1, 2}
    Cents = {1, 2}
    Counter <- Counters
    Prize = 3
    Pack = 2
    Entry = 1
    Funds <- Wallets
    Credits <- Passes
    ByHand = {1, 3}
    OnChain = {m1, m2}
    ConfirmsMayOverlap = TRUE
CONSTRAINT RoomOrSeries
SPECIFICATION FairSpec
INVARIANTS
    PrizeWithinHall LowestFirst WalletMatches
PROPERTIES
    HistoryKept OffersResolve

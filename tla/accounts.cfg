SPECIFICATION Spec
CONSTANTS
    Members = {boss, ann}
    Bootstrap = {boss}
    Followers = {ann}
    FirstRoles = {"none", "FINANCE_ADMIN"}
    Channels = {c1, c2}
    Slots = {s1, s2}
    None = None
    Addresses = {a1, a2}
    FirstWallets = {None, a1}
    Challenges = {i1, i2}
    Funds <- McFunds
    MaxTexts = 1
    MaxRequests = 3
CHECK_DEADLOCK FALSE
CONSTRAINTS AcceptsAside WalletsAside
SYMMETRY Twins
INVARIANTS
    GateIsCurrent
    LinkedAsQuoted

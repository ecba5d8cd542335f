SPECIFICATION Spec
CONSTANTS
    Members = {u}
    TaskIds = {"rise", "warrior", "knight", "mission"}
    Windows = {s1, s2}
    None = None
    FirstTask <- McTask
    Edits <- McInputs
    Boosters = {u}
    StartPool = 4
    MaxEdits <- McEdits
    MaxDay = 1
    MaxCycles = 1
    MaxResets = 1
CHECK_DEADLOCK FALSE
CONSTRAINT MissionOrRanks
SYMMETRY TwoWindows
INVARIANT
    PaidAsQuoted
PROPERTIES
    SettledAsChecked
    RanksInOrder

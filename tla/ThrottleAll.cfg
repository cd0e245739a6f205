\* Two attempts at a time, and time passes.
CONSTANTS
    None = None
    Identifier = {i1, i2}
    Ip = {a1}
    Proc = {p1, p2}
    MaxPerIdentifier = 2
    MaxPerIp = 3
    WindowTime = 2
    BlockTime = 2
    MaxEntries = 1
SPECIFICATION FairSpec
INVARIANTS
    BlockedForCause
    NothingForgotten
    AtMostLimit
PROPERTIES
    LockoutEnds

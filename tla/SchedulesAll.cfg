\* Two users, two requests at a time, three transactions, three days.
CONSTANTS
    None = None
    User = {u1, u2}
    Id = {i1, i2, i3}
    Notes = {a}
    Proc = {p1, p2}
    LastDay = 3
    Week = 2
    MaxVariable = 2
    MaxTransactions = 3
SYMMETRY Symmetry
SPECIFICATION Spec
INVARIANTS
    NoOverlap
    DatesInWindow
    HistoryIsCurrent
PROPERTIES
    CoverageKept
    Serializable
    FollowsCalendar
\* Nothing happens once MaxTransactions have begun and ended.
CHECK_DEADLOCK FALSE

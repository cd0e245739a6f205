\* Answers, timers, restarts and failing queries race on a capture.
CONSTANTS
    Capture = {c1}
    Proc = {p1, p2, p3}
    Timeout = 2
    Margin = 1
    None = None
SPECIFICATION FairSpec
INVARIANTS
    ErrorMatchesStatus
    PendingIsWatched
PROPERTIES
    ResolvedStays
    WindowRespected
    EventuallyClosed

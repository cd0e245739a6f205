\* One user moves between two devices nobody else uses: the indicator stays true,
\* and the other device is left behind.
CONSTANTS
    u1 = u1
    u2 = u2
    d1 = d1
    d2 = d2
    None = None
    User = {u1}
    Device = {d1, d2}
    Socket = {s1, s2}
    Request = {p1, p2}
    LogsIn <- Alone
SYMMETRY Symmetry
SPECIFICATION Spec
INVARIANTS
    IndicatorCurrent
    OnePlace
PROPERTIES
    FollowsPlaces

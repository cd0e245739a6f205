\* Two users take turns on one device, with three connections, closes before and
\* after the session is loaded, kicks and restarts.
CONSTANTS
    u1 = u1
    u2 = u2
    d1 = d1
    d2 = d2
    None = None
    User = {u1, u2}
    Device = {d1}
    Socket = {s1, s2, s3}
    Request = {p1}
    LogsIn <- Shared
SYMMETRY SharedSymmetry
SPECIFICATION Spec
INVARIANTS
    MapsAgree
    ConnectedIsKnown
PROPERTIES
    LostOnlyWithItsSocket

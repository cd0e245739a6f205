\* A socket closes while handleConnection waits for the session, and is registered
\* after that.
CONSTANTS
    u1 = u1
    u2 = u2
    d1 = d1
    d2 = d2
    None = None
    User = {u1}
    Device = {d1, d2}
    Socket = {s1}
    Request = {p1}
    LogsIn <- Alone
SYMMETRY Symmetry
SPECIFICATION Spec
INVARIANTS
    PresenceIsConnected

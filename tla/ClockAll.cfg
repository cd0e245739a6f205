\* Two users share a machine: nonces over the limit, and clock, lunch and forced
\* commands that overlap.
CONSTANTS
    None = None
    Gone = Gone
    User = {u1, u2}
    Device = {d1}
    Nonce = {n1, n2, n3}
    Request = {r1, r2}
    TTL = 0
    MaxPerUser = 2
    SweepAt = 2
SYMMETRY Symmetry
SPECIFICATION Spec
INVARIANTS
    InFlightExact
    LunchOncePerNonce
    FewPerUser
PROPERTIES
    DisplacedByOwn

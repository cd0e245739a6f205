\* One user with the app on two machines, of which one disconnects before the
\* nonce it redeemed is evaluated.
CONSTANTS
    None = None
    Gone = Gone
    User = {u1}
    Device = {d1, d2}
    Nonce = {n1}
    TTL = 1
    MaxPerUser = 2
    SweepAt = 2
SPECIFICATION LocalHandshakeSpec
INVARIANTS
    VerifiedIsLocal

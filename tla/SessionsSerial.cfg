\* One request at a time: what each handler guarantees by itself, with crashes,
\* lost answers, expired tokens and two devices.
CONSTANTS
    Request = {r1}
    Device = {d1, d2}
    None = None
    Unset = Unset
    Grace = 1
    PrevGrace = 2
    RefreshTtl = 2
    MaxTokens = 4
    MaxTime = 2
SYMMETRY Symmetry
SPECIFICATION Spec
INVARIANTS
    DeliveredWasStored
    RevocationIsComplete
    SpentStaysSpent
PROPERTIES
    OnlyLoginReactivates
    FollowsChain

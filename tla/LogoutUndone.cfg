\* A refresh that overlaps a logout saves the session it loaded before.
CONSTANTS
    Request = {r1, r2}
    Device = {d1}
    None = None
    Unset = Unset
    Grace = 1
    PrevGrace = 2
    RefreshTtl = 2
    MaxTokens = 2
    MaxTime = 0
SYMMETRY Symmetry
SPECIFICATION Spec
PROPERTIES
    OnlyLoginReactivates

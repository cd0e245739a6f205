\* Two requests at a time, and failures.
CONSTANTS
    None = None
    Device = {d1, d2}
    Proc = {p1, p2}
    MaxPuts = 3
SYMMETRY Symmetry
SPECIFICATION Spec
INVARIANTS
    AnnouncesNoOlder
    InSync

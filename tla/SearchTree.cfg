\* All trees over five keys.
SPECIFICATION Spec
CONSTANTS
    Null = Null
    Keys = {1, 2, 3, 4, 5}
    Data = {d1, d2}
    Cells = {c1, c2, c3, c4, c5, c6}
SYMMETRY Symmetry
INVARIANTS
    ViewsAgree
    NoLeakNoDangling
    UpdatesOneEntry

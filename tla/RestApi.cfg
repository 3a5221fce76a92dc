SPECIFICATION Spec
CONSTANTS
    k1 = k1
    k2 = k2
    Calls = {k1, k2}
    Capacity = 6
    Rate = 2
    Weights = {1, 5}
    PauseTicks = 3
    Window = 4
SYMMETRY Symmetry
INVARIANTS
    TypeOK
    WindowBound
PROPERTY PauseKept

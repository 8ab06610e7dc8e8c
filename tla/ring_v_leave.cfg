\* A node leaves a ring of two while another joins it.
SPECIFICATION Spec
CONSTANTS
    a = a
    b = b
    c = c
    Node = {a, b, c}
    Casts <- OneJoins
    Cleaners = {}
    Swappers = {a, b, c}
    MaxStarts = 1
    MaxDepartures = 1
    None = None
SYMMETRY Alike
INVARIANT LeaversForgotten
CHECK_DEADLOCK FALSE

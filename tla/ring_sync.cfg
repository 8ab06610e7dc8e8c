\* A node joins a ring of two or of one, or two nodes join at once; one leaves,
\* crashes or is taken for dead.
SPECIFICATION Spec
CONSTANTS
    a = a
    b = b
    c = c
    Node = {a, b, c}
    Casts <- AllCasts
    Cleaners = {c}
    Swappers = {c}
    MaxStarts = 1
    MaxDepartures = 1
    None = None
SYMMETRY Alike
INVARIANTS TypeOK SettledKnowEachOther
CHECK_DEADLOCK FALSE

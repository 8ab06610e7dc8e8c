\* A key and one below it: sets that throw, and collections at any time.
SPECIFICATION Spec
CONSTANTS
    Replica <- TwoReplicas
    Path <- NestedPaths
    Anc <- NestedPathsAnc
    Key <- NestedPathsKey
    KeyOf <- NestedPathsKeyOf
    Value = {v}
    Null = Null
    Obj = Obj
    Absent = Absent
    NoHlc = NoHlc
    Kinds = {"set", "tombstone"}
    MaxLogSize = 1
    MaxPendingSize = 1
    Grace = 0
    EnableAutoGc = TRUE
    ManualGc = TRUE
    Clock = {0}
    MaxOps <- TwoEach
    MaxAllOps = 4
    BufferBound = 2
INVARIANTS ClockIsApplied
PROPERTIES ImplementsCausal
CHECK_DEADLOCK FALSE

\* A set and an older deletion of the same key.
SPECIFICATION Spec
CONSTANTS
    Replica <- TwoReplicas
    Path <- OnePath
    Anc <- OnePathAnc
    Key <- OnePathKey
    KeyOf <- OnePathKeyOf
    Value = {v}
    Null = Null
    Obj = Obj
    Absent = Absent
    NoHlc = NoHlc
    Kinds = {"set", "tombstone"}
    MaxLogSize = 9
    MaxPendingSize = 9
    Grace = 9
    EnableAutoGc = TRUE
    ManualGc = FALSE
    Clock = {0, 1}
    MaxOps <- OneEach
    MaxAllOps = 2
    BufferBound = 1
INVARIANTS LastWriterWins
CHECK_DEADLOCK FALSE

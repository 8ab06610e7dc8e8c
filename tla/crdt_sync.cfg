\* Replicas that keep synchronising, nothing collected.
SPECIFICATION FairSpec
CONSTANTS
    Replica <- TwoReplicas
    Path <- OnePath
    Anc <- OnePathAnc
    Key <- OnePathKey
    KeyOf <- OnePathKeyOf
    Value = {v}
    Null = Null
    Obj = Obj
    Absent = Absent
    NoHlc = NoHlc
    Kinds = {"set", "tombstone"}
    MaxLogSize = 9
    MaxPendingSize = 9
    Grace = 9
    EnableAutoGc = TRUE
    ManualGc = FALSE
    Clock = {0}
    MaxOps <- TwoEach
    MaxAllOps = 4
    BufferBound = 2
INVARIANTS DiffIsComplete
PROPERTIES NoResurrection EventualDelivery
CHECK_DEADLOCK FALSE

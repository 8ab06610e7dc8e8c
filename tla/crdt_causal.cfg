\* Sets and deletions of one key by three replicas, garbage collected at once.
SPECIFICATION Spec
CONSTANTS
    Replica <- ThreeReplicas
    Path <- OnePath
    Anc <- OnePathAnc
    Key <- OnePathKey
    KeyOf <- OnePathKeyOf
    Value = {v}
    Null = Null
    Obj = Obj
    Absent = Absent
    NoHlc = NoHlc
    Kinds = {"set", "tombstone"}
    MaxLogSize = 1
    MaxPendingSize = 1
    Grace = 0
    EnableAutoGc = TRUE
    ManualGc = FALSE
    Clock = {0, 1}
    MaxOps <- OneMore
    MaxAllOps = 3
    BufferBound = 2
INVARIANTS ClockIsApplied HlcOrder BufferSettled CausallyLastDecides
PROPERTIES ImplementsCausal
CHECK_DEADLOCK FALSE

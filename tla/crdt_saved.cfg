\* Crashes, with a snapshot saved in every 'change' event.
SPECIFICATION PersistSpec
CONSTANTS
    Replica <- TwoReplicas
    Path <- OnePath
    Anc <- OnePathAnc
    Key <- OnePathKey
    KeyOf <- OnePathKeyOf
    Value = {v1, v2}
    Null = Null
    Obj = Obj
    Absent = Absent
    NoHlc = NoHlc
    Kinds = {"set"}
    MaxLogSize = 9
    MaxPendingSize = 9
    Grace = 9
    EnableAutoGc = TRUE
    ManualGc = FALSE
    Clock = {0, 1}
    MaxOps <- TwoEach
    MaxAllOps = 4
    BufferBound = 1
    SaveEach = TRUE
    NoSnap = NoSnap
    MaxRestarts = 1
INVARIANTS Convergence UniqueIds MakersRemember RestoredIsClosed LastWriterWins
SYMMETRY ValueSymmetry
CHECK_DEADLOCK FALSE

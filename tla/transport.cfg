\* Sends that overlap or not, stops in any order and a crash.
SPECIFICATION FairSpec
CONSTANTS
    a = a
    b = b
    Node = {a, b}
    Budget <- BudgetDef
    MaxCrashes = 1
    None = None
    FIN = FIN
INVARIANTS HandledInOrder NothingLeaks
PROPERTIES Delivered StopCompletes
CHECK_DEADLOCK FALSE

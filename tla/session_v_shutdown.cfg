\* shutdown() during a reconnection.
SPECIFICATION Spec
CONSTANTS
    Socket = {1, 2, 3}
    Task = {1, 2}
    Start = Start
    Stop = Stop
    None = None
    Broken = Broken
    Tries <- TwoTries
    MaxLosses = 2
PROPERTIES StaysGone
CHECK_DEADLOCK FALSE

\* Two losses: a daemon killed, or a connection the daemon still has.
SPECIFICATION FairSpec
CONSTANTS
    Socket = {1, 2, 3}
    Task = {1, 2}
    Start = Start
    Stop = Stop
    None = None
    Broken = Broken
    Tries <- TwoTries
    MaxLosses = 2
INVARIANTS TypeOK OneConnection SettledIsRegistered
PROPERTIES Reconnects LeavesForGood
CHECK_DEADLOCK FALSE

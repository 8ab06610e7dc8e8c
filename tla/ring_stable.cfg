\* A node, two peers and an entry too many.
SPECIFICATION FairSpec
CONSTANTS
    n1 = n1
    n2 = n2
    n3 = n3
    Id = {n1, n2, n3}
    Entry <- Entries
    IdOf <- IdOfDef
    Token <- TokenDef
    Place <- PlaceDef
    Space = 5
    NoEntry = NoEntry
    self = n1
    QuorumNum = 3
    QuorumDen = 5
INVARIANTS RoutesOnlyWhenSettled NeighborsAgree OnlyOwnKeysMove
PROPERTIES TopologyFrozen StableAgain
CHECK_DEADLOCK FALSE

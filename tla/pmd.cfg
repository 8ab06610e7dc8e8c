\* A node that changes its alias, another that wants it; clients may stay for ever,
\* but one that is gone is noticed.
SPECIFICATION FairSpec
CONSTANTS
    c1 = c1
    c2 = c2
    c3 = c3
    n1 = n1
    n2 = n2
    a1 = a1
    a2 = a2
    p1 = p1
    p2 = p2
    p3 = p3
    Conn = {c1, c2, c3}
    Node = {n1, n2}
    Alias = {a1, a2}
    Proc = {p1, p2, p3}
    NodeOf <- NodeOfDef
    AliasOf <- AliasOfDef
    NoAlias = NoAlias
    None = None
INVARIANTS AliasFindsOwner RegisteredIsConnected TimerMatchesRegistry WatchersSeeRegistry
PROPERTIES ImplementsDirectory GhostsLeave StopCompletes AloneExits
CHECK_DEADLOCK FALSE

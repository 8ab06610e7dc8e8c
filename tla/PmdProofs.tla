----------------------------- MODULE PmdProofs -----------------------------
(***************************************************************************)
(* The invariants of Pmd, and that it implements Directory, proved for     *)
(* every set of connections, nodes, aliases and processes.                 *)
(*                                                                         *)
(* The properties are inductive together: an alias finds its owner by      *)
(* itself, but the timer is right because a registered node has a socket   *)
(* that remembers it, and a socket's close is enough to remove its node    *)
(* because only one node is ever registered on a socket.                   *)
(***************************************************************************)
EXTENDS Pmd, TLAPS

PmdInv ==
    TypeOK /\ AliasFindsOwner /\ RegisteredIsConnected /\ TimerMatchesRegistry /\ WatchersSeeRegistry

\* A connection's handler remembers no other node than its process's.
LEMMA RemembersInit == Init => RemembersOwnNode
BY DEF Init, RemembersOwnNode

LEMMA RemembersStep == TypeOK /\ RemembersOwnNode /\ [Next]_vars => RemembersOwnNode'
<1> SUFFICES ASSUME TypeOK, RemembersOwnNode, [Next]_vars PROVE RemembersOwnNode'
  OBVIOUS
<1> USE DEF TypeOK, RemembersOwnNode
<1>1. ASSUME NEW c \in Conn, Client(c) PROVE RemembersOwnNode'
  BY <1>1 DEF Client, Connect, ConnectTool, Die
<1>2. ASSUME NEW c \in Conn, handleRegister(c) PROVE RemembersOwnNode'
  BY <1>2 DEF handleRegister, Live
<1>3. ASSUME NEW c \in Conn, Close(c) PROVE RemembersOwnNode'
  BY <1>3 DEF Close
<1>4. ASSUME NEW c \in Conn, handleUnregister(c) \/ handleWatch(c) \/ handleShutdown(c)
      PROVE  RemembersOwnNode'
  BY <1>4 DEF handleUnregister, handleWatch, handleShutdown
<1>5. CASE KillTimer \/ AutoShutdown \/ Signal \/ Exit \/ UNCHANGED vars
  BY <1>5 DEF KillTimer, AutoShutdown, Signal, Exit, vars
<1> QED
  BY <1>1, <1>2, <1>3, <1>4, <1>5 DEF Next, Handler

LEMMA InitInv == Init => PmdInv
<1> SUFFICES ASSUME Init PROVE PmdInv
  OBVIOUS
<1> USE DEF Init
<1>1. TypeOK
  BY DEF TypeOK
<1>2. Registered = {}
  BY DEF Registered
<1>3. AliasFindsOwner /\ RegisteredIsConnected
  BY <1>2 DEF AliasFindsOwner, RegisteredIsConnected
<1>4. TimerMatchesRegistry
  BY DEF TimerMatchesRegistry
<1>5. WatchersSeeRegistry
  BY DEF WatchersSeeRegistry
<1> QED
  BY <1>1, <1>3, <1>4, <1>5 DEF PmdInv

\* What removeNode does to the properties; the caller says which sockets stay.
LEMMA RemoveNode ==
    ASSUME PmdInv, NEW n \in Registered, NEW ws \in SUBSET Conn, removeNode(n, ws)
    PROVE  /\ registry' \in [Node -> Proc \cup {None}]
           /\ aliasMap' \in [Alias -> Node \cup {None}]
           /\ nodeSockets' \in [Node -> Conn \cup {None}]
           /\ view' \in [Conn -> SUBSET Node]
           /\ timer' \in {"unset", "armed", "spent"}
           /\ Registered' = Registered \ {n}
           /\ \A m \in Registered' : registry'[m] = registry[m] /\ nodeSockets'[m] = nodeSockets[m]
           /\ AliasFindsOwner'
           /\ timer' # "unset" <=> Registered' = {}
           /\ \A c \in ws : view'[c] = view[c] \ {n}
<1> USE DEF PmdInv, TypeOK
<1>1. n \in Node /\ registry[n] \in Proc
  BY DEF Registered
<1>2. /\ registry' = [registry EXCEPT ![n] = None]
      /\ nodeSockets' = [nodeSockets EXCEPT ![n] = None]
      /\ view' = Leaves(n, ws)
      /\ timer' = checkAutoShutdown(Registered \ {n})
  BY DEF removeNode
<1>3. AliasOf[registry[n]] \in Alias \cup {NoAlias}
  BY <1>1, ProcAssumption
<1>4. aliasMap' = IF AliasOf[registry[n]] = NoAlias THEN aliasMap
                  ELSE [aliasMap EXCEPT ![AliasOf[registry[n]]] = None]
  BY DEF removeNode
<1>5. registry' \in [Node -> Proc \cup {None}] /\ nodeSockets' \in [Node -> Conn \cup {None}]
  BY <1>2
<1>6. aliasMap' \in [Alias -> Node \cup {None}]
  BY <1>3, <1>4
<1>7. Registered' = Registered \ {n}
  BY <1>1, <1>2 DEF Registered
<1>8. \A m \in Registered' : registry'[m] = registry[m] /\ nodeSockets'[m] = nodeSockets[m]
  BY <1>2, <1>7 DEF Registered
<1>9. AliasFindsOwner'
  <2> SUFFICES ASSUME NEW m \in Registered', AliasOf[registry'[m]] # NoAlias
               PROVE  aliasMap'[AliasOf[registry'[m]]] = m
    BY DEF AliasFindsOwner
  <2>1. m \in Registered /\ m # n /\ registry[m] \in Proc /\ registry'[m] = registry[m]
    BY <1>7, <1>8 DEF Registered
  <2>2. aliasMap[AliasOf[registry[m]]] = m
    BY <2>1 DEF AliasFindsOwner
  <2>3. AliasOf[registry[m]] \in Alias
    BY <2>1, ProcAssumption
  <2>4. AliasOf[registry[n]] # NoAlias => aliasMap[AliasOf[registry[n]]] = n
    BY DEF AliasFindsOwner
  <2>5. AliasOf[registry[n]] # NoAlias => AliasOf[registry[n]] # AliasOf[registry[m]]
    BY <2>1, <2>2, <2>4
  <2> QED
    BY <1>3, <1>4, <2>1, <2>2, <2>3, <2>5
<1>10. timer = "unset"
  BY DEF TimerMatchesRegistry
<1>11. timer' # "unset" <=> Registered' = {}
  BY <1>2, <1>7, <1>10 DEF checkAutoShutdown
<1>12. view' \in [Conn -> SUBSET Node] /\ \A c \in ws : view'[c] = view[c] \ {n}
  BY <1>2 DEF Leaves
<1> QED
  BY <1>2, <1>5, <1>6, <1>7, <1>8, <1>9, <1>10, <1>11, <1>12 DEF checkAutoShutdown

LEMMA RegisterInv ==
    ASSUME PmdInv, RemembersOwnNode, NEW c \in Conn, handleRegister(c)
    PROVE  PmdInv'
<1> DEFINE p == user[c]
           n == NodeOf[p]
<1> USE DEF PmdInv, TypeOK
<1>1. p \in Proc /\ n \in Node /\ AliasOf[p] \in Alias \cup {NoAlias}
  BY ProcAssumption DEF handleRegister
<1>2. /\ Live(c) /\ ~AliasTaken(p)
      /\ registry' = [registry EXCEPT ![n] = p]
      /\ nodeSockets' = [nodeSockets EXCEPT ![n] = c]
      /\ aliasMap' = IF AliasOf[p] = NoAlias THEN aliasMap ELSE [aliasMap EXCEPT ![AliasOf[p]] = n]
      /\ assoc' = [assoc EXCEPT ![c] = n]
      /\ view' = IF registry[n] = None THEN Joins(n, watchers) ELSE view
      /\ timer' = "unset"
      /\ UNCHANGED <<conn, user, watchers, stopVars>>
  BY DEF handleRegister
<1>3. n # None /\ p # None /\ c # None
  BY <1>1, NoneAssumption
<1>4. Registered' = Registered \cup {n}
  BY <1>1, <1>2, <1>3 DEF Registered
<1>5. TypeOK'
  <2>1. aliasMap' \in [Alias -> Node \cup {None}]
    BY <1>1, <1>2
  <2>2. view' \in [Conn -> SUBSET Node]
    BY <1>1, <1>2 DEF Joins
  <2> QED
    BY <1>1, <1>2, <2>1, <2>2 DEF stopVars
<1>6. AliasFindsOwner'
  <2> SUFFICES ASSUME NEW m \in Registered', AliasOf[registry'[m]] # NoAlias
               PROVE  aliasMap'[AliasOf[registry'[m]]] = m
    BY DEF AliasFindsOwner
  <2>1. CASE m = n
    BY <1>1, <1>2, <2>1
  <2>2. CASE m # n
    <3>1. m \in Registered /\ registry'[m] = registry[m] /\ registry[m] \in Proc /\ m # None
      BY <1>2, <1>4, <2>2, NoneAssumption DEF Registered
    <3>2. aliasMap[AliasOf[registry[m]]] = m
      BY <3>1 DEF AliasFindsOwner
    <3>3. AliasOf[p] # NoAlias => AliasOf[p] # AliasOf[registry[m]]
      BY <1>2, <2>2, <3>1, <3>2 DEF AliasTaken
    <3> QED
      BY <1>1, <1>2, <3>1, <3>2, <3>3, ProcAssumption
  <2> QED
    BY <2>1, <2>2
<1>7. RegisteredIsConnected'
  <2> SUFFICES ASSUME NEW m \in Registered'
               PROVE  /\ nodeSockets'[m] # None /\ conn'[nodeSockets'[m]] \in {"open", "dead"}
                      /\ assoc'[nodeSockets'[m]] = m
    BY DEF RegisteredIsConnected, Live
  <2>1. CASE m = n
    BY <1>1, <1>2, <1>3, <2>1 DEF Live
  <2>2. CASE m # n
    <3>1. m \in Registered /\ nodeSockets'[m] = nodeSockets[m]
      BY <1>2, <1>4, <2>2 DEF Registered
    <3>2. nodeSockets[m] # None /\ Live(nodeSockets[m]) /\ assoc[nodeSockets[m]] = m
      BY <3>1 DEF RegisteredIsConnected
    <3>3. m # None /\ nodeSockets[m] \in Conn /\ nodeSockets[m] # c
      BY <1>2, <2>2, <3>1, <3>2, NoneAssumption DEF Registered, RemembersOwnNode
    <3>4. assoc'[nodeSockets[m]] = m /\ conn'[nodeSockets[m]] \in {"open", "dead"}
      BY <1>2, <3>2, <3>3 DEF Live
    <3> QED
      BY <3>1, <3>3, <3>4, NoneAssumption
  <2> QED
    BY <2>1, <2>2
<1>8. TimerMatchesRegistry'
  BY <1>2, <1>4 DEF TimerMatchesRegistry
<1>9. WatchersSeeRegistry'
  BY <1>1, <1>2, <1>4 DEF WatchersSeeRegistry, Joins, Registered
<1> QED
  BY <1>5, <1>6, <1>7, <1>8, <1>9

LEMMA UnregisterInv ==
    ASSUME PmdInv, NEW c \in Conn, handleUnregister(c)
    PROVE  PmdInv'
<1> DEFINE n == NodeOf[user[c]]
<1> USE DEF PmdInv, TypeOK
<1>1. n \in Registered /\ watchers \in SUBSET Conn /\ removeNode(n, watchers)
      /\ UNCHANGED <<conn, user, watchers, assoc, stopVars>>
  BY DEF handleUnregister
<1>2. /\ Registered' = Registered \ {n} /\ AliasFindsOwner'
      /\ \A m \in Registered' : registry'[m] = registry[m] /\ nodeSockets'[m] = nodeSockets[m]
      /\ timer' # "unset" <=> Registered' = {}
      /\ \A d \in watchers : view'[d] = view[d] \ {n}
  BY <1>1, RemoveNode
<1>3. TypeOK'
  BY <1>1, RemoveNode DEF stopVars
<1>4. RegisteredIsConnected'
  BY <1>1, <1>2 DEF RegisteredIsConnected, Live
<1>5. \E d \in Conn : assoc[d] # None
  <2>1. nodeSockets[n] \in Conn /\ assoc[nodeSockets[n]] = n /\ n # None
    BY <1>1, NoneAssumption DEF RegisteredIsConnected, Registered
  <2> QED
    BY <2>1
<1>6. TimerMatchesRegistry'
  BY <1>1, <1>2, <1>5 DEF TimerMatchesRegistry
<1>7. WatchersSeeRegistry'
  BY <1>1, <1>2 DEF WatchersSeeRegistry
<1> QED
  BY <1>2, <1>3, <1>4, <1>6, <1>7

LEMMA CloseInv ==
    ASSUME PmdInv, NEW c \in Conn, Close(c)
    PROVE  PmdInv'
<1> USE DEF PmdInv, TypeOK
<1>1. /\ conn[c] = "dead" /\ conn' = [conn EXCEPT ![c] = "closed"]
      /\ watchers' = watchers \ {c}
      /\ UNCHANGED <<user, assoc, stopVars>>
  BY DEF Close
<1>2. \A d \in Conn \ {c} : Live(d) => Live(d)'
  BY <1>1 DEF Live
<1>3. CASE assoc[c] # None /\ assoc[c] \in Registered
  <2> DEFINE n == assoc[c]
  <2>1. n \in Registered /\ watchers \ {c} \in SUBSET Conn /\ removeNode(n, watchers \ {c})
    BY <1>3 DEF Close
  <2>2. /\ Registered' = Registered \ {n} /\ AliasFindsOwner'
        /\ \A m \in Registered' : registry'[m] = registry[m] /\ nodeSockets'[m] = nodeSockets[m]
        /\ timer' # "unset" <=> Registered' = {}
        /\ \A d \in watchers \ {c} : view'[d] = view[d] \ {n}
    BY <2>1, RemoveNode
  <2>3. TypeOK'
    BY <1>1, <2>1, RemoveNode DEF stopVars
  <2>4. RegisteredIsConnected'
    BY <1>1, <1>2, <2>2 DEF RegisteredIsConnected, Registered
  <2>5. TimerMatchesRegistry'
    BY <1>1, <1>3, <2>2 DEF TimerMatchesRegistry
  <2>6. WatchersSeeRegistry'
    BY <1>1, <2>2 DEF WatchersSeeRegistry
  <2> QED
    BY <2>2, <2>3, <2>4, <2>5, <2>6
<1>4. CASE ~(assoc[c] # None /\ assoc[c] \in Registered)
  <2>1. UNCHANGED <<registry, aliasMap, nodeSockets, timer, view>>
    BY <1>4 DEF Close, registryVars
  <2>2. Registered' = Registered
    BY <2>1 DEF Registered
  <2>3. TypeOK'
    BY <1>1, <2>1 DEF stopVars
  <2>4. AliasFindsOwner'
    BY <2>1, <2>2 DEF AliasFindsOwner
  <2>5. \A m \in Registered : nodeSockets[m] \in Conn \ {c}
    BY <1>4, NoneAssumption DEF RegisteredIsConnected, Registered
  <2>6. RegisteredIsConnected'
    BY <1>1, <1>2, <2>1, <2>2, <2>5 DEF RegisteredIsConnected
  <2>7. TimerMatchesRegistry' /\ WatchersSeeRegistry'
    BY <1>1, <2>1, <2>2 DEF TimerMatchesRegistry, WatchersSeeRegistry
  <2> QED
    BY <2>3, <2>4, <2>6, <2>7
<1> QED
  BY <1>3, <1>4

LEMMA WatchInv ==
    ASSUME PmdInv, NEW c \in Conn, handleWatch(c)
    PROVE  PmdInv'
<1> USE DEF PmdInv, TypeOK
<1>1. /\ watchers' = watchers \cup {c} /\ view' = [view EXCEPT ![c] = Registered]
      /\ UNCHANGED <<conn, user, registry, aliasMap, nodeSockets, assoc, timer, stopVars>>
  BY DEF handleWatch, registryVars
<1>2. Registered' = Registered /\ Registered \in SUBSET Node
  BY <1>1 DEF Registered
<1>3. TypeOK'
  BY <1>1, <1>2 DEF stopVars
<1>4. AliasFindsOwner' /\ TimerMatchesRegistry'
  BY <1>1, <1>2 DEF AliasFindsOwner, TimerMatchesRegistry
<1>5. RegisteredIsConnected'
  BY <1>1, <1>2 DEF RegisteredIsConnected, Live
<1>6. WatchersSeeRegistry'
  BY <1>1, <1>2 DEF WatchersSeeRegistry
<1> QED
  BY <1>3, <1>4, <1>5, <1>6

\* The other steps leave the registry as it is, and every socket the daemon has.
LEMMA OtherInv ==
    ASSUME PmdInv, UNCHANGED <<registry, aliasMap, nodeSockets, watchers, assoc, view>>,
           \A c \in Conn : Live(c) => Live(c)',
           conn' \in [Conn -> {"new", "open", "dead", "closed"}],
           user' \in [Conn -> Proc \cup {None}],
           timer' \in {"unset", "armed", "spent"}, timer' = "unset" <=> timer = "unset",
           {killing', stopping', exited'} \subseteq BOOLEAN
    PROVE  PmdInv'
<1> USE DEF PmdInv, TypeOK
<1>1. Registered' = Registered
  BY DEF Registered
<1>2. TypeOK'
  OBVIOUS
<1>3. AliasFindsOwner' /\ TimerMatchesRegistry' /\ WatchersSeeRegistry'
  BY <1>1 DEF AliasFindsOwner, TimerMatchesRegistry, WatchersSeeRegistry
<1>4. RegisteredIsConnected'
  BY <1>1 DEF RegisteredIsConnected, Registered
<1> QED
  BY <1>2, <1>3, <1>4

LEMMA StepInv == PmdInv /\ RemembersOwnNode /\ [Next]_vars => PmdInv'
<1> SUFFICES ASSUME PmdInv, RemembersOwnNode, [Next]_vars PROVE PmdInv'
  OBVIOUS
<1>1. TypeOK
  BY DEF PmdInv
<1>2. ASSUME NEW c \in Conn, Client(c) PROVE PmdInv'
  <2>1. /\ UNCHANGED <<registry, aliasMap, nodeSockets, watchers, assoc, timer, view>>
        /\ UNCHANGED <<killing, stopping, exited>>
    BY <1>2 DEF Client, Connect, ConnectTool, Die, registryVars, stopVars
  <2>2. /\ conn' \in [Conn -> {"new", "open", "dead", "closed"}]
        /\ user' \in [Conn -> Proc \cup {None}]
        /\ \A d \in Conn : Live(d) => Live(d)'
    BY <1>1, <1>2 DEF Client, Connect, ConnectTool, Die, TypeOK, Live
  <2> QED
    BY <1>1, <2>1, <2>2, OtherInv DEF TypeOK
<1>3. ASSUME NEW c \in Conn, handleShutdown(c) PROVE PmdInv'
  BY <1>1, <1>3, OtherInv DEF handleShutdown, registryVars, TypeOK, Live
<1>4. CASE KillTimer \/ AutoShutdown \/ Signal \/ Exit
  <2>1. UNCHANGED <<registry, aliasMap, nodeSockets, watchers, assoc, view, conn, user>>
    BY <1>4 DEF KillTimer, AutoShutdown, Signal, Exit, registryVars
  <2>2. timer' \in {"unset", "armed", "spent"} /\ (timer' = "unset" <=> timer = "unset")
    BY <1>1, <1>4 DEF KillTimer, AutoShutdown, Signal, Exit, stop, TypeOK
  <2>3. {killing', stopping', exited'} \subseteq BOOLEAN
    BY <1>1, <1>4 DEF KillTimer, AutoShutdown, Signal, Exit, stop, TypeOK
  <2>4. \A d \in Conn : Live(d) => Live(d)'
    BY <2>1 DEF Live
  <2> QED
    BY <1>1, <2>1, <2>2, <2>3, <2>4, OtherInv DEF TypeOK
<1>5. CASE UNCHANGED vars
  BY <1>1, <1>5, OtherInv DEF vars, TypeOK, Live
<1> QED
  BY <1>2, <1>3, <1>4, <1>5, RegisterInv, UnregisterInv, WatchInv, CloseInv DEF Next, Handler

\* The properties that are inductive together always hold.
THEOREM PmdInvariant == Spec => [](PmdInv /\ RemembersOwnNode)
<1>1. PmdInv => TypeOK
  BY DEF PmdInv
<1> QED
  BY <1>1, InitInv, StepInv, RemembersInit, RemembersStep, PTL DEF Spec

\* The daemon's tables keep their types.
THEOREM TypeCorrect == Spec => []TypeOK
BY PmdInvariant, PTL DEF PmdInv

\* No two registered nodes share an alias, and RESOLVE of an alias finds its owner.
THEOREM AliasCorrect == Spec => []AliasFindsOwner
BY PmdInvariant, PTL DEF PmdInv

\* A registration lasts no longer than a socket whose close removes it.
THEOREM ConnectedCorrect == Spec => []RegisteredIsConnected
BY PmdInvariant, PTL DEF PmdInv

\* The auto-shutdown timer is set exactly while the last node is gone.
THEOREM TimerCorrect == Spec => []TimerMatchesRegistry
BY PmdInvariant, PTL DEF PmdInv

\* Watchers know the registered nodes.
THEOREM WatchersCorrect == Spec => []WatchersSeeRegistry
BY PmdInvariant, PTL DEF PmdInv

\* The registry is a directory without shared aliases.
THEOREM DirectoryCorrect == Spec => ImplementsDirectory
<1>1. Init => Dir!Init
  BY DEF Init, Dir!Init
<1>2. PmdInv /\ [Next]_vars => [Dir!Next]_registry
  <2> SUFFICES ASSUME PmdInv, [Next]_vars, registry' # registry PROVE Dir!Next
    OBVIOUS
  <2>1. TypeOK /\ AliasFindsOwner
    BY DEF PmdInv
  <2>2. ASSUME NEW n \in Registered, NEW ws, removeNode(n, ws) PROVE Dir!Next
    BY <2>2 DEF removeNode, Registered, Dir!Next, Dir!Leave
  <2>3. ASSUME NEW c \in Conn, handleRegister(c) PROVE Dir!Next
    <3>1. user[c] \in Proc /\ ~AliasTaken(user[c])
          /\ registry' = [registry EXCEPT ![NodeOf[user[c]]] = user[c]]
      BY <2>1, <2>3 DEF handleRegister, TypeOK
    <3>2. ASSUME NEW m \in Node \ {NodeOf[user[c]]}, registry[m] # None, AliasOf[user[c]] # NoAlias
          PROVE  AliasOf[registry[m]] # AliasOf[user[c]]
      BY <2>1, <3>1, <3>2, NoneAssumption DEF AliasFindsOwner, AliasTaken, Registered
    <3> QED
      BY <3>1, <3>2 DEF Dir!Next, Dir!Join
  <2>4. ASSUME NEW c \in Conn, handleUnregister(c) \/ Close(c) PROVE Dir!Next
    BY <2>2, <2>4 DEF handleUnregister, Close, registryVars
  <2>5. ASSUME NEW c \in Conn, Client(c) \/ handleWatch(c) \/ handleShutdown(c) PROVE FALSE
    BY <2>5 DEF Client, Connect, ConnectTool, Die, handleWatch, handleShutdown, registryVars
  <2>6. CASE KillTimer \/ AutoShutdown \/ Signal \/ Exit \/ UNCHANGED vars
    BY <2>6 DEF KillTimer, AutoShutdown, Signal, Exit, registryVars, vars
  <2> QED
    BY <2>3, <2>4, <2>5, <2>6 DEF Next, Handler
<1> QED
  BY <1>1, <1>2, PmdInvariant, PTL DEF Spec, ImplementsDirectory, Dir!Spec
=============================================================================

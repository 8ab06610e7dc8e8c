-------------------------------- MODULE Pmd --------------------------------
(***************************************************************************)
(* PMD (packages/pmd/src/pmd.ts): the port mapper daemon.  Processes       *)
(* connect to it, register their node with an alias and an address, watch  *)
(* the others come and go, and are taken out of the registry when their    *)
(* socket closes.                                                          *)
(*                                                                         *)
(* A process is what a NodeInfo says: its node identifier, alias, host and *)
(* port; a node restarted with the identifier it had is another process of *)
(* the same node.  A connection is used once.  A client closes it or dies  *)
(* at any time, without the daemon noticing yet: the daemon still handles  *)
(* the requests that were under way, and the 'close' event comes whenever  *)
(* it comes, after the node connected again for example.  Handlers run to  *)
(* their end; nothing interleaves with them.                               *)
(*                                                                         *)
(* RESOLVE and LIST only read; HEARTBEAT writes lastHeartbeat, which the   *)
(* daemon never reads; a request refused with an error changes nothing.    *)
(***************************************************************************)
CONSTANTS Conn,      \* connections
          Node,      \* node identifiers
          Alias,     \* aliases
          Proc,      \* processes that run a node
          NodeOf,    \* NodeOf[p]: the nodeId of process p
          AliasOf,   \* AliasOf[p]: its alias, or NoAlias
          NoAlias, None

ASSUME ProcAssumption ==
    /\ NodeOf \in [Proc -> Node]
    /\ AliasOf \in [Proc -> Alias \cup {NoAlias}]
    /\ NoAlias \notin Alias
ASSUME NoneAssumption == None \notin Proc \cup Node \cup Conn

VARIABLES
    conn,         \* conn[c]: "new", "open", "dead" (the client's end is gone), "closed"
    user,         \* user[c]: the process at the other end; None for the command line
    registry,     \* registry[n]: what node n registered, or None
    aliasMap,     \* aliasMap[a]: the node with alias a, or None
    watchers,     \* the connections that asked for events
    nodeSockets,  \* nodeSockets[n]: the connection node n registered on last
    assoc,        \* assoc[c]: associatedNodeId of the handler of c, or None
    timer,        \* autoShutdownTimer: "unset", "armed", "spent" (fired or cleared)
    killing,      \* a SHUTDOWN was answered and its 100 ms are not over
    stopping,     \* server.close() was called: no new connection is accepted
    exited,       \* the daemon is gone
    view          \* history: the nodes a watcher knows from LIST and the events since

registryVars == <<registry, aliasMap, nodeSockets>>
stopVars == <<killing, stopping, exited>>
vars == <<conn, user, registry, aliasMap, watchers, nodeSockets, assoc, timer,
          killing, stopping, exited, view>>

Registered == {n \in Node : registry[n] # None}

\* The daemon still has the socket.
Live(c) == conn[c] \in {"open", "dead"}

----------------------------------------------------------------------------
(* The clients.  A node has one process at a time, and a process may have    *)
(* several connections: NodeRuntime leaves one behind when a reconnection     *)
(* fails half way (see PmdSession).                                           *)

Connect(c, p) ==
    /\ ~stopping /\ conn[c] = "new"
    /\ \A d \in Conn : conn[d] = "open" /\ user[d] # None /\ NodeOf[user[d]] = NodeOf[p]
                         => user[d] = p
    /\ conn' = [conn EXCEPT ![c] = "open"]
    /\ user' = [user EXCEPT ![c] = p]
    /\ UNCHANGED <<registryVars, watchers, assoc, timer, stopVars, view>>

\* The `distflow pmd` commands connect without being a node.
ConnectTool(c) ==
    /\ ~stopping /\ conn[c] = "new"
    /\ conn' = [conn EXCEPT ![c] = "open"]
    /\ UNCHANGED <<user, registryVars, watchers, assoc, timer, stopVars, view>>

\* The client ends the connection, destroys it or dies.
Die(c) ==
    /\ conn[c] = "open"
    /\ conn' = [conn EXCEPT ![c] = "dead"]
    /\ UNCHANGED <<user, registryVars, watchers, assoc, timer, stopVars, view>>

----------------------------------------------------------------------------
(* The requests.  A process sends those of its own node, in any order; the   *)
(* daemon does not care which connection they come on.                      *)

\* Fault: no alias is ever refused.
AliasNeverTaken(p) == FALSE

AliasTaken(p) ==
    /\ AliasOf[p] # NoAlias
    /\ aliasMap[AliasOf[p]] \notin {None, NodeOf[p]}

\* Fault: peer:leave is not sent.
LeavesUnsaid(n, ws) == view

\* notifyWatchers: peer:join and peer:leave reach the connections in ws.
Joins(n, ws) == [c \in Conn |-> IF c \in ws THEN view[c] \cup {n} ELSE view[c]]
Leaves(n, ws) == [c \in Conn |-> IF c \in ws THEN view[c] \ {n} ELSE view[c]]

\* Fault: the registry is not looked at.
shutdownAnyway(left) == IF timer = "unset" THEN "armed" ELSE timer

\* checkAutoShutdown, when what is left in the registry is `left`.
checkAutoShutdown(left) == IF left = {} /\ timer = "unset" THEN "armed" ELSE timer

handleRegister(c) ==
    /\ Live(c) /\ user[c] # None
    /\ ~AliasTaken(user[c])
    /\ LET p == user[c]
           n == NodeOf[p]
       IN  /\ registry' = [registry EXCEPT ![n] = p]
           /\ nodeSockets' = [nodeSockets EXCEPT ![n] = c]
           /\ aliasMap' = IF AliasOf[p] = NoAlias THEN aliasMap
                          ELSE [aliasMap EXCEPT ![AliasOf[p]] = n]
           /\ assoc' = [assoc EXCEPT ![c] = n]
           /\ view' = IF registry[n] = None THEN Joins(n, watchers) ELSE view
    /\ timer' = "unset"
    /\ UNCHANGED <<conn, user, watchers, stopVars>>

\* Node n leaves the registry and the watchers ws hear of it.
removeNode(n, ws) ==
    /\ registry' = [registry EXCEPT ![n] = None]
    /\ nodeSockets' = [nodeSockets EXCEPT ![n] = None]
    /\ LET a == AliasOf[registry[n]]
       IN  aliasMap' = IF a = NoAlias THEN aliasMap ELSE [aliasMap EXCEPT ![a] = None]
    /\ view' = Leaves(n, ws)
    /\ timer' = checkAutoShutdown(Registered \ {n})

handleUnregister(c) ==
    /\ Live(c) /\ user[c] # None
    /\ NodeOf[user[c]] \in Registered
    /\ removeNode(NodeOf[user[c]], watchers)
    /\ UNCHANGED <<conn, user, watchers, assoc, stopVars>>

\* WATCH, and the LIST with which the client starts.
handleWatch(c) ==
    /\ Live(c) /\ user[c] # None
    /\ watchers' = watchers \cup {c}
    /\ view' = [view EXCEPT ![c] = Registered]
    /\ UNCHANGED <<conn, user, registryVars, assoc, timer, stopVars>>

\* `distflow pmd kill`
handleShutdown(c) ==
    /\ Live(c) /\ user[c] = None
    /\ killing' = TRUE
    /\ UNCHANGED <<conn, user, registryVars, watchers, assoc, timer, stopping, exited, view>>

\* Fault: a socket that closes is only forgotten as a watcher.
CloseWatcher(c) ==
    /\ conn[c] = "dead"
    /\ conn' = [conn EXCEPT ![c] = "closed"]
    /\ watchers' = watchers \ {c}
    /\ UNCHANGED <<user, assoc, stopVars, registryVars, timer, view>>

\* The socket of a client that is gone closes.  The node last registered on it
\* is removed, whatever socket it is registered on now.
Close(c) ==
    /\ conn[c] = "dead"
    /\ conn' = [conn EXCEPT ![c] = "closed"]
    /\ watchers' = watchers \ {c}
    /\ IF assoc[c] # None /\ assoc[c] \in Registered
       THEN removeNode(assoc[c], watchers \ {c})
       ELSE UNCHANGED <<registryVars, timer, view>>
    /\ UNCHANGED <<user, assoc, stopVars>>

----------------------------------------------------------------------------
(* Stopping *)

\* Fault: the server is not closed.
stopTimerOnly ==
    /\ timer' = IF timer = "armed" THEN "spent" ELSE timer
    /\ UNCHANGED stopping

\* stop(): the auto-shutdown timer is cleared but autoShutdownTimer keeps it.
stop ==
    /\ timer' = IF timer = "armed" THEN "spent" ELSE timer
    /\ stopping' = TRUE

\* The 100 ms after SHUTDOWN are over.
KillTimer ==
    /\ ~exited /\ killing
    /\ killing' = FALSE
    /\ stop
    /\ UNCHANGED <<conn, user, registryVars, watchers, assoc, exited, view>>

\* No node has been registered for autoShutdownDelay.
AutoShutdown ==
    /\ ~exited /\ timer = "armed"
    /\ stop
    /\ UNCHANGED <<conn, user, registryVars, watchers, assoc, killing, exited, view>>

\* SIGINT or SIGTERM.
Signal ==
    /\ ~exited
    /\ stop
    /\ UNCHANGED <<conn, user, registryVars, watchers, assoc, killing, exited, view>>

\* server.close() calls back when the last connection ended: process.exit(0).
Exit ==
    /\ stopping /\ ~exited
    /\ \A c \in Conn : ~Live(c)
    /\ exited' = TRUE
    /\ UNCHANGED <<conn, user, registryVars, watchers, assoc, timer, killing, stopping, view>>

----------------------------------------------------------------------------
Init ==
    /\ conn = [c \in Conn |-> "new"]
    /\ user = [c \in Conn |-> None]
    /\ registry = [n \in Node |-> None]
    /\ aliasMap = [a \in Alias |-> None]
    /\ watchers = {}
    /\ nodeSockets = [n \in Node |-> None]
    /\ assoc = [c \in Conn |-> None]
    /\ timer = "unset"
    /\ killing = FALSE /\ stopping = FALSE /\ exited = FALSE
    /\ view = [c \in Conn |-> {}]

Client(c) == (\E p \in Proc : Connect(c, p)) \/ ConnectTool(c) \/ Die(c)

Handler(c) ==
    handleRegister(c) \/ handleUnregister(c) \/ handleWatch(c) \/ handleShutdown(c) \/ Close(c)

Next ==
    \/ \E c \in Conn : Client(c) \/ Handler(c)
    \/ KillTimer \/ AutoShutdown \/ Signal \/ Exit

Spec == Init /\ [][Next]_vars

\* Timers fire and the server's callback comes.
TimersFire == WF_vars(KillTimer) /\ WF_vars(AutoShutdown) /\ WF_vars(Exit)

\* A client that is gone is noticed (its FIN or RST arrives).
ClosesNoticed == \A c \in Conn : WF_vars(Close(c))

\* The commands disconnect when they are answered.
ToolsLeave == \A c \in Conn : WF_vars(user[c] = None /\ Die(c))

FairSpec == Spec /\ TimersFire /\ ClosesNoticed /\ ToolsLeave

\* Every client leaves some day.
Leaving == \A c \in Conn : WF_vars(Die(c))

----------------------------------------------------------------------------
(* Properties *)

\* The types of the state.
TypeOK ==
    /\ conn \in [Conn -> {"new", "open", "dead", "closed"}]
    /\ user \in [Conn -> Proc \cup {None}]
    /\ registry \in [Node -> Proc \cup {None}]
    /\ aliasMap \in [Alias -> Node \cup {None}]
    /\ watchers \in SUBSET Conn
    /\ nodeSockets \in [Node -> Conn \cup {None}]
    /\ assoc \in [Conn -> Node \cup {None}]
    /\ timer \in {"unset", "armed", "spent"}
    /\ {killing, stopping, exited} \subseteq BOOLEAN
    /\ view \in [Conn -> SUBSET Node]

\* RESOLVE of the alias of a registered node finds that node, whatever other
\* nodes registered, re-registered, left or were refused in the meantime; so two
\* registered nodes never share an alias.
AliasFindsOwner ==
    \A n \in Registered :
        AliasOf[registry[n]] # NoAlias => aliasMap[AliasOf[registry[n]]] = n

\* "quand socket ferme = node part": what keeps a node in the registry is a
\* socket the daemon still has, whose close will remove the node.
RegisteredIsConnected ==
    \A n \in Registered :
        LET c == nodeSockets[n] IN c # None /\ Live(c) /\ assoc[c] = n

\* The auto-shutdown timer is set exactly when the last node left and none came
\* back: the daemon neither stops under a registered node by a timer that was
\* not cancelled, nor forgets to stop when it is left alone.
TimerMatchesRegistry ==
    timer # "unset" <=> Registered = {} /\ \E c \in Conn : assoc[c] # None

\* What a watcher was told, LIST and the joins and leaves after it, is the
\* registry.
WatchersSeeRegistry == \A c \in watchers : view[c] = Registered

\* What makes these inductive: the handler of a connection remembers the node of
\* the process at the other end.
RemembersOwnNode ==
    \A c \in Conn : assoc[c] # None => conn[c] # "new" /\ assoc[c] = NodeOf[user[c]]

\* The registry is a directory.
Dir == INSTANCE Directory WITH dir <- registry

ImplementsDirectory == Dir!Spec

\* A node all of whose connections are gone leaves the registry or connects
\* again: no registration survives its process.
GhostsLeave ==
    \A n \in Node :
        LET connected == \E c \in Conn : conn[c] = "open" /\ user[c] # None /\ NodeOf[user[c]] = n
        IN  n \in Registered /\ ~connected ~> n \notin Registered \/ connected

\* If every client leaves some day, a daemon told to stop exits: no order of
\* signals, timers and late closes leaves it waiting for nothing.
StopCompletes == Leaving => ((killing \/ stopping) ~> exited)

\* Under the same condition, a daemon whose last node left exits by itself unless
\* a node registers again.
AloneExits == Leaving => (timer = "armed" ~> exited \/ Registered # {})
=============================================================================

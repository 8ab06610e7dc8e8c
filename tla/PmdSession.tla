----------------------------- MODULE PmdSession -----------------------------
(***************************************************************************)
(* A node's session with the daemon: PMDClient                             *)
(* (packages/core/src/pmd-client.ts) and the calls NodeRuntime makes of it *)
(* (packages/core/src/node-runtime.ts) when it starts, when the connection *)
(* is lost and when it shuts down, against a daemon that may be killed and *)
(* started again.                                                          *)
(*                                                                         *)
(* Start, Stop and the reconnections are asynchronous flows that share one *)
(* PMDClient, and so one socket field.  A flow runs without interleaving   *)
(* from one await to the next; requests on one socket are handled and      *)
(* answered in order.  Of the daemon only what concerns this node is kept; *)
(* Pmd models the rest.  RESOLVE, LIST and HEARTBEAT, whose requests       *)
(* change nothing here, are left out, as are the events of peers.          *)
(***************************************************************************)
EXTENDS Naturals, Sequences, FiniteSets

CONSTANTS Socket,      \* sockets, each used for one connection (bound)
          Task,        \* reconnection flows, each used once (bound)
          Start, Stop, \* the flows of start() and shutdown()
          None,        \* no socket
          Broken,      \* a socket whose connection was refused
          Tries,       \* Tries[f]: attempts connectToPMD makes for flow f
          MaxLosses    \* bound: connections lost and daemons killed

ASSUME FlowAssumption ==
    /\ Socket \subseteq Nat /\ Task \subseteq Nat /\ IsFiniteSet(Task)
    /\ Start # Stop /\ Start \notin Task /\ Stop \notin Task
    /\ None \notin Socket /\ Broken \notin Socket /\ None # Broken
    /\ Tries \in [Task \cup {Start} -> Nat \ {0}]
    /\ MaxLosses \in Nat

VARIABLES
    up,         \* the daemon runs
    serving,    \* the sockets the daemon has
    regOn,      \* the socket the node is registered on, or None
    assoc,      \* the sockets whose close removes the node
    watching,   \* the sockets that asked for events
    wire,       \* wire[s]: requests written and not handled yet
    answers,    \* answers[s]: answers not read yet
    sock,       \* sock[s]: "new", "connecting", "open", "destroyed", "gone"
    current,    \* the client's socket field
    listeners,  \* listeners of "disconnect"
    pc,         \* pc[f]: where flow f is
    at,         \* at[f]: the socket f waits for
    tries,      \* tries[f]: attempts f has left
    failed,     \* history: start() or a reconnection threw
    halfOpen,   \* history: the client lost a connection that the daemon still had
    exited,     \* the process is gone
    losses      \* counts up to MaxLosses

Flow == Task \cup {Start, Stop}
Request == {"register", "watch", "unregister"}

daemonVars == <<up, serving, regOn, assoc, watching>>
socketVars == <<sock, current>>
flowVars == <<listeners, pc, at, tries, failed>>
bounds == <<halfOpen, losses>>
vars == <<daemonVars, wire, answers, socketVars, flowVars, exited, bounds>>

\* shouldMaintainPMDConnection; and that start() returned and shutdown() was not
\* called yet.
maintain == pc[Stop] = "idle"
started == pc[Start] = "done" /\ maintain

\* A flow that went wrong: start() throws; a reconnection waits for five seconds.
Fail(f) ==
    /\ pc' = [pc EXCEPT ![f] = IF f = Start THEN "failed" ELSE "backoff"]
    /\ failed' = TRUE

\* sendMessage(): the request is written on the socket of the moment, connected
\* or not, and the flow waits for the answer; without a socket it throws, on a
\* broken one the write is refused.
sendMessage(f, kind) ==
    IF current \in Socket
    THEN /\ wire' = [wire EXCEPT ![current] = Append(@, <<f, kind>>)]
         /\ pc' = [pc EXCEPT ![f] = kind]
         /\ UNCHANGED failed
    ELSE UNCHANGED wire /\ Fail(f)

----------------------------------------------------------------------------
(* Connecting: one attempt of connectToPMD, after the pause that precedes it *)

\* The socket field is set before the connection is made.
connect(f) ==
    /\ ~exited /\ pc[f] = "connect"
    /\ \E s \in Socket :
         /\ sock[s] = "new" /\ \A q \in Socket : q < s => sock[q] # "new"
         /\ sock' = [sock EXCEPT ![s] = "connecting"]
         /\ current' = s
         /\ at' = [at EXCEPT ![f] = s]
    /\ pc' = [pc EXCEPT ![f] = "connecting"]
    /\ UNCHANGED <<daemonVars, wire, answers, listeners, tries, failed, exited, bounds>>

\* Fault: every attempt of start() sets up the reconnections.
ConnectedEachTry(f) ==
    /\ ~exited /\ up /\ pc[f] = "connecting" /\ sock[at[f]] = "connecting"
    /\ sock' = [sock EXCEPT ![at[f]] = "open"]
    /\ serving' = serving \cup {at[f]}
    /\ listeners' = IF f = Start THEN listeners + 1 + Tries[f] - tries[f] ELSE listeners
    /\ sendMessage(f, "register")
    /\ UNCHANGED <<up, regOn, assoc, watching, answers, current, at, tries, exited, bounds>>

\* Connected: start() sets up the reconnections, and each flow registers, on
\* whatever socket the field holds by then.
Connected(f) ==
    /\ ~exited /\ up /\ pc[f] = "connecting" /\ sock[at[f]] = "connecting"
    /\ sock' = [sock EXCEPT ![at[f]] = "open"]
    /\ serving' = serving \cup {at[f]}
    /\ listeners' = IF f = Start THEN listeners + 1 ELSE listeners
    /\ sendMessage(f, "register")
    /\ UNCHANGED <<up, regOn, assoc, watching, answers, current, at, tries, exited, bounds>>

\* Refused.  (The model uses the number of the socket again.)
Refused(f) ==
    /\ ~exited /\ ~up /\ pc[f] = "connecting" /\ sock[at[f]] = "connecting"
    /\ sock' = [sock EXCEPT ![at[f]] = "new"]
    /\ wire' = [wire EXCEPT ![at[f]] = <<>>]
    /\ current' = IF current = at[f] THEN Broken ELSE current
    /\ tries' = [tries EXCEPT ![f] = @ - 1]
    /\ IF tries[f] = 1 THEN Fail(f)
       ELSE pc' = [pc EXCEPT ![f] = "connect"] /\ UNCHANGED failed
    /\ UNCHANGED <<daemonVars, answers, listeners, at, exited, bounds>>

----------------------------------------------------------------------------
(* The daemon *)

\* It takes the next request of a socket.  A REGISTER is refused when another
\* node has the alias, an UNREGISTER when the node is not there.
DaemonHandle(s) ==
    /\ s \in serving /\ wire[s] # <<>>
    /\ wire' = [wire EXCEPT ![s] = Tail(@)]
    /\ LET f == Head(wire[s])[1]
           kind == Head(wire[s])[2]
           Reply(ok) == answers' = IF sock[s] = "open"
                                   THEN [answers EXCEPT ![s] = Append(@, <<f, kind, ok>>)]
                                   ELSE answers
       IN  \/ /\ kind = "register"
              /\ regOn' = s /\ assoc' = assoc \cup {s}
              /\ Reply(TRUE) /\ UNCHANGED watching
           \/ /\ kind = "register"
              /\ Reply(FALSE) /\ UNCHANGED <<regOn, assoc, watching>>
           \/ /\ kind = "watch"
              /\ watching' = watching \cup {s}
              /\ Reply(TRUE) /\ UNCHANGED <<regOn, assoc>>
           \/ /\ kind = "unregister"
              /\ regOn' = None
              /\ Reply(regOn # None) /\ UNCHANGED <<assoc, watching>>
    /\ UNCHANGED <<up, serving, socketVars, flowVars, exited, bounds>>

\* Faults: a socket that closes keeps its node, or stays a watcher.
CloseKeepsNode(s) ==
    /\ s \in serving /\ sock[s] \in {"destroyed", "gone"}
    /\ serving' = serving \ {s}
    /\ watching' = watching \ {s}
    /\ wire' = [wire EXCEPT ![s] = <<>>]
    /\ UNCHANGED <<up, regOn, assoc, answers, socketVars, flowVars, exited, bounds>>
CloseKeepsWatcher(s) ==
    /\ s \in serving /\ sock[s] \in {"destroyed", "gone"}
    /\ serving' = serving \ {s}
    /\ regOn' = IF s \in assoc THEN None ELSE regOn
    /\ wire' = [wire EXCEPT ![s] = <<>>]
    /\ UNCHANGED <<up, watching, assoc, answers, socketVars, flowVars, exited, bounds>>

\* It notices that a socket closed, and removes the node registered on it,
\* wherever it is registered now.
DaemonClose(s) ==
    /\ s \in serving /\ sock[s] \in {"destroyed", "gone"}
    /\ serving' = serving \ {s}
    /\ watching' = watching \ {s}
    /\ regOn' = IF s \in assoc THEN None ELSE regOn
    /\ wire' = [wire EXCEPT ![s] = <<>>]
    /\ UNCHANGED <<up, assoc, answers, socketVars, flowVars, exited, bounds>>

DaemonKilled ==
    /\ up /\ losses < MaxLosses
    /\ losses' = losses + 1
    /\ up' = FALSE
    /\ serving' = {} /\ regOn' = None /\ assoc' = {} /\ watching' = {}
    /\ wire' = [s \in Socket |-> IF s \in serving THEN <<>> ELSE wire[s]]
    /\ UNCHANGED <<answers, socketVars, flowVars, exited, halfOpen>>

\* Some node or operator starts a daemon.
DaemonStarts ==
    /\ ~up /\ up' = TRUE
    /\ UNCHANGED <<serving, regOn, assoc, watching, wire, answers, socketVars, flowVars, exited, bounds>>

----------------------------------------------------------------------------
(* Answers, timeouts and closed sockets *)

\* disconnect(), the end of what shutdown() does here: the socket of the moment
\* is destroyed.  One that was still connecting has no handler of its close.
disconnect ==
    /\ pc' = [pc EXCEPT ![Stop] = "done"]
    /\ sock' = IF current \in Socket
               THEN [sock EXCEPT ![current] = IF @ = "open" THEN "destroyed" ELSE "gone"]
               ELSE sock
    /\ current' = None

\* Fault: a reconnection ends when the node is registered.
SettleWithoutWatch(f, ok) ==
    \/ /\ pc[f] \in {"register", "watch"} /\ ok
       /\ pc' = [pc EXCEPT ![f] = "done"]
       /\ UNCHANGED <<wire, failed, socketVars>>
    \/ /\ pc[f] \in {"register", "watch"} /\ ~ok
       /\ Fail(f)
       /\ UNCHANGED <<wire, socketVars>>
    \/ /\ pc[f] = "unregister"
       /\ disconnect
       /\ UNCHANGED <<wire, failed>>

\* The request of flow f is settled: what follows its await.
Settle(f, ok) ==
    \/ /\ pc[f] = "register" /\ ok
       /\ sendMessage(f, "watch")
       /\ UNCHANGED socketVars
    \/ /\ pc[f] = "watch" /\ ok
       /\ pc' = [pc EXCEPT ![f] = "done"]
       /\ UNCHANGED <<wire, failed, socketVars>>
    \/ /\ pc[f] \in {"register", "watch"} /\ ~ok
       /\ Fail(f)
       /\ UNCHANGED <<wire, socketVars>>
    \/ /\ pc[f] = "unregister"
       /\ disconnect
       /\ UNCHANGED <<wire, failed>>

\* handleMessage(): the answer to a request that timed out is ignored.
handleMessage(s) ==
    /\ ~exited /\ sock[s] = "open" /\ answers[s] # <<>>
    /\ answers' = [answers EXCEPT ![s] = Tail(@)]
    /\ LET a == Head(answers[s])
       IN  IF pc[a[1]] = a[2] THEN Settle(a[1], a[3])
           ELSE UNCHANGED <<wire, pc, failed, socketVars>>
    /\ UNCHANGED <<daemonVars, listeners, at, tries, exited, bounds>>

\* The five seconds of a request are over.
Timeout(f) ==
    /\ ~exited /\ pc[f] \in Request
    /\ Settle(f, FALSE)
    /\ UNCHANGED <<daemonVars, answers, listeners, at, tries, exited, bounds>>

\* The flows that n listeners start, if there are enough left.
FirstIdle(n) ==
    LET idle == {t \in Task : pc[t] = "idle"}
    IN  {t \in idle : Cardinality({u \in idle : u < t}) < n}

\* The "close" event of a socket: the field is emptied, whatever socket it holds,
\* and every listener starts a reconnection, unless the node is shutting down.
SocketClosed(s) ==
    /\ ~exited
    /\ sock[s] \in {"open", "destroyed"}
    /\ IF sock[s] = "open" /\ s \in serving
       THEN losses < MaxLosses /\ losses' = losses + 1 /\ halfOpen' = TRUE
       ELSE UNCHANGED bounds
    /\ sock' = [sock EXCEPT ![s] = "gone"]
    /\ answers' = [answers EXCEPT ![s] = <<>>]
    /\ current' = None
    /\ LET begun == IF maintain THEN FirstIdle(listeners) ELSE {}
       IN  /\ maintain => Cardinality(begun) = listeners
           /\ pc' = [f \in Flow |-> IF f \in begun THEN "connect" ELSE pc[f]]
    /\ UNCHANGED <<daemonVars, wire, listeners, at, tries, failed, exited>>

\* Five seconds after a reconnection failed, one more listener is added.
Backoff(f) ==
    /\ ~exited /\ pc[f] = "backoff"
    /\ pc' = [pc EXCEPT ![f] = "done"]
    /\ listeners' = listeners + 1
    /\ UNCHANGED <<daemonVars, wire, answers, socketVars, at, tries, failed, exited, bounds>>

\* shutdown(): nothing if the node is not started, else the node is unregistered;
\* without a socket, or on a broken one, it goes on at once.  (The application
\* calls it once, and what it does to the transport is not modelled.)
shutdown ==
    /\ ~exited /\ started
    /\ IF current \in Socket
       THEN /\ wire' = [wire EXCEPT ![current] = Append(@, <<Stop, "unregister">>)]
            /\ pc' = [pc EXCEPT ![Stop] = "unregister"]
            /\ UNCHANGED socketVars
       ELSE disconnect /\ UNCHANGED wire
    /\ UNCHANGED <<daemonVars, answers, listeners, at, tries, failed, exited, bounds>>

\* The process is killed, or ends by the "error" event that PMDClient emits when
\* a connection is reset and for which nobody listens.
Crash ==
    /\ ~exited /\ exited' = TRUE
    /\ sock' = [s \in Socket |-> IF sock[s] = "new" THEN "new" ELSE "gone"]
    /\ answers' = [s \in Socket |-> <<>>]
    /\ UNCHANGED <<daemonVars, wire, current, flowVars, bounds>>

----------------------------------------------------------------------------
Init ==
    /\ up \in BOOLEAN
    /\ serving = {} /\ regOn = None /\ assoc = {} /\ watching = {}
    /\ wire = [s \in Socket |-> <<>>] /\ answers = [s \in Socket |-> <<>>]
    /\ sock = [s \in Socket |-> "new"] /\ current = None
    /\ listeners = 0
    /\ pc = [f \in Flow |-> IF f = Start THEN "connect" ELSE "idle"]
    /\ at = [f \in Flow |-> None]
    /\ tries = Tries
    /\ failed = FALSE /\ halfOpen = FALSE /\ exited = FALSE /\ losses = 0

Daemon == (\E s \in Socket : DaemonHandle(s) \/ DaemonClose(s)) \/ DaemonKilled \/ DaemonStarts

Client ==
    \/ \E f \in Flow : connect(f) \/ Connected(f) \/ Refused(f) \/ Timeout(f) \/ Backoff(f)
    \/ \E s \in Socket : handleMessage(s) \/ SocketClosed(s)
    \/ shutdown \/ Crash

Next == Daemon \/ Client

Spec == Init /\ [][Next]_vars

\* The daemon answers, sockets close when the other end is gone, attempts end and
\* timers fire.  Nothing makes anyone start a daemon again.
FairSpec ==
    /\ Spec
    /\ \A s \in Socket :
         /\ WF_vars(DaemonHandle(s)) /\ WF_vars(DaemonClose(s))
         /\ WF_vars(handleMessage(s)) /\ WF_vars(s \notin serving /\ SocketClosed(s))
    /\ \A f \in Flow :
         /\ WF_vars(connect(f)) /\ WF_vars(Connected(f) \/ Refused(f))
         /\ WF_vars(Timeout(f)) /\ WF_vars(Backoff(f))

----------------------------------------------------------------------------
(* Properties *)

\* The types of the state.
TypeOK ==
    /\ {up, failed, halfOpen, exited} \subseteq BOOLEAN
    /\ serving \subseteq Socket /\ assoc \subseteq Socket /\ watching \subseteq serving
    /\ regOn \in Socket \cup {None}
    /\ wire \in [Socket -> Seq(Flow \X Request)]
    /\ answers \in [Socket -> Seq(Flow \X Request \X BOOLEAN)]
    /\ sock \in [Socket -> {"new", "connecting", "open", "destroyed", "gone"}]
    /\ current \in Socket \cup {None, Broken}
    /\ listeners \in 0 .. Cardinality(Task) + 1
    /\ pc \in [Flow -> {"idle", "connect", "connecting", "backoff", "done", "failed"} \cup Request]
    /\ at \in [Flow -> Socket \cup {None}]
    /\ tries \in [Task \cup {Start} -> Nat]
    /\ losses \in 0 .. MaxLosses

Busy(f) == pc[f] \in {"connect", "connecting", "backoff"} \cup Request

\* As long as no reconnection failed, a node has one connection, the one it
\* knows, and one flow that connects: no late close event, shutdown or killed
\* daemon makes it open a second one, although a reconnection may start while an
\* earlier one still waits for an answer that will not come.
OneConnection ==
    ~failed /\ ~exited =>
        /\ \A s \in Socket : sock[s] \in {"connecting", "open"} => s = current
        /\ \A f, g \in Flow : {pc[f], pc[g]} \subseteq {"connect", "connecting"} => f = g

\* When nothing is under way, a started node whose connection the daemon has is
\* registered on it and watches, however many daemons died under it.  Unless a start
\* or a reconnection failed, as it does when its register or watch times out or is
\* refused, and unless the daemon may notice late that a connection was lost (see
\* Pmd, Close).
SettledIsRegistered ==
    started /\ ~failed /\ ~halfOpen /\ ~exited /\ current \in serving /\ (\A f \in Task : ~Busy(f))
        => regOn = current /\ current \in watching

\* "Setup automatic reconnection": a started node comes to be registered and
\* watching, unless it shuts down, dies, a reconnection fails or the daemon may
\* notice late that a connection was lost.
Reconnects ==
    started ~> (regOn = current /\ current \in watching) \/ ~started \/ exited \/ failed \/ halfOpen

\* A process that died leaves the registry for good, and so does a node that shut
\* down and has neither a connection nor a reconnection under way.
LeavesForGood ==
    LET left == pc[Stop] = "done" /\ ~failed /\ current = None /\ \A f \in Task : ~Busy(f)
    IN  exited \/ left ~> [](regOn = None)

----------------------------------------------------------------------------
(* What the code says and does not keep *)

\* "Indicate we no longer want to reconnect": a node that shut down registers no
\* more.
StaysGone == [][pc[Stop] = "done" /\ regOn = None => regOn' = None]_vars

----------------------------------------------------------------------------
(* What makes the invariants above inductive                               *)

Connecting(f) == pc[f] \in {"connect", "connecting"}

\* Where each flow may be, and what it has left there.
FlowPlaces ==
    /\ pc[Start] \in {"connect", "connecting", "register", "watch", "done", "failed"}
    /\ pc[Stop] \in {"idle", "unregister", "done"}
    /\ \A t \in Task : pc[t] \in {"idle", "connect", "connecting", "register", "watch", "backoff", "done"}
    /\ \A f \in Flow : pc[f] = "connecting" => at[f] \in Socket
    /\ \A f \in Task \cup {Start} : pc[f] = "idle" \/ Connecting(f) => tries[f] # 0

\* start() adds a listener once it is connected, a reconnection when it ends.
Finished == {t \in Task : pc[t] = "done"}
ListenersCounted ==
    listeners <= (IF Connecting(Start) THEN 0 ELSE 1) + Cardinality(Finished)

\* No flow connects next to a connection or to another flow that connects, and
\* what is closed is not waited for.
OneAtATime ==
    /\ \A s \in Socket : sock[s] \in {"connecting", "open"} => s = current
    /\ \A f, g \in Flow : Connecting(f) /\ Connecting(g) => f = g
    /\ listeners <= 1 /\ (Connecting(Start) => listeners = 0)
    /\ \A f \in Flow :
         /\ pc[f] # "backoff"
         /\ Connecting(f) => \A s \in Socket : sock[s] \notin {"open", "destroyed"}
         /\ pc[f] = "connect" => \A s \in Socket : sock[s] # "connecting"
    /\ \A s \in Socket : sock[s] = "destroyed" =>
         ~maintain /\ \A q \in Socket : sock[q] \notin {"connecting", "open"}

\* How far flow f has come in making the daemon know the node on socket s.
Registering(f, s) ==
    \/ pc[f] = "register" /\ wire[s] = <<<<f, "register">>>> /\ answers[s] = <<>>
    \/ /\ pc[f] = "register" /\ wire[s] = <<>>
       /\ \E ok \in BOOLEAN : answers[s] = <<<<f, "register", ok>>>> /\ (ok => regOn = s)
    \/ pc[f] = "watch" /\ wire[s] = <<<<f, "watch">>>> /\ answers[s] = <<>> /\ regOn = s
    \/ pc[f] = "watch" /\ wire[s] = <<>> /\ answers[s] = <<<<f, "watch", TRUE>>>>
       /\ regOn = s /\ s \in watching
    \/ pc[f] = "done" /\ wire[s] = <<>> /\ answers[s] = <<>> /\ regOn = s /\ s \in watching

\* Every connection the daemon has is one the client has, and some flow is
\* registering the node on it.
ServedIsRegistered ==
    /\ \A s \in serving : sock[s] = "open" /\ \E f \in Task \cup {Start} : Registering(f, s)
    /\ \A s \in Socket : sock[s] \in {"new", "connecting"} => wire[s] = <<>> /\ answers[s] = <<>>
=============================================================================

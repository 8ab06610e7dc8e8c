----------------------------- MODULE Transport -----------------------------
(***************************************************************************)
(* The TCP transport between nodes (packages/core/src/transport.ts), down  *)
(* to the handler that NodeRuntime gives its mailbox: the sockets a node   *)
(* opens and keeps in `connections', calls of send() that overlap, and     *)
(* stop(), which waits until the peers have closed their sockets.          *)
(*                                                                         *)
(* A node only writes on the sockets it opened.  A frame is one message.   *)
(* A connection is there for its opener before the peer's process accepts   *)
(* it: until then it waits in the backlog of the listening socket, which   *)
(* the system keeps and server.close() throws away.                        *)
(* A process that ends does not come back at the same address: NodeRuntime *)
(* listens at a port the system chooses.                                   *)
(***************************************************************************)
EXTENDS Naturals, Sequences

CONSTANTS Node,
          Budget,       \* Budget[n]: how often node n calls send()
          MaxCrashes,
          None, FIN

ASSUME BudgetAssumption == Budget \in [Node -> Nat] /\ MaxCrashes \in Nat
ASSUME MarkAssumption == FIN \notin Nat

\* The socket that the i-th call of send() at node n opens, if it opens one.
Socket == UNION {{n} \X (1..Budget[n]) : n \in Node}
ASSUME NoneAssumption == None \notin Socket

VARIABLES
    up,           \* the process runs
    stop,         \* stop() was not called ("no"), waits ("waiting") or resolved ("done")
    connections,  \* connections[n][m]: the socket n keeps for m, or None
    near,         \* the socket at the node that opened it:
                  \* "none", "connecting", "open", "ended" (end() called), "closed"
    far,          \* the connection at the peer: "none", "open", "closed"
    accepted,     \* the sockets that the process of the peer took from its backlog
    pipe,         \* what is under way in it: calls of send(), and FIN
    calls,        \* calls[n]: the calls of send(), [to, socket, state]
    due,          \* due[n]: the calls whose await is over, in order
    handled,      \* handled[m][n]: what the handler of m got from n, in order
    overlapped,   \* the pairs <<n, m>> where n did not await its sends to m
                  \* before the next one or before stop(), or sent after stop()
    crashes

socketVars == <<near, far, accepted, pipe>>
vars == <<up, stop, connections, socketVars, calls, due, handled, overlapped, crashes>>

----------------------------------------------------------------------------
Call(s) == calls[s[1]][s[2]]
To(s) == Call(s).to
Opened(n) == {s \in Socket : s[1] = n /\ near[s] # "none"}
Reaching(m) == {s \in Socket : far[s] = "open" /\ To(s) = m}
Accepted(m) == Reaching(m) \cap accepted
Backlog(m) == Reaching(m) \ accepted
Unfinished(n, m) == \E i \in DOMAIN calls[n] : calls[n][i].to = m /\ calls[n][i].state \in {"connecting", "due"}

\* Nothing else happens in a process while the continuation of an await is due.
Idle(n) == up[n] /\ due[n] = <<>>

Init ==
    /\ up = [n \in Node |-> TRUE]
    /\ stop = [n \in Node |-> "no"]
    /\ connections = [n \in Node |-> [m \in Node |-> None]]
    /\ near = [s \in Socket |-> "none"]
    /\ far = [s \in Socket |-> "none"]
    /\ accepted = {}
    /\ pipe = [s \in Socket |-> <<>>]
    /\ calls = [n \in Node |-> <<>>]
    /\ due = [n \in Node |-> <<>>]
    /\ handled = [m \in Node |-> [n \in Node |-> <<>>]]
    /\ overlapped = {}
    /\ crashes = 0

----------------------------------------------------------------------------
(* send, getConnection and connect.                                        *)

\* The call takes the socket it finds, and writes when its await is over; or it
\* starts to connect.
send(n, m) ==
    LET i == Len(calls[n]) + 1
        s == connections[n][m]
    IN  /\ up[n] /\ i <= Budget[n]
        /\ overlapped' = IF Unfinished(n, m) \/ stop[n] # "no" THEN overlapped \cup {<<n, m>>} ELSE overlapped
        /\ \/ /\ s # None
              /\ calls' = [calls EXCEPT ![n] = Append(@, [to |-> m, socket |-> s, state |-> "due"])]
              /\ due' = [due EXCEPT ![n] = Append(@, i)]
              /\ UNCHANGED near
           \/ /\ s = None
              /\ calls' = [calls EXCEPT ![n] = Append(@, [to |-> m, socket |-> <<n, i>>, state |-> "connecting"])]
              /\ near' = [near EXCEPT ![<<n, i>>] = "connecting"]
              /\ UNCHANGED due
        /\ UNCHANGED <<up, stop, connections, far, accepted, pipe, handled, crashes>>

\* The pipe of s when call i is written to it.  On a socket that was ended, or
\* whose peer is gone, the message is lost; the call resolves all the same.
Written(s, i) ==
    IF near[s] = "open" /\ far[s] = "open" THEN [pipe EXCEPT ![s] = Append(@, i)] ELSE pipe

\* The rest of send() once it has a socket it did not open.
Write(n) ==
    /\ up[n] /\ due[n] # <<>>
    /\ LET i == Head(due[n])
       IN  /\ pipe' = Written(calls[n][i].socket, i)
           /\ calls' = [calls EXCEPT ![n][i].state = "written"]
    /\ due' = [due EXCEPT ![n] = Tail(@)]
    /\ UNCHANGED <<up, stop, connections, near, far, accepted, handled, overlapped, crashes>>

Accepts(m) == up[m] /\ stop[m] = "no"

\* Fault: the new connection is not kept.
ConnectedNotKept(s) ==
    /\ near[s] = "connecting" /\ Idle(s[1]) /\ Accepts(To(s))
    /\ near' = [near EXCEPT ![s] = "open"]
    /\ far' = [far EXCEPT ![s] = "open"]
    /\ calls' = [calls EXCEPT ![s[1]][s[2]].state = "written"]
    /\ pipe' = [pipe EXCEPT ![s] = <<s[2]>>]
    /\ UNCHANGED <<up, stop, connections, accepted, due, handled, overlapped, crashes>>

\* The connection is there, in the backlog of the peer: the rest of getConnection
\* and of send.
Connected(s) ==
    /\ near[s] = "connecting" /\ Idle(s[1]) /\ Accepts(To(s))
    /\ near' = [near EXCEPT ![s] = "open"]
    /\ far' = [far EXCEPT ![s] = "open"]
    /\ connections' = [connections EXCEPT ![s[1]][To(s)] = s]
    /\ calls' = [calls EXCEPT ![s[1]][s[2]].state = "written"]
    /\ pipe' = [pipe EXCEPT ![s] = <<s[2]>>]
    /\ UNCHANGED <<up, stop, accepted, due, handled, overlapped, crashes>>

\* Nobody listens at the port: the call rejects.
Refused(s) ==
    /\ near[s] = "connecting" /\ Idle(s[1]) /\ ~Accepts(To(s))
    /\ near' = [near EXCEPT ![s] = "closed"]
    /\ calls' = [calls EXCEPT ![s[1]][s[2]].state = "rejected"]
    /\ UNCHANGED <<up, stop, connections, far, accepted, pipe, due, handled, overlapped, crashes>>

\* The 'close' event where the socket was opened: the key is deleted, whatever
\* the map holds for it.
Closed(s) ==
    /\ near[s] \in {"open", "ended"} /\ far[s] = "closed" /\ Idle(s[1])
    /\ near' = [near EXCEPT ![s] = "closed"]
    /\ connections' = [connections EXCEPT ![s[1]][To(s)] = None]
    /\ UNCHANGED <<up, stop, far, accepted, pipe, calls, due, handled, overlapped, crashes>>

----------------------------------------------------------------------------
(* The peer.                                                               *)

\* The server accepts the connection: handleConnection.
Accept(s) ==
    /\ far[s] = "open" /\ s \notin accepted /\ Idle(To(s))
    /\ accepted' = accepted \cup {s}
    /\ UNCHANGED <<up, stop, connections, near, far, pipe, calls, due, handled, overlapped, crashes>>

\* Mailbox.push: its handler is there before a message can arrive, so it is
\* handled at once, and nothing queues.
push(messages, i) == Append(messages, i)

\* processBuffer.
Receive(s) ==
    /\ far[s] = "open" /\ s \in accepted /\ pipe[s] # <<>> /\ Head(pipe[s]) # FIN /\ Idle(To(s))
    /\ handled' = [handled EXCEPT ![To(s)][s[1]] = push(@, Head(pipe[s]))]
    /\ pipe' = [pipe EXCEPT ![s] = Tail(@)]
    /\ UNCHANGED <<up, stop, connections, near, far, accepted, calls, due, overlapped, crashes>>

\* The opener has ended the socket, so this end closes too.
ReceiveEnd(s) ==
    /\ far[s] = "open" /\ s \in accepted /\ pipe[s] # <<>> /\ Head(pipe[s]) = FIN /\ Idle(To(s))
    /\ far' = [far EXCEPT ![s] = "closed"]
    /\ pipe' = [pipe EXCEPT ![s] = <<>>]
    /\ UNCHANGED <<up, stop, connections, near, accepted, calls, due, handled, overlapped, crashes>>

----------------------------------------------------------------------------
(* stop.                                                                   *)

Kept(n) == {connections[n][m] : m \in Node} \ {None}
NotAwaited(n) == {<<n, m>> : m \in {x \in Node : Unfinished(n, x)}}

\* Faults: the sockets are forgotten; they are destroyed with what is in them.
StopForgets(n) ==
    /\ up[n] /\ stop[n] = "no"
    /\ stop' = [stop EXCEPT ![n] = "waiting"]
    /\ overlapped' = overlapped \cup NotAwaited(n)
    /\ far' = [s \in Socket |-> IF s \in Backlog(n) THEN "closed" ELSE far[s]]
    /\ pipe' = [s \in Socket |-> IF s \in Backlog(n) THEN <<>> ELSE pipe[s]]
    /\ connections' = [connections EXCEPT ![n] = [m \in Node |-> None]]
    /\ UNCHANGED <<up, near, accepted, calls, due, handled, crashes>>
StopDestroys(n) ==
    /\ up[n] /\ stop[n] = "no"
    /\ stop' = [stop EXCEPT ![n] = "waiting"]
    /\ overlapped' = overlapped \cup NotAwaited(n)
    /\ near' = [s \in Socket |-> IF s \in Kept(n) THEN "ended" ELSE near[s]]
    /\ far' = [s \in Socket |-> IF s \in Backlog(n) THEN "closed" ELSE far[s]]
    /\ pipe' = [s \in Socket |-> IF s \in Kept(n) THEN <<FIN>>
                                 ELSE IF s \in Backlog(n) THEN <<>> ELSE pipe[s]]
    /\ connections' = [connections EXCEPT ![n] = [m \in Node |-> None]]
    /\ UNCHANGED <<up, accepted, calls, due, handled, crashes>>

\* The sockets in the map are ended.  server.close() accepts no more and resets
\* what is in the backlog, with all that was written to it.
Stop(n) ==
    /\ up[n] /\ stop[n] = "no"
    /\ stop' = [stop EXCEPT ![n] = "waiting"]
    /\ overlapped' = overlapped \cup NotAwaited(n)
    /\ near' = [s \in Socket |-> IF s \in Kept(n) THEN "ended" ELSE near[s]]
    /\ far' = [s \in Socket |-> IF s \in Backlog(n) THEN "closed" ELSE far[s]]
    /\ pipe' = [s \in Socket |-> IF s \in Kept(n) THEN Append(pipe[s], FIN)
                                 ELSE IF s \in Backlog(n) THEN <<>> ELSE pipe[s]]
    /\ connections' = [connections EXCEPT ![n] = [m \in Node |-> None]]
    /\ UNCHANGED <<up, accepted, calls, due, handled, crashes>>

\* server.close() calls back when no socket that the server accepted is left.
StopResolves(n) ==
    /\ stop[n] = "waiting" /\ Idle(n) /\ Accepted(n) = {}
    /\ stop' = [stop EXCEPT ![n] = "done"]
    /\ UNCHANGED <<up, connections, socketVars, calls, due, handled, overlapped, crashes>>

\* The process ends.  Of what it wrote a prefix arrives; its sockets are closed.
Crash(n) ==
    /\ up[n] /\ crashes < MaxCrashes
    /\ crashes' = crashes + 1
    /\ up' = [up EXCEPT ![n] = FALSE]
    /\ near' = [s \in Socket |-> IF s \in Opened(n) THEN "closed" ELSE near[s]]
    /\ far' = [s \in Socket |-> IF s \in Reaching(n) THEN "closed" ELSE far[s]]
    /\ LET mine == {s \in Opened(n) : far[s] = "open"}
       IN  \E arrive \in [mine -> 0..(Budget[n] + 1)] :
             /\ \A s \in mine : arrive[s] <= Len(pipe[s])
             /\ pipe' = [s \in Socket |->
                          IF s \in mine THEN Append(SubSeq(pipe[s], 1, arrive[s]), FIN)
                          ELSE IF s \in Reaching(n) THEN <<>> ELSE pipe[s]]
    /\ connections' = [connections EXCEPT ![n] = [m \in Node |-> None]]
    /\ due' = [due EXCEPT ![n] = <<>>]
    /\ UNCHANGED <<stop, accepted, calls, handled, overlapped>>

----------------------------------------------------------------------------
SocketStep(s) ==
    \/ Connected(s) \/ Refused(s) \/ Closed(s)
    \/ Accept(s) \/ Receive(s) \/ ReceiveEnd(s)

Next ==
    \/ \E n \in Node : \E m \in Node \ {n} : send(n, m)
    \/ \E n \in Node : Write(n) \/ Stop(n) \/ StopResolves(n) \/ Crash(n)
    \/ \E s \in Socket : SocketStep(s)

Spec == Init /\ [][Next]_vars

\* The event loops and the network go on; nobody has to send, to stop or to crash.
Fairness ==
    /\ \A n \in Node : WF_vars(Write(n)) /\ WF_vars(StopResolves(n))
    /\ \A s \in Socket : WF_vars(SocketStep(s))

FairSpec == Spec /\ Fairness

----------------------------------------------------------------------------
TypeOK ==
    /\ up \in [Node -> BOOLEAN]
    /\ stop \in [Node -> {"no", "waiting", "done"}]
    /\ connections \in [Node -> [Node -> Socket \cup {None}]]
    /\ near \in [Socket -> {"none", "connecting", "open", "ended", "closed"}]
    /\ far \in [Socket -> {"none", "open", "closed"}] /\ accepted \subseteq Socket
    /\ overlapped \subseteq Node \X Node /\ crashes \in 0..MaxCrashes

\* Messages to a node that awaits each of its sends are handled in the order they
\* were sent in, crashes or not.
HandledInOrder ==
    \A n, m \in Node : <<n, m>> \notin overlapped =>
        \A i, j \in DOMAIN handled[m][n] : i < j => handled[m][n][i] < handled[m][n][j]

\* A node that awaits its sends has at most one open socket to a peer, and finds
\* it in its map, where stop() ends it.
NothingLeaks ==
    \A s \in Socket : near[s] = "open" =>
        <<s[1], To(s)>> \in overlapped \/ connections[s[1]][To(s)] = s

Handled(n, i) == \E m \in Node : \E k \in DOMAIN handled[m][n] : handled[m][n][k] = i

\* What may lose call i of n: a crash of one of the two, calls that overlap, or a
\* peer that stopped before it accepted the connection.
Excused(n, i) ==
    LET m == calls[n][i].to
        s == calls[n][i].socket
    IN  ~up[n] \/ ~up[m] \/ <<n, m>> \in overlapped \/ (far[s] = "closed" /\ s \notin accepted)

\* The calls, by caller and number, that resolved and whose message nobody has
\* handled, though nothing excuses it.  A call leaves this set for good.
Owed == {c \in Socket : /\ c[2] \in DOMAIN calls[c[1]] /\ Call(c).state = "written"
                        /\ ~Handled(c[1], c[2]) /\ ~Excused(c[1], c[2])}

\* What send() has resolved for is handled, even if sender or receiver is
\* stopping, as long as the receiver had accepted the connection when it stopped.
Delivered == Owed # {} ~> Owed = {}

\* If every node stops or ends, and all await their sends, every stop() resolves.
StopCompletes ==
    /\ \A n \in Node : <>(stop[n] # "no" \/ ~up[n])
    /\ [](overlapped = {})
    => \A n \in Node : <>(stop[n] = "done" \/ ~up[n])
=============================================================================

------------------------------ MODULE RingSync ------------------------------
(***************************************************************************)
(* How the RingNodes (packages/core/src/ring-node.ts) of a cluster keep     *)
(* their replicas of the ring: the peers they learn of from the port       *)
(* mapper, the state they push to them, the two-step synchronisation, and  *)
(* the updates they broadcast when they join and when they leave.          *)
(*                                                                         *)
(* A process is a node identifier and the number of its start; it makes at *)
(* most one entry, so a process also stands for its entry.  The Yjs        *)
(* document is external: it holds the insertions and the deletions it was  *)
(* given, merges them by union, and shows an entry once it has the entry   *)
(* that one was appended to.  A deletion is no part of a state vector and  *)
(* of every difference.                                                    *)
(*                                                                         *)
(* Messages from one node to another arrive in order, but for the two that *)
(* peer:join sends at once, which may take a connection each (see          *)
(* Transport).  Others that are not awaited, joinRing's broadcast beside   *)
(* the first push and the answers, could change places too; what a         *)
(* document holds is a union of what it was given, and does not depend on  *)
(* it.  Between processes that live no message is lost; the daemon         *)
(* answers, and sees at once that a process is gone.                       *)
(***************************************************************************)
EXTENDS Naturals, Sequences

CONSTANTS Node,        \* node identifiers
          Casts,       \* records of the founders, which form a settled ring at the
                       \* beginning, and of the joiners, which may start
          Cleaners,    \* the nodes whose application calls cleanupOfflineNodes
          Swappers,    \* the nodes whose two messages at peer:join may change places;
                       \* it may be any, and is a bound
          MaxStarts,   \* starts of a node
          MaxDepartures,   \* leaves, crashes and nodes taken for dead by mistake,
                       \* the deaths they entail apart
          None

ASSUME StartsAssumption == MaxStarts \in Nat \ {0} /\ MaxDepartures \in Nat
ASSUME CastsAssumption ==
    Casts \subseteq [founders : SUBSET Node, joiners : SUBSET Node]
ASSUME CleanersAssumption == Cleaners \subseteq Node /\ Swappers \subseteq Node

Process == Node \X (1..MaxStarts)
ASSUME NoneAssumption == None \notin Process

VARIABLES
    phase,    \* "off", "registered" (initialize), "listening" (LIST sent),
              \* "listed" (LIST answered), "joined", "leaving" (shutdown),
              \* "dying" (a rejection that nobody handles)
    starts,   \* starts[n]: the number of times n was started
    departures, \* leaves, crashes and mistakes so far
    left,     \* the processes that have called leaveRing
    mistaken, \* those whose entry another process, or they themselves, deleted
              \* for silence while they were in the ring
    ins, del, \* the insertions and the deletions the document of n holds
    base,     \* base[p]: the entry that p's was appended to, or None
    known,    \* knownPeers
    listing,  \* what discover() resolves with, until the continuation runs
    todo,     \* the peers syncWithExistingPeers has yet to come to
    pulling,  \* the peer it has pushed to and not yet asked, or None
    queue,    \* what the daemon has sent to n
    net       \* net[n][m]: the messages under way from n to m

docVars == <<ins, del, base>>
loopVars == <<listing, todo, pulling>>
lifeVars == <<starts, departures, left, mistaken>>
vars == <<phase, lifeVars, docVars, known, loopVars, queue, net>>

----------------------------------------------------------------------------
Current(n) == <<n, starts[n]>>
Alive(p) == p = Current(p[1]) /\ phase[p[1]] # "off"
Watching(n) == phase[n] \notin {"off", "registered"}
Handling(n) == phase[n] \in {"listening", "joined", "leaving"}   \* messages reach RingNode

\* What Yjs has put into the array, of the insertions S.
Integrated(S) ==
    UNION {T \in SUBSET S : \A p \in T : base[p] \in T \cup {None}}
Members(n) == Integrated(ins[n]) \ del[n]
EntriesOf(n, m) == {p \in Members(n) : p[1] = m}

\* removeNodeFromRing deletes one entry of the node, if there is one: the
\* deletions it can make.
removeNodeFromRing(n, m) ==
    IF EntriesOf(n, m) = {} THEN {{}} ELSE {{p} : p \in EntriesOf(n, m)}

PeerOf(peers, m) == {p \in peers : p[1] = m}
AddPeers(peers, new) == {p \in peers : PeerOf(new, p[1]) = {}} \cup new

Message == [kind |-> "update", sv |-> {}, ins |-> {}, del |-> {}, caught |-> FALSE]
Update(i, d, caught) == [Message EXCEPT !.ins = i, !.del = d, !.caught = caught]
SyncStep1(n, caught) ==
    [Message EXCEPT !.kind = "step1", !.sv = Integrated(ins[n]), !.caught = caught]
SyncStep2(n, sv) ==
    [Message EXCEPT !.kind = "step2", !.sv = Integrated(ins[n]), !.ins = ins[n] \ sv, !.del = del[n]]

\* The network, when n has sent the messages of f to every process of peers
\* that is there.
Sent(n, peers, f) ==
    [net EXCEPT ![n] = [m \in Node |->
        LET q == {p \in peers : p[1] = m /\ Alive(p)}
        IN  IF q = {} THEN @[m] ELSE @[m] \o f]]
Send(n, peers, f) == net' = Sent(n, peers, f)

\* What becomes of a node that sends to q without catching: if q is gone, the
\* message is lost or its send rejects, and the rejection ends the sender.
Uncaught(n, q) ==
    phase' \in {phase} \cup
       IF Alive(q) THEN {} ELSE {[phase EXCEPT ![n] = "dying"]}

\* onDocUpdate and broadcastRingMessage: failures are caught and logged.
Broadcast(n, peers, i, d) == Send(n, peers, <<Update(i, d, TRUE)>>)

\* pushFullStateTo sends nothing of an empty document.
FullState(n, caught) ==
    IF ins[n] = {} /\ del[n] = {} THEN <<>> ELSE <<Update(ins[n], del[n], caught)>>

\* The daemon tells every watcher but n.
Notify(n, event) ==
    queue' = [m \in Node |-> IF m # n /\ Watching(m) THEN Append(queue[m], event) ELSE queue[m]]

\* The founders have all started, joined at the same time and synchronised.
\* Who is no founder and no joiner starts no more.
Init ==
    \E cast \in Casts :
      LET F == cast.founders
      IN  /\ phase = [n \in Node |-> IF n \in F THEN "joined" ELSE "off"]
          /\ starts = [n \in Node |-> IF n \in F THEN 1 ELSE IF n \in cast.joiners THEN 0 ELSE MaxStarts]
          /\ departures = 0 /\ left = {} /\ mistaken = {}
          /\ ins = [n \in Node |-> IF n \in F THEN F \X {1} ELSE {}]
          /\ del = [n \in Node |-> {}]
          /\ base = [p \in Process |-> None]
          /\ known = [n \in Node |-> IF n \in F THEN (F \ {n}) \X {1} ELSE {}]
          /\ listing = [n \in Node |-> {}]
          /\ todo = [n \in Node |-> {}]
          /\ pulling = [n \in Node |-> None]
          /\ queue = [n \in Node |-> <<>>]
          /\ net = [n \in Node |-> [m \in Node |-> <<>>]]

----------------------------------------------------------------------------
(* RingNode.start.                                                         *)

\* initialize registers the node; nothing listens to 'message' or to peer events
\* yet.
Register(n) ==
    /\ phase[n] = "off" /\ starts[n] < MaxStarts
    /\ phase' = [phase EXCEPT ![n] = "registered"]
    /\ starts' = [starts EXCEPT ![n] = @ + 1]
    /\ Notify(n, [kind |-> "join", peers |-> {<<n, starts[n] + 1>>}])
    /\ UNCHANGED <<departures, left, mistaken, docVars, known, loopVars, net>>

\* The node watches, its handlers are wired and discover() asks for the list.
\* Whoever registers between the two is in the list, and the event says no more.
Wire(n) ==
    /\ phase[n] = "registered"
    /\ phase' = [phase EXCEPT ![n] = "listening"]
    /\ queue' = [queue EXCEPT ![n] =
                   <<[kind |-> "list", peers |-> {Current(m) : m \in {x \in Node \ {n} : phase[x] # "off"}}]>>]
    /\ UNCHANGED <<lifeVars, docVars, known, loopVars, net>>

\* The answer resolves a promise: events in the same chunk are handled before
\* the continuation, no other message is.
Listed(n) ==
    /\ phase[n] = "listening" /\ queue[n] # <<>>
    /\ phase' = [phase EXCEPT ![n] = "listed"]
    /\ listing' = [listing EXCEPT ![n] = Head(queue[n]).peers]
    /\ queue' = [queue EXCEPT ![n] = Tail(@)]
    /\ UNCHANGED <<lifeVars, docVars, known, todo, pulling, net>>

\* discoverExistingPeers ends, joinRing pushes the entry unless the ring has one
\* of the node, at the end of what Yjs made of the array.
Join(n) ==
    LET peers == AddPeers(known[n], listing[n])
        present == Integrated(ins[n])
    IN  /\ phase[n] = "listed"
        /\ phase' = [phase EXCEPT ![n] = "joined"]
        /\ known' = [known EXCEPT ![n] = peers]
        /\ listing' = [listing EXCEPT ![n] = {}]
        /\ todo' = [todo EXCEPT ![n] = {q[1] : q \in peers}]
        /\ IF EntriesOf(n, n) # {}
           THEN UNCHANGED <<docVars, net>>
           ELSE /\ ins' = [ins EXCEPT ![n] = @ \cup {Current(n)}]
                /\ \E last \in IF present = {} THEN {None} ELSE present :
                     base' = [base EXCEPT ![Current(n)] = last]
                /\ Broadcast(n, peers, {Current(n)}, {})
                /\ UNCHANGED del
        /\ UNCHANGED <<lifeVars, pulling, queue>>

\* syncWithExistingPeers, one peer after the other: the push, and once it is
\* written, the first step.  A peer that cannot be reached is passed over.
SyncPush(n) ==
    /\ phase[n] = "joined" /\ pulling[n] = None
    /\ \E q \in known[n] :
         /\ q[1] \in todo[n]
         /\ todo' = [todo EXCEPT ![n] = @ \ {q[1]}]
         /\ IF Alive(q)
            THEN /\ Send(n, {q}, FullState(n, TRUE))
                 /\ pulling' = [pulling EXCEPT ![n] = q]
            ELSE UNCHANGED <<net, pulling>>
    /\ UNCHANGED <<phase, lifeVars, docVars, known, listing, queue>>

SyncPull(n) ==
    /\ pulling[n] # None
    /\ Send(n, {pulling[n]}, <<SyncStep1(n, TRUE)>>)
    /\ pulling' = [pulling EXCEPT ![n] = None]
    /\ UNCHANGED <<phase, lifeVars, docVars, known, listing, todo, queue>>

Syncing(n) == todo[n] # {} \/ pulling[n] # None

----------------------------------------------------------------------------
(* The events of the daemon.                                               *)

Event(n, kind) ==
    /\ phase[n] \in {"listed", "joined", "leaving"} /\ queue[n] # <<>>
    /\ Head(queue[n]).kind = kind
    /\ queue' = [queue EXCEPT ![n] = Tail(@)]

\* peer:join: a full push and the first step, neither awaited nor caught.  The
\* loop of syncWithExistingPeers comes to a key that is added while it runs.
PeerJoin(n) ==
    /\ Event(n, "join")
    /\ \E q \in Head(queue[n]).peers :
         /\ known' = [known EXCEPT ![n] = AddPeers(@, {q})]
         /\ \E order \in {FullState(n, FALSE) \o <<SyncStep1(n, FALSE)>>,
                          <<SyncStep1(n, FALSE)>> \o FullState(n, FALSE)} :
              /\ n \notin Swappers => order = FullState(n, FALSE) \o <<SyncStep1(n, FALSE)>>
              /\ Send(n, {q}, order)
         /\ Uncaught(n, q)
         /\ todo' = IF Syncing(n) /\ PeerOf(known[n], q[1]) = {}
                    THEN [todo EXCEPT ![n] = @ \cup {q[1]}] ELSE todo
    /\ UNCHANGED <<lifeVars, docVars, listing, pulling>>

\* Fault: the loop of syncWithExistingPeers goes over a copy.
PeerStays(n) ==
    /\ Event(n, "leave")
    /\ \E q \in Head(queue[n]).peers : known' = [known EXCEPT ![n] = @ \ PeerOf(@, q[1])]
    /\ UNCHANGED <<phase, lifeVars, docVars, loopVars, net>>

\* peer:leave.
PeerLeave(n) ==
    /\ Event(n, "leave")
    /\ \E q \in Head(queue[n]).peers :
         /\ known' = [known EXCEPT ![n] = @ \ PeerOf(@, q[1])]
         /\ todo' = [todo EXCEPT ![n] = @ \ {q[1]}]
    /\ UNCHANGED <<phase, lifeVars, docVars, listing, pulling, net>>

----------------------------------------------------------------------------
(* handleRingMessage.                                                      *)

Merge(n, m) ==
    /\ ins' = [ins EXCEPT ![n] = @ \cup m.ins]
    /\ del' = [del EXCEPT ![n] = @ \cup m.del]
    /\ UNCHANGED base

\* A message from m is next, and RingNode handles it.
Take(n, m, kind) ==
    /\ net[m][n] # <<>> /\ Handling(n)
    /\ Head(net[m][n]).kind = kind

Taken(n, m) == [net EXCEPT ![m][n] = Tail(@)]

\* n takes the message from m and sends f to the process q of m, if it knows one.
Answer(n, m, f) ==
    IF PeerOf(known[n], m) = {} \/ f = <<>>
    THEN net' = Taken(n, m) /\ UNCHANGED phase
    ELSE \E q \in PeerOf(known[n], m) :
           /\ net' = [Taken(n, m) EXCEPT ![n][m] = @ \o IF Alive(q) THEN f ELSE <<>>]
           /\ Uncaught(n, q)

\* An update is applied and goes no further.
ReceiveUpdate(n, m) ==
    /\ Take(n, m, "update")
    /\ Merge(n, Head(net[m][n]))
    /\ net' = Taken(n, m)
    /\ UNCHANGED <<phase, lifeVars, known, loopVars, queue>>

\* Fault: the difference is taken to the own state vector.
AnswerNothing(n, m) ==
    /\ Take(n, m, "step1")
    /\ Answer(n, m, <<SyncStep2(n, Integrated(ins[n]))>>)
    /\ UNCHANGED <<lifeVars, docVars, known, loopVars, queue>>

\* The difference and the own state vector go back, if the sender is known.
ReceiveStep1(n, m) ==
    /\ Take(n, m, "step1")
    /\ Answer(n, m, <<SyncStep2(n, Head(net[m][n]).sv)>>)
    /\ UNCHANGED <<lifeVars, docVars, known, loopVars, queue>>

\* The difference is applied, and what the peer still needs goes back.
ReceiveStep2(n, m) ==
    LET message == Head(net[m][n])
        i == (ins[n] \cup message.ins) \ message.sv
        d == del[n] \cup message.del
    IN  /\ Take(n, m, "step2")
        /\ Merge(n, message)
        /\ Answer(n, m, IF i = {} /\ d = {} THEN <<>> ELSE <<Update(i, d, FALSE)>>)
        /\ UNCHANGED <<lifeVars, known, loopVars, queue>>

\* The process is there and nothing listens yet.
Ignore(n, m) ==
    /\ net[m][n] # <<>> /\ phase[n] = "registered"
    /\ net' = Taken(n, m)
    /\ UNCHANGED <<phase, lifeVars, docVars, known, loopVars, queue>>

----------------------------------------------------------------------------
(* Leaving and dying.                                                      *)

\* leaveRing, at the start of shutdown: one entry of the node is deleted, and
\* the deletion is broadcast to the peers the node knows.
Leave(n) ==
    /\ phase[n] = "joined" /\ ~Syncing(n) /\ departures < MaxDepartures
    /\ departures' = departures + 1
    /\ left' = left \cup {Current(n)}
    /\ phase' = [phase EXCEPT ![n] = "leaving"]
    /\ \E d \in removeNodeFromRing(n, n) :
         /\ del' = [del EXCEPT ![n] = @ \cup d]
         /\ IF d = {} THEN UNCHANGED net ELSE Broadcast(n, known[n], {}, d)
    /\ UNCHANGED <<starts, mistaken, ins, base, known, loopVars, queue>>

Longest(n) ==
    CHOOSE k \in {Len(net[n][m]) : m \in Node} : \A m \in Node : Len(net[n][m]) <= k

\* The process of n ends and the daemon tells the watchers.  To every peer goes
\* what it had written, which is everything unless it ends suddenly; what others
\* had sent to it is lost or rejects.
End(n, lossy) ==
    /\ \E dying \in SUBSET {m \in Node \ {n} :
                           phase[m] # "off" /\ \E k \in DOMAIN net[m][n] : ~net[m][n][k].caught} :
         phase' = [m \in Node |-> IF m = n THEN "off" ELSE IF m \in dying THEN "dying" ELSE phase[m]]
    /\ \E written \in [Node -> 0..Longest(n)] :
         /\ \A m \in Node : IF lossy THEN written[m] <= Len(net[n][m]) ELSE written[m] = Len(net[n][m])
         /\ net' = [x \in Node |-> [y \in Node |->
                      IF y = n THEN <<>>
                      ELSE IF x = n THEN SubSeq(net[n][y], 1, written[y]) ELSE net[x][y]]]
    /\ ins' = [ins EXCEPT ![n] = {}] /\ del' = [del EXCEPT ![n] = {}]
    /\ known' = [known EXCEPT ![n] = {}]
    /\ listing' = [listing EXCEPT ![n] = {}]
    /\ todo' = [todo EXCEPT ![n] = {}]
    /\ pulling' = [pulling EXCEPT ![n] = None]
    /\ queue' = [m \in Node |-> IF m = n THEN <<>>
                                ELSE IF Watching(m)
                                THEN Append(queue[m], [kind |-> "leave", peers |-> {Current(n)}])
                                ELSE queue[m]]
    /\ UNCHANGED <<starts, mistaken, base>>

\* The rest of shutdown: UNREGISTER, stop of the transport, and the end.
Unregister(n) == phase[n] = "leaving" /\ End(n, FALSE) /\ UNCHANGED <<departures, left>>

\* An unhandled rejection ends the process.
Rejected(n) == phase[n] = "dying" /\ End(n, TRUE) /\ UNCHANGED <<departures, left>>

Crash(n) ==
    /\ phase[n] # "off" /\ departures < MaxDepartures
    /\ departures' = departures + 1
    /\ End(n, TRUE) /\ UNCHANGED left

InRing(p) == Alive(p) /\ phase[p[1]] = "joined"

\* cleanupOfflineNodes, called by the application when n has not heard a heartbeat
\* of m for awarenessTimeout.  m, which may be n itself, may be there all the same.
Cleanup(n, m) ==
    /\ n \in Cleaners /\ phase[n] = "joined" /\ ~Syncing(n) /\ EntriesOf(n, m) # {}
    /\ \E d \in removeNodeFromRing(n, m) :
         LET wrong == {p \in d : InRing(p)}
         IN  /\ wrong # {} => departures < MaxDepartures
             /\ departures' = IF wrong # {} THEN departures + 1 ELSE departures
             /\ mistaken' = mistaken \cup wrong
             /\ del' = [del EXCEPT ![n] = @ \cup d]
             /\ Broadcast(n, known[n], {}, d)
    /\ UNCHANGED <<phase, starts, left, ins, base, known, loopVars, queue>>

----------------------------------------------------------------------------
Handle(n, m) ==
    \/ ReceiveUpdate(n, m) \/ ReceiveStep1(n, m) \/ ReceiveStep2(n, m)
    \/ Ignore(n, m)

Start(n) == Wire(n) \/ Listed(n) \/ Join(n) \/ SyncPush(n) \/ SyncPull(n)

Next ==
    \/ \E n \in Node : Register(n) \/ Start(n) \/ PeerJoin(n) \/ PeerLeave(n)
                       \/ Leave(n) \/ Unregister(n) \/ Crash(n) \/ Rejected(n)
    \/ \E n, m \in Node : Handle(n, m) \/ Cleanup(n, m)

Spec == Init /\ [][Next]_vars

----------------------------------------------------------------------------
TypeOK ==
    /\ phase \in [Node -> {"off", "registered", "listening", "listed", "joined", "leaving", "dying"}]
    /\ starts \in [Node -> 0..MaxStarts] /\ departures \in 0..MaxDepartures
    /\ left \subseteq Process /\ mistaken \subseteq Process
    /\ ins \in [Node -> SUBSET Process] /\ del \in [Node -> SUBSET Process]
    /\ base \in [Process -> Process \cup {None}]
    /\ \A n \in Node : /\ known[n] \subseteq Process /\ listing[n] \subseteq Process
                       /\ todo[n] \subseteq {q[1] : q \in known[n]}
                       /\ pulling[n] \in Process \cup {None}

Settled ==
    /\ \A n, m \in Node : net[n][m] = <<>>
    /\ \A n \in Node : phase[n] \in {"off", "joined"} /\ queue[n] = <<>> /\ ~Syncing(n)

\* When everything that was sent has arrived, every node that joined is a member
\* in the eyes of every other, unless it was taken for dead: then its entry is gone
\* for good.
SettledKnowEachOther ==
    Settled =>
        \A a, b \in Node :
            phase[a] = "joined" /\ phase[b] = "joined" /\ Current(b) \notin mistaken => EntriesOf(a, b) # {}

\* Once everything has arrived, a node that left the ring is a member for nobody.
LeaversForgotten ==
    Settled => \A n \in Node : phase[n] = "joined" => Members(n) \cap left = {}
=============================================================================

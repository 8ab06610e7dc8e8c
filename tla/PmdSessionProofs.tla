-------------------------- MODULE PmdSessionProofs --------------------------
(***************************************************************************)
(* A node has one connection to the daemon and is registered on it, proved *)
(* for any number of sockets, reconnections, attempts and losses.          *)
(*                                                                         *)
(* The client decides by one socket field what several flows of its own    *)
(* do.  The invariant says that they do not meet: a flow only connects     *)
(* when nothing is connected (OneAtATime), and the flow that connected     *)
(* last is alone in making the node known on its socket                    *)
(* (ServedIsRegistered).                                                   *)
(***************************************************************************)
EXTENDS PmdSession, TLAPS, FiniteSetTheorems

LEMMA FlowNames ==
    /\ Flow = Task \cup {Start, Stop} /\ Start # Stop /\ Start \notin Task /\ Stop \notin Task
    /\ IsFiniteSet(Task) /\ Task \subseteq Nat /\ Socket \subseteq Nat
    /\ None \notin Socket /\ Broken \notin Socket /\ None # Broken
BY FlowAssumption DEF Flow

LEMMA TriesPositive == Tries \in [Task \cup {Start} -> Nat \ {0}] /\ MaxLosses \in Nat
BY FlowAssumption

Places == {"idle", "connect", "connecting", "backoff", "done", "failed"} \cup Request
States == {"new", "connecting", "open", "destroyed", "gone"}

\* TypeOK, by whom a variable belongs to.
DaemonTypes ==
    /\ up \in BOOLEAN /\ serving \subseteq Socket /\ assoc \subseteq Socket /\ watching \subseteq serving
    /\ regOn \in Socket \cup {None}
Requests == wire \in [Socket -> Seq(Flow \X Request)]
WireTypes ==
    /\ Requests
    /\ answers \in [Socket -> Seq(Flow \X Request \X BOOLEAN)]
SocketTypes == sock \in [Socket -> States] /\ current \in Socket \cup {None, Broken}
FlowTypes ==
    /\ pc \in [Flow -> Places] /\ at \in [Flow -> Socket \cup {None}]
    /\ tries \in [Task \cup {Start} -> Nat]
    /\ FlowPlaces
ListenerTypes == listeners \in Nat /\ ListenersCounted
HistoryTypes == {failed, halfOpen, exited} \subseteq BOOLEAN /\ losses \in 0..MaxLosses

Types == DaemonTypes /\ WireTypes /\ SocketTypes /\ FlowTypes /\ ListenerTypes /\ HistoryTypes

----------------------------------------------------------------------------
(* What a flow may do to the places and to the listeners.                  *)

LEMMA FinishedFinite == IsFiniteSet(Finished) /\ Cardinality(Finished) <= Cardinality(Task)
<1>1. Finished \subseteq Task
  BY DEF Finished
<1> QED
  BY <1>1, FlowNames, FS_Subset

\* The listeners stay as many, flows that are done stay done, and start()
\* does not come back to connecting.
LEMMA SameListeners ==
    ASSUME ListenerTypes, listeners' = listeners,
           \A t \in Task : pc[t] = "done" => pc'[t] = "done",
           Connecting(Start)' => Connecting(Start)
    PROVE  ListenerTypes'
<1>1. Finished \subseteq Finished' /\ Finished' \subseteq Task
  BY DEF Finished
<1>2. Cardinality(Finished) <= Cardinality(Finished') /\ Cardinality(Finished) \in Nat /\ Cardinality(Finished') \in Nat
  BY <1>1, FlowNames, FS_Subset, FS_CardinalityType
<1> QED
  BY <1>2 DEF ListenerTypes, ListenersCounted

\* What a flow goes to that has made its connection, or gave up.
After(f) ==
    IF f = Stop THEN {"unregister", "done"}
    ELSE IF f = Start THEN {"register", "watch", "done", "failed"}
    ELSE {"register", "watch", "backoff", "done"}

LEMMA MovesOn ==
    ASSUME FlowTypes, NEW f \in Flow, NEW x \in After(f), pc[f] # "done",
           pc' = [pc EXCEPT ![f] = x], UNCHANGED <<at, tries>>
    PROVE  /\ FlowTypes'
           /\ \A t \in Task : pc[t] = "done" => pc'[t] = "done"
           /\ Connecting(Start)' => Connecting(Start)
<1>1. x \in {"unregister", "register", "watch", "backoff", "done", "failed"} /\ x \in Places
  BY DEF After, Places, Request
<1>2. pc' \in [Flow -> Places] /\ pc'[f] = x /\ \A g \in Flow \ {f} : pc'[g] = pc[g]
  BY <1>1 DEF FlowTypes
<1>3. \A g \in Flow : Connecting(g)' => Connecting(g)
  BY <1>1, <1>2 DEF Connecting
<1>4. FlowPlaces'
  <2>1. pc'[Start] \in {"connect", "connecting", "register", "watch", "done", "failed"}
    BY <1>2, FlowNames DEF FlowTypes, FlowPlaces, After
  <2>2. pc'[Stop] \in {"idle", "unregister", "done"}
    BY <1>2, FlowNames DEF FlowTypes, FlowPlaces, After
  <2>3. \A t \in Task : pc'[t] \in {"idle", "connect", "connecting", "register", "watch", "backoff", "done"}
    BY <1>2, FlowNames DEF FlowTypes, FlowPlaces, After
  <2>4. \A g \in Flow : pc'[g] = "connecting" => at'[g] \in Socket
    BY <1>1, <1>2 DEF FlowTypes, FlowPlaces
  <2>5. \A g \in Task \cup {Start} : pc'[g] = "idle" \/ Connecting(g)' => tries'[g] # 0
    BY <1>1, <1>2, <1>3, FlowNames DEF FlowTypes, FlowPlaces
  <2> QED
    BY <2>1, <2>2, <2>3, <2>4, <2>5 DEF FlowPlaces, Connecting
<1> QED
  BY <1>2, <1>3, <1>4, FlowNames DEF FlowTypes

LEMMA StaysPut ==
    ASSUME FlowTypes, UNCHANGED <<pc, at, tries>>
    PROVE  /\ FlowTypes'
           /\ \A t \in Task : pc[t] = "done" => pc'[t] = "done"
           /\ Connecting(Start)' => Connecting(Start)
BY DEF FlowTypes, FlowPlaces, Connecting

LEMMA Appended == \A S : \A s \in Seq(S) : \A x \in S : Append(s, x) \in Seq(S)
OBVIOUS
LEMMA HeadTail == \A S : \A s \in Seq(S) : s # <<>> => Head(s) \in S /\ Tail(s) \in Seq(S)
OBVIOUS
LEMMA EmptySeq == \A S : <<>> \in Seq(S)
OBVIOUS

\* A request is written, or the flow fails.
LEMMA SendTypes ==
    ASSUME Types, NEW f \in Task \cup {Start}, NEW kind \in {"register", "watch"}, pc[f] # "done",
           sendMessage(f, kind), UNCHANGED <<at, tries>>
    PROVE  /\ Requests' /\ FlowTypes' /\ failed' \in BOOLEAN
           /\ \A t \in Task : pc[t] = "done" => pc'[t] = "done"
           /\ Connecting(Start)' => Connecting(Start)
<1>0. f \in Flow /\ f # Stop /\ kind \in Request
  BY FlowNames DEF Request
<1>1. <<f, kind>> \in Flow \X Request
  BY <1>0
<1>2. \/ wire' = wire
      \/ current \in Socket /\ wire' = [wire EXCEPT ![current] = Append(@, <<f, kind>>)]
  BY DEF sendMessage
<1>3. Requests'
  <2>1. CASE wire' = wire
    BY <2>1 DEF Types, WireTypes, Requests
  <2>2. CASE current \in Socket /\ wire' = [wire EXCEPT ![current] = Append(@, <<f, kind>>)]
    BY <1>1, <2>2, Appended DEF Types, WireTypes, Requests
  <2> QED
    BY <1>2, <2>1, <2>2
<1>4. \E x \in After(f) : pc' = [pc EXCEPT ![f] = x]
  BY <1>0, FlowNames DEF sendMessage, Fail, After
<1>5. failed' \in BOOLEAN
  BY DEF sendMessage, Fail, Types, HistoryTypes
<1> QED
  BY <1>0, <1>3, <1>4, <1>5, MovesOn DEF Types

LEMMA DisconnectTypes ==
    ASSUME Types, pc[Stop] # "done", disconnect, UNCHANGED <<at, tries>>
    PROVE  /\ SocketTypes' /\ FlowTypes'
           /\ \A t \in Task : pc[t] = "done" => pc'[t] = "done"
           /\ Connecting(Start)' => Connecting(Start)
<1>1. SocketTypes'
  BY DEF disconnect, Types, SocketTypes, States
<1>2. Stop \in Flow /\ "done" \in After(Stop)
  BY FlowNames DEF After
<1> QED
  BY <1>1, <1>2, MovesOn DEF disconnect, Types

LEMMA SettleTypes ==
    ASSUME Types, NEW f \in Flow, NEW ok \in BOOLEAN, Settle(f, ok), UNCHANGED <<at, tries>>
    PROVE  /\ Requests' /\ SocketTypes' /\ FlowTypes' /\ failed' \in BOOLEAN
           /\ \A t \in Task : pc[t] = "done" => pc'[t] = "done"
           /\ Connecting(Start)' => Connecting(Start)
<1>0. pc[f] \in {"register", "watch"} => f \in Task \cup {Start} /\ f # Stop
  BY FlowNames DEF Types, FlowTypes, FlowPlaces
<1>1. CASE pc[f] = "register" /\ sendMessage(f, "watch") /\ UNCHANGED socketVars
  BY <1>0, <1>1, SendTypes DEF Types, SocketTypes, socketVars
<1>2. CASE pc[f] = "watch" /\ pc' = [pc EXCEPT ![f] = "done"] /\ UNCHANGED <<wire, failed, socketVars>>
  <2>1. "done" \in After(f)
    BY DEF After
  <2> QED
    BY <1>2, <2>1, MovesOn DEF Types, WireTypes, Requests, SocketTypes, HistoryTypes, socketVars
<1>3. CASE pc[f] \in {"register", "watch"} /\ Fail(f) /\ UNCHANGED <<wire, socketVars>>
  <2>1. \E x \in After(f) : pc' = [pc EXCEPT ![f] = x]
    BY <1>0, <1>3, FlowNames DEF Fail, After
  <2>2. failed' \in BOOLEAN /\ pc[f] # "done"
    BY <1>3 DEF Fail
  <2> QED
    BY <1>3, <2>1, <2>2, MovesOn DEF Types, WireTypes, Requests, SocketTypes, socketVars
<1>4. CASE pc[f] = "unregister" /\ disconnect /\ UNCHANGED <<wire, failed>>
  <2>1. f = Stop
    BY <1>4, FlowNames DEF Types, FlowTypes, FlowPlaces
  <2>2. Requests' /\ failed' \in BOOLEAN
    BY <1>4 DEF Types, WireTypes, Requests, HistoryTypes
  <2> QED
    BY <1>4, <2>1, <2>2, DisconnectTypes
<1> QED
  BY <1>1, <1>2, <1>3, <1>4 DEF Settle

----------------------------------------------------------------------------
(* The types, action by action.                                            *)

LEMMA ConnectTypes == ASSUME Types, NEW f \in Flow, connect(f) PROVE Types'
<1>1. PICK s \in Socket : /\ sock' = [sock EXCEPT ![s] = "connecting"] /\ current' = s
                          /\ at' = [at EXCEPT ![f] = s]
  BY DEF connect
<1>2. pc[f] = "connect" /\ pc' = [pc EXCEPT ![f] = "connecting"] /\ tries' = tries
  BY DEF connect
<1>3. f \in Task \cup {Start} /\ f # Stop
  BY <1>2, FlowNames DEF Types, FlowTypes, FlowPlaces
<1>4. SocketTypes'
  BY <1>1 DEF Types, SocketTypes, States
<1>5. pc' \in [Flow -> Places] /\ at' \in [Flow -> Socket \cup {None}]
  BY <1>1, <1>2 DEF Types, FlowTypes, Places
<1>6. \A g \in Flow : Connecting(g)' = Connecting(g) /\ (pc'[g] = "idle" => pc[g] = "idle")
  BY <1>2 DEF Types, FlowTypes, Connecting
<1>7. FlowPlaces'
  <2>1. /\ pc'[Start] \in {"connect", "connecting", "register", "watch", "done", "failed"}
        /\ pc'[Stop] \in {"idle", "unregister", "done"}
    BY <1>2, <1>3, FlowNames DEF Types, FlowTypes, FlowPlaces
  <2>2. \A t \in Task : pc'[t] \in {"idle", "connect", "connecting", "register", "watch", "backoff", "done"}
    BY <1>2, FlowNames DEF Types, FlowTypes, FlowPlaces
  <2>3. \A g \in Flow : pc'[g] = "connecting" => at'[g] \in Socket
    BY <1>1, <1>2 DEF Types, FlowTypes, FlowPlaces
  <2>4. \A g \in Task \cup {Start} : pc'[g] = "idle" \/ Connecting(g)' => tries'[g] # 0
    BY <1>2, <1>6, FlowNames DEF Types, FlowTypes, FlowPlaces
  <2> QED
    BY <2>1, <2>2, <2>3, <2>4 DEF FlowPlaces, Connecting
<1>8. \A t \in Task : pc[t] = "done" => pc'[t] = "done"
  BY <1>2, FlowNames DEF Types, FlowTypes
<1>9. ListenerTypes'
  BY <1>6, <1>8, FlowNames, SameListeners DEF connect, Types
<1> QED
  BY <1>2, <1>4, <1>5, <1>7, <1>9 DEF connect, Types, daemonVars, bounds, FlowTypes, WireTypes, Requests, DaemonTypes, HistoryTypes

LEMMA ConnectedTypes == ASSUME Types, NEW f \in Flow, Connected(f) PROVE Types'
<1>1. f \in Task \cup {Start} /\ pc[f] = "connecting" /\ at[f] \in Socket
  BY FlowNames DEF Connected, Types, FlowTypes, FlowPlaces
<1>2. /\ sendMessage(f, "register") /\ UNCHANGED <<at, tries, answers>>
      /\ sock' = [sock EXCEPT ![at[f]] = "open"] /\ current' = current
      /\ serving' = serving \cup {at[f]}
      /\ UNCHANGED <<up, regOn, assoc, watching, exited, bounds>>
      /\ listeners' = IF f = Start THEN listeners + 1 ELSE listeners
  BY DEF Connected
<1>3. /\ Requests' /\ FlowTypes' /\ failed' \in BOOLEAN
      /\ \A t \in Task : pc[t] = "done" => pc'[t] = "done"
      /\ Connecting(Start)' => Connecting(Start)
  <2>1. pc[f] # "done"
    BY <1>1
  <2> QED
    BY <1>1, <1>2, <2>1, SendTypes
<1>4. SocketTypes' /\ DaemonTypes'
  BY <1>1, <1>2 DEF Types, SocketTypes, DaemonTypes, States
<1>5. ListenerTypes'
  <2>1. CASE f # Start
    BY <1>2, <1>3, <2>1, SameListeners DEF Types
  <2>2. CASE f = Start
    <3>1. pc'[Start] \in {"register", "failed"} /\ Connecting(Start)
      BY <1>1, <1>2, <2>2 DEF sendMessage, Fail, Connecting, Types, FlowTypes
    <3>2. ~Connecting(Start)'
      BY <3>1 DEF Connecting
    <3>3. Finished \subseteq Finished' /\ Finished' \subseteq Task
      BY <1>3 DEF Finished
    <3>4. /\ Cardinality(Finished) <= Cardinality(Finished')
          /\ Cardinality(Finished) \in Nat /\ Cardinality(Finished') \in Nat
      BY <3>3, FlowNames, FS_Subset, FS_CardinalityType
    <3>5. listeners \in Nat /\ listeners <= Cardinality(Finished) /\ listeners' = listeners + 1
      BY <1>2, <2>2, <3>1, <3>4 DEF Types, ListenerTypes, ListenersCounted
    <3> QED
      BY <3>2, <3>4, <3>5 DEF ListenerTypes, ListenersCounted
  <2> QED
    BY <2>1, <2>2
<1> QED
  BY <1>2, <1>3, <1>4, <1>5 DEF Types, HistoryTypes, WireTypes, bounds

LEMMA RefusedTypes == ASSUME Types, NEW f \in Flow, Refused(f) PROVE Types'
<1>1. f \in Task \cup {Start} /\ f # Stop /\ pc[f] = "connecting" /\ at[f] \in Socket
  BY FlowNames DEF Refused, Types, FlowTypes, FlowPlaces
<1>2. /\ sock' = [sock EXCEPT ![at[f]] = "new"]
      /\ wire' = [wire EXCEPT ![at[f]] = <<>>] /\ answers' = answers
      /\ current' = IF current = at[f] THEN Broken ELSE current
      /\ tries' = [tries EXCEPT ![f] = @ - 1] /\ at' = at /\ listeners' = listeners
      /\ UNCHANGED <<daemonVars, exited, bounds>>
  BY DEF Refused
<1>3. SocketTypes' /\ WireTypes'
  <2>1. <<>> \in Seq(Flow \X Request)
    BY EmptySeq
  <2> QED
    BY <1>1, <1>2, <2>1 DEF Types, SocketTypes, WireTypes, Requests, States
<1>4. tries[f] \in Nat \ {0}
  BY <1>1 DEF Types, FlowTypes, FlowPlaces, Connecting
<1>5. tries' \in [Task \cup {Start} -> Nat] /\ \A g \in Task \cup {Start} : g # f => tries'[g] = tries[g]
  BY <1>1, <1>2, <1>4 DEF Types, FlowTypes
<1>6. PICK x \in {"connect", "failed", "backoff"} :
        /\ pc' = [pc EXCEPT ![f] = x]
        /\ x = "connect" => tries'[f] # 0 
        /\ x = "failed" => f = Start
        /\ x = "backoff" => f # Start
        /\ failed' \in BOOLEAN
  <2>1. CASE tries[f] = 1 /\ Fail(f)
    BY <1>1, <2>1 DEF Fail
  <2>2. CASE tries[f] # 1 /\ pc' = [pc EXCEPT ![f] = "connect"] /\ failed' = failed
    <3>1. tries'[f] # 0
      BY <1>1, <1>2, <1>4, <2>2 DEF Types, FlowTypes
    <3>2. failed' \in BOOLEAN
      BY <2>2 DEF Types, HistoryTypes
    <3> QED
      BY <2>2, <3>1, <3>2
  <2> QED
    BY <2>1, <2>2 DEF Refused
<1>7. pc' \in [Flow -> Places] /\ pc'[f] = x /\ \A g \in Flow \ {f} : pc'[g] = pc[g]
  BY <1>6 DEF Types, FlowTypes, Places
<1>8. FlowPlaces'
  <2>1. /\ pc'[Start] \in {"connect", "connecting", "register", "watch", "done", "failed"}
        /\ pc'[Stop] \in {"idle", "unregister", "done"}
    BY <1>1, <1>6, <1>7, FlowNames DEF Types, FlowTypes, FlowPlaces
  <2>2. \A t \in Task : pc'[t] \in {"idle", "connect", "connecting", "register", "watch", "backoff", "done"}
    BY <1>6, <1>7, FlowNames DEF Types, FlowTypes, FlowPlaces
  <2>3. \A g \in Flow : pc'[g] = "connecting" => at'[g] \in Socket
    BY <1>2, <1>7 DEF Types, FlowTypes, FlowPlaces
  <2>4. \A g \in Task \cup {Start} : pc'[g] = "idle" \/ Connecting(g)' => tries'[g] # 0
    BY <1>5, <1>6, <1>7, FlowNames DEF Types, FlowTypes, FlowPlaces, Connecting
  <2> QED
    BY <2>1, <2>2, <2>3, <2>4 DEF FlowPlaces, Connecting
<1>9. ListenerTypes'
  <2>1. \A t \in Task : pc[t] = "done" => pc'[t] = "done"
    BY <1>1, <1>7, FlowNames
  <2>2. Connecting(Start)' => Connecting(Start)
    BY <1>1, <1>7, FlowNames DEF Connecting
  <2> QED
    BY <1>2, <2>1, <2>2, SameListeners DEF Types
<1>10. FlowTypes'
  BY <1>2, <1>5, <1>7, <1>8 DEF Types, FlowTypes
<1> QED
  BY <1>2, <1>3, <1>6, <1>9, <1>10 DEF Types, daemonVars, bounds, DaemonTypes, HistoryTypes

LEMMA DaemonHandleTypes == ASSUME Types, NEW s \in Socket, DaemonHandle(s) PROVE Types'
<1> DEFINE f == Head(wire[s])[1]
           kind == Head(wire[s])[2]
<1>1. s \in serving /\ Head(wire[s]) \in Flow \X Request /\ Tail(wire[s]) \in Seq(Flow \X Request)
  BY HeadTail DEF DaemonHandle, Types, WireTypes, Requests
<1>2. f \in Flow /\ kind \in Request
  BY <1>1
<1> HIDE DEF f, kind
<1>3. \E ok \in BOOLEAN : answers' \in {answers, [answers EXCEPT ![s] = Append(@, <<f, kind, ok>>)]}
  BY DEF DaemonHandle, f, kind
<1>4. wire' \in [Socket -> Seq(Flow \X Request)]
  BY <1>1 DEF DaemonHandle, Types, WireTypes, Requests
<1>5. answers' \in [Socket -> Seq(Flow \X Request \X BOOLEAN)]
  <2>1. PICK ok \in BOOLEAN : answers' \in {answers, [answers EXCEPT ![s] = Append(@, <<f, kind, ok>>)]}
    BY <1>3
  <2>2. <<f, kind, ok>> \in Flow \X Request \X BOOLEAN
    BY <1>2
  <2>3. Append(answers[s], <<f, kind, ok>>) \in Seq(Flow \X Request \X BOOLEAN)
    BY <2>2, Appended DEF Types, WireTypes, Requests
  <2> QED
    BY <2>1, <2>3 DEF Types, WireTypes, Requests
<1>6. DaemonTypes'
  <2>1. /\ regOn' \in {regOn, s, None} /\ assoc' \in {assoc, assoc \cup {s}}
        /\ watching' \in {watching, watching \cup {s}} /\ UNCHANGED <<up, serving>>
    BY DEF DaemonHandle
  <2> QED
    BY <1>1, <2>1 DEF Types, DaemonTypes
<1>7. FlowTypes' /\ ListenerTypes'
  BY StaysPut, SameListeners DEF DaemonHandle, flowVars, Types
<1> QED
  BY <1>4, <1>5, <1>6, <1>7 DEF DaemonHandle, Types, WireTypes, Requests, SocketTypes, HistoryTypes, socketVars, flowVars, bounds

\* What the daemon does to its sockets.
LEMMA DaemonSideTypes ==
    ASSUME Types, DaemonTypes', NEW S \in SUBSET Socket,
           wire' = [q \in Socket |-> IF q \in S THEN <<>> ELSE wire[q]],
           UNCHANGED <<answers, socketVars, flowVars, exited, halfOpen>>, losses' \in 0..MaxLosses
    PROVE  Types'
<1>1. WireTypes'
  BY EmptySeq DEF Types, WireTypes, Requests
<1>2. FlowTypes' /\ ListenerTypes'
  BY StaysPut, SameListeners DEF flowVars, Types
<1> QED
  BY <1>1, <1>2 DEF Types, SocketTypes, HistoryTypes, socketVars, flowVars

LEMMA DaemonCloseTypes == ASSUME Types, NEW s \in Socket, DaemonClose(s) PROVE Types'
<1> DEFINE S == {s}
<1>1. DaemonTypes'
  BY DEF DaemonClose, Types, DaemonTypes
<1>2. wire' = [q \in Socket |-> IF q \in S THEN <<>> ELSE wire[q]]
  BY DEF DaemonClose, Types, WireTypes, Requests
<1>3. losses' \in 0..MaxLosses
  BY DEF DaemonClose, bounds, Types, HistoryTypes
<1> QED
  BY <1>1, <1>2, <1>3, DaemonSideTypes DEF DaemonClose, bounds

LEMMA DaemonKilledTypes == ASSUME Types, DaemonKilled PROVE Types'
<1>1. DaemonTypes' /\ serving \in SUBSET Socket
  BY DEF DaemonKilled, Types, DaemonTypes
<1>2. losses' \in 0..MaxLosses
  BY TriesPositive DEF DaemonKilled, Types, HistoryTypes
<1> QED
  BY <1>1, <1>2, DaemonSideTypes DEF DaemonKilled

LEMMA DaemonStartsTypes == ASSUME Types, DaemonStarts PROVE Types'
<1>1. DaemonTypes' /\ WireTypes' /\ SocketTypes' /\ HistoryTypes'
  BY DEF DaemonStarts, Types, DaemonTypes, WireTypes, Requests, SocketTypes, HistoryTypes, socketVars, flowVars, bounds
<1>2. FlowTypes' /\ ListenerTypes'
  BY StaysPut, SameListeners DEF DaemonStarts, flowVars, Types
<1> QED
  BY <1>1, <1>2 DEF Types

LEMMA HandleMessageTypes == ASSUME Types, NEW s \in Socket, handleMessage(s) PROVE Types'
<1> DEFINE a == Head(answers[s])
<1>1. a \in Flow \X Request \X BOOLEAN /\ Tail(answers[s]) \in Seq(Flow \X Request \X BOOLEAN)
  BY HeadTail DEF handleMessage, Types, WireTypes, Requests
<1>2. answers' \in [Socket -> Seq(Flow \X Request \X BOOLEAN)]
  BY <1>1 DEF handleMessage, Types, WireTypes, Requests
<1>3. PICK f \in Flow, ok \in BOOLEAN :
        Settle(f, ok) \/ UNCHANGED <<wire, pc, failed, socketVars>>
  BY <1>1 DEF handleMessage
<1>4. /\ UNCHANGED <<at, tries>> /\ UNCHANGED <<daemonVars, listeners, exited, bounds>>
  BY DEF handleMessage
<1>5. /\ Requests' /\ SocketTypes' /\ FlowTypes' /\ failed' \in BOOLEAN
      /\ \A t \in Task : pc[t] = "done" => pc'[t] = "done"
      /\ Connecting(Start)' => Connecting(Start)
  <2>1. CASE Settle(f, ok)
    BY <1>4, <2>1, SettleTypes
  <2>2. CASE UNCHANGED <<wire, pc, failed, socketVars>>
    BY <1>4, <2>2, StaysPut DEF Types, WireTypes, Requests, SocketTypes, HistoryTypes, socketVars
  <2> QED
    BY <1>3, <2>1, <2>2
<1>6. ListenerTypes'
  BY <1>4, <1>5, SameListeners DEF Types
<1> QED
  BY <1>2, <1>4, <1>5, <1>6 DEF Types, WireTypes, Requests, DaemonTypes, HistoryTypes, daemonVars, bounds

LEMMA TimeoutTypes == ASSUME Types, NEW f \in Flow, Timeout(f) PROVE Types'
<1>1. Settle(f, FALSE) /\ UNCHANGED <<at, tries>> /\ UNCHANGED <<daemonVars, answers, listeners, exited, bounds>>
  BY DEF Timeout
<1>2. /\ Requests' /\ SocketTypes' /\ FlowTypes' /\ failed' \in BOOLEAN
      /\ \A t \in Task : pc[t] = "done" => pc'[t] = "done"
      /\ Connecting(Start)' => Connecting(Start)
  BY <1>1, SettleTypes
<1>3. ListenerTypes'
  BY <1>1, <1>2, SameListeners DEF Types
<1> QED
  BY <1>1, <1>2, <1>3 DEF Types, WireTypes, Requests, DaemonTypes, HistoryTypes, daemonVars, bounds

\* The flows that begin do so from where nothing was begun.
LEMMA SocketClosedTypes == ASSUME Types, NEW s \in Socket, SocketClosed(s) PROVE Types'
<1>1. PICK begun \in SUBSET {t \in Task : pc[t] = "idle"} :
        pc' = [f \in Flow |-> IF f \in begun THEN "connect" ELSE pc[f]]
  BY DEF SocketClosed, FirstIdle
<1>2. /\ UNCHANGED <<at, tries, listeners, failed, exited>> /\ UNCHANGED <<daemonVars, wire>>
      /\ sock' = [sock EXCEPT ![s] = "gone"] /\ current' = None
      /\ answers' = [answers EXCEPT ![s] = <<>>]
  BY DEF SocketClosed
<1>3. losses' \in 0..MaxLosses /\ halfOpen' \in BOOLEAN
  <2>1. losses' = losses \/ (losses < MaxLosses /\ losses' = losses + 1)
    BY DEF SocketClosed, bounds
  <2>2. losses \in 0..MaxLosses
    BY DEF Types, HistoryTypes
  <2>3. halfOpen' = halfOpen \/ halfOpen' = TRUE
    BY DEF SocketClosed, bounds
  <2>4. halfOpen' \in BOOLEAN
    BY <2>3 DEF Types, HistoryTypes
  <2> QED
    BY <2>1, <2>2, <2>4, TriesPositive
<1>4. SocketTypes' /\ WireTypes'
  BY <1>2, EmptySeq DEF Types, SocketTypes, WireTypes, Requests, States
<1>5. pc' \in [Flow -> Places]
  BY <1>1 DEF Types, FlowTypes, Places
<1>6. \A f \in Flow : pc'[f] = pc[f] \/ (f \in Task /\ pc[f] = "idle" /\ pc'[f] = "connect")
  BY <1>1
<1>7. FlowPlaces'
  <2>1. /\ pc'[Start] \in {"connect", "connecting", "register", "watch", "done", "failed"}
        /\ pc'[Stop] \in {"idle", "unregister", "done"}
    BY <1>6, FlowNames DEF Types, FlowTypes, FlowPlaces
  <2>2. \A t \in Task : pc'[t] \in {"idle", "connect", "connecting", "register", "watch", "backoff", "done"}
    BY <1>6, FlowNames DEF Types, FlowTypes, FlowPlaces
  <2>3. \A g \in Flow : pc'[g] = "connecting" => at'[g] \in Socket
    BY <1>2, <1>6 DEF Types, FlowTypes, FlowPlaces
  <2>4. \A g \in Task \cup {Start} : pc'[g] = "idle" \/ Connecting(g)' => tries'[g] # 0
    BY <1>2, <1>6, FlowNames DEF Types, FlowTypes, FlowPlaces, Connecting
  <2> QED
    BY <2>1, <2>2, <2>3, <2>4 DEF FlowPlaces, Connecting
<1>8. ListenerTypes'
  <2>1. \A t \in Task : pc[t] = "done" => pc'[t] = "done"
    BY <1>6, FlowNames
  <2>2. Connecting(Start)' => Connecting(Start)
    BY <1>6, FlowNames DEF Connecting
  <2> QED
    BY <1>2, <2>1, <2>2, SameListeners DEF Types
<1> QED
  BY <1>2, <1>3, <1>4, <1>5, <1>7, <1>8 DEF Types, DaemonTypes, FlowTypes, HistoryTypes, daemonVars

LEMMA BackoffTypes == ASSUME Types, NEW f \in Flow, Backoff(f) PROVE Types'
<1>1. /\ pc[f] = "backoff" /\ pc' = [pc EXCEPT ![f] = "done"] /\ listeners' = listeners + 1
      /\ UNCHANGED <<at, tries, failed, exited>> /\ UNCHANGED <<daemonVars, wire, answers, socketVars, bounds>>
  BY DEF Backoff
<1>2. f \in Task /\ "done" \in After(f)
  BY <1>1, FlowNames DEF Types, FlowTypes, FlowPlaces, After
<1>3. /\ FlowTypes' /\ \A t \in Task : pc[t] = "done" => pc'[t] = "done"
      /\ Connecting(Start)' => Connecting(Start)
  BY <1>1, <1>2, MovesOn DEF Types
<1>4. Finished' = Finished \cup {f} /\ f \notin Finished /\ Finished \subseteq Task
  BY <1>1, <1>2, FlowNames DEF Finished, Types, FlowTypes
<1>5. IsFiniteSet(Finished)
  BY FinishedFinite
<1>6. Cardinality(Finished') = Cardinality(Finished) + 1 /\ Cardinality(Finished) \in Nat
  BY <1>4, <1>5, FS_AddElement, FS_CardinalityType
<1>7. ListenerTypes'
  BY <1>1, <1>3, <1>6 DEF Types, ListenerTypes, ListenersCounted
<1> QED
  BY <1>1, <1>3, <1>7 DEF Types, DaemonTypes, WireTypes, Requests, SocketTypes, HistoryTypes, daemonVars, socketVars, bounds

LEMMA ShutdownTypes == ASSUME Types, shutdown PROVE Types'
<1>1. /\ pc[Stop] = "idle" /\ UNCHANGED <<at, tries, listeners, failed, exited>>
      /\ UNCHANGED <<daemonVars, answers, bounds>>
  BY DEF shutdown, started, maintain
<1>2. CASE /\ current \in Socket /\ wire' = [wire EXCEPT ![current] = Append(@, <<Stop, "unregister">>)]
           /\ pc' = [pc EXCEPT ![Stop] = "unregister"] /\ UNCHANGED socketVars
  <2>1. <<Stop, "unregister">> \in Flow \X Request /\ Stop \in Flow /\ "unregister" \in After(Stop)
    BY FlowNames DEF Request, After
  <2>2. Requests'
    BY <1>2, <2>1, Appended DEF Types, WireTypes, Requests
  <2>3. SocketTypes'
    BY <1>2 DEF Types, SocketTypes, socketVars
  <2>4. FlowTypes' /\ ListenerTypes'
    BY <1>1, <1>2, <2>1, MovesOn, SameListeners DEF Types
  <2> QED
    BY <1>1, <2>2, <2>3, <2>4 DEF Types, DaemonTypes, WireTypes, HistoryTypes, daemonVars, bounds
<1>3. CASE disconnect /\ wire' = wire
  <2>1. /\ SocketTypes' /\ FlowTypes' /\ ListenerTypes'
    BY <1>1, <1>3, DisconnectTypes, SameListeners DEF Types
  <2> QED
    BY <1>1, <1>3, <2>1 DEF Types, DaemonTypes, WireTypes, Requests, HistoryTypes, daemonVars, bounds
<1> QED
  BY <1>2, <1>3 DEF shutdown

LEMMA CrashTypes == ASSUME Types, Crash PROVE Types'
<1>1. WireTypes' /\ SocketTypes'
  BY EmptySeq DEF Crash, Types, WireTypes, Requests, SocketTypes, States
<1>2. FlowTypes' /\ ListenerTypes'
  BY StaysPut, SameListeners DEF Crash, flowVars, Types
<1>3. DaemonTypes'
  BY DEF Crash, daemonVars, Types, DaemonTypes
<1>4. HistoryTypes'
  BY DEF Crash, flowVars, bounds, Types, HistoryTypes
<1> QED
  BY <1>1, <1>2, <1>3, <1>4 DEF Types

LEMMA TypesInit == Init => Types
<1> SUFFICES ASSUME Init PROVE Types
  OBVIOUS
<1>1. DaemonTypes /\ WireTypes /\ SocketTypes
  BY EmptySeq DEF Init, DaemonTypes, WireTypes, Requests, SocketTypes, States
<1>7. HistoryTypes
  <2>1. losses \in 0..MaxLosses
    BY TriesPositive DEF Init
  <2> QED
    BY <2>1 DEF Init, HistoryTypes
<1>2. /\ pc = [f \in Flow |-> IF f = Start THEN "connect" ELSE "idle"]
      /\ at = [f \in Flow |-> None] /\ tries = Tries /\ listeners = 0
  BY DEF Init
<1>3. pc \in [Flow -> Places] /\ at \in [Flow -> Socket \cup {None}] /\ tries \in [Task \cup {Start} -> Nat]
  BY <1>2, TriesPositive DEF Places
<1>4. FlowPlaces
  BY <1>2, FlowNames, TriesPositive DEF FlowPlaces, Connecting
<1>5. Connecting(Start)
  BY <1>2, FlowNames DEF Connecting
<1>6. Cardinality(Finished) \in Nat
  BY FinishedFinite, FS_CardinalityType
<1> QED
  BY <1>1, <1>2, <1>3, <1>4, <1>5, <1>6, <1>7 DEF Types, FlowTypes, ListenerTypes, ListenersCounted

LEMMA TypesStep == Types /\ [Next]_vars => Types'
<1> SUFFICES ASSUME Types, [Next]_vars PROVE Types'
  OBVIOUS
<1>1. CASE UNCHANGED vars
  <2>1. FlowTypes' /\ ListenerTypes'
    BY <1>1, StaysPut, SameListeners DEF vars, flowVars, Types
  <2> QED
    BY <1>1, <2>1 DEF vars, Types, DaemonTypes, WireTypes, Requests, SocketTypes, HistoryTypes,
                      daemonVars, socketVars, flowVars, bounds
<1>2. CASE Daemon
  BY <1>2, DaemonHandleTypes, DaemonCloseTypes, DaemonKilledTypes, DaemonStartsTypes DEF Daemon
<1>3. CASE Client
  BY <1>3, ConnectTypes, ConnectedTypes, RefusedTypes, TimeoutTypes, BackoffTypes, HandleMessageTypes,
     SocketClosedTypes, ShutdownTypes, CrashTypes DEF Client
<1> QED
  BY <1>1, <1>2, <1>3 DEF Next

\* However the client's flows, the daemon and the losses interleave, the state is
\* of its types: each listener of "disconnect" but the first comes from a
\* reconnection that has ended, so there are never more than reconnections and one.
THEOREM TypeCorrect == Spec => []TypeOK
<1>1. Types => TypeOK
  <2> SUFFICES ASSUME Types PROVE TypeOK
    OBVIOUS
  <2>1. listeners \in 0..Cardinality(Task) + 1
    BY FinishedFinite, FlowNames, FS_CardinalityType DEF Types, ListenerTypes, ListenersCounted
  <2> QED
    BY <2>1 DEF Types, TypeOK, DaemonTypes, WireTypes, Requests, SocketTypes, FlowTypes, HistoryTypes, States, Places
<1> QED
  BY <1>1, TypesInit, TypesStep, PTL DEF Spec

----------------------------------------------------------------------------
(* One at a time: nothing has failed, and the process lives.               *)

Fine == ~failed /\ ~exited

\* A failure is remembered.
Remembered == failed' = failed \/ failed' = TRUE

LEMMA SettleRemembered == ASSUME NEW f, NEW ok, Settle(f, ok) PROVE Remembered
BY DEF Settle, sendMessage, Fail, Remembered

LEMMA FineBefore == [Next]_vars /\ Fine' => Fine
<1> SUFFICES ASSUME [Next]_vars, Fine' PROVE Fine
  OBVIOUS
<1>1. CASE UNCHANGED vars \/ Daemon
  <2>1. UNCHANGED <<failed, exited>>
    BY <1>1 DEF vars, Daemon, DaemonHandle, DaemonClose, DaemonKilled, DaemonStarts, flowVars
  <2> QED
    BY <2>1 DEF Fine
<1>2. CASE Client
  <2>1. ASSUME NEW f, connect(f) \/ Connected(f) \/ Refused(f) PROVE Remembered /\ ~exited
    BY <2>1 DEF connect, Connected, Refused, sendMessage, Fail, Remembered
  <2>2. ASSUME NEW f, Timeout(f) \/ Backoff(f) PROVE Remembered /\ ~exited
    BY <2>2, SettleRemembered DEF Timeout, Backoff, Remembered
  <2>3. ASSUME NEW s, handleMessage(s) \/ SocketClosed(s) PROVE Remembered /\ ~exited
    BY <2>3, SettleRemembered DEF handleMessage, SocketClosed, Remembered
  <2>4. ASSUME shutdown \/ Crash PROVE Remembered /\ ~exited
    BY <2>4 DEF shutdown, Crash, flowVars, Remembered
  <2>5. Remembered /\ ~exited
    BY <1>2, <2>1, <2>2, <2>3, <2>4 DEF Client
  <2> QED
    BY <2>5 DEF Fine, Remembered
<1> QED
  BY <1>1, <1>2 DEF Next

\* Nothing of the client's changes, or a flow goes on that does not connect.
LEMMA StillApart ==
    ASSUME OneAtATime, UNCHANGED <<sock, current, listeners>>,
           \A f \in Flow : pc'[f] # "backoff" /\ (Connecting(f)' => pc'[f] = pc[f]),
           maintain' => maintain, Start \in Flow
    PROVE  OneAtATime'
BY DEF OneAtATime, Connecting

\* disconnect, of the only socket there is.
LEMMA DisconnectApart ==
    ASSUME Types, OneAtATime, pc[Stop] # "done", disconnect, listeners' = listeners PROVE OneAtATime'
<1>1. Stop \in Flow /\ Start \in Flow
  BY FlowNames
<1>2. pc' = [pc EXCEPT ![Stop] = "done"] /\ current' = None
  BY DEF disconnect
<1>3. /\ pc'[Stop] = "done" /\ \A f \in Flow : f # Stop => pc'[f] = pc[f]
  BY <1>1, <1>2 DEF Types, FlowTypes
<1>4. \A s \in Socket : sock'[s] \notin {"connecting", "open"}
  BY DEF disconnect, OneAtATime, Types, SocketTypes
<1>5. \A s \in Socket : sock'[s] = "destroyed" => sock[s] \in {"open", "destroyed"}
  BY DEF disconnect, Types, SocketTypes
<1>6. \A f \in Flow : Connecting(f)' => Connecting(f)
  BY <1>3 DEF Connecting
<1>7. ~maintain'
  BY <1>3 DEF maintain
<1>8. \A f \in Flow : Connecting(f)' => \A s \in Socket : sock'[s] \notin {"open", "destroyed"}
  BY <1>4, <1>5, <1>6 DEF OneAtATime
<1>9. \A f \in Flow : pc'[f] # "backoff"
  BY <1>3 DEF OneAtATime
<1> QED
  BY <1>1, <1>4, <1>6, <1>7, <1>8, <1>9 DEF OneAtATime

LEMMA SettleApart ==
    ASSUME Types, OneAtATime, NEW f \in Flow, NEW ok \in BOOLEAN, Settle(f, ok), ~failed', listeners' = listeners
    PROVE  OneAtATime'
<1>0. pc[f] \in {"register", "watch"} => f # Stop
  BY FlowNames DEF Types, FlowTypes, FlowPlaces
<1>1. CASE \E x \in {"watch", "done"} : pc' = [pc EXCEPT ![f] = x] /\ f # Stop /\ UNCHANGED socketVars
  <2>1. \A g \in Flow : pc'[g] # "backoff" /\ (Connecting(g)' => pc'[g] = pc[g])
    BY <1>1 DEF Types, FlowTypes, Connecting, OneAtATime
  <2>2. maintain' = maintain
    BY <1>1, FlowNames DEF maintain, Types, FlowTypes
  <2> QED
    BY <1>1, <2>1, <2>2, StillApart, FlowNames DEF socketVars
<1>2. CASE pc[f] = "unregister" /\ disconnect
  BY <1>2, DisconnectApart, FlowNames DEF Types, FlowTypes, FlowPlaces
<1> QED
  BY <1>0, <1>1, <1>2 DEF Settle, sendMessage, Fail

LEMMA ConnectApart == ASSUME Types, OneAtATime, NEW f \in Flow, connect(f) PROVE OneAtATime'
<1>1. PICK s \in Socket : sock[s] = "new" /\ sock' = [sock EXCEPT ![s] = "connecting"] /\ current' = s
  BY DEF connect
<1>2. pc[f] = "connect" /\ pc' = [pc EXCEPT ![f] = "connecting"] /\ listeners' = listeners
  BY DEF connect
<1>3. f # Stop
  BY <1>2, FlowNames DEF Types, FlowTypes, FlowPlaces
<1>4. \A g \in Flow : Connecting(g)' = Connecting(g) /\ (g # f => pc'[g] = pc[g])
  BY <1>2 DEF Types, FlowTypes, Connecting
<1>5. Connecting(f) /\ pc'[f] = "connecting"
  BY <1>2 DEF Types, FlowTypes, Connecting
<1>6. \A q \in Socket : sock'[q] = IF q = s THEN "connecting" ELSE sock[q]
  BY <1>1 DEF Types, SocketTypes
<1>7. \A q \in Socket : sock[q] \notin {"open", "destroyed", "connecting"}
  BY <1>2, <1>5 DEF OneAtATime
<1>8. \A g \in Flow : pc'[g] # "backoff" /\ pc'[g] # "connect"
  BY <1>4, <1>5 DEF OneAtATime, Connecting
<1>9. \A q \in Socket : sock'[q] \in {"connecting", "open"} => q = current'
  BY <1>1, <1>6, <1>7
<1>10. \A q \in Socket : sock'[q] \notin {"open", "destroyed"}
  BY <1>6, <1>7
<1>11. \A g, h \in Flow : Connecting(g)' /\ Connecting(h)' => g = h
  BY <1>4 DEF OneAtATime
<1>12. listeners' <= 1 /\ (Connecting(Start)' => listeners' = 0)
  BY <1>2, <1>4, FlowNames DEF OneAtATime
<1> QED
  BY <1>8, <1>9, <1>10, <1>11, <1>12 DEF OneAtATime

LEMMA ConnectedApart == ASSUME Types, OneAtATime, NEW f \in Flow, Connected(f), ~failed' PROVE OneAtATime'
<1>1. /\ pc[f] = "connecting" /\ sock[at[f]] = "connecting" /\ sock' = [sock EXCEPT ![at[f]] = "open"]
      /\ current' = current /\ listeners' = IF f = Start THEN listeners + 1 ELSE listeners
  BY DEF Connected
<1>2. at[f] \in Socket
  BY <1>1 DEF Types, FlowTypes, FlowPlaces
<1>3. pc' = [pc EXCEPT ![f] = "register"]
  BY DEF Connected, sendMessage, Fail
<1>4. Connecting(f) /\ current = at[f]
  BY <1>1, <1>2 DEF Connecting, OneAtATime
<1>5. pc'[f] = "register" /\ \A g \in Flow : g # f => pc'[g] = pc[g] /\ ~Connecting(g)
  BY <1>3, <1>4 DEF Types, FlowTypes, OneAtATime
<1>6. \A g \in Flow : ~Connecting(g)' /\ pc'[g] # "backoff" /\ pc'[g] # "connect"
  BY <1>5 DEF Connecting, OneAtATime
<1>7. \A q \in Socket : sock'[q] = IF q = at[f] THEN "open" ELSE sock[q]
  BY <1>1, <1>2 DEF Types, SocketTypes
<1>8. \A q \in Socket : sock'[q] # "destroyed"
  BY <1>4, <1>7 DEF OneAtATime
<1>9. listeners' <= 1
  BY <1>1, <1>4 DEF OneAtATime, Types, ListenerTypes
<1> QED
  BY <1>1, <1>4, <1>6, <1>7, <1>8, <1>9, FlowNames DEF OneAtATime

LEMMA RefusedApart == ASSUME Types, OneAtATime, NEW f \in Flow, Refused(f), ~failed' PROVE OneAtATime'
<1>1. /\ pc[f] = "connecting" /\ sock[at[f]] = "connecting" /\ sock' = [sock EXCEPT ![at[f]] = "new"]
      /\ listeners' = listeners
  BY DEF Refused
<1>2. at[f] \in Socket
  BY <1>1 DEF Types, FlowTypes, FlowPlaces
<1>3. pc' = [pc EXCEPT ![f] = "connect"]
  BY DEF Refused, Fail
<1>4. Connecting(f) /\ current = at[f]
  BY <1>1, <1>2 DEF Connecting, OneAtATime
<1>5. pc'[f] = "connect" /\ \A g \in Flow : g # f => pc'[g] = pc[g] /\ ~Connecting(g)
  BY <1>3, <1>4 DEF Types, FlowTypes, OneAtATime
<1>6. \A g \in Flow : (Connecting(g)' => g = f) /\ pc'[g] # "backoff"
  BY <1>5 DEF Connecting, OneAtATime
<1>7. \A q \in Socket : sock'[q] = IF q = at[f] THEN "new" ELSE sock[q]
  BY <1>1, <1>2 DEF Types, SocketTypes
<1>8. \A q \in Socket : sock'[q] \notin {"destroyed", "open", "connecting"}
  BY <1>4, <1>7 DEF OneAtATime
<1>9. Connecting(Start)' => Connecting(Start)
  BY <1>4, <1>6, FlowNames
<1> QED
  BY <1>1, <1>6, <1>8, <1>9 DEF OneAtATime

\* One listener starts one reconnection.
LEMMA FirstIsOne ==
    ASSUME NEW n \in {0, 1}
    PROVE  /\ n = 0 => FirstIdle(n) = {}
           /\ \A t, u \in FirstIdle(n) : t = u
<1> DEFINE idle == {t \in Task : pc[t] = "idle"}
           Below(t) == {u \in idle : u < t}
<1>1. \A t \in idle : IsFiniteSet(Below(t)) /\ Cardinality(Below(t)) \in Nat
  <2> TAKE t \in idle
  <2>1. Below(t) \subseteq Task
    OBVIOUS
  <2> QED
    BY <2>1, FlowNames, FS_Subset, FS_CardinalityType
<1>2. FirstIdle(n) = {t \in idle : Cardinality(Below(t)) < n}
  BY DEF FirstIdle
<1>3. \A t \in FirstIdle(n) : n = 1 /\ Below(t) = {} /\ t \in idle
  <2> TAKE t \in FirstIdle(n)
  <2>1. t \in idle /\ Cardinality(Below(t)) < n
    BY <1>2
  <2>2. n = 1 /\ Cardinality(Below(t)) = 0
    BY <1>1, <2>1
  <2> QED
    BY <1>1, <2>1, <2>2, FS_EmptySet
<1>4. \A t, u \in FirstIdle(n) : t = u
  <2> SUFFICES ASSUME NEW t \in FirstIdle(n), NEW u \in FirstIdle(n) PROVE t = u
    OBVIOUS
  <2>1. t \in idle /\ u \in idle /\ u \notin Below(t) /\ t \notin Below(u)
    BY <1>3
  <2>2. t \in Nat /\ u \in Nat /\ ~(u < t) /\ ~(t < u)
    BY <2>1, FlowNames
  <2> QED
    BY <2>2
<1> QED
  BY <1>3, <1>4

LEMMA SocketClosedApart == ASSUME Types, OneAtATime, NEW s \in Socket, SocketClosed(s) PROVE OneAtATime'
<1> DEFINE begun == IF maintain THEN FirstIdle(listeners) ELSE {}
<1>1. /\ sock[s] \in {"open", "destroyed"} /\ sock' = [sock EXCEPT ![s] = "gone"] /\ listeners' = listeners
      /\ pc' = [f \in Flow |-> IF f \in begun THEN "connect" ELSE pc[f]]
  BY DEF SocketClosed
<1>2. listeners \in {0, 1}
  BY DEF Types, ListenerTypes, OneAtATime
<1>3. /\ \A t, u \in begun : t = u
      /\ \A t \in begun : t \in Task /\ pc[t] = "idle" /\ maintain
  BY <1>2, FirstIsOne DEF FirstIdle
<1>4. \A f \in Flow : ~Connecting(f)
  BY <1>1 DEF OneAtATime
<1> HIDE DEF begun
<1>5. \A f \in Flow : Connecting(f)' => f \in begun
  BY <1>1, <1>4 DEF Connecting
<1>6. \A q \in Socket : sock'[q] = IF q = s THEN "gone" ELSE sock[q]
  BY <1>1 DEF Types, SocketTypes
<1>7. \A q \in Socket : sock'[q] \notin {"open", "connecting"}
  BY <1>1, <1>6 DEF OneAtATime
<1>8. maintain => \A q \in Socket : sock'[q] # "destroyed"
  BY <1>6 DEF OneAtATime
<1>9. maintain' = maintain
  BY <1>1, <1>3, FlowNames DEF maintain
<1>10. ~Connecting(Start)'
  BY <1>3, <1>5, FlowNames
<1>11. \A f \in Flow : pc'[f] # "backoff"
  BY <1>1 DEF OneAtATime
<1>12. \A f \in Flow : Connecting(f)' => \A q \in Socket : sock'[q] \notin {"open", "destroyed", "connecting"}
  BY <1>3, <1>5, <1>7, <1>8
<1> QED
  BY <1>1, <1>3, <1>5, <1>7, <1>8, <1>9, <1>10, <1>11, <1>12 DEF OneAtATime

LEMMA ShutdownApart == ASSUME Types, OneAtATime, shutdown PROVE OneAtATime'
<1>1. listeners' = listeners /\ pc[Stop] = "idle"
  BY DEF shutdown, started, maintain
<1>2. CASE pc' = [pc EXCEPT ![Stop] = "unregister"] /\ UNCHANGED socketVars
  <2>1. \A g \in Flow : pc'[g] # "backoff" /\ (Connecting(g)' => pc'[g] = pc[g])
    BY <1>2 DEF Types, FlowTypes, Connecting, OneAtATime
  <2>2. maintain
    BY <1>1 DEF maintain
  <2> QED
    BY <1>1, <1>2, <2>1, <2>2, StillApart, FlowNames DEF socketVars
<1>3. CASE disconnect
  BY <1>1, <1>3, DisconnectApart
<1> QED
  BY <1>2, <1>3 DEF shutdown

LEMMA ApartInit == Init => OneAtATime
<1> SUFFICES ASSUME Init PROVE OneAtATime
  OBVIOUS
<1>1. \A s \in Socket : sock[s] = "new"
  BY DEF Init
<1>2. /\ listeners = 0 /\ \A f \in Flow : pc[f] = IF f = Start THEN "connect" ELSE "idle"
  BY DEF Init
<1> QED
  BY <1>1, <1>2 DEF OneAtATime, Connecting

LEMMA ApartStep == Types /\ OneAtATime /\ Fine /\ [Next]_vars /\ Fine' => OneAtATime'
<1> SUFFICES ASSUME Types, OneAtATime, Fine, [Next]_vars, Fine' PROVE OneAtATime'
  OBVIOUS
<1>1. CASE UNCHANGED vars \/ Daemon
  <2>1. UNCHANGED socketVars /\ UNCHANGED flowVars
    BY <1>1 DEF vars, Daemon, DaemonHandle, DaemonClose, DaemonKilled, DaemonStarts
  <2>2. \A g \in Flow : pc'[g] # "backoff" /\ (Connecting(g)' => pc'[g] = pc[g])
    BY <2>1 DEF OneAtATime, flowVars
  <2>3. maintain' = maintain
    BY <2>1 DEF flowVars, maintain
  <2> QED
    BY <2>1, <2>2, <2>3, StillApart, FlowNames DEF socketVars, flowVars
<1>2. ASSUME NEW f \in Flow, Timeout(f) PROVE OneAtATime'
  BY <1>2, SettleApart DEF Timeout, Fine
<1>3. ASSUME NEW f \in Flow, Backoff(f) PROVE OneAtATime'
  BY <1>3 DEF Backoff, OneAtATime
<1>4. ASSUME NEW s \in Socket, handleMessage(s) PROVE OneAtATime'
  <2>1. Head(answers[s]) \in Flow \X Request \X BOOLEAN
    BY <1>4, HeadTail DEF handleMessage, Types, WireTypes
  <2>2. CASE UNCHANGED <<pc, socketVars>>
    <3>1. \A g \in Flow : pc'[g] # "backoff" /\ (Connecting(g)' => pc'[g] = pc[g])
      BY <2>2 DEF OneAtATime
    <3>2. maintain' = maintain
      BY <2>2 DEF maintain
    <3> QED
      BY <1>4, <2>2, <3>1, <3>2, StillApart, FlowNames DEF handleMessage, socketVars
  <2>3. CASE \E f \in Flow : \E ok \in BOOLEAN : Settle(f, ok)
    BY <1>4, <2>3, SettleApart DEF handleMessage, Fine
  <2> QED
    BY <1>4, <2>1, <2>2, <2>3 DEF handleMessage
<1>5. ~Crash
  BY DEF Crash, Fine
<1> QED
  BY <1>1, <1>2, <1>3, <1>4, <1>5, ConnectApart, ConnectedApart, RefusedApart, SocketClosedApart, ShutdownApart
     DEF Next, Client, Fine

----------------------------------------------------------------------------
(* The daemon comes to know the node: besides, no connection was lost that *)
(* it still had, and nobody shuts down.                                    *)

Calm == Fine /\ ~halfOpen /\ maintain

LEMMA CalmBefore == Types /\ [Next]_vars /\ Calm' => Calm
<1> SUFFICES ASSUME Types, [Next]_vars, Calm' PROVE Calm
  OBVIOUS
<1>0. Fine
  BY FineBefore DEF Calm
<1>1. maintain
  <2>1. \/ pc' = pc
        \/ \E f \in Flow, x \in Places \ {"idle"} : pc' = [pc EXCEPT ![f] = x]
        \/ \E begun : pc' = [f \in Flow |-> IF f \in begun THEN "connect" ELSE pc[f]]
    <3>1. CASE UNCHANGED vars \/ Daemon
      BY <3>1 DEF vars, Daemon, DaemonHandle, DaemonClose, DaemonKilled, DaemonStarts, flowVars
    <3>2. ASSUME NEW f \in Flow, NEW ok, Settle(f, ok) PROVE \E g \in Flow, x \in Places \ {"idle"} : pc' = [pc EXCEPT ![g] = x]
      BY <3>2, FlowNames DEF Settle, sendMessage, Fail, disconnect, Places, Request
    <3>3. ASSUME NEW f \in Flow, connect(f) \/ Connected(f) \/ Refused(f) \/ Timeout(f) \/ Backoff(f)
          PROVE  \E g \in Flow, x \in Places \ {"idle"} : pc' = [pc EXCEPT ![g] = x]
      <4>1. CASE Timeout(f)
        BY <4>1, <3>2 DEF Timeout
      <4>2. CASE ~Timeout(f)
        BY <3>3, <4>2 DEF connect, Connected, Refused, Backoff, sendMessage, Fail, Places, Request
      <4> QED
        BY <4>1, <4>2
    <3>4. ASSUME NEW s \in Socket, handleMessage(s)
          PROVE  pc' = pc \/ \E g \in Flow, x \in Places \ {"idle"} : pc' = [pc EXCEPT ![g] = x]
      <4>1. Head(answers[s]) \in Flow \X Request \X BOOLEAN
        BY <3>4, HeadTail DEF handleMessage, Types, WireTypes
      <4>2. pc' = pc \/ \E f \in Flow : \E ok : Settle(f, ok)
        BY <3>4, <4>1 DEF handleMessage
      <4> QED
        BY <4>2, <3>2
    <3>5. ASSUME NEW s \in Socket, SocketClosed(s)
          PROVE  \E begun : pc' = [f \in Flow |-> IF f \in begun THEN "connect" ELSE pc[f]]
      BY <3>5 DEF SocketClosed
    <3>6. ASSUME shutdown \/ Crash
          PROVE  pc' = pc \/ \E g \in Flow, x \in Places \ {"idle"} : pc' = [pc EXCEPT ![g] = x]
      BY <3>6, FlowNames DEF shutdown, disconnect, Crash, flowVars, Places, Request
    <3> QED
      BY <3>1, <3>3, <3>4, <3>5, <3>6 DEF Next, Client
  <2>2. Stop \in Flow /\ pc'[Stop] = "idle" /\ pc \in [Flow -> Places]
    BY FlowNames DEF Calm, maintain, Types, FlowTypes
  <2> QED
    BY <2>1, <2>2 DEF maintain
<1>2. ~halfOpen
  <2>1. halfOpen' = halfOpen \/ halfOpen' = TRUE
    BY DEF Next, vars, Daemon, DaemonHandle, DaemonClose, DaemonKilled, DaemonStarts, Client, connect, Connected,
           Refused, Timeout, Backoff, handleMessage, SocketClosed, shutdown, Crash, bounds
  <2> QED
    BY <2>1 DEF Calm
<1> QED
  BY <1>0, <1>1, <1>2 DEF Calm

\* What the daemon serves is the client's one connection.
LEMMA ServedIsCurrent ==
    ASSUME OneAtATime, ServedIsRegistered, Types
    PROVE  \A s \in serving : s \in Socket /\ s = current /\ sock[s] = "open" /\ \A f \in Flow : ~Connecting(f)
BY DEF OneAtATime, ServedIsRegistered, Types, DaemonTypes

\* Steps that do not come near what the daemon serves.
LEMMA StillServed ==
    ASSUME ServedIsRegistered, serving' = {},
           \A s \in Socket : sock'[s] \in {"new", "connecting"} => wire'[s] = <<>> /\ answers'[s] = <<>>
    PROVE  ServedIsRegistered'
BY DEF ServedIsRegistered

LEMMA ConnectServed ==
    ASSUME Types, OneAtATime, ServedIsRegistered, NEW f \in Flow, connect(f) PROVE ServedIsRegistered'
<1>1. /\ pc[f] = "connect" /\ UNCHANGED <<wire, answers>> /\ serving' = serving
      /\ \E s \in Socket : sock[s] = "new" /\ sock' = [sock EXCEPT ![s] = "connecting"]
  BY DEF connect, daemonVars
<1>2. serving' = {}
  BY <1>1, ServedIsCurrent DEF Connecting
<1>3. \A s \in Socket : sock'[s] \in {"new", "connecting"} => sock[s] \in {"new", "connecting"}
  BY <1>1 DEF Types, SocketTypes
<1> QED
  BY <1>1, <1>2, <1>3, StillServed DEF ServedIsRegistered

LEMMA ConnectedServed ==
    ASSUME Types, OneAtATime, ServedIsRegistered, NEW f \in Flow, Connected(f), ~failed' PROVE ServedIsRegistered'
<1>1. pc[f] = "connecting" /\ sock[at[f]] = "connecting" /\ f \in Task \cup {Start}
  BY FlowNames DEF Connected, Types, FlowTypes, FlowPlaces
<1>2. at[f] \in Socket /\ current = at[f]
  BY <1>1 DEF Types, FlowTypes, FlowPlaces, OneAtATime
<1>3. serving = {}
  BY <1>1, ServedIsCurrent DEF Connecting
<1>4. wire[at[f]] = <<>> /\ answers[at[f]] = <<>>
  BY <1>1, <1>2 DEF ServedIsRegistered
<1>5. /\ pc' = [pc EXCEPT ![f] = "register"] /\ wire' = [wire EXCEPT ![at[f]] = Append(<<>>, <<f, "register">>)]
      /\ answers' = answers /\ sock' = [sock EXCEPT ![at[f]] = "open"] /\ serving' = {at[f]}
  BY <1>2, <1>3, <1>4 DEF Connected, sendMessage, Fail
<1>6. Append(<<>>, <<f, "register">>) = <<<<f, "register">>>>
  OBVIOUS
<1>7. /\ pc'[f] = "register" /\ wire'[at[f]] = <<<<f, "register">>>> /\ answers'[at[f]] = <<>>
      /\ sock'[at[f]] = "open"
      /\ \A s \in Socket : s # at[f] => wire'[s] = wire[s] /\ sock'[s] = sock[s]
  BY <1>2, <1>4, <1>5, <1>6 DEF Types, FlowTypes, WireTypes, Requests, SocketTypes
<1> DEFINE s == at[f]
<1>8. \A q \in serving' : sock'[q] = "open" /\ \E g \in Task \cup {Start} : Registering(g, q)'
  <2> SUFFICES ASSUME NEW q \in serving' PROVE sock'[q] = "open" /\ Registering(f, q)'
    BY <1>1
  <2>1. q = at[f]
    BY <1>5
  <2> QED
    BY <1>7, <2>1 DEF Registering
<1>9. \A q \in Socket : sock'[q] \in {"new", "connecting"} => wire'[q] = <<>> /\ answers'[q] = <<>>
  BY <1>5, <1>7 DEF ServedIsRegistered
<1> QED
  BY <1>8, <1>9 DEF ServedIsRegistered

LEMMA RefusedServed ==
    ASSUME Types, OneAtATime, ServedIsRegistered, NEW f \in Flow, Refused(f) PROVE ServedIsRegistered'
<1>1. /\ pc[f] = "connecting" /\ sock[at[f]] = "connecting" /\ sock' = [sock EXCEPT ![at[f]] = "new"]
      /\ wire' = [wire EXCEPT ![at[f]] = <<>>] /\ answers' = answers /\ serving' = serving
  BY DEF Refused, daemonVars
<1>2. at[f] \in Socket
  BY <1>1 DEF Types, FlowTypes, FlowPlaces
<1>3. serving' = {}
  BY <1>1, ServedIsCurrent DEF Connecting
<1>4. \A s \in Socket : sock'[s] \in {"new", "connecting"} => wire'[s] = <<>> /\ answers'[s] = <<>>
  BY <1>1, <1>2 DEF ServedIsRegistered, Types, SocketTypes, WireTypes, Requests
<1> QED
  BY <1>3, <1>4, StillServed

LEMMA DaemonHandleServed ==
    ASSUME Types, OneAtATime, ServedIsRegistered, NEW s \in Socket, DaemonHandle(s) PROVE ServedIsRegistered'
<1>1. s \in serving /\ wire[s] # <<>> /\ wire' = [wire EXCEPT ![s] = Tail(@)] /\ UNCHANGED <<pc, sock, serving>>
  BY DEF DaemonHandle, socketVars, flowVars
<1>2. s = current /\ sock[s] = "open" /\ \A q \in serving : q = s
  BY <1>1, ServedIsCurrent
<1>3. PICK f \in Task \cup {Start} : Registering(f, s)
  BY <1>1 DEF ServedIsRegistered
<1>4. wire'[s] = Tail(wire[s]) /\ \A q \in Socket : q # s => wire'[q] = wire[q] /\ answers'[q] = answers[q]
  BY <1>1 DEF DaemonHandle, Types, WireTypes, Requests
<1>5. Registering(f, s)'
  <2>1. CASE pc[f] = "register" /\ wire[s] = <<<<f, "register">>>> /\ answers[s] = <<>>
    <3>1. Head(wire[s])[1] = f /\ Head(wire[s])[2] = "register" /\ Tail(wire[s]) = <<>>
      BY <2>1
    <3>2. PICK ok \in BOOLEAN : /\ answers' = [answers EXCEPT ![s] = Append(@, <<f, "register", ok>>)]
                                /\ ok => regOn' = s
      BY <1>2, <3>1 DEF DaemonHandle
    <3>3. Append(<<>>, <<f, "register", ok>>) = <<<<f, "register", ok>>>>
      OBVIOUS
    <3>4. answers'[s] = <<<<f, "register", ok>>>>
      BY <2>1, <3>2, <3>3 DEF Types, WireTypes
    <3> QED
      BY <1>1, <1>4, <2>1, <3>1, <3>2, <3>4 DEF Registering
  <2>2. CASE pc[f] = "watch" /\ wire[s] = <<<<f, "watch">>>> /\ answers[s] = <<>> /\ regOn = s
    <3>1. Head(wire[s])[1] = f /\ Head(wire[s])[2] = "watch" /\ Tail(wire[s]) = <<>>
      BY <2>2
    <3>2. /\ answers' = [answers EXCEPT ![s] = Append(@, <<f, "watch", TRUE>>)]
          /\ watching' = watching \cup {s} /\ regOn' = regOn
      BY <1>2, <3>1 DEF DaemonHandle
    <3>3. Append(<<>>, <<f, "watch", TRUE>>) = <<<<f, "watch", TRUE>>>>
      OBVIOUS
    <3>4. answers'[s] = <<<<f, "watch", TRUE>>>>
      BY <2>2, <3>2, <3>3 DEF Types, WireTypes
    <3> QED
      BY <1>1, <1>4, <2>2, <3>1, <3>2, <3>4 DEF Registering
  <2> QED
    BY <1>1, <1>3, <2>1, <2>2 DEF Registering
<1> QED
  BY <1>1, <1>2, <1>4, <1>5 DEF ServedIsRegistered

LEMMA HandleMessageServed ==
    ASSUME Types, OneAtATime, ServedIsRegistered, Calm, NEW s \in Socket, handleMessage(s), Calm'
    PROVE  ServedIsRegistered'
<1> DEFINE a == Head(answers[s])
<1>1. /\ sock[s] = "open" /\ answers[s] # <<>> /\ answers' = [answers EXCEPT ![s] = Tail(@)]
      /\ UNCHANGED <<serving, regOn, watching>>
  BY DEF handleMessage, daemonVars
<1>2. s = current
  BY <1>1 DEF OneAtATime
<1>3. a[1] \in Flow /\ a[2] \in Request /\ a[3] \in BOOLEAN
  BY <1>1, HeadTail DEF Types, WireTypes
<1>4. \/ UNCHANGED <<wire, pc, sock>>
      \/ /\ pc[a[1]] = "register" /\ a[2] = "register" /\ a[3] /\ sock' = sock
         /\ wire' = [wire EXCEPT ![s] = Append(@, <<a[1], "watch">>)]
         /\ pc' = [pc EXCEPT ![a[1]] = "watch"]
      \/ /\ pc[a[1]] = "watch" /\ a[2] = "watch" /\ UNCHANGED <<wire, sock>>
         /\ pc' = [pc EXCEPT ![a[1]] = "done"]
  <2>1. CASE pc[a[1]] = a[2]
    <3>1. a[2] # "unregister"
      BY <1>3, <2>1, FlowNames DEF Calm, maintain, Types, FlowTypes, FlowPlaces
    <3>2. Settle(a[1], a[3])
      BY <2>1 DEF handleMessage
    <3> HIDE DEF a
    <3>3. ~failed'
      BY DEF Calm, Fine
    <3> QED
      BY <1>2, <2>1, <3>1, <3>2, <3>3 DEF Settle, sendMessage, Fail, socketVars
  <2>2. CASE pc[a[1]] # a[2]
    BY <2>2 DEF handleMessage, socketVars
  <2> QED
    BY <2>1, <2>2
<1>5. /\ sock' = sock /\ answers'[s] = Tail(answers[s])
      /\ \A q \in Socket : q # s => wire'[q] = wire[q] /\ answers'[q] = answers[q]
  BY <1>1, <1>4 DEF Types, WireTypes, Requests
<1>6. \A q \in serving : q = s
  BY <1>2, ServedIsCurrent
<1>7. ASSUME s \in serving PROVE \E f \in Task \cup {Start} : Registering(f, s)'
  <2>1. PICK f \in Task \cup {Start} : Registering(f, s)
    BY <1>7 DEF ServedIsRegistered
  <2>0. f \in Flow
    BY FlowNames
  <2>2. CASE pc[f] = "register" /\ wire[s] = <<>>
             /\ \E ok \in BOOLEAN : answers[s] = <<<<f, "register", ok>>>> /\ (ok => regOn = s)
    <3>1. PICK ok \in BOOLEAN : answers[s] = <<<<f, "register", ok>>>> /\ (ok => regOn = s)
      BY <2>2
    <3>2. a[1] = f /\ a[2] = "register" /\ a[3] = ok /\ Tail(answers[s]) = <<>>
      BY <3>1
    <3>3. /\ ok /\ wire' = [wire EXCEPT ![s] = Append(@, <<f, "watch">>)] /\ pc' = [pc EXCEPT ![f] = "watch"]
      <4>1. pc[a[1]] = a[2]
        BY <2>2, <3>2
      <4>2. Settle(f, ok)
        BY <3>2, <4>1 DEF handleMessage
      <4>3. ~failed'
        BY DEF Calm, Fine
      <4> QED
        BY <1>2, <2>2, <4>2, <4>3 DEF Settle, sendMessage, Fail
    <3>4. Append(<<>>, <<f, "watch">>) = <<<<f, "watch">>>>
      OBVIOUS
    <3>5. wire'[s] = <<<<f, "watch">>>> /\ pc'[f] = "watch"
      BY <2>0, <2>2, <3>3, <3>4 DEF Types, WireTypes, Requests, FlowTypes
    <3> QED
      BY <1>1, <1>5, <3>1, <3>2, <3>3, <3>5 DEF Registering
  <2>3. CASE pc[f] = "watch" /\ wire[s] = <<>> /\ answers[s] = <<<<f, "watch", TRUE>>>>
             /\ regOn = s /\ s \in watching
    <3>1. a[1] = f /\ a[2] = "watch" /\ Tail(answers[s]) = <<>>
      BY <2>3
    <3>2. wire' = wire /\ pc' = [pc EXCEPT ![f] = "done"]
      <4>1. pc[a[1]] = a[2]
        BY <2>3, <3>1
      <4>2. Settle(f, a[3])
        BY <3>1, <4>1 DEF handleMessage
      <4>3. ~failed'
        BY DEF Calm, Fine
      <4> QED
        BY <2>3, <4>2, <4>3 DEF Settle, Fail
    <3>3. wire'[s] = <<>> /\ pc'[f] = "done"
      BY <2>0, <2>3, <3>2 DEF Types, FlowTypes
    <3> QED
      BY <1>1, <1>5, <2>3, <3>1, <3>3 DEF Registering
  <2> QED
    BY <1>1, <2>1, <2>2, <2>3 DEF Registering
<1> QED
  BY <1>1, <1>5, <1>6, <1>7 DEF ServedIsRegistered

LEMMA SocketClosedServed ==
    ASSUME Types, OneAtATime, ServedIsRegistered, Calm, NEW s \in Socket, SocketClosed(s), Calm'
    PROVE  ServedIsRegistered'
<1>1. /\ sock[s] \in {"open", "destroyed"} /\ sock' = [sock EXCEPT ![s] = "gone"] /\ serving' = serving
      /\ wire' = wire /\ answers' = [answers EXCEPT ![s] = <<>>]
      /\ sock[s] = "open" /\ s \in serving => halfOpen'
  BY DEF SocketClosed, daemonVars
<1>2. sock[s] = "open" /\ s \notin serving
  BY <1>1 DEF Calm, OneAtATime
<1>3. serving' = {}
  BY <1>1, <1>2, ServedIsCurrent DEF OneAtATime
<1>4. \A q \in Socket : sock'[q] \in {"new", "connecting"} => wire'[q] = <<>> /\ answers'[q] = <<>>
  BY <1>1 DEF ServedIsRegistered, Types, SocketTypes, WireTypes
<1> QED
  BY <1>3, <1>4, StillServed

LEMMA DaemonKilledServed == ASSUME Types, ServedIsRegistered, DaemonKilled PROVE ServedIsRegistered'
<1>1. \A s \in Socket : wire'[s] \in {<<>>, wire[s]} /\ answers'[s] = answers[s] /\ sock'[s] = sock[s]
  BY DEF DaemonKilled, socketVars
<1>2. serving' = {}
  BY DEF DaemonKilled
<1> QED
  BY <1>1, <1>2, StillServed DEF ServedIsRegistered

LEMMA ServedInit == Init => ServedIsRegistered
BY DEF Init, ServedIsRegistered

LEMMA ServedStep ==
    Types /\ OneAtATime /\ ServedIsRegistered /\ Calm /\ [Next]_vars /\ Calm' => ServedIsRegistered'
<1> SUFFICES ASSUME Types, OneAtATime, ServedIsRegistered, Calm, [Next]_vars, Calm' PROVE ServedIsRegistered'
  OBVIOUS
<1>0. ~failed' /\ ~exited' /\ pc[Stop] = "idle" /\ pc'[Stop] = "idle"
  BY DEF Calm, Fine, maintain
<1>1. CASE UNCHANGED vars \/ DaemonStarts
  <2>1. UNCHANGED <<serving, sock, wire, answers, pc, regOn, watching>>
    BY <1>1 DEF vars, DaemonStarts, daemonVars, socketVars, flowVars
  <2>2. ASSUME NEW f, NEW s, Registering(f, s) PROVE Registering(f, s)'
    BY <2>1, <2>2, Zenon DEF Registering
  <2> QED
    BY <2>1, <2>2, Zenon DEF ServedIsRegistered
<1>2. ASSUME NEW s \in Socket, DaemonClose(s) PROVE FALSE
  BY <1>2 DEF DaemonClose, ServedIsRegistered
<1>3. ASSUME NEW f \in Flow, Timeout(f) PROVE FALSE
  <2>1. pc[f] # "unregister"
    BY <1>0, FlowNames DEF Types, FlowTypes, FlowPlaces
  <2> QED
    BY <1>0, <1>3, <2>1 DEF Timeout, Settle, Fail
<1>4. ASSUME NEW f \in Flow, Backoff(f) PROVE FALSE
  BY <1>4 DEF Backoff, OneAtATime
<1>5. ASSUME shutdown \/ Crash PROVE FALSE
  BY <1>0, <1>5, FlowNames DEF shutdown, disconnect, Crash, Types, FlowTypes
<1>6. CASE Daemon
  BY <1>1, <1>2, <1>6, DaemonHandleServed, DaemonKilledServed DEF Daemon
<1>7. CASE Client
  BY <1>0, <1>3, <1>4, <1>5, <1>7, ConnectServed, ConnectedServed, RefusedServed, HandleMessageServed,
     SocketClosedServed DEF Client
<1> QED
  BY <1>1, <1>6, <1>7 DEF Next

----------------------------------------------------------------------------
\* The inductive invariant: it holds at the beginning, and every step keeps it.
Session == Types /\ (Fine => OneAtATime) /\ (Calm => ServedIsRegistered)

LEMMA SessionInit == Init => Session
BY TypesInit, ApartInit, ServedInit DEF Session

LEMMA SessionStep == Session /\ [Next]_vars => Session'
<1> SUFFICES ASSUME Session, [Next]_vars PROVE Session'
  OBVIOUS
<1>1. Types'
  BY TypesStep DEF Session
<1>2. ASSUME Fine' PROVE OneAtATime'
  <2>1. Fine
    BY <1>2, FineBefore
  <2> QED
    BY <1>2, <2>1, ApartStep DEF Session
<1>3. ASSUME Calm' PROVE ServedIsRegistered'
  <2>1. Calm /\ Fine
    BY <1>3, CalmBefore DEF Session, Calm
  <2> QED
    BY <1>3, <2>1, ServedStep DEF Session
<1> QED
  BY <1>1, <1>2, <1>3 DEF Session

\* As long as no reconnection failed, the node has no second connection to the
\* daemon and no second flow that opens one, whatever connections are lost and
\* whenever shutdown is called, although every loss starts a flow of its own.
THEOREM OneConnectionCorrect == Spec => []OneConnection
<1>1. Session => OneConnection
  BY DEF Session, Fine, OneAtATime, OneConnection, Connecting
<1> QED
  BY <1>1, SessionInit, SessionStep, PTL DEF Spec

\* When nothing is under way on a connection that the daemon has, the daemon has
\* the node registered on it and watching: a REGISTER that was answered before a
\* daemon was killed is never taken for one to the daemon that follows.
THEOREM RegisteredCorrect == Spec => []SettledIsRegistered
<1>1. Session => SettledIsRegistered
  <2> SUFFICES ASSUME Session, started, ~failed, ~halfOpen, ~exited, current \in serving,
                      \A f \in Task : ~Busy(f)
               PROVE  regOn = current /\ current \in watching
    BY DEF SettledIsRegistered
  <2>1. ServedIsRegistered
    BY DEF Session, Calm, Fine, started
  <2>2. PICK f \in Task \cup {Start} : Registering(f, current)
    BY <2>1 DEF ServedIsRegistered
  <2>3. pc[f] \notin {"register", "watch"}
    BY DEF Busy, Request, started
  <2> QED
    BY <2>2, <2>3 DEF Registering
<1> QED
  BY <1>1, SessionInit, SessionStep, PTL DEF Spec
=============================================================================

--------------------------- MODULE RingSyncProofs ---------------------------
(***************************************************************************)
(* Nodes that joined come to know each other, for every set of nodes, any  *)
(* number of leaves, of crashes and of nodes taken for dead.               *)
(*                                                                         *)
(* The invariant KnowInv follows the way of every entry to every other     *)
(* node, which has it, or has it in a message on its way, or has asked for *)
(* it, or will come to it in the list of peers it works through.  It rests *)
(* on SyncInv, about an entry wherever it may be.  In a document or in a   *)
(* message, inserted, it was made by a process that has joined; deleted,   *)
(* that process is on its way out, or was taken for dead.                  *)
(***************************************************************************)
EXTENDS RingSync, TLAPS

LifeType ==
    /\ phase \in [Node -> {"off", "registered", "listening", "listed", "joined", "leaving", "dying"}]
    /\ starts \in [Node -> 0..MaxStarts]
    /\ \A n \in Node : phase[n] # "off" => starts[n] # 0

\* The processes that have made their entry, and those on their way out, gone, or
\* taken for dead.
Made == {p \in Process :
    /\ p[2] <= starts[p[1]]
    /\ p = Current(p[1]) => phase[p[1]] \notin {"registered", "listening", "listed"}}
Gone == {p \in Process :
    /\ p[2] <= starts[p[1]]
    /\ p = Current(p[1]) => phase[p[1]] \in {"off", "leaving", "dying"} \/ p \in mistaken}

\* The documents and the messages insert entries of M and delete entries of G.
MessageOf(M, G) == [kind : {"update", "step1", "step2"}, sv : SUBSET Process,
                    ins : SUBSET M, del : SUBSET G, caught : BOOLEAN]
Within(M, G, i, d, w) ==
    /\ i \in [Node -> SUBSET M] /\ d \in [Node -> SUBSET G]
    /\ w \in [Node -> [Node -> Seq(MessageOf(M, G))]]

SyncInv == LifeType /\ Within(Made, Gone, ins, del, net)

\* The start of a process is that of its node, or an earlier one.
LEMMA ProcessParts == \A p \in Process : p[1] \in Node /\ p[2] \in Nat /\ p = <<p[1], p[2]>>
BY StartsAssumption DEF Process

----------------------------------------------------------------------------
(* What the life of the processes does to Made and Gone.                   *)

LifeOK == LifeType' /\ Made \subseteq Made' /\ Gone \subseteq Gone'

LEMMA LifeSame ==
    ASSUME LifeType, UNCHANGED <<phase, starts>>, mistaken \subseteq mistaken' PROVE LifeOK
BY DEF LifeOK, LifeType, Made, Gone, Current

\* Some processes begin to die.
LEMMA LifeDying ==
    ASSUME LifeType, starts' = starts, mistaken \subseteq mistaken',
           NEW D \in SUBSET {n \in Node : phase[n] # "off"},
           phase' = [n \in Node |-> IF n \in D THEN "dying" ELSE phase[n]]
    PROVE  LifeOK
BY ProcessParts DEF LifeOK, Made, Gone, Current, LifeType

\* A process joins, or comes closer to it.
LEMMA LifeJoin ==
    ASSUME LifeType, starts' = starts, mistaken \subseteq mistaken',
           NEW n \in Node, NEW next \in {"listening", "listed", "joined"},
           phase[n] \in {"registered", "listening", "listed"},
           phase' = [phase EXCEPT ![n] = next]
    PROVE  LifeOK
<1>0. LifeType'
  BY DEF LifeType
<1> SUFFICES ASSUME NEW p \in Process PROVE (p \in Made => p \in Made') /\ (p \in Gone => p \in Gone')
  BY <1>0 DEF LifeOK, Made, Gone
<1>1. p[1] \in Node
  BY ProcessParts
<1>2. CASE p[1] = n
  BY <1>1, <1>2 DEF Made, Gone, Current, LifeType
<1>3. CASE p[1] # n
  BY <1>1, <1>3 DEF Made, Gone, Current, LifeType
<1> QED
  BY <1>2, <1>3

\* A process leaves.
LEMMA LifeLeave ==
    ASSUME LifeType, starts' = starts, mistaken \subseteq mistaken', NEW n \in Node, phase[n] # "off",
           phase' = [phase EXCEPT ![n] = "leaving"]
    PROVE  LifeOK
<1>0. LifeType'
  BY DEF LifeType
<1> SUFFICES ASSUME NEW p \in Process PROVE (p \in Made => p \in Made') /\ (p \in Gone => p \in Gone')
  BY <1>0 DEF LifeOK, Made, Gone
<1>1. p[1] \in Node
  BY ProcessParts
<1> QED
  BY <1>1 DEF Made, Gone, Current, LifeType

\* A node starts: what it was before is not current any more.
LEMMA LifeRegister ==
    ASSUME LifeType, NEW n \in Node, Register(n) PROVE LifeOK
<1>0. LifeType'
  BY StartsAssumption DEF LifeType, Register
<1> SUFFICES ASSUME NEW p \in Process PROVE (p \in Made => p \in Made') /\ (p \in Gone => p \in Gone')
  BY <1>0 DEF LifeOK, Made, Gone
<1>1. p[1] \in Node /\ p[2] \in Nat /\ starts[p[1]] \in Nat
  BY ProcessParts DEF LifeType
<1>2. /\ phase' = [phase EXCEPT ![n] = "registered"] /\ starts' = [starts EXCEPT ![n] = @ + 1]
      /\ mistaken' = mistaken
  BY DEF Register
<1>3. CASE p[1] = n
  <2>1. starts'[p[1]] = starts[p[1]] + 1
    BY <1>2, <1>3 DEF LifeType
  <2>2. p[2] <= starts[p[1]] => p[2] <= starts'[p[1]] /\ p[2] # starts'[p[1]]
    BY <2>1, <1>1
  <2> QED
    BY <1>2, <2>2 DEF Made, Gone, Current
<1>4. CASE p[1] # n
  <2>1. starts'[p[1]] = starts[p[1]] /\ phase'[p[1]] = phase[p[1]]
    BY <1>1, <1>2, <1>4 DEF LifeType
  <2> QED
    BY <1>2, <2>1 DEF Made, Gone, Current
<1> QED
  BY <1>3, <1>4

\* A process ends, and others begin to die.
LEMMA LifeEnd ==
    ASSUME LifeType, NEW n \in Node, NEW lossy, End(n, lossy) PROVE LifeOK
<1>1. starts' = starts /\ mistaken' = mistaken
  BY DEF End
<1>2. PICK D \in SUBSET {m \in Node : phase[m] # "off"} :
        phase' = [m \in Node |-> IF m = n THEN "off" ELSE IF m \in D THEN "dying" ELSE phase[m]]
  BY DEF End
<1>0. LifeType'
  BY <1>1, <1>2 DEF LifeType
<1> SUFFICES ASSUME NEW p \in Process PROVE (p \in Made => p \in Made') /\ (p \in Gone => p \in Gone')
  BY <1>0 DEF LifeOK, Made, Gone
<1>3. p[1] \in Node
  BY ProcessParts
<1>4. phase'[p[1]] \in {"off", "dying", phase[p[1]]}
  BY <1>2, <1>3
<1> QED
  BY <1>1, <1>4 DEF Made, Gone, Current

----------------------------------------------------------------------------
(* What is inserted and deleted stays within sets that grow.               *)

LEMMA MessageGrows ==
    ASSUME NEW M, NEW G, NEW N, NEW H, M \subseteq N, G \subseteq H
    PROVE  MessageOf(M, G) \subseteq MessageOf(N, H)
<1>1. SUBSET M \subseteq SUBSET N /\ SUBSET G \subseteq SUBSET H
  OBVIOUS
<1> QED
  BY <1>1 DEF MessageOf

LEMMA SeqGrows == ASSUME NEW S, NEW T, S \subseteq T PROVE Seq(S) \subseteq Seq(T)
OBVIOUS

LEMMA ShortSeqs == \A S : <<>> \in Seq(S) /\ \A x \in S : <<x>> \in Seq(S)
OBVIOUS

LEMMA LongerSeqs == \A S : \A f, g \in Seq(S) : f \o g \in Seq(S)
OBVIOUS

LEMMA WithinGrows ==
    ASSUME NEW M, NEW G, NEW N, NEW H, M \subseteq N, G \subseteq H,
           NEW i, NEW d, NEW w, Within(M, G, i, d, w)
    PROVE  Within(N, H, i, d, w)
<1>1. Seq(MessageOf(M, G)) \subseteq Seq(MessageOf(N, H))
  BY MessageGrows, SeqGrows
<1>2. i \in [Node -> SUBSET N] /\ d \in [Node -> SUBSET H]
  BY DEF Within
<1>3. w \in [Node -> [Node -> Seq(MessageOf(N, H))]]
  BY <1>1 DEF Within
<1> QED
  BY <1>2, <1>3 DEF Within

\* What a node holds may be sent.
LEMMA MessagesOfNode ==
    ASSUME NEW M, NEW G, Within(M, G, ins, del, net), NEW n \in Node, NEW caught \in BOOLEAN,
           M \subseteq Process
    PROVE  /\ Integrated(ins[n]) \in SUBSET M
           /\ FullState(n, caught) \in Seq(MessageOf(M, G))
           /\ SyncStep1(n, caught) \in MessageOf(M, G)
           /\ \A sv \in SUBSET Process : SyncStep2(n, sv) \in MessageOf(M, G)
<1>1. ins[n] \in SUBSET M /\ del[n] \in SUBSET G
  BY DEF Within
<1>2. Integrated(ins[n]) \in SUBSET M /\ Integrated(ins[n]) \in SUBSET Process
  BY <1>1 DEF Integrated
<1>3. Update(ins[n], del[n], caught) \in MessageOf(M, G)
  BY <1>1 DEF Update, Message, MessageOf
<1>4. FullState(n, caught) \in Seq(MessageOf(M, G))
  BY <1>3 DEF FullState
<1>5. SyncStep1(n, caught) \in MessageOf(M, G)
  BY <1>2 DEF SyncStep1, Message, MessageOf
<1>6. \A sv \in SUBSET Process : SyncStep2(n, sv) \in MessageOf(M, G)
  BY <1>1, <1>2 DEF SyncStep2, Message, MessageOf
<1> QED
  BY <1>2, <1>4, <1>5, <1>6

LEMMA SentWithin ==
    ASSUME NEW M, NEW G, Within(M, G, ins, del, net), NEW n \in Node, NEW peers,
           NEW f \in Seq(MessageOf(M, G))
    PROVE  Sent(n, peers, f) \in [Node -> [Node -> Seq(MessageOf(M, G))]]
<1>1. \A m \in Node : net[n][m] \o f \in Seq(MessageOf(M, G)) /\ net[n][m] \in Seq(MessageOf(M, G))
  BY DEF Within
<1> DEFINE row == [m \in Node |-> IF {p \in peers : p[1] = m /\ Alive(p)} = {} THEN net[n][m] ELSE net[n][m] \o f]
<1>2. row \in [Node -> Seq(MessageOf(M, G))]
  BY <1>1
<1>3. Sent(n, peers, f) = [net EXCEPT ![n] = row]
  BY DEF Sent, Within
<1> QED
  BY <1>2, <1>3 DEF Within

LEMMA TakenWithin ==
    ASSUME NEW M, NEW G, Within(M, G, ins, del, net), NEW n \in Node, NEW m \in Node,
           net[m][n] # <<>>
    PROVE  /\ Head(net[m][n]) \in MessageOf(M, G)
           /\ Taken(n, m) \in [Node -> [Node -> Seq(MessageOf(M, G))]]
<1>1. net[m][n] \in Seq(MessageOf(M, G)) /\ net[m] \in [Node -> Seq(MessageOf(M, G))]
  BY DEF Within
<1>2. Head(net[m][n]) \in MessageOf(M, G) /\ Tail(net[m][n]) \in Seq(MessageOf(M, G))
  BY <1>1
<1> QED
  BY <1>1, <1>2 DEF Within, Taken

----------------------------------------------------------------------------
(* Every action keeps the invariant.                                       *)

\* A node that sends without catching begins to die, or does not.
LEMMA LifeUncaught ==
    ASSUME LifeType, starts' = starts, mistaken \subseteq mistaken',
           NEW n \in Node, NEW q, phase[n] # "off", Uncaught(n, q)
    PROVE  LifeOK
<1>1. CASE phase' = phase
  BY <1>1, LifeSame
<1>2. CASE phase' = [phase EXCEPT ![n] = "dying"]
  <2> DEFINE D == {n}
  <2>1. phase' = [m \in Node |-> IF m \in D THEN "dying" ELSE phase[m]]
    BY <1>2 DEF LifeType
  <2>2. D \in SUBSET {m \in Node : phase[m] # "off"}
    OBVIOUS
  <2> QED
    BY <2>1, <2>2, LifeDying
<1> QED
  BY <1>1, <1>2 DEF Uncaught

LEMMA LifeAnswer ==
    ASSUME LifeType, starts' = starts, mistaken \subseteq mistaken',
           NEW n \in Node, NEW m \in Node, NEW f, phase[n] # "off",
           Answer(n, m, f)
    PROVE  LifeOK
<1>1. CASE phase' = phase
  BY <1>1, LifeSame
<1>2. CASE \E q \in PeerOf(known[n], m) : Uncaught(n, q)
  BY <1>2, LifeUncaught
<1> QED
  BY <1>1, <1>2 DEF Answer

LEMMA AnswerWithin ==
    ASSUME NEW M, NEW G, Within(M, G, ins, del, net), NEW n \in Node, NEW m \in Node,
           net[m][n] # <<>>, NEW f \in Seq(MessageOf(M, G)), Answer(n, m, f)
    PROVE  net' \in [Node -> [Node -> Seq(MessageOf(M, G))]]
<1>1. Taken(n, m) \in [Node -> [Node -> Seq(MessageOf(M, G))]]
  BY TakenWithin
<1>2. CASE net' = Taken(n, m)
  BY <1>1, <1>2
<1>3. CASE \E g \in {f, <<>>} : net' = [Taken(n, m) EXCEPT ![n][m] = @ \o g]
  <2>1. PICK g \in {f, <<>>} : net' = [Taken(n, m) EXCEPT ![n][m] = @ \o g]
    BY <1>3
  <2>2. Taken(n, m)[n][m] \in Seq(MessageOf(M, G))
    BY <1>1
  <2>3. g \in Seq(MessageOf(M, G))
    BY ShortSeqs, ZenonT(20)
  <2>4. Taken(n, m)[n][m] \o g \in Seq(MessageOf(M, G))
    BY <2>2, <2>3
  <2> QED
    BY <1>1, <2>1, <2>4
<1> QED
  BY <1>2, <1>3 DEF Answer

\* Whatever an action does to the life of the processes, what was inserted and
\* deleted before it stays within what is made and gone after it.
LEMMA Before ==
    ASSUME SyncInv, LifeOK
    PROVE  Within(Made', Gone', ins, del, net) /\ Made' \subseteq Process
BY WithinGrows DEF SyncInv, LifeOK, Made

LEMMA After ==
    ASSUME LifeOK, Within(Made', Gone', ins', del', net') PROVE SyncInv'
BY DEF SyncInv, LifeOK

\* Actions that leave the documents and the network alone.
LEMMA StillStep ==
    ASSUME SyncInv, LifeOK, UNCHANGED <<docVars, net>> PROVE SyncInv'
BY Before, After DEF docVars

\* Actions that only send what they hold.
LEMMA SendStep ==
    ASSUME SyncInv, LifeOK, UNCHANGED docVars, NEW n \in Node, NEW peers,
           NEW f \in Seq(MessageOf(Made', Gone')), Send(n, peers, f)
    PROVE  SyncInv'
<1>1. net' \in [Node -> [Node -> Seq(MessageOf(Made', Gone'))]]
  BY Before, SentWithin DEF Send
<1> QED
  BY <1>1, Before, After DEF docVars, Within

LEMMA JoinStep == ASSUME SyncInv, NEW n \in Node, Join(n) PROVE SyncInv'
<1> DEFINE p == Current(n)
<1>1. LifeOK
  BY LifeJoin DEF Join, SyncInv, lifeVars
<1>2. CASE UNCHANGED <<docVars, net>>
  BY <1>1, <1>2, StillStep
<1>3. CASE EntriesOf(n, n) = {}
  <2>1. p \in Made'
    <3>1. starts[n] \in 1..MaxStarts /\ starts'[n] = starts[n] /\ phase'[n] = "joined"
      BY StartsAssumption DEF SyncInv, LifeType, Join, lifeVars
    <3>2. p \in Process
      BY <3>1 DEF Current, Process
    <3> QED
      BY <3>1, <3>2, StartsAssumption DEF Made, Current
  <2>2. Within(Made', Gone', ins, del, net)
    BY <1>1, Before
  <2>3. ins' \in [Node -> SUBSET Made'] /\ del' = del
    <3>1. ins' = [ins EXCEPT ![n] = @ \cup {p}] /\ del' = del
      BY <1>3 DEF Join
    <3> QED
      BY <2>1, <2>2, <3>1 DEF Within
  <2>4. <<Update({p}, {}, TRUE)>> \in Seq(MessageOf(Made', Gone'))
    <3> HIDE DEF p
    <3>1. {p} \in SUBSET Made' /\ {} \in SUBSET Gone'
      BY <2>1
    <3>2. Update({p}, {}, TRUE) \in MessageOf(Made', Gone')
      BY <3>1 DEF Update, Message, MessageOf
    <3> QED
      BY <3>2, ShortSeqs
  <2>5. net' \in [Node -> [Node -> Seq(MessageOf(Made', Gone'))]]
    <3>1. PICK peers : net' = Sent(n, peers, <<Update({p}, {}, TRUE)>>)
      BY <1>3 DEF Join, Broadcast, Send
    <3> QED
      BY <2>2, <2>4, <3>1, SentWithin
  <2> QED
    BY <1>1, <2>2, <2>3, <2>5, After DEF Within
<1> QED
  BY <1>2, <1>3 DEF Join

LEMMA SyncPushStep == ASSUME SyncInv, NEW n \in Node, SyncPush(n) PROVE SyncInv'
<1>1. LifeOK
  BY LifeSame DEF SyncInv, SyncPush, lifeVars
<1>2. FullState(n, TRUE) \in Seq(MessageOf(Made', Gone'))
  BY <1>1, Before, MessagesOfNode
<1>3. CASE UNCHANGED net
  BY <1>1, <1>3, StillStep DEF SyncPush
<1>4. CASE \E q \in known[n] : Send(n, {q}, FullState(n, TRUE))
  BY <1>1, <1>2, <1>4, SendStep DEF SyncPush
<1> QED
  BY <1>3, <1>4 DEF SyncPush

LEMMA SyncPullStep == ASSUME SyncInv, NEW n \in Node, SyncPull(n) PROVE SyncInv'
<1>1. LifeOK
  BY LifeSame DEF SyncInv, SyncPull, lifeVars
<1>2. SyncStep1(n, TRUE) \in MessageOf(Made', Gone')
  BY <1>1, Before, MessagesOfNode
<1>3. <<SyncStep1(n, TRUE)>> \in Seq(MessageOf(Made', Gone'))
  BY <1>2, ShortSeqs
<1> QED
  BY <1>1, <1>3, SendStep DEF SyncPull

LEMMA PeerJoinStep == ASSUME SyncInv, NEW n \in Node, PeerJoin(n) PROVE SyncInv'
<1>1. PICK q : Uncaught(n, q) /\
         \E order \in {FullState(n, FALSE) \o <<SyncStep1(n, FALSE)>>,
                       <<SyncStep1(n, FALSE)>> \o FullState(n, FALSE)} : Send(n, {q}, order)
  BY DEF PeerJoin
<1>2. LifeOK
  BY <1>1, LifeUncaught DEF SyncInv, PeerJoin, Event, lifeVars
<1>3. SyncStep1(n, FALSE) \in MessageOf(Made', Gone') /\ FullState(n, FALSE) \in Seq(MessageOf(Made', Gone'))
  BY <1>2, Before, MessagesOfNode
<1>4. <<SyncStep1(n, FALSE)>> \in Seq(MessageOf(Made', Gone'))
  BY <1>3, ShortSeqs
<1>5. /\ FullState(n, FALSE) \o <<SyncStep1(n, FALSE)>> \in Seq(MessageOf(Made', Gone'))
      /\ <<SyncStep1(n, FALSE)>> \o FullState(n, FALSE) \in Seq(MessageOf(Made', Gone'))
  BY <1>3, <1>4, LongerSeqs
<1> QED
  BY <1>1, <1>2, <1>5, SendStep DEF PeerJoin

\* What a node merges is what a message to it held.
LEMMA MergeStep ==
    ASSUME SyncInv, LifeOK, NEW n \in Node, NEW m \in Node, net[m][n] # <<>>, Merge(n, Head(net[m][n])),
           net' \in [Node -> [Node -> Seq(MessageOf(Made', Gone'))]]
    PROVE  SyncInv'
<1>1. Within(Made', Gone', ins, del, net)
  BY Before
<1>2. Head(net[m][n]) \in MessageOf(Made', Gone')
  BY <1>1, TakenWithin
<1>3. Head(net[m][n]).ins \in SUBSET Made' /\ Head(net[m][n]).del \in SUBSET Gone'
  BY <1>2 DEF MessageOf
<1>4. ins' \in [Node -> SUBSET Made'] /\ del' \in [Node -> SUBSET Gone']
  BY <1>1, <1>3 DEF Merge, Within
<1> QED
  BY <1>4, After DEF Within

LEMMA ReceiveUpdateStep == ASSUME SyncInv, NEW n \in Node, NEW m \in Node, ReceiveUpdate(n, m) PROVE SyncInv'
<1>1. LifeOK
  BY LifeSame DEF SyncInv, ReceiveUpdate, lifeVars
<1>2. net' \in [Node -> [Node -> Seq(MessageOf(Made', Gone'))]]
  BY <1>1, Before, TakenWithin DEF ReceiveUpdate, Take
<1> QED
  BY <1>1, <1>2, MergeStep DEF ReceiveUpdate, Take

LEMMA ReceiveStep1Step == ASSUME SyncInv, NEW n \in Node, NEW m \in Node, ReceiveStep1(n, m) PROVE SyncInv'
<1> DEFINE answer == <<SyncStep2(n, Head(net[m][n]).sv)>>
<1>1. net[m][n] # <<>> /\ phase[n] # "off" /\ Answer(n, m, answer) /\ UNCHANGED <<lifeVars, docVars>>
  BY DEF ReceiveStep1, Take, Handling, lifeVars
<1>2. LifeOK
  BY <1>1, LifeAnswer DEF SyncInv, lifeVars
<1>3. Within(Made', Gone', ins, del, net) /\ Made' \subseteq Process
  BY <1>2, Before
<1>4. Head(net[m][n]).sv \in SUBSET Process
  BY <1>1, <1>3, TakenWithin DEF MessageOf
<1>5. answer \in Seq(MessageOf(Made', Gone'))
  BY <1>3, <1>4, MessagesOfNode, ShortSeqs
<1>6. net' \in [Node -> [Node -> Seq(MessageOf(Made', Gone'))]]
  BY <1>1, <1>3, <1>5, AnswerWithin
<1> QED
  BY <1>1, <1>2, <1>3, <1>6, After DEF Within, docVars

LEMMA ReceiveStep2Step == ASSUME SyncInv, NEW n \in Node, NEW m \in Node, ReceiveStep2(n, m) PROVE SyncInv'
<1> DEFINE message == Head(net[m][n])
           i == (ins[n] \cup message.ins) \ message.sv
           d == del[n] \cup message.del
           answer == IF i = {} /\ d = {} THEN <<>> ELSE <<Update(i, d, FALSE)>>
<1>1. net[m][n] # <<>> /\ phase[n] # "off" /\ Merge(n, message) /\ Answer(n, m, answer) /\ UNCHANGED lifeVars
  BY DEF ReceiveStep2, Take, Handling, lifeVars
<1>2. LifeOK
  BY <1>1, LifeAnswer DEF SyncInv, lifeVars
<1>3. Within(Made', Gone', ins, del, net)
  BY <1>2, Before
<1>4. message \in MessageOf(Made', Gone')
  BY <1>1, <1>3, TakenWithin
<1>5. i \in SUBSET Made' /\ d \in SUBSET Gone'
  BY <1>3, <1>4 DEF Within, MessageOf
<1> HIDE DEF i, d
<1>6. Update(i, d, FALSE) \in MessageOf(Made', Gone')
  BY <1>5 DEF Update, Message, MessageOf
<1>7. answer \in Seq(MessageOf(Made', Gone'))
  BY <1>6, ShortSeqs
<1>8. net' \in [Node -> [Node -> Seq(MessageOf(Made', Gone'))]]
  BY <1>1, <1>3, <1>7, AnswerWithin
<1> QED
  BY <1>1, <1>2, <1>8, MergeStep

LEMMA IgnoreStep == ASSUME SyncInv, NEW n \in Node, NEW m \in Node, Ignore(n, m) PROVE SyncInv'
<1>1. LifeOK
  BY LifeSame DEF SyncInv, Ignore, lifeVars
<1>2. net' \in [Node -> [Node -> Seq(MessageOf(Made', Gone'))]]
  BY <1>1, Before, TakenWithin DEF Ignore
<1> QED
  BY <1>1, <1>2, Before, After DEF Ignore, Within, docVars

LEMMA Removed ==
    ASSUME NEW n \in Node, NEW m \in Node, NEW d \in removeNodeFromRing(n, m)
    PROVE  \A p \in d : p \in ins[n] /\ p[1] = m
<1>1. Members(n) \subseteq ins[n]
  BY DEF Members, Integrated
<1>2. d \subseteq EntriesOf(n, m)
  BY DEF removeNodeFromRing
<1> QED
  BY <1>1, <1>2 DEF EntriesOf

\* A node deletes entries of processes that are gone or taken for dead, and tells its peers or not.
LEMMA DeleteStep ==
    ASSUME SyncInv, LifeOK, NEW n \in Node, NEW d \in SUBSET Gone', NEW peers,
           ins' = ins, del' = [del EXCEPT ![n] = @ \cup d],
           net' = net \/ Broadcast(n, peers, {}, d)
    PROVE  SyncInv'
<1>1. Within(Made', Gone', ins, del, net)
  BY Before
<1>2. del' \in [Node -> SUBSET Gone']
  BY <1>1 DEF Within
<1>3. Update({}, d, TRUE) \in MessageOf(Made', Gone')
  BY DEF Update, Message, MessageOf
<1>4. <<Update({}, d, TRUE)>> \in Seq(MessageOf(Made', Gone'))
  BY <1>3, ShortSeqs
<1>5. CASE net' = net
  BY <1>1, <1>2, <1>5, After DEF Within
<1>6. CASE Broadcast(n, peers, {}, d)
  <2>1. net' \in [Node -> [Node -> Seq(MessageOf(Made', Gone'))]]
    BY <1>1, <1>4, <1>6, SentWithin DEF Broadcast, Send
  <2> QED
    BY <1>1, <1>2, <2>1, After DEF Within
<1> QED
  BY <1>5, <1>6

LEMMA LeaveStep == ASSUME SyncInv, NEW n \in Node, Leave(n) PROVE SyncInv'
<1>1. PICK d \in removeNodeFromRing(n, n) :
        /\ del' = [del EXCEPT ![n] = @ \cup d]
        /\ IF d = {} THEN UNCHANGED net ELSE Broadcast(n, known[n], {}, d)
  BY DEF Leave
<1>2. /\ phase' = [phase EXCEPT ![n] = "leaving"] /\ phase[n] = "joined"
      /\ UNCHANGED <<starts, mistaken, ins>>
  BY DEF Leave
<1>3. LifeOK
  BY <1>2, LifeLeave DEF SyncInv
<1>4. d \in SUBSET Gone'
  <2> SUFFICES ASSUME NEW p \in d PROVE p \in Gone'
    OBVIOUS
  <2>1. p \in Made /\ p[1] = n
    BY Removed DEF SyncInv, Within
  <2>2. phase'[n] = "leaving"
    BY <1>2 DEF SyncInv, LifeType
  <2> QED
    BY <1>2, <2>1, <2>2 DEF Made, Gone
<1> QED
  BY <1>1, <1>2, <1>3, <1>4, DeleteStep

LEMMA CleanupStep == ASSUME SyncInv, NEW n \in Node, NEW m \in Node, Cleanup(n, m) PROVE SyncInv'
<1>1. PICK d \in removeNodeFromRing(n, m) :
        /\ mistaken' = mistaken \cup {p \in d : InRing(p)}
        /\ del' = [del EXCEPT ![n] = @ \cup d] /\ Broadcast(n, known[n], {}, d)
  BY DEF Cleanup
<1>2. UNCHANGED <<phase, starts, ins>>
  BY DEF Cleanup
<1>3. LifeOK
  BY <1>1, <1>2, LifeSame DEF SyncInv
<1>4. d \in SUBSET Gone'
  <2> SUFFICES ASSUME NEW p \in d PROVE p \in Gone'
    OBVIOUS
  <2>1. p \in Made /\ p[1] \in Node
    BY Removed, ProcessParts DEF SyncInv, Within, Made
  <2>2. p = Current(p[1]) => phase[p[1]] \in {"joined", "off", "leaving", "dying"}
    BY <2>1 DEF Made, SyncInv, LifeType
  <2>3. p = Current(p[1]) /\ phase[p[1]] = "joined" => p \in mistaken'
    BY <1>1 DEF InRing, Alive
  <2> QED
    BY <1>2, <2>1, <2>2, <2>3 DEF Made, Gone, Current
<1> QED
  BY <1>1, <1>2, <1>3, <1>4, DeleteStep

LEMMA Prefixes == \A S : \A s \in Seq(S) : \A k \in 0..Len(s) : SubSeq(s, 1, k) \in Seq(S)
OBVIOUS

LEMMA EndStep == ASSUME SyncInv, NEW n \in Node, NEW lossy, End(n, lossy) PROVE SyncInv'
<1> DEFINE Messages == Seq(MessageOf(Made', Gone'))
<1>1. LifeOK
  BY LifeEnd DEF SyncInv
<1>2. Within(Made', Gone', ins, del, net)
  BY <1>1, Before
<1>3. PICK written \in [Node -> 0..Longest(n)] :
        /\ \A m \in Node : IF lossy THEN written[m] <= Len(net[n][m]) ELSE written[m] = Len(net[n][m])
        /\ net' = [x \in Node |-> [y \in Node |->
                     IF y = n THEN <<>>
                     ELSE IF x = n THEN SubSeq(net[n][y], 1, written[y]) ELSE net[x][y]]]
  BY DEF End
<1>4. \A x, y \in Node : net[x][y] \in Messages
  BY <1>2 DEF Within
<1>5. \A y \in Node : written[y] \in 0..Len(net[n][y])
  BY <1>3, <1>4
<1>6. \A y \in Node : SubSeq(net[n][y], 1, written[y]) \in Messages
  BY <1>4, <1>5, Prefixes
<1>7. <<>> \in Messages
  BY ShortSeqs
<1>8. net' \in [Node -> [Node -> Messages]]
  BY <1>3, <1>4, <1>6, <1>7
<1>9. ins' \in [Node -> SUBSET Made'] /\ del' \in [Node -> SUBSET Gone']
  BY <1>2 DEF End, Within
<1> QED
  BY <1>1, <1>8, <1>9, After DEF Within

\* The invariant holds at the beginning, and every step keeps it.
LEMMA SyncInvInit == Init => SyncInv
<1> SUFFICES ASSUME Init PROVE SyncInv
  OBVIOUS
<1>1. PICK cast \in Casts :
        LET F == cast.founders
        IN  /\ phase = [n \in Node |-> IF n \in F THEN "joined" ELSE "off"]
            /\ starts = [n \in Node |-> IF n \in F THEN 1 ELSE IF n \in cast.joiners THEN 0 ELSE MaxStarts]
            /\ ins = [n \in Node |-> IF n \in F THEN F \X {1} ELSE {}]
            /\ del = [n \in Node |-> {}]
            /\ net = [n \in Node |-> [m \in Node |-> <<>>]]
  BY DEF Init
<1> DEFINE F == cast.founders
<1>2. F \subseteq Node
  BY CastsAssumption
<1>3. LifeType
  BY <1>1, StartsAssumption DEF LifeType
<1>4. F \X {1} \in SUBSET Made
  <2> SUFFICES ASSUME NEW n \in F PROVE <<n, 1>> \in Made
    OBVIOUS
  <2>1. n \in Node /\ 1 \in 1..MaxStarts /\ starts[n] = 1 /\ phase[n] = "joined"
    BY <1>1, <1>2, StartsAssumption
  <2>2. <<n, 1>> \in Process
    BY <2>1 DEF Process
  <2> QED
    BY <2>1, <2>2 DEF Made, Current
<1>5. Within(Made, Gone, ins, del, net)
  BY <1>1, <1>4, ShortSeqs DEF Within
<1> QED
  BY <1>3, <1>5 DEF SyncInv

LEMMA SyncInvStep == SyncInv /\ [Next]_vars => SyncInv'
<1> SUFFICES ASSUME SyncInv, [Next]_vars PROVE SyncInv'
  OBVIOUS
<1>1. CASE UNCHANGED vars
  BY <1>1, StillStep, LifeSame DEF vars, lifeVars, docVars, SyncInv
<1>2. ASSUME NEW n \in Node, Register(n) PROVE SyncInv'
  BY <1>2, StillStep, LifeRegister DEF Register, SyncInv
<1>3. ASSUME NEW n \in Node, Wire(n) PROVE SyncInv'
  BY <1>3, StillStep, LifeJoin DEF Wire, SyncInv, lifeVars
<1>4. ASSUME NEW n \in Node, Listed(n) PROVE SyncInv'
  BY <1>4, StillStep, LifeJoin DEF Listed, SyncInv, lifeVars
<1>5. ASSUME NEW n \in Node, PeerLeave(n) PROVE SyncInv'
  BY <1>5, StillStep, LifeSame DEF PeerLeave, SyncInv, lifeVars
<1>6. ASSUME NEW n \in Node, Start(n) PROVE SyncInv'
  BY <1>6, <1>3, <1>4, JoinStep, SyncPushStep, SyncPullStep DEF Start
<1>7. ASSUME NEW n \in Node, Unregister(n) \/ Rejected(n) \/ Crash(n) PROVE SyncInv'
  BY <1>7, EndStep DEF Unregister, Rejected, Crash
<1>8. ASSUME NEW n \in Node, NEW m \in Node, Handle(n, m) \/ Cleanup(n, m) PROVE SyncInv'
  BY <1>8, ReceiveUpdateStep, ReceiveStep1Step, ReceiveStep2Step, IgnoreStep, CleanupStep DEF Handle
<1> QED
  BY <1>1, <1>2, <1>5, <1>6, <1>7, <1>8, PeerJoinStep, LeaveStep DEF Next

----------------------------------------------------------------------------
(* Types.  A node only sends to, asks and pulls from processes the daemon   *)
(* told it of, and the daemon only tells of processes that started.        *)

Events == Seq([kind : {"join", "leave", "list"}, peers : SUBSET Process])
Identifiers(peers) == {q[1] : q \in peers}

PeerInv ==
    /\ departures \in 0..MaxDepartures /\ left \subseteq Process /\ mistaken \subseteq Process
    /\ base \in [Process -> Process \cup {None}]
    /\ known \in [Node -> SUBSET Process] /\ listing \in [Node -> SUBSET Process]
    /\ todo \in [Node -> SUBSET Node] /\ \A n \in Node : todo[n] \subseteq Identifiers(known[n])
    /\ pulling \in [Node -> Process \cup {None}]
    /\ queue \in [Node -> Events]

LEMMA CurrentStarted == ASSUME LifeType, NEW n \in Node, phase[n] # "off" PROVE Current(n) \in Process
BY StartsAssumption DEF LifeType, Current, Process

LEMMA EventsGrow ==
    ASSUME NEW q \in Events, NEW kind \in {"join", "leave", "list"}, NEW p \in Process
    PROVE  Append(q, [kind |-> kind, peers |-> {p}]) \in Events
BY DEF Events

LEMMA HeadTail == \A S : \A q \in Seq(S) : q # <<>> => Head(q) \in S /\ Tail(q) \in Seq(S)
OBVIOUS

LEMMA NextEvent ==
    ASSUME PeerInv, NEW n \in Node, queue[n] # <<>>
    PROVE  /\ Head(queue[n]).peers \in SUBSET Process
           /\ [queue EXCEPT ![n] = Tail(@)] \in [Node -> Events]
<1>1. queue[n] \in Events
  BY DEF PeerInv
<1>2. /\ Head(queue[n]) \in [kind : {"join", "leave", "list"}, peers : SUBSET Process]
      /\ Tail(queue[n]) \in Events
  BY <1>1, HeadTail DEF Events
<1> QED
  BY <1>2 DEF PeerInv

\* The peers a node knows after it was told of new ones.
LEMMA MorePeers ==
    ASSUME NEW peers \in SUBSET Process, NEW new \in SUBSET Process
    PROVE  /\ AddPeers(peers, new) \in SUBSET Process
           /\ Identifiers(AddPeers(peers, new)) = Identifiers(peers) \cup Identifiers(new)
           /\ Identifiers(AddPeers(peers, new)) \in SUBSET Node
<1>1. AddPeers(peers, new) \in SUBSET Process
  BY DEF AddPeers
<1>2. Identifiers(AddPeers(peers, new)) = Identifiers(peers) \cup Identifiers(new)
  BY DEF AddPeers, Identifiers, PeerOf
<1>3. Identifiers(AddPeers(peers, new)) \in SUBSET Node
  BY <1>1, ProcessParts DEF Identifiers
<1> QED
  BY <1>1, <1>2, <1>3

LEMMA RegisterPeers == ASSUME LifeType, PeerInv, NEW n \in Node, Register(n) PROVE PeerInv'
<1>1. <<n, starts[n] + 1>> \in Process
  BY StartsAssumption DEF LifeType, Register, Process
<1>2. \A m \in Node : queue[m] \in Events
  BY DEF PeerInv
<1>3. \A m \in Node : Append(queue[m], [kind |-> "join", peers |-> {<<n, starts[n] + 1>>}]) \in Events
  BY <1>1, <1>2, EventsGrow
<1>4. queue' \in [Node -> Events]
  BY <1>2, <1>3 DEF Register, Notify
<1> QED
  BY <1>4 DEF Register, PeerInv, docVars, loopVars

LEMMA WirePeers == ASSUME LifeType, PeerInv, NEW n \in Node, Wire(n) PROVE PeerInv'
<1> DEFINE peers == {Current(m) : m \in {x \in Node \ {n} : phase[x] # "off"}}
<1>1. peers \in SUBSET Process
  BY CurrentStarted
<1> HIDE DEF peers
<1>2. <<[kind |-> "list", peers |-> peers]>> \in Events
  BY <1>1 DEF Events
<1>3. queue' = [queue EXCEPT ![n] = <<[kind |-> "list", peers |-> peers]>>]
  BY DEF Wire, peers
<1>4. queue' \in [Node -> Events]
  BY <1>2, <1>3 DEF PeerInv
<1> QED
  BY <1>4 DEF Wire, PeerInv, lifeVars, docVars, loopVars

LEMMA ListedPeers == ASSUME PeerInv, NEW n \in Node, Listed(n) PROVE PeerInv'
<1>1. Head(queue[n]).peers \in SUBSET Process /\ queue' \in [Node -> Events]
  BY NextEvent DEF Listed
<1>2. listing' \in [Node -> SUBSET Process]
  BY <1>1 DEF Listed, PeerInv
<1> QED
  BY <1>1, <1>2 DEF Listed, PeerInv, lifeVars, docVars

LEMMA JoinPeers == ASSUME SyncInv, PeerInv, NEW n \in Node, Join(n) PROVE PeerInv'
<1> DEFINE peers == AddPeers(known[n], listing[n])
<1>1. peers \in SUBSET Process /\ Identifiers(peers) \in SUBSET Node
  BY MorePeers DEF PeerInv
<1> HIDE DEF peers
<1>2. /\ known' = [known EXCEPT ![n] = peers] /\ listing' = [listing EXCEPT ![n] = {}]
      /\ todo' = [todo EXCEPT ![n] = Identifiers(peers)]
  BY DEF Join, peers, Identifiers
<1>3. /\ known' \in [Node -> SUBSET Process] /\ listing' \in [Node -> SUBSET Process]
      /\ todo' \in [Node -> SUBSET Node] /\ \A m \in Node : todo'[m] \subseteq Identifiers(known'[m])
  BY <1>1, <1>2 DEF PeerInv
<1>4. Integrated(ins[n]) \subseteq Process
  BY MessagesOfNode DEF SyncInv, Made
<1>5. base' = base \/ \E last \in Process \cup {None} : base' = [base EXCEPT ![Current(n)] = last]
  BY <1>4 DEF Join, docVars
<1>6. base' \in [Process -> Process \cup {None}]
  BY <1>5 DEF PeerInv
<1> QED
  BY <1>3, <1>6 DEF Join, PeerInv, lifeVars

LEMMA SyncPushPeers == ASSUME PeerInv, NEW n \in Node, SyncPush(n) PROVE PeerInv'
<1>1. PICK q \in known[n] :
        /\ todo' = [todo EXCEPT ![n] = @ \ {q[1]}]
        /\ pulling' = pulling \/ pulling' = [pulling EXCEPT ![n] = q]
  BY DEF SyncPush
<1>2. todo' \in [Node -> SUBSET Node] /\ \A m \in Node : todo'[m] \subseteq todo[m]
  BY <1>1 DEF PeerInv
<1>3. pulling' \in [Node -> Process \cup {None}]
  BY <1>1 DEF PeerInv
<1> QED
  BY <1>2, <1>3 DEF SyncPush, PeerInv, lifeVars, docVars

LEMMA PeerJoinPeers == ASSUME PeerInv, NEW n \in Node, PeerJoin(n) PROVE PeerInv'
<1>1. Head(queue[n]).peers \in SUBSET Process /\ queue' \in [Node -> Events]
  BY NextEvent DEF PeerJoin, Event
<1>2. PICK q \in Process :
        /\ known' = [known EXCEPT ![n] = AddPeers(@, {q})]
        /\ todo' = todo \/ todo' = [todo EXCEPT ![n] = @ \cup {q[1]}]
  BY <1>1 DEF PeerJoin
<1>3. /\ AddPeers(known[n], {q}) \in SUBSET Process
      /\ Identifiers(AddPeers(known[n], {q})) = Identifiers(known[n]) \cup {q[1]}
  <2>1. Identifiers({q}) = {q[1]}
    BY DEF Identifiers
  <2>2. known[n] \in SUBSET Process /\ {q} \in SUBSET Process
    BY DEF PeerInv
  <2> QED
    BY <2>1, <2>2, MorePeers
<1>4. known' \in [Node -> SUBSET Process] /\ \A m \in Node \ {n} : known'[m] = known[m]
  BY <1>2, <1>3 DEF PeerInv
<1>5. known'[n] = AddPeers(known[n], {q})
  BY <1>2 DEF PeerInv
<1>6. todo' \in [Node -> SUBSET Node] /\ \A m \in Node \ {n} : todo'[m] = todo[m]
  BY <1>2, ProcessParts DEF PeerInv
<1>7. todo'[n] \subseteq todo[n] \cup {q[1]}
  BY <1>2 DEF PeerInv
<1>8. \A m \in Node : todo'[m] \subseteq Identifiers(known'[m])
  BY <1>3, <1>4, <1>5, <1>6, <1>7 DEF PeerInv
<1> QED
  BY <1>1, <1>4, <1>6, <1>8 DEF PeerJoin, PeerInv, lifeVars, docVars

LEMMA PeerLeavePeers == ASSUME PeerInv, NEW n \in Node, PeerLeave(n) PROVE PeerInv'
<1>1. queue' \in [Node -> Events]
  BY NextEvent DEF PeerLeave, Event
<1>2. PICK q : /\ known' = [known EXCEPT ![n] = @ \ PeerOf(@, q[1])]
               /\ todo' = [todo EXCEPT ![n] = @ \ {q[1]}]
  BY DEF PeerLeave
<1>3. Identifiers(known[n]) \ {q[1]} \subseteq Identifiers(known[n] \ PeerOf(known[n], q[1]))
  BY DEF Identifiers, PeerOf
<1>4. known' \in [Node -> SUBSET Process] /\ todo' \in [Node -> SUBSET Node]
  BY <1>2 DEF PeerInv
<1>5. \A m \in Node : todo'[m] \subseteq Identifiers(known'[m])
  BY <1>2, <1>3 DEF PeerInv
<1> QED
  BY <1>1, <1>4, <1>5 DEF PeerLeave, PeerInv, lifeVars, docVars

LEMMA LeavePeers == ASSUME LifeType, PeerInv, NEW n \in Node, Leave(n) PROVE PeerInv'
<1>1. departures' \in 0..MaxDepartures /\ left' \subseteq Process
  BY CurrentStarted, StartsAssumption DEF Leave, PeerInv
<1> QED
  BY <1>1 DEF Leave, PeerInv, loopVars

LEMMA EndPeers ==
    ASSUME LifeType, PeerInv, NEW n \in Node, phase[n] # "off", NEW lossy, End(n, lossy),
           departures' \in 0..MaxDepartures, left' = left
    PROVE  PeerInv'
<1>1. Current(n) \in Process
  BY CurrentStarted
<1>2. <<>> \in Events /\ \A m \in Node : queue[m] \in Events
  BY ShortSeqs DEF PeerInv, Events
<1>3. \A m \in Node : Append(queue[m], [kind |-> "leave", peers |-> {Current(n)}]) \in Events
  BY <1>1, <1>2, EventsGrow
<1>4. queue' \in [Node -> Events]
  BY <1>2, <1>3 DEF End
<1>5. known' = [known EXCEPT ![n] = {}] /\ todo' = [todo EXCEPT ![n] = {}]
  BY DEF End
<1>6. \A m \in Node : todo'[m] \subseteq Identifiers(known'[m])
  BY <1>5 DEF PeerInv
<1> QED
  BY <1>4, <1>5, <1>6 DEF End, PeerInv

LEMMA CleanupPeers ==
    ASSUME SyncInv, PeerInv, NEW n \in Node, NEW m \in Node, Cleanup(n, m) PROVE PeerInv'
<1>1. PICK d \in removeNodeFromRing(n, m) :
        /\ {p \in d : InRing(p)} # {} => departures < MaxDepartures
        /\ departures' = IF {p \in d : InRing(p)} # {} THEN departures + 1 ELSE departures
        /\ mistaken' = mistaken \cup {p \in d : InRing(p)}
  BY DEF Cleanup
<1>2. d \subseteq Process
  BY Removed DEF SyncInv, Within, Made
<1>3. departures' \in 0..MaxDepartures
  BY <1>1, StartsAssumption DEF PeerInv
<1> QED
  BY <1>1, <1>2, <1>3 DEF Cleanup, PeerInv, loopVars

\* Steps that leave the daemon's messages, the peers and the chain of entries alone.
LEMMA OtherPeers ==
    ASSUME PeerInv, UNCHANGED <<lifeVars, base, known, queue, listing, todo>>,
           pulling' \in [Node -> Process \cup {None}]
    PROVE  PeerInv'
BY DEF PeerInv, lifeVars

LEMMA PeerInvInit == Init => PeerInv
<1> SUFFICES ASSUME Init PROVE PeerInv
  OBVIOUS
<1>1. PICK F \in SUBSET Node : known = [n \in Node |-> IF n \in F THEN (F \ {n}) \X {1} ELSE {}]
  BY CastsAssumption DEF Init
<1>2. /\ departures = 0 /\ left = {} /\ mistaken = {} /\ base = [p \in Process |-> None]
      /\ listing = [n \in Node |-> {}] /\ todo = [n \in Node |-> {}]
      /\ pulling = [n \in Node |-> None] /\ queue = [n \in Node |-> <<>>]
  BY DEF Init
<1>3. F \X {1} \in SUBSET Process
  BY StartsAssumption DEF Process
<1>4. known \in [Node -> SUBSET Process]
  BY <1>1, <1>3
<1>5. queue \in [Node -> Events]
  BY <1>2 DEF Events
<1> QED
  BY <1>2, <1>4, <1>5, StartsAssumption DEF PeerInv

LEMMA PeerInvStep == SyncInv /\ PeerInv /\ [Next]_vars => PeerInv'
<1> SUFFICES ASSUME SyncInv, PeerInv, [Next]_vars PROVE PeerInv'
  OBVIOUS
<1>0. LifeType /\ pulling \in [Node -> Process \cup {None}]
  BY DEF SyncInv, PeerInv
<1>1. CASE UNCHANGED vars
  BY <1>0, <1>1, OtherPeers DEF vars, docVars, loopVars
<1>2. ASSUME NEW n \in Node, SyncPull(n) PROVE PeerInv'
  BY <1>0, <1>2, OtherPeers DEF SyncPull, docVars
<1>3. ASSUME NEW n \in Node, Unregister(n) \/ Rejected(n) \/ Crash(n) PROVE PeerInv'
  <2>1. departures' \in 0..MaxDepartures /\ left' = left
    <3>1. CASE Crash(n)
      <4>1. departures \in 0..MaxDepartures /\ departures < MaxDepartures /\ departures' = departures + 1
        BY <3>1 DEF Crash, PeerInv
      <4> QED
        BY <3>1, <4>1, StartsAssumption DEF Crash
    <3>2. CASE Unregister(n) \/ Rejected(n)
      BY <3>2 DEF Unregister, Rejected, PeerInv
    <3> QED
      BY <1>3, <3>1, <3>2
  <2>2. phase[n] # "off" /\ \E lossy \in BOOLEAN : End(n, lossy)
    BY <1>3 DEF Unregister, Rejected, Crash
  <2> QED
    BY <1>0, <2>1, <2>2, EndPeers
<1>4. ASSUME NEW n \in Node, NEW m \in Node, Handle(n, m) PROVE PeerInv'
  <2>1. UNCHANGED <<lifeVars, base, known, queue, loopVars>>
    BY <1>4 DEF Handle, ReceiveUpdate, ReceiveStep1, ReceiveStep2, Ignore, Merge, docVars
  <2> QED
    BY <1>0, <2>1, OtherPeers DEF loopVars
<1>5. ASSUME NEW n \in Node, NEW m \in Node, Cleanup(n, m) PROVE PeerInv'
  BY <1>5, CleanupPeers
<1> QED
  BY <1>0, <1>1, <1>2, <1>3, <1>4, <1>5, RegisterPeers, WirePeers, ListedPeers, JoinPeers, SyncPushPeers,
     PeerJoinPeers, PeerLeavePeers, LeavePeers DEF Next, Start

\* The state is of its types: whoever a node has still to come to in
\* syncWithExistingPeers is among the peers it knows, whatever joins and leaves
\* the daemon announces while the loop runs.
THEOREM TypeCorrect == Spec => []TypeOK
<1>1. SyncInv /\ PeerInv => TypeOK
  <2> SUFFICES ASSUME SyncInv, PeerInv PROVE TypeOK
    OBVIOUS
  <2>1. ins \in [Node -> SUBSET Process] /\ del \in [Node -> SUBSET Process]
    BY DEF SyncInv, Within, Made, Gone
  <2> QED
    BY <2>1 DEF SyncInv, LifeType, PeerInv, TypeOK, Identifiers
<1> QED
  BY <1>1, SyncInvInit, SyncInvStep, PeerInvInit, PeerInvStep, PTL DEF Spec

----------------------------------------------------------------------------
(* Those in the ring come to know each other, when every node starts once.  *)
(*                                                                         *)
(* For every two nodes, where the entry of the one is on its way to the    *)
(* other: it is there, or will be pushed, or will be asked for of a node   *)
(* that can answer, or is in a message that will be handled.               *)

StartOnce == MaxStarts = 1
Entry(n) == <<n, 1>>
Items(s) == {s[k] : k \in DOMAIN s}

\* S shows p when it holds p and, along c, all that p was appended to.
Closed(T, c) == \A p \in T : c[p] \in T \cup {None}
Shows(S, c, p) == \E T \in SUBSET S : p \in T /\ Closed(T, c)

\* The daemon will tell n, or just told it, that m is there.
Mentions(n, m) == \E e \in Items(queue[n]) : e.kind \in {"join", "list"} /\ Entry(m) \in e.peers
HearsOf(n, m) ==
    \/ Entry(m) \in known[n] \/ Mentions(n, m)
    \/ phase[n] = "listed" /\ Entry(m) \in listing[n]

\* a will push its state to b, or b will ask a for it, or it is under way.
WillPush(a, b) == Mentions(a, b) \/ b \in todo[a]
Asks(b, a) == \E m \in Items(net[b][a]) : m.kind = "step1"
WillAsk(b, a) ==
    \/ phase[b] \in {"registered", "listening", "listed"}
    \/ Mentions(b, a) \/ a \in todo[b] \/ pulling[b] = Entry(a) \/ Asks(b, a)
UnderWay(a, b) ==
    \E m \in Items(net[a][b]) : m.kind # "step1" /\ Shows(ins[b] \cup m.ins, base, Entry(a))
Reaches(a, b) ==
    \/ Shows(ins[b], base, Entry(a))
    \/ WillPush(a, b)
    \/ Entry(b) \in known[a] /\ WillAsk(b, a)
    \/ phase[b] # "registered" /\ UnderWay(a, b)

EventsSound == \A n \in Node : \A e \in Items(queue[n]) :
    /\ e.kind = "join" => \E p \in Process : e.peers = {p}
    /\ e.kind = "leave" => \A p \in e.peers : phase[p[1]] = "off" /\ starts[p[1]] = 1
Discovery == \A n, m \in Node :
    n # m /\ phase[n] \in {"listening", "listed", "joined"} /\ phase[m] # "off" => HearsOf(n, m)
OwnEntry == \A n \in Node : phase[n] = "joined" => Shows(ins[n], base, Entry(n))
QuestionsSound == \A n, m \in Node : \A q \in Items(net[n][m]) :
    q.kind = "step1" => q.sv \subseteq ins[n] \/ (phase[n] = "off" /\ starts[n] = 1)
Pair(a, b) == a # b /\ phase[a] = "joined" /\ phase[b] \in {"registered", "listening", "listed", "joined"}
Exchange == \A a, b \in Node : Pair(a, b) => Reaches(a, b)

KnowInv == EventsSound /\ Discovery /\ OwnEntry /\ QuestionsSound /\ Exchange

\* What the types say.
Typed == StartOnce /\ SyncInv /\ PeerInv

LEMMA Entries ==
    ASSUME StartOnce
    PROVE  /\ \A p \in Process : p[1] \in Node /\ p = Entry(p[1])
           /\ \A n \in Node : Entry(n) \in Process /\ Entry(n)[1] = n
BY DEF StartOnce, Entry, Process

LEMMA CurrentEntry ==
    ASSUME StartOnce, LifeType, NEW n \in Node, phase[n] # "off"
    PROVE  starts[n] = 1 /\ Current(n) = Entry(n) /\ Alive(Entry(n))
<1>1. starts[n] \in 0..1 /\ starts[n] # 0
  BY DEF LifeType, StartOnce
<1>2. starts[n] = 1
  BY <1>1
<1> QED
  BY <1>2 DEF Current, Entry, Alive

LEMMA ItemsOf ==
    /\ Items(<<>>) = {} /\ \A x : Items(<<x>>) = {x}
    /\ \A S : \A s \in Seq(S) :
         /\ Items(s) \subseteq S
         /\ \A x \in S : Items(Append(s, x)) = Items(s) \cup {x}
         /\ \A t \in Seq(S) : Items(s \o t) = Items(s) \cup Items(t)
         /\ s # <<>> => Items(s) = {Head(s)} \cup Items(Tail(s))
<1>1. Items(<<>>) = {} /\ \A x : Items(<<x>>) = {x}
  BY DEF Items
<1> SUFFICES ASSUME NEW S, NEW s \in Seq(S)
             PROVE  /\ Items(s) \subseteq S
                    /\ \A x \in S : Items(Append(s, x)) = Items(s) \cup {x}
                    /\ \A t \in Seq(S) : Items(s \o t) = Items(s) \cup Items(t)
                    /\ s # <<>> => Items(s) = {Head(s)} \cup Items(Tail(s))
  BY <1>1
<1>2. Items(s) \subseteq S
  BY DEF Items
<1>3. ASSUME NEW x \in S PROVE Items(Append(s, x)) = Items(s) \cup {x}
  <2>1. DOMAIN Append(s, x) = 1..Len(s) + 1 /\ DOMAIN s = 1..Len(s) /\ Len(s) \in Nat
    OBVIOUS
  <2>2. Append(s, x)[Len(s) + 1] = x /\ \A k \in 1..Len(s) : Append(s, x)[k] = s[k]
    OBVIOUS
  <2>3. 1..Len(s) + 1 = (1..Len(s)) \cup {Len(s) + 1}
    BY <2>1
  <2> QED
    BY <2>1, <2>2, <2>3 DEF Items
<1>4. ASSUME NEW t \in Seq(S) PROVE Items(s \o t) = Items(s) \cup Items(t)
  <2>1. /\ DOMAIN (s \o t) = 1..Len(s) + Len(t) /\ DOMAIN s = 1..Len(s) /\ DOMAIN t = 1..Len(t)
        /\ Len(s) \in Nat /\ Len(t) \in Nat
    OBVIOUS
  <2>2. /\ \A k \in 1..Len(s) : (s \o t)[k] = s[k]
        /\ \A k \in 1..Len(t) : (s \o t)[Len(s) + k] = t[k]
    OBVIOUS
  <2>3. ASSUME NEW k \in 1..Len(s) + Len(t) PROVE (s \o t)[k] \in Items(s) \cup Items(t)
    <3>1. CASE k <= Len(s)
      BY <2>1, <2>2, <3>1 DEF Items
    <3>2. CASE k > Len(s)
      <4>1. k - Len(s) \in 1..Len(t) /\ k = Len(s) + (k - Len(s))
        BY <2>1, <3>2
      <4>2. (s \o t)[k] = t[k - Len(s)]
        BY <2>2, <4>1
      <4> QED
        BY <2>1, <4>1, <4>2 DEF Items
    <3> QED
      BY <2>1, <3>1, <3>2
  <2>4. Items(s) \subseteq Items(s \o t)
    BY <2>1, <2>2 DEF Items
  <2>5. ASSUME NEW k \in 1..Len(t) PROVE t[k] \in Items(s \o t)
    <3>1. Len(s) + k \in 1..Len(s) + Len(t)
      BY <2>1
    <3> QED
      BY <2>1, <2>2, <3>1 DEF Items
  <2> QED
    BY <2>1, <2>3, <2>4, <2>5 DEF Items
<1>5. ASSUME s # <<>> PROVE Items(s) = {Head(s)} \cup Items(Tail(s))
  <2>1. /\ DOMAIN s = 1..Len(s) /\ Len(s) \in Nat \ {0} /\ Head(s) = s[1]
        /\ DOMAIN Tail(s) = 1..Len(s) - 1 /\ \A k \in 1..Len(s) - 1 : Tail(s)[k] = s[k + 1]
    BY <1>5
  <2>2. ASSUME NEW k \in 1..Len(s) PROVE s[k] \in {Head(s)} \cup Items(Tail(s))
    <3>1. CASE k = 1
      BY <2>1, <3>1
    <3>2. CASE k # 1
      <4>1. k - 1 \in 1..Len(s) - 1 /\ (k - 1) + 1 = k
        BY <2>1, <3>2
      <4> QED
        BY <2>1, <4>1 DEF Items
    <3> QED
      BY <3>1, <3>2
  <2>3. ASSUME NEW k \in 1..Len(s) - 1 PROVE Tail(s)[k] \in Items(s)
    <3>1. k + 1 \in 1..Len(s)
      BY <2>1
    <3> QED
      BY <2>1, <3>1 DEF Items
  <2>4. Head(s) \in Items(s)
    BY <2>1 DEF Items
  <2> QED
    BY <2>1, <2>2, <2>3, <2>4 DEF Items
<1> QED
  BY <1>2, <1>3, <1>4, <1>5

----------------------------------------------------------------------------
(* What shows an entry.                                                    *)

LEMMA ShowsKept ==
    ASSUME NEW S, NEW R, S \subseteq R, NEW c, NEW d, \A q \in S : d[q] = c[q], NEW p, Shows(S, c, p)
    PROVE  Shows(R, d, p)
<1>1. PICK T \in SUBSET S : p \in T /\ Closed(T, c)
  BY DEF Shows
<1>2. Closed(T, d) /\ T \in SUBSET R
  BY <1>1 DEF Closed
<1> QED
  BY <1>1, <1>2 DEF Shows

LEMMA ShowsHolds == ASSUME NEW S, NEW c, NEW p, Shows(S, c, p) PROVE p \in S
BY DEF Shows

LEMMA IntegratedShows == \A S : \A p : p \in Integrated(S) <=> Shows(S, base, p)
BY DEF Integrated, Shows, Closed

LEMMA IntegratedClosed == \A S : Integrated(S) \subseteq S /\ Closed(Integrated(S), base)
BY DEF Integrated, Closed

\* An entry that a node makes keeps what others were appended to.
ChainKept == \A p \in Made : base'[p] = base[p]

LEMMA Held ==
    ASSUME SyncInv
    PROVE  /\ \A n \in Node : ins[n] \subseteq Made
           /\ \A n, m \in Node : \A q \in Items(net[n][m]) : q.ins \subseteq Made /\ q.sv \subseteq Process
<1>1. \A n \in Node : ins[n] \subseteq Made
  BY DEF SyncInv, Within
<1>2. ASSUME NEW n \in Node, NEW m \in Node, NEW q \in Items(net[n][m])
      PROVE  q.ins \subseteq Made /\ q.sv \subseteq Process
  <2>1. net[n][m] \in Seq(MessageOf(Made, Gone))
    BY DEF SyncInv, Within
  <2>2. q \in MessageOf(Made, Gone)
    BY <2>1, ItemsOf
  <2> QED
    BY <2>2 DEF MessageOf
<1> QED
  BY <1>1, <1>2

LEMMA QueuePeers ==
    ASSUME PeerInv, NEW n \in Node, NEW e \in Items(queue[n]) PROVE e.peers \subseteq Process
<1>1. queue[n] \in Events
  BY DEF PeerInv
<1>2. e \in [kind : {"join", "leave", "list"}, peers : SUBSET Process]
  BY <1>1, ItemsOf DEF Events
<1> QED
  BY <1>2

----------------------------------------------------------------------------
(* Messages are sent and taken.                                            *)

LEMMA SentItems ==
    ASSUME NEW M, NEW G, Within(M, G, ins, del, net), NEW n \in Node, NEW peers,
           NEW f \in Seq(MessageOf(M, G)), Send(n, peers, f)
    PROVE  /\ \A x, y \in Node : Items(net[x][y]) \subseteq Items(net'[x][y])
           /\ \A x, y \in Node : Items(net'[x][y]) \subseteq Items(net[x][y]) \cup (IF x = n THEN Items(f) ELSE {})
           /\ \A q \in peers : q[1] \in Node /\ Alive(q) => Items(f) \subseteq Items(net'[n][q[1]])
<1> DEFINE to(y) == {p \in peers : p[1] = y /\ Alive(p)}
<1>1. \A x, y \in Node : net'[x][y] = IF x = n /\ to(y) # {} THEN net[x][y] \o f ELSE net[x][y]
  BY DEF Send, Sent, Within
<1>2. \A x, y \in Node : net[x][y] \in Seq(MessageOf(M, G))
  BY DEF Within
<1>3. \A x, y \in Node : Items(net[x][y] \o f) = Items(net[x][y]) \cup Items(f)
  BY <1>2, ItemsOf
<1>4. \A q \in peers : q[1] \in Node /\ Alive(q) => to(q[1]) # {}
  OBVIOUS
<1> HIDE DEF to
<1> QED
  BY <1>1, <1>3, <1>4

LEMMA TakenItems ==
    ASSUME SyncInv, NEW n \in Node, NEW m \in Node, net[m][n] # <<>>
    PROVE  /\ \A x, y \in Node : x # m \/ y # n => Taken(n, m)[x][y] = net[x][y]
           /\ Items(net[m][n]) = {Head(net[m][n])} \cup Items(Taken(n, m)[m][n])
<1>1. net[m][n] \in Seq(MessageOf(Made, Gone)) /\ net \in [Node -> [Node -> Seq(MessageOf(Made, Gone))]]
  BY DEF SyncInv, Within
<1>2. Taken(n, m)[m][n] = Tail(net[m][n]) /\ \A x, y \in Node : x # m \/ y # n => Taken(n, m)[x][y] = net[x][y]
  BY <1>1 DEF Taken
<1>3. Items(net[m][n]) = {Head(net[m][n])} \cup Items(Tail(net[m][n]))
  BY <1>1, ItemsOf
<1> QED
  BY <1>2, <1>3

\* n takes a message from m and may answer with f.
LEMMA AnswerItems ==
    ASSUME SyncInv, LifeOK, NEW n \in Node, NEW m \in Node, net[m][n] # <<>>,
           NEW f \in Seq(MessageOf(Made', Gone')), Answer(n, m, f)
    PROVE  /\ \A x, y \in Node : x # m \/ y # n => Items(net[x][y]) \subseteq Items(net'[x][y])
           /\ Items(net[m][n]) \subseteq {Head(net[m][n])} \cup Items(net'[m][n])
           /\ \A x, y \in Node : Items(net'[x][y]) \subseteq Items(net[x][y]) \cup (IF x = n THEN Items(f) ELSE {})
           /\ f # <<>> /\ (\E q \in PeerOf(known[n], m) : TRUE) /\ (\A q \in PeerOf(known[n], m) : Alive(q))
                => Items(f) \subseteq Items(net'[n][m])
<1> DEFINE t == Taken(n, m)
<1>1. /\ \A x, y \in Node : x # m \/ y # n => t[x][y] = net[x][y]
      /\ Items(net[m][n]) = {Head(net[m][n])} \cup Items(t[m][n])
  BY TakenItems
<1>2. t \in [Node -> [Node -> Seq(MessageOf(Made', Gone'))]]
  BY Before, TakenWithin
<1> HIDE DEF t
<1>3. CASE net' = t /\ (PeerOf(known[n], m) = {} \/ f = <<>>)
  BY <1>1, <1>3
<1>4. CASE \E q \in PeerOf(known[n], m) : net' = [t EXCEPT ![n][m] = @ \o IF Alive(q) THEN f ELSE <<>>]
  <2>1. PICK q \in PeerOf(known[n], m) : net' = [t EXCEPT ![n][m] = @ \o IF Alive(q) THEN f ELSE <<>>]
    BY <1>4
  <2>2. PICK g \in Seq(MessageOf(Made', Gone')) :
          /\ net' = [t EXCEPT ![n][m] = @ \o g] /\ Items(g) \subseteq Items(f) /\ (Alive(q) => g = f)
    <3>1. CASE Alive(q)
      BY <2>1, <3>1
    <3>2. CASE ~Alive(q)
      BY <2>1, <3>2, ItemsOf, ShortSeqs
    <3> QED
      BY <3>1, <3>2
  <2>3. net'[n][m] = t[n][m] \o g /\ \A x, y \in Node : x # n \/ y # m => net'[x][y] = t[x][y]
    BY <1>2, <2>2
  <2>4. Items(net'[n][m]) = Items(t[n][m]) \cup Items(g)
    BY <1>2, <2>3, ItemsOf
  <2>5. \A x, y \in Node : Items(t[x][y]) \subseteq Items(net[x][y])
    BY <1>1
  <2>6. \A x, y \in Node : Items(t[x][y]) \subseteq Items(net'[x][y])
    BY <2>3, <2>4
  <2>7. \A x, y \in Node : Items(net'[x][y]) \subseteq Items(net[x][y]) \cup (IF x = n THEN Items(f) ELSE {})
    <3> SUFFICES ASSUME NEW x \in Node, NEW y \in Node
                 PROVE  Items(net'[x][y]) \subseteq Items(net[x][y]) \cup (IF x = n THEN Items(f) ELSE {})
      OBVIOUS
    <3>1. CASE x = n /\ y = m
      BY <2>2, <2>4, <2>5, <3>1
    <3>2. CASE x # n \/ y # m
      BY <2>3, <2>5, <3>2
    <3> QED
      BY <3>1, <3>2
  <2>8. (\A p \in PeerOf(known[n], m) : Alive(p)) => Items(f) \subseteq Items(net'[n][m])
    <3> SUFFICES ASSUME \A p \in PeerOf(known[n], m) : Alive(p)
                 PROVE  Items(f) \subseteq Items(net'[n][m])
      OBVIOUS
    <3>1. g = f
      BY <2>2
    <3> QED
      BY <2>4, <3>1
  <2>9. \A x, y \in Node : x # m \/ y # n => Items(net[x][y]) \subseteq Items(net'[x][y])
    BY <1>1, <2>6
  <2>10. Items(net[m][n]) \subseteq {Head(net[m][n])} \cup Items(net'[m][n])
    BY <1>1, <2>6
  <2> QED
    BY <2>7, <2>8, <2>9, <2>10
<1> QED
  BY <1>3, <1>4 DEF Answer, t

----------------------------------------------------------------------------
(* Steps by which nobody comes closer to joining.                          *)

\* Phases stay, or end.
Ends == \A x \in Node : phase'[x] = phase[x] \/ (phase[x] # "off" /\ phase'[x] \in {"leaving", "dying", "off"})
StayOff == \A x \in Node : phase[x] = "off" => phase'[x] = "off"
Grows == \A x \in Node : ins[x] \subseteq ins'[x]

LEMMA EndsUncaught == ASSUME LifeType, NEW n \in Node, phase[n] # "off", NEW q, Uncaught(n, q) PROVE Ends
BY DEF Uncaught, Ends, LifeType

LEMMA EndsAnswer ==
    ASSUME LifeType, NEW n \in Node, phase[n] # "off", NEW m, NEW f, Answer(n, m, f) PROVE Ends
<1>1. phase' = phase \/ \E q : Uncaught(n, q)
  BY DEF Answer
<1> QED
  BY <1>1, EndsUncaught DEF Ends

LEMMA EventsKept ==
    ASSUME Typed, EventsSound, StayOff, starts' = starts, \A n \in Node : Items(queue'[n]) \subseteq Items(queue[n])
    PROVE  EventsSound'
<1> SUFFICES ASSUME NEW n \in Node, NEW e \in Items(queue'[n])
             PROVE  /\ e.kind = "join" => \E p \in Process : e.peers = {p}
                    /\ e.kind = "leave" => \A p \in e.peers : phase'[p[1]] = "off" /\ starts'[p[1]] = 1
  BY DEF EventsSound
<1>0. e \in Items(queue[n])
  OBVIOUS
<1>1. /\ e.kind = "join" => \E p \in Process : e.peers = {p}
      /\ e.kind = "leave" => \A p \in e.peers : phase[p[1]] = "off" /\ starts[p[1]] = 1
  BY <1>0 DEF EventsSound
<1>2. \A p \in e.peers : p[1] \in Node
  BY <1>0, QueuePeers, Entries DEF Typed
<1> QED
  BY <1>1, <1>2 DEF StayOff

LEMMA OwnEntryKept ==
    ASSUME Typed, OwnEntry, Ends, Grows, base' = base PROVE OwnEntry'
<1> SUFFICES ASSUME NEW n \in Node, phase'[n] = "joined" PROVE Shows(ins'[n], base', Entry(n))
  BY DEF OwnEntry
<1>1. Shows(ins[n], base, Entry(n)) /\ ins[n] \subseteq ins'[n]
  BY DEF OwnEntry, Ends, Grows
<1> QED
  BY <1>1, ShowsKept

LEMMA DiscoveryKept ==
    ASSUME Discovery, Ends, UNCHANGED <<known, listing, queue>> PROVE Discovery'
<1> SUFFICES ASSUME NEW n \in Node, NEW m \in Node, n # m,
                    phase'[n] \in {"listening", "listed", "joined"}, phase'[m] # "off"
             PROVE  HearsOf(n, m)'
  BY DEF Discovery
<1>1. phase'[n] = phase[n] /\ phase[m] # "off"
  BY DEF Ends
<1>2. HearsOf(n, m)
  BY <1>1 DEF Discovery
<1> QED
  BY <1>1, <1>2 DEF HearsOf, Mentions

LEMMA QuestionsKept ==
    ASSUME QuestionsSound, StayOff, Grows, starts' = starts,
           \A x, y \in Node : \A q \in Items(net'[x][y]) :
               q \in Items(net[x][y]) \/ (q.kind = "step1" => q.sv \subseteq ins'[x])
    PROVE  QuestionsSound'
<1> SUFFICES ASSUME NEW x \in Node, NEW y \in Node, NEW q \in Items(net'[x][y]), q.kind = "step1"
             PROVE  q.sv \subseteq ins'[x] \/ (phase'[x] = "off" /\ starts'[x] = 1)
  BY DEF QuestionsSound
<1>1. CASE q \in Items(net[x][y])
  BY <1>1 DEF QuestionsSound, StayOff, Grows
<1>2. CASE q.sv \subseteq ins'[x]
  BY <1>2
<1> QED
  BY <1>1, <1>2

\* It is enough to follow the pairs that stay in the ring.
LEMMA ExchangeBy ==
    ASSUME Exchange, Ends,
           \A a, b \in Node : Pair(a, b) /\ phase'[a] = phase[a] /\ phase'[b] = phase[b] /\ Reaches(a, b)
               => Reaches(a, b)'
    PROVE  Exchange'
<1> SUFFICES ASSUME NEW a \in Node, NEW b \in Node, Pair(a, b)' PROVE Reaches(a, b)'
  BY DEF Exchange
<1>1. phase'[a] = phase[a] /\ phase'[b] = phase[b] /\ Pair(a, b)
  BY DEF Pair, Ends
<1> QED
  BY <1>1 DEF Exchange

----------------------------------------------------------------------------
(* What brings an entry to a node stays, disjunct by disjunct.             *)

LEMMA ShownStays ==
    ASSUME SyncInv, ChainKept, NEW a, NEW b \in Node, ins[b] \subseteq ins'[b], Shows(ins[b], base, Entry(a))
    PROVE  Reaches(a, b)'
<1>1. Shows(ins'[b], base', Entry(a))
  BY ShowsKept, Held DEF ChainKept
<1> QED
  BY <1>1 DEF Reaches

\* A message on the way that shows the entry, to somebody who listens.
LEMMA OnItsWay ==
    ASSUME SyncInv, ChainKept, NEW a \in Node, NEW b \in Node, NEW q \in Items(net'[a][b]), q.kind # "step1",
           NEW S, S \subseteq Made, Shows(S, base, Entry(a)), S \subseteq ins'[b] \cup q.ins, phase'[b] # "registered"
    PROVE  Reaches(a, b)'
<1>1. Shows(ins'[b] \cup q.ins, base', Entry(a))
  BY ShowsKept DEF ChainKept
<1> QED
  BY <1>1 DEF Reaches, UnderWay

LEMMA UnderWayStays ==
    ASSUME SyncInv, ChainKept, NEW a \in Node, NEW b \in Node, ins[b] \subseteq ins'[b],
           Items(net[a][b]) \subseteq Items(net'[a][b]), UnderWay(a, b), phase'[b] # "registered"
    PROVE  Reaches(a, b)'
<1>1. PICK q \in Items(net[a][b]) : q.kind # "step1" /\ Shows(ins[b] \cup q.ins, base, Entry(a))
  BY DEF UnderWay
<1>2. ins[b] \cup q.ins \subseteq Made /\ ins[b] \cup q.ins \subseteq ins'[b] \cup q.ins
  BY Held
<1>3. q \in Items(net'[a][b])
  OBVIOUS
<1> QED
  BY <1>1, <1>2, <1>3, OnItsWay

LEMMA MentionStays ==
    ASSUME NEW a \in Node, NEW b, Items(queue[a]) \subseteq Items(queue'[a]), Mentions(a, b) PROVE Mentions(a, b)'
BY DEF Mentions

LEMMA WillPushStays ==
    ASSUME NEW a \in Node, NEW b \in Node, Items(queue[a]) \subseteq Items(queue'[a]),
           b \in todo[a] => b \in todo'[a], WillPush(a, b)
    PROVE  Reaches(a, b)'
<1>1. CASE Mentions(a, b)
  BY <1>1, MentionStays DEF Reaches, WillPush
<1>2. CASE b \in todo[a]
  BY <1>2 DEF Reaches, WillPush
<1> QED
  BY <1>1, <1>2 DEF WillPush

LEMMA WillAskStays ==
    ASSUME NEW a \in Node, NEW b \in Node, Items(queue[b]) \subseteq Items(queue'[b]), phase'[b] = phase[b],
           a \in todo[b] => WillAsk(b, a)', pulling[b] = Entry(a) => WillAsk(b, a)',
           Items(net[b][a]) \subseteq Items(net'[b][a]), WillAsk(b, a), Entry(b) \in known'[a]
    PROVE  Reaches(a, b)'
<1> SUFFICES WillAsk(b, a)'
  BY DEF Reaches
<1>1. CASE phase[b] \in {"registered", "listening", "listed"}
  BY <1>1 DEF WillAsk
<1>2. CASE Mentions(b, a)
  BY <1>2, MentionStays DEF WillAsk
<1>3. CASE a \in todo[b] \/ pulling[b] = Entry(a)
  BY <1>3
<1>4. CASE Asks(b, a)
  <2>1. Asks(b, a)'
    BY <1>4 DEF Asks
  <2> QED
    BY <2>1 DEF WillAsk
<1> QED
  BY <1>1, <1>2, <1>3, <1>4 DEF WillAsk

\* A step that does nothing about the pair.
LEMMA ReachStays ==
    ASSUME SyncInv, ChainKept, NEW a \in Node, NEW b \in Node, Reaches(a, b),
           phase'[b] = phase[b], ins[b] \subseteq ins'[b],
           Items(queue[a]) \subseteq Items(queue'[a]), Items(queue[b]) \subseteq Items(queue'[b]),
           Items(net[a][b]) \subseteq Items(net'[a][b]), Items(net[b][a]) \subseteq Items(net'[b][a]),
           b \in todo[a] => b \in todo'[a], a \in todo[b] => a \in todo'[b],
           pulling[b] = Entry(a) => pulling'[b] = Entry(a),
           Entry(b) \in known[a] => Entry(b) \in known'[a]
    PROVE  Reaches(a, b)'
<1>1. /\ a \in todo[b] => WillAsk(b, a)'
      /\ pulling[b] = Entry(a) => WillAsk(b, a)'
  BY DEF WillAsk
<1>2. CASE Shows(ins[b], base, Entry(a))
  BY <1>2, ShownStays
<1>3. CASE WillPush(a, b)
  BY <1>3, WillPushStays
<1>4. CASE Entry(b) \in known[a] /\ WillAsk(b, a)
  BY <1>1, <1>4, WillAskStays
<1>5. CASE phase[b] # "registered" /\ UnderWay(a, b)
  BY <1>5, UnderWayStays
<1> QED
  BY <1>2, <1>3, <1>4, <1>5 DEF Reaches

----------------------------------------------------------------------------
(* The sync of a node that joined, and its messages.                       *)

LEMMA Same == ChainKept \/ base' # base
BY DEF ChainKept

\* A node that joined holds its entry, and pushes it.
LEMMA PushesIt ==
    ASSUME Typed, OwnEntry, NEW n \in Node, phase[n] = "joined", NEW caught
    PROVE  \E q \in Items(FullState(n, caught)) : q.kind # "step1" /\ q.ins = ins[n]
<1>1. Entry(n) \in ins[n]
  BY ShowsHolds DEF OwnEntry
<1>2. FullState(n, caught) = <<Update(ins[n], del[n], caught)>>
  BY <1>1 DEF FullState
<1>3. Items(FullState(n, caught)) = {Update(ins[n], del[n], caught)}
  BY <1>2, ItemsOf
<1> QED
  BY <1>3 DEF Update, Message

\* The full state of a node under way to another that listens, or else will ask.
LEMMA PushedReaches ==
    ASSUME Typed, OwnEntry, base' = base, ins' = ins, NEW a \in Node, NEW b \in Node, Pair(a, b),
           phase'[b] = phase[b], Entry(b) \in known'[a], NEW caught,
           Items(FullState(a, caught)) \subseteq Items(net'[a][b])
    PROVE  Reaches(a, b)'
<1>1. PICK q \in Items(FullState(a, caught)) : q.kind # "step1" /\ q.ins = ins[a]
  BY PushesIt DEF Pair
<1>2. Shows(ins[a], base, Entry(a)) /\ ins[a] \subseteq Made
  BY Held DEF OwnEntry, Pair, Typed
<1>3. CASE phase[b] = "registered"
  BY <1>3 DEF Reaches, WillAsk
<1>4. CASE phase[b] # "registered"
  <2>1. q \in Items(net'[a][b]) /\ ins[a] \subseteq ins'[b] \cup q.ins /\ ChainKept
    BY <1>1, Same
  <2> QED
    BY <1>1, <1>2, <1>4, <2>1, OnItsWay DEF Typed
<1> QED
  BY <1>3, <1>4

LEMMA FullStateKinds ==
    ASSUME NEW n, NEW caught PROVE \A q \in Items(FullState(n, caught)) : q.kind # "step1"
<1>1. FullState(n, caught) = <<>> \/ FullState(n, caught) = <<Update(ins[n], del[n], caught)>>
  BY DEF FullState
<1>2. Items(FullState(n, caught)) \subseteq {Update(ins[n], del[n], caught)}
  BY <1>1, ItemsOf
<1> QED
  BY <1>2 DEF Update, Message

LEMMA PairAlive ==
    ASSUME Typed, NEW a \in Node, NEW b \in Node, Pair(a, b)
    PROVE  Alive(Entry(a)) /\ Alive(Entry(b)) /\ a # b /\ Entry(a) # None /\ Entry(a)[1] = a /\ Entry(b)[1] = b
<1>1. phase[a] # "off" /\ phase[b] # "off" /\ a # b
  BY DEF Pair
<1>2. Alive(Entry(a)) /\ Alive(Entry(b))
  BY <1>1, CurrentEntry DEF Typed, SyncInv
<1> QED
  BY <1>1, <1>2, Entries, NoneAssumption DEF Typed

LEMMA Quiet == ASSUME phase' = phase PROVE Ends /\ StayOff
BY DEF Ends, StayOff

LEMMA EndsStayOff == Ends => StayOff
BY DEF Ends, StayOff

LEMMA SyncPushKnow == ASSUME Typed, KnowInv, NEW n \in Node, SyncPush(n) PROVE KnowInv'
<1>0. /\ phase[n] = "joined" /\ pulling[n] = None
      /\ UNCHANGED <<phase, starts, ins, base, known, listing, queue>>
      /\ Ends /\ StayOff /\ ChainKept /\ Grows
  BY Quiet, Same DEF SyncPush, lifeVars, docVars, Grows
<1>1. PICK q \in known[n] :
        /\ q[1] \in todo[n]
        /\ todo' = [todo EXCEPT ![n] = @ \ {q[1]}]
        /\ IF Alive(q)
           THEN Send(n, {q}, FullState(n, TRUE)) /\ pulling' = [pulling EXCEPT ![n] = q]
           ELSE UNCHANGED <<net, pulling>>
  BY DEF SyncPush
<1>2. q \in Process /\ q[1] \in Node /\ q = Entry(q[1])
  BY Entries DEF Typed, PeerInv
<1>3. /\ \A x, y \in Node : Items(net[x][y]) \subseteq Items(net'[x][y])
      /\ \A x, y \in Node : Items(net'[x][y]) \subseteq
                              Items(net[x][y]) \cup (IF x = n THEN Items(FullState(n, TRUE)) ELSE {})
      /\ Alive(q) => Items(FullState(n, TRUE)) \subseteq Items(net'[n][q[1]])
  <2>1. CASE Alive(q)
    <3>1. Within(Made, Gone, ins, del, net) /\ FullState(n, TRUE) \in Seq(MessageOf(Made, Gone))
      BY MessagesOfNode DEF Typed, SyncInv, Made
    <3> QED
      BY <1>1, <1>2, <2>1, <3>1, SentItems
  <2>2. CASE ~Alive(q)
    BY <1>1, <2>2
  <2> QED
    BY <2>1, <2>2
<1>4. /\ \A x \in Node : x # n => todo'[x] = todo[x] /\ pulling'[x] = pulling[x]
      /\ todo'[n] = todo[n] \ {q[1]} /\ (Alive(q) => pulling'[n] = q)
  BY <1>1 DEF Typed, PeerInv
<1>5. EventsSound'
  BY <1>0, EventsKept DEF KnowInv
<1>6. Discovery'
  BY <1>0, DiscoveryKept DEF KnowInv
<1>7. OwnEntry'
  BY <1>0, OwnEntryKept DEF KnowInv
<1>8. QuestionsSound'
  BY <1>0, <1>3, FullStateKinds, QuestionsKept DEF KnowInv
<1>9. ASSUME NEW a \in Node, NEW b \in Node, Pair(a, b), Reaches(a, b) PROVE Reaches(a, b)'
  <2>1. /\ phase'[b] = phase[b] /\ ins[b] \subseteq ins'[b] /\ SyncInv
        /\ Items(queue[a]) \subseteq Items(queue'[a]) /\ Items(queue[b]) \subseteq Items(queue'[b])
        /\ Items(net[a][b]) \subseteq Items(net'[a][b]) /\ Items(net[b][a]) \subseteq Items(net'[b][a])
        /\ Entry(b) \in known[a] => Entry(b) \in known'[a]
    BY <1>0, <1>3 DEF Typed
  <2>2. Alive(Entry(a)) /\ Alive(Entry(b)) /\ a # b /\ Entry(a) # None
    BY <1>9, PairAlive
  <2>3. CASE a = n /\ b = q[1]
    <3>1. Entry(b) \in known'[a] /\ Items(FullState(a, TRUE)) \subseteq Items(net'[a][b])
      BY <1>0, <1>2, <1>3, <2>2, <2>3
    <3> QED
      BY <1>0, <1>9, <2>1, <2>3, <3>1, PushedReaches DEF KnowInv
  <2>4. CASE b = n /\ a = q[1]
    <3>1. pulling'[b] = Entry(a)
      BY <1>2, <1>4, <2>2, <2>4
    <3>2. WillAsk(b, a)'
      BY <3>1 DEF WillAsk
    <3>3. CASE Shows(ins[b], base, Entry(a))
      BY <1>0, <2>1, <3>3, ShownStays
    <3>4. CASE WillPush(a, b)
      BY <1>4, <2>1, <2>2, <2>4, <3>4, WillPushStays
    <3>5. CASE Entry(b) \in known[a]
      BY <2>1, <3>2, <3>5 DEF Reaches
    <3>6. CASE phase[b] # "registered" /\ UnderWay(a, b)
      BY <1>0, <2>1, <3>6, UnderWayStays
    <3> QED
      BY <1>9, <3>3, <3>4, <3>5, <3>6 DEF Reaches
  <2>5. CASE ~(a = n /\ b = q[1]) /\ ~(b = n /\ a = q[1])
    <3>1. (b \in todo[a] => b \in todo'[a]) /\ (a \in todo[b] => a \in todo'[b])
      BY <1>4, <2>5
    <3>2. pulling[b] = Entry(a) => pulling'[b] = Entry(a)
      BY <1>0, <1>4, <2>2
    <3> QED
      BY <1>0, <1>9, <2>1, <3>1, <3>2, ReachStays
  <2> QED
    BY <2>3, <2>4, <2>5
<1>10. Exchange'
  BY <1>0, <1>9, ExchangeBy DEF KnowInv
<1> QED
  BY <1>5, <1>6, <1>7, <1>8, <1>10 DEF KnowInv

LEMMA SyncPullKnow == ASSUME Typed, KnowInv, NEW n \in Node, SyncPull(n) PROVE KnowInv'
<1>0. /\ pulling[n] # None /\ Send(n, {pulling[n]}, <<SyncStep1(n, TRUE)>>)
      /\ pulling' = [pulling EXCEPT ![n] = None]
      /\ UNCHANGED <<phase, starts, ins, base, known, listing, todo, queue>>
      /\ Ends /\ StayOff /\ ChainKept /\ Grows
  BY Quiet, Same DEF SyncPull, lifeVars, docVars, Grows
<1>1. <<SyncStep1(n, TRUE)>> \in Seq(MessageOf(Made, Gone)) /\ Items(<<SyncStep1(n, TRUE)>>) = {SyncStep1(n, TRUE)}
  BY MessagesOfNode, ShortSeqs, ItemsOf DEF Typed, SyncInv, Made
<1>2. /\ \A x, y \in Node : Items(net[x][y]) \subseteq Items(net'[x][y])
      /\ \A x, y \in Node : Items(net'[x][y]) \subseteq Items(net[x][y]) \cup (IF x = n THEN {SyncStep1(n, TRUE)} ELSE {})
      /\ \A q \in {pulling[n]} : q[1] \in Node /\ Alive(q) => {SyncStep1(n, TRUE)} \subseteq Items(net'[n][q[1]])
  BY <1>0, <1>1, SentItems DEF Typed, SyncInv
<1>3. SyncStep1(n, TRUE).kind = "step1" /\ SyncStep1(n, TRUE).sv \subseteq ins[n]
  BY IntegratedClosed DEF SyncStep1, Message
<1>4. \A x \in Node : x # n => pulling'[x] = pulling[x]
  BY <1>0 DEF Typed, PeerInv
<1>5. EventsSound'
  BY <1>0, EventsKept DEF KnowInv
<1>6. Discovery'
  BY <1>0, DiscoveryKept DEF KnowInv
<1>7. OwnEntry'
  BY <1>0, OwnEntryKept DEF KnowInv
<1>8. QuestionsSound'
  BY <1>0, <1>2, <1>3, QuestionsKept DEF KnowInv
<1>9. ASSUME NEW a \in Node, NEW b \in Node, Pair(a, b), Reaches(a, b) PROVE Reaches(a, b)'
  <2>1. /\ phase'[b] = phase[b] /\ ins[b] \subseteq ins'[b] /\ SyncInv
        /\ Items(queue[a]) \subseteq Items(queue'[a]) /\ Items(queue[b]) \subseteq Items(queue'[b])
        /\ Items(net[a][b]) \subseteq Items(net'[a][b]) /\ Items(net[b][a]) \subseteq Items(net'[b][a])
        /\ (b \in todo[a] => b \in todo'[a]) /\ (a \in todo[b] => a \in todo'[b])
        /\ Entry(b) \in known[a] => Entry(b) \in known'[a]
    BY <1>0, <1>2 DEF Typed
  <2>2. CASE b = n /\ pulling[b] = Entry(a)
    <3>1. Alive(Entry(a)) /\ Entry(a)[1] = a
      BY <1>9, PairAlive
    <3>2. Asks(b, a)'
      BY <1>2, <1>3, <2>2, <3>1 DEF Asks
    <3>3. WillAsk(b, a)'
      BY <3>2 DEF WillAsk
    <3>4. CASE Shows(ins[b], base, Entry(a))
      BY <1>0, <2>1, <3>4, ShownStays
    <3>5. CASE WillPush(a, b)
      BY <2>1, <3>5, WillPushStays
    <3>6. CASE Entry(b) \in known[a]
      BY <2>1, <3>3, <3>6 DEF Reaches
    <3>7. CASE phase[b] # "registered" /\ UnderWay(a, b)
      BY <1>0, <2>1, <3>7, UnderWayStays
    <3> QED
      BY <1>9, <3>4, <3>5, <3>6, <3>7 DEF Reaches
  <2>3. CASE ~(b = n /\ pulling[b] = Entry(a))
    BY <1>0, <1>4, <1>9, <2>1, <2>3, ReachStays
  <2> QED
    BY <2>2, <2>3
<1>10. Exchange'
  BY <1>0, <1>9, ExchangeBy DEF KnowInv
<1> QED
  BY <1>5, <1>6, <1>7, <1>8, <1>10 DEF KnowInv

\* n takes a message from m, learns its insertions, and answers a first step
\* with what m lacks, if it knows m.
LEMMA TakenKnow ==
    ASSUME Typed, KnowInv, LifeOK, NEW n \in Node, NEW m \in Node, net[m][n] # <<>>, Handling(n),
           UNCHANGED <<starts, base, known, loopVars, queue>>, Grows,
           Head(net[m][n]).kind = "step1" \/ ins[n] \cup Head(net[m][n]).ins \subseteq ins'[n],
           NEW f \in Seq(MessageOf(Made', Gone')), Answer(n, m, f),
           \A g \in Items(f) : g.kind # "step1",
           Head(net[m][n]).kind = "step1" => \E g \in Items(f) : ins[n] \ Head(net[m][n]).sv \subseteq g.ins
    PROVE  KnowInv'
<1> DEFINE h == Head(net[m][n])
<1>1. phase[n] # "off" /\ phase[n] # "registered"
  BY DEF Handling
<1>2. Ends /\ StayOff /\ ChainKept
  BY <1>1, EndsAnswer, EndsStayOff, Same DEF Typed, SyncInv
<1>3. /\ \A x, y \in Node : x # m \/ y # n => Items(net[x][y]) \subseteq Items(net'[x][y])
      /\ Items(net[m][n]) \subseteq {h} \cup Items(net'[m][n])
      /\ \A x, y \in Node : Items(net'[x][y]) \subseteq Items(net[x][y]) \cup (IF x = n THEN Items(f) ELSE {})
      /\ f # <<>> /\ (\E q \in PeerOf(known[n], m) : TRUE) /\ (\A q \in PeerOf(known[n], m) : Alive(q))
           => Items(f) \subseteq Items(net'[n][m])
  BY AnswerItems DEF Typed
<1>4. h \in Items(net[m][n])
  BY TakenItems DEF Typed
<1> HIDE DEF h
<1>5. EventsSound'
  BY <1>2, EventsKept DEF KnowInv
<1>6. Discovery'
  BY <1>2, DiscoveryKept DEF KnowInv, loopVars
<1>7. OwnEntry'
  BY <1>2, OwnEntryKept DEF KnowInv
<1>8. QuestionsSound'
  BY <1>2, <1>3, QuestionsKept DEF KnowInv
<1>9. ASSUME NEW a \in Node, NEW b \in Node, Pair(a, b), phase'[a] = phase[a], phase'[b] = phase[b], Reaches(a, b)
      PROVE  Reaches(a, b)'
  <2>1. /\ ins[b] \subseteq ins'[b] /\ SyncInv
        /\ Items(queue[a]) \subseteq Items(queue'[a]) /\ Items(queue[b]) \subseteq Items(queue'[b])
        /\ (b \in todo[a] => b \in todo'[a]) /\ (a \in todo[b] => a \in todo'[b])
        /\ pulling[b] = Entry(a) => pulling'[b] = Entry(a)
        /\ Entry(b) \in known[a] => Entry(b) \in known'[a]
    BY DEF Typed, Grows, loopVars
  <2>2. Alive(Entry(a)) /\ Alive(Entry(b)) /\ a # b /\ Entry(a)[1] = a /\ Entry(b)[1] = b
    BY <1>9, PairAlive
  <2>3. CASE a = m /\ b = n
    <3>1. Items(net[b][a]) \subseteq Items(net'[b][a])
      BY <1>3, <2>2, <2>3
    <3>2. /\ a \in todo[b] => WillAsk(b, a)'
          /\ pulling[b] = Entry(a) => WillAsk(b, a)'
      BY <2>1 DEF WillAsk
    <3>3. CASE Shows(ins[b], base, Entry(a))
      BY <1>2, <2>1, <3>3, ShownStays
    <3>4. CASE WillPush(a, b)
      BY <2>1, <3>4, WillPushStays
    <3>5. CASE Entry(b) \in known[a] /\ WillAsk(b, a)
      BY <1>9, <2>1, <3>1, <3>2, <3>5, WillAskStays
    <3>6. CASE UnderWay(a, b)
      <4>1. PICK q \in Items(net[a][b]) : q.kind # "step1" /\ Shows(ins[b] \cup q.ins, base, Entry(a))
        BY <3>6 DEF UnderWay
      <4>2. ins[b] \cup q.ins \subseteq Made
        BY <2>1, Held
      <4>3. CASE q \in Items(net'[a][b])
        <5>1. ins[b] \cup q.ins \subseteq ins'[b] \cup q.ins /\ phase'[b] # "registered"
          BY <1>1, <1>9, <2>1, <2>3
        <5> QED
          BY <1>2, <2>1, <4>1, <4>2, <4>3, <5>1, OnItsWay
      <4>4. CASE q = h
        <5>1. ins[b] \cup q.ins \subseteq ins'[b]
          BY <2>3, <4>1, <4>4 DEF h
        <5>2. Shows(ins'[b], base', Entry(a))
          BY <1>2, <4>1, <4>2, <5>1, ShowsKept DEF ChainKept
        <5> QED
          BY <5>2 DEF Reaches
      <4> QED
        BY <1>3, <2>3, <4>1, <4>3, <4>4
    <3> QED
      BY <1>9, <3>3, <3>4, <3>5, <3>6 DEF Reaches
  <2>4. CASE a = n /\ b = m
    <3>1. Items(net[a][b]) \subseteq Items(net'[a][b])
      BY <1>3, <2>2, <2>4
    <3>2. CASE Shows(ins[b], base, Entry(a))
      BY <1>2, <2>1, <3>2, ShownStays
    <3>3. CASE WillPush(a, b)
      BY <2>1, <3>3, WillPushStays
    <3>4. CASE phase[b] # "registered" /\ UnderWay(a, b)
      BY <1>2, <1>9, <2>1, <3>1, <3>4, UnderWayStays
    <3>5. CASE Entry(b) \in known[a] /\ phase[b] \in {"registered", "listening", "listed"}
      BY <1>9, <2>1, <3>5 DEF Reaches, WillAsk
    <3>6. CASE Entry(b) \in known[a] /\ Mentions(b, a)
      <4>1. WillAsk(b, a)'
        BY <2>1, <3>6, MentionStays DEF WillAsk
      <4> QED
        BY <2>1, <3>6, <4>1 DEF Reaches
    <3>7. CASE Entry(b) \in known[a] /\ (a \in todo[b] \/ pulling[b] = Entry(a))
      BY <2>1, <3>7 DEF Reaches, WillAsk
    <3>8. CASE Entry(b) \in known[a] /\ Asks(b, a) /\ phase[b] # "registered"
      <4>1. PICK q \in Items(net[b][a]) : q.kind = "step1"
        BY <3>8 DEF Asks
      <4>2. CASE q \in Items(net'[b][a])
        <5>1. Asks(b, a)'
          BY <4>1, <4>2 DEF Asks
        <5>2. WillAsk(b, a)'
          BY <5>1 DEF WillAsk
        <5> QED
          BY <2>1, <3>8, <5>2 DEF Reaches
      <4>3. CASE q = h
        <5>1. PICK g \in Items(f) : ins[n] \ h.sv \subseteq g.ins
          BY <4>1, <4>3 DEF h
        <5>2. PeerOf(known[n], m) = {Entry(m)}
          BY <2>4, <3>8, Entries DEF Typed, PeerInv, PeerOf
        <5>3. f # <<>>
          BY <5>1, ItemsOf
        <5>4. g \in Items(net'[a][b])
          BY <1>3, <2>2, <2>4, <5>1, <5>2, <5>3
        <5>5. h.sv \subseteq ins[b]
          BY <1>4, <1>9, <2>4, <4>1, <4>3 DEF KnowInv, QuestionsSound, Pair
        <5>6. Shows(ins[a], base, Entry(a)) /\ ins[a] \subseteq Made
          BY <1>9, <2>1, Held DEF KnowInv, OwnEntry, Pair
        <5>7. ins[a] \subseteq ins'[b] \cup g.ins
          BY <2>1, <2>4, <5>1, <5>5
        <5>8. g.kind # "step1" /\ phase'[b] # "registered"
          BY <1>9, <3>8, <5>1
        <5> QED
          BY <1>2, <2>1, <5>4, <5>6, <5>7, <5>8, OnItsWay
      <4> QED
        BY <1>3, <2>4, <4>2, <4>3
    <3>9. CASE Entry(b) \in known[a] /\ WillAsk(b, a)
      BY <3>5, <3>6, <3>7, <3>8, <3>9 DEF WillAsk
    <3> QED
      BY <1>9, <3>2, <3>3, <3>4, <3>9 DEF Reaches
  <2>5. CASE ~(a = m /\ b = n) /\ ~(a = n /\ b = m)
    <3>1. Items(net[a][b]) \subseteq Items(net'[a][b]) /\ Items(net[b][a]) \subseteq Items(net'[b][a])
      BY <1>3, <2>5
    <3> QED
      BY <1>2, <1>9, <2>1, <3>1, ReachStays
  <2> QED
    BY <2>3, <2>4, <2>5
<1>10. Exchange'
  BY <1>2, <1>9, ExchangeBy DEF KnowInv
<1> QED
  BY <1>5, <1>6, <1>7, <1>8, <1>10 DEF KnowInv

LEMMA ReceiveUpdateKnow ==
    ASSUME Typed, KnowInv, NEW n \in Node, NEW m \in Node, ReceiveUpdate(n, m) PROVE KnowInv'
<1>1. /\ net[m][n] # <<>> /\ Handling(n) /\ Head(net[m][n]).kind = "update"
      /\ Merge(n, Head(net[m][n])) /\ net' = Taken(n, m)
      /\ UNCHANGED <<phase, starts, mistaken, known, loopVars, queue>>
  BY DEF ReceiveUpdate, Take, lifeVars
<1>2. LifeOK
  BY <1>1, LifeSame DEF Typed, SyncInv
<1>3. base' = base /\ Grows /\ ins[n] \cup Head(net[m][n]).ins \subseteq ins'[n]
  BY <1>1 DEF Merge, Grows, Typed, SyncInv, Within
<1>4. Answer(n, m, <<>>)
  BY <1>1 DEF Answer
<1>5. <<>> \in Seq(MessageOf(Made', Gone')) /\ Items(<<>>) = {}
  BY ItemsOf, ShortSeqs
<1> QED
  BY <1>1, <1>2, <1>3, <1>4, <1>5, TakenKnow

LEMMA ReceiveStep1Know ==
    ASSUME Typed, KnowInv, NEW n \in Node, NEW m \in Node, ReceiveStep1(n, m) PROVE KnowInv'
<1> DEFINE h == Head(net[m][n])
<1>1. /\ net[m][n] # <<>> /\ Handling(n) /\ h.kind = "step1" /\ Answer(n, m, <<SyncStep2(n, h.sv)>>)
      /\ starts' = starts /\ mistaken' = mistaken /\ UNCHANGED <<ins, base>> /\ UNCHANGED <<known, loopVars, queue>>
  BY DEF ReceiveStep1, Take, lifeVars, docVars
<1>2. LifeOK
  <2>1. phase[n] # "off"
    BY <1>1 DEF Handling
  <2> QED
    BY <1>1, <2>1, LifeAnswer DEF Typed, SyncInv
<1>3. <<SyncStep2(n, h.sv)>> \in Seq(MessageOf(Made', Gone'))
  <2>1. h.sv \in SUBSET Process
    BY <1>1, TakenWithin DEF Typed, SyncInv, MessageOf
  <2>2. SyncStep2(n, h.sv) \in MessageOf(Made', Gone')
    BY <1>2, <2>1, MessagesOfNode, Before DEF Typed
  <2> QED
    BY <2>2, ShortSeqs
<1>4. Items(<<SyncStep2(n, h.sv)>>) = {SyncStep2(n, h.sv)}
  BY ItemsOf
<1>5. SyncStep2(n, h.sv).kind = "step2" /\ SyncStep2(n, h.sv).ins = ins[n] \ h.sv
  BY DEF SyncStep2, Message
<1>6. Grows
  BY <1>1 DEF Grows
<1> QED
  BY <1>1, <1>2, <1>3, <1>4, <1>5, <1>6, TakenKnow

LEMMA ReceiveStep2Know ==
    ASSUME Typed, KnowInv, NEW n \in Node, NEW m \in Node, ReceiveStep2(n, m) PROVE KnowInv'
<1> DEFINE h == Head(net[m][n])
           i == (ins[n] \cup h.ins) \ h.sv
           d == del[n] \cup h.del
           answer == IF i = {} /\ d = {} THEN <<>> ELSE <<Update(i, d, FALSE)>>
<1>1. /\ net[m][n] # <<>> /\ Handling(n) /\ h.kind = "step2" /\ Merge(n, h) /\ Answer(n, m, answer)
      /\ starts' = starts /\ mistaken' = mistaken /\ UNCHANGED <<known, loopVars, queue>>
  BY DEF ReceiveStep2, Take, lifeVars
<1>2. LifeOK
  <2>1. phase[n] # "off"
    BY <1>1 DEF Handling
  <2> QED
    BY <1>1, <2>1, LifeAnswer DEF Typed, SyncInv
<1>3. i \in SUBSET Made' /\ d \in SUBSET Gone'
  <2>1. h \in MessageOf(Made', Gone')
    BY <1>1, <1>2, TakenWithin, Before DEF Typed
  <2>2. h.ins \subseteq Made' /\ h.del \subseteq Gone'
    BY <2>1 DEF MessageOf
  <2>3. ins[n] \subseteq Made' /\ del[n] \subseteq Gone'
    BY <1>2, Before DEF Typed, Within
  <2> QED
    BY <2>2, <2>3
<1>4. Update(i, d, FALSE) \in MessageOf(Made', Gone') /\ Update(i, d, FALSE).kind = "update"
  BY <1>3 DEF Update, Message, MessageOf
<1>5. answer \in Seq(MessageOf(Made', Gone')) /\ Items(answer) \subseteq {Update(i, d, FALSE)}
  <2>1. answer = <<>> \/ answer = <<Update(i, d, FALSE)>>
    OBVIOUS
  <2> HIDE DEF answer, i, d
  <2>2. answer \in Seq(MessageOf(Made', Gone'))
    BY <1>4, <2>1, ShortSeqs
  <2>3. Items(answer) \subseteq {Update(i, d, FALSE)}
    BY <2>1, ItemsOf
  <2> QED
    BY <2>2, <2>3
<1>6. base' = base /\ Grows /\ ins[n] \cup h.ins \subseteq ins'[n]
  BY <1>1 DEF Merge, Grows, Typed, SyncInv, Within
<1> HIDE DEF answer, i, d
<1>7. h.kind # "step1" /\ \A g \in Items(answer) : g.kind # "step1"
  BY <1>1, <1>4, <1>5
<1> QED
  BY <1>1, <1>2, <1>5, <1>6, <1>7, TakenKnow

\* Nobody in the ring depends on what a process that does not listen yet receives.
LEMMA IgnoreKnow == ASSUME Typed, KnowInv, NEW n \in Node, NEW m \in Node, Ignore(n, m) PROVE KnowInv'
<1>0. /\ net[m][n] # <<>> /\ phase[n] = "registered" /\ net' = Taken(n, m)
      /\ UNCHANGED <<phase, starts, ins, base, known, listing, todo, pulling, queue>>
      /\ Ends /\ StayOff /\ ChainKept /\ Grows
  BY Quiet, Same DEF Ignore, lifeVars, docVars, loopVars, Grows
<1>1. /\ \A x, y \in Node : x # m \/ y # n => net'[x][y] = net[x][y]
      /\ Items(net[m][n]) = {Head(net[m][n])} \cup Items(net'[m][n])
  BY <1>0, TakenItems DEF Typed
<1>2. \A x, y \in Node : Items(net'[x][y]) \subseteq Items(net[x][y])
  BY <1>1
<1>3. EventsSound' /\ Discovery'
  BY <1>0, EventsKept, DiscoveryKept DEF KnowInv
<1>4. OwnEntry'
  BY <1>0, OwnEntryKept DEF KnowInv
<1>5. QuestionsSound'
  BY <1>0, <1>2, QuestionsKept DEF KnowInv
<1>6. ASSUME NEW a \in Node, NEW b \in Node, Pair(a, b), Reaches(a, b) PROVE Reaches(a, b)'
  <2>1. /\ phase'[b] = phase[b] /\ ins[b] \subseteq ins'[b] /\ SyncInv
        /\ Items(queue[a]) \subseteq Items(queue'[a]) /\ Items(queue[b]) \subseteq Items(queue'[b])
        /\ (b \in todo[a] => b \in todo'[a]) /\ (a \in todo[b] => a \in todo'[b])
        /\ pulling[b] = Entry(a) => pulling'[b] = Entry(a)
        /\ Entry(b) \in known[a] => Entry(b) \in known'[a]
    BY <1>0 DEF Typed
  <2>2. a # n
    BY <1>0, <1>6 DEF Pair
  <2>3. Items(net[b][a]) \subseteq Items(net'[b][a])
    BY <1>1, <2>2
  <2>4. CASE b = n
    <3>1. WillAsk(b, a)'
      BY <1>0, <2>4 DEF WillAsk
    <3>2. CASE Shows(ins[b], base, Entry(a))
      BY <1>0, <2>1, <3>2, ShownStays
    <3>3. CASE WillPush(a, b)
      BY <2>1, <3>3, WillPushStays
    <3>4. CASE Entry(b) \in known[a]
      BY <2>1, <3>1, <3>4 DEF Reaches
    <3> QED
      BY <1>0, <1>6, <2>4, <3>2, <3>3, <3>4 DEF Reaches
  <2>5. CASE b # n
    <3>1. Items(net[a][b]) \subseteq Items(net'[a][b])
      BY <1>1, <2>5
    <3> QED
      BY <1>0, <1>6, <2>1, <2>3, <3>1, ReachStays
  <2> QED
    BY <2>4, <2>5
<1>7. Exchange'
  BY <1>0, <1>6, ExchangeBy DEF KnowInv
<1> QED
  BY <1>3, <1>4, <1>5, <1>7 DEF KnowInv

\* A deletion, and the end of membership, change nothing for those who stay.
LEMMA DeletionKnow ==
    ASSUME Typed, KnowInv, Ends, UNCHANGED <<starts, ins, base, known, loopVars, queue>>,
           NEW n \in Node, NEW peers, NEW d \in SUBSET Process, net' = net \/ Broadcast(n, peers, {}, d)
    PROVE  KnowInv'
<1> DEFINE f == <<Update({}, d, TRUE)>>
<1>0. Grows /\ StayOff /\ ChainKept /\ UNCHANGED <<listing, todo, pulling>>
  BY EndsStayOff, Same DEF Grows, loopVars
<1>1. f \in Seq(MessageOf(Made, Process)) /\ Items(f) = {Update({}, d, TRUE)} /\ Update({}, d, TRUE).kind # "step1"
  <2>1. Update({}, d, TRUE) \in MessageOf(Made, Process) /\ Update({}, d, TRUE).kind # "step1"
    BY DEF Update, Message, MessageOf
  <2> QED
    BY <2>1, ShortSeqs, ItemsOf
<1> HIDE DEF f
<1>2. /\ \A x, y \in Node : Items(net[x][y]) \subseteq Items(net'[x][y])
      /\ \A x, y \in Node : Items(net'[x][y]) \subseteq Items(net[x][y]) \cup (IF x = n THEN Items(f) ELSE {})
  <2>1. CASE net' = net
    BY <2>1
  <2>2. CASE Send(n, peers, f)
    <3>1. Within(Made, Process, ins, del, net)
      BY WithinGrows DEF Typed, SyncInv, Gone
    <3> QED
      BY <1>1, <2>2, <3>1, SentItems
  <2> QED
    BY <2>1, <2>2 DEF Broadcast, f
<1>3. EventsSound' /\ Discovery'
  BY <1>0, EventsKept, DiscoveryKept DEF KnowInv
<1>4. OwnEntry'
  BY <1>0, OwnEntryKept DEF KnowInv
<1>5. QuestionsSound'
  BY <1>0, <1>1, <1>2, QuestionsKept DEF KnowInv
<1>6. ASSUME NEW a \in Node, NEW b \in Node, phase'[b] = phase[b], Reaches(a, b) PROVE Reaches(a, b)'
  <2>1. /\ ins[b] \subseteq ins'[b] /\ SyncInv
        /\ Items(queue[a]) \subseteq Items(queue'[a]) /\ Items(queue[b]) \subseteq Items(queue'[b])
        /\ Items(net[a][b]) \subseteq Items(net'[a][b]) /\ Items(net[b][a]) \subseteq Items(net'[b][a])
        /\ (b \in todo[a] => b \in todo'[a]) /\ (a \in todo[b] => a \in todo'[b])
        /\ pulling[b] = Entry(a) => pulling'[b] = Entry(a)
        /\ Entry(b) \in known[a] => Entry(b) \in known'[a]
    BY <1>0, <1>2 DEF Typed
  <2> QED
    BY <1>0, <1>6, <2>1, ReachStays
<1>7. Exchange'
  BY <1>6, ExchangeBy DEF KnowInv
<1> QED
  BY <1>3, <1>4, <1>5, <1>7 DEF KnowInv

LEMMA LeaveKnow == ASSUME Typed, KnowInv, NEW n \in Node, Leave(n) PROVE KnowInv'
<1>1. PICK d \in removeNodeFromRing(n, n) : net' = net \/ Broadcast(n, known[n], {}, d)
  BY DEF Leave
<1>2. /\ phase' = [phase EXCEPT ![n] = "leaving"] /\ phase[n] = "joined"
      /\ UNCHANGED <<starts, ins, base, known, loopVars, queue>>
  BY DEF Leave
<1>3. Ends
  BY <1>2 DEF Ends, Typed, SyncInv, LifeType
<1>4. d \in SUBSET Process
  BY Removed, Held DEF Typed, Made
<1> QED
  BY <1>1, <1>2, <1>3, <1>4, DeletionKnow

LEMMA CleanupKnow == ASSUME Typed, KnowInv, NEW n \in Node, NEW m \in Node, Cleanup(n, m) PROVE KnowInv'
<1>1. PICK d \in removeNodeFromRing(n, m) : Broadcast(n, known[n], {}, d)
  BY DEF Cleanup
<1>2. Ends /\ UNCHANGED <<starts, ins, base, known, loopVars, queue>>
  BY Quiet DEF Cleanup
<1>3. d \in SUBSET Process
  BY Removed, Held DEF Typed, Made
<1> QED
  BY <1>1, <1>2, <1>3, DeletionKnow

----------------------------------------------------------------------------
(* The events of the daemon.                                               *)

LEMMA EventItems ==
    ASSUME PeerInv, NEW n \in Node, queue[n] # <<>>, queue' = [queue EXCEPT ![n] = Tail(@)]
    PROVE  /\ \A x \in Node : x # n => queue'[x] = queue[x]
           /\ Items(queue[n]) = {Head(queue[n])} \cup Items(queue'[n])
<1>1. queue \in [Node -> Events] /\ queue[n] \in Events
  BY DEF PeerInv
<1>2. queue'[n] = Tail(queue[n]) /\ \A x \in Node : x # n => queue'[x] = queue[x]
  BY <1>1
<1>3. Items(queue[n]) = {Head(queue[n])} \cup Items(Tail(queue[n]))
  BY <1>1, ItemsOf DEF Events
<1> QED
  BY <1>2, <1>3

LEMMA EventAdded ==
    ASSUME NEW q \in Events, NEW e \in [kind : {"join", "leave", "list"}, peers : SUBSET Process]
    PROVE  Items(Append(q, e)) = Items(q) \cup {e}
<1> DEFINE E == [kind : {"join", "leave", "list"}, peers : SUBSET Process]
<1>1. q \in Seq(E) /\ e \in E
  BY DEF Events
<1> HIDE DEF E
<1>2. \A x \in E : Items(Append(q, x)) = Items(q) \cup {x}
  BY <1>1, ItemsOf
<1> QED
  BY <1>1, <1>2

\* A mention is the event at hand, or stays.
LEMMA MentionTaken ==
    ASSUME PeerInv, NEW n \in Node, queue[n] # <<>>, queue' = [queue EXCEPT ![n] = Tail(@)],
           NEW a \in Node, NEW b, Mentions(a, b)
    PROVE  \/ Mentions(a, b)'
           \/ a = n /\ Head(queue[n]).kind \in {"join", "list"} /\ Entry(b) \in Head(queue[n]).peers
<1>1. PICK e \in Items(queue[a]) : e.kind \in {"join", "list"} /\ Entry(b) \in e.peers
  BY DEF Mentions
<1>2. e \in Items(queue'[a]) \/ (a = n /\ e = Head(queue[n]))
  BY EventItems
<1> QED
  BY <1>1, <1>2 DEF Mentions

LEMMA AddOne ==
    ASSUME Typed, NEW peers \in SUBSET Process, NEW q \in Process
    PROVE  AddPeers(peers, {q}) = peers \cup {q}
BY Entries DEF AddPeers, PeerOf, Typed

\* What peerJoin sends.
LEMMA Greeting ==
    ASSUME Typed, NEW n \in Node, NEW q \in Process,
           NEW order \in {FullState(n, FALSE) \o <<SyncStep1(n, FALSE)>>, <<SyncStep1(n, FALSE)>> \o FullState(n, FALSE)},
           Send(n, {q}, order)
    PROVE  /\ \A x, y \in Node : Items(net[x][y]) \subseteq Items(net'[x][y])
           /\ \A x, y \in Node : \A g \in Items(net'[x][y]) :
                g \in Items(net[x][y]) \/ (g.kind = "step1" => g.sv \subseteq ins[x])
           /\ Alive(q) => /\ Items(FullState(n, FALSE)) \subseteq Items(net'[n][q[1]])
                          /\ \E g \in Items(net'[n][q[1]]) : g.kind = "step1"
<1>1. SyncStep1(n, FALSE) \in MessageOf(Made, Gone) /\ FullState(n, FALSE) \in Seq(MessageOf(Made, Gone))
  BY MessagesOfNode DEF Typed, SyncInv, Made
<1>2. <<SyncStep1(n, FALSE)>> \in Seq(MessageOf(Made, Gone)) /\ Items(<<SyncStep1(n, FALSE)>>) = {SyncStep1(n, FALSE)}
  BY <1>1, ShortSeqs, ItemsOf
<1>3. order \in Seq(MessageOf(Made, Gone)) /\ Items(order) = Items(FullState(n, FALSE)) \cup {SyncStep1(n, FALSE)}
  <2> DEFINE S == Seq(MessageOf(Made, Gone))
             push == FullState(n, FALSE)
             step == <<SyncStep1(n, FALSE)>>
  <2>1. push \in S /\ step \in S /\ order \in {push \o step, step \o push}
    BY <1>1, <1>2
  <2>2. \A f, g \in S : f \o g \in S /\ Items(f \o g) = Items(f) \cup Items(g)
    BY LongerSeqs, ItemsOf
  <2> HIDE DEF S, push, step
  <2>3. push \o step \in S /\ Items(push \o step) = Items(push) \cup Items(step)
    BY <2>1, <2>2, Zenon
  <2>4. step \o push \in S /\ Items(step \o push) = Items(step) \cup Items(push)
    BY <2>1, <2>2, Zenon
  <2>5. order \in S /\ Items(order) = Items(push) \cup Items(step)
    <3>1. CASE order = push \o step
      BY <2>3, <3>1, Zenon
    <3>2. CASE order = step \o push
      <4>1. order \in S /\ Items(order) = Items(step) \cup Items(push)
        BY <2>4, <3>2, Zenon
      <4> QED
        BY <4>1
    <3> QED
      BY <2>1, <3>1, <3>2, Zenon
  <2> QED
    BY <1>2, <2>5 DEF S, push, step
<1>4. SyncStep1(n, FALSE).kind = "step1" /\ SyncStep1(n, FALSE).sv \subseteq ins[n]
  BY IntegratedClosed DEF SyncStep1, Message
<1>5. /\ \A x, y \in Node : Items(net[x][y]) \subseteq Items(net'[x][y])
      /\ \A x, y \in Node : Items(net'[x][y]) \subseteq Items(net[x][y]) \cup (IF x = n THEN Items(order) ELSE {})
      /\ \A p \in {q} : p[1] \in Node /\ Alive(p) => Items(order) \subseteq Items(net'[n][p[1]])
  BY <1>3, SentItems DEF Typed, SyncInv
<1>6. \A g \in Items(FullState(n, FALSE)) : g.kind # "step1"
  BY FullStateKinds
<1>7. q[1] \in Node
  BY Entries DEF Typed
<1>8. ASSUME NEW x \in Node, NEW y \in Node, NEW g \in Items(net'[x][y])
      PROVE  g \in Items(net[x][y]) \/ (g.kind = "step1" => g.sv \subseteq ins[x])
  BY <1>3, <1>4, <1>5, <1>6
<1>9. Alive(q) => /\ Items(FullState(n, FALSE)) \subseteq Items(net'[n][q[1]])
                  /\ SyncStep1(n, FALSE) \in Items(net'[n][q[1]])
  BY <1>3, <1>5, <1>7
<1> QED
  BY <1>4, <1>5, <1>8, <1>9

LEMMA PeerJoinKnow == ASSUME Typed, KnowInv, NEW n \in Node, PeerJoin(n) PROVE KnowInv'
<1>0. /\ phase[n] \in {"listed", "joined", "leaving"} /\ queue[n] # <<>> /\ Head(queue[n]).kind = "join"
      /\ queue' = [queue EXCEPT ![n] = Tail(@)]
      /\ UNCHANGED <<starts, ins, base, listing, pulling>>
      /\ ChainKept /\ Grows
  BY Same DEF PeerJoin, Event, lifeVars, docVars, Grows
<1>1. PICK q \in Head(queue[n]).peers :
         /\ known' = [known EXCEPT ![n] = AddPeers(@, {q})]
         /\ \E order \in {FullState(n, FALSE) \o <<SyncStep1(n, FALSE)>>,
                          <<SyncStep1(n, FALSE)>> \o FullState(n, FALSE)} : Send(n, {q}, order)
         /\ Uncaught(n, q)
         /\ todo' = todo \/ todo' = [todo EXCEPT ![n] = @ \cup {q[1]}]
  BY DEF PeerJoin
<1>2. /\ \A x \in Node : x # n => queue'[x] = queue[x]
      /\ Items(queue[n]) = {Head(queue[n])} \cup Items(queue'[n])
  BY <1>0, EventItems DEF Typed
<1>3. q \in Process /\ Head(queue[n]).peers = {q}
  <2>1. Head(queue[n]) \in Items(queue[n])
    BY <1>2
  <2>2. \E p \in Process : Head(queue[n]).peers = {p}
    BY <1>0, <2>1 DEF KnowInv, EventsSound
  <2> QED
    BY <2>2
<1>4. Ends /\ StayOff
  BY <1>0, <1>1, EndsUncaught, EndsStayOff DEF Typed, SyncInv
<1>5. /\ \A x, y \in Node : Items(net[x][y]) \subseteq Items(net'[x][y])
      /\ \A x, y \in Node : \A g \in Items(net'[x][y]) :
           g \in Items(net[x][y]) \/ (g.kind = "step1" => g.sv \subseteq ins[x])
      /\ Alive(q) => /\ Items(FullState(n, FALSE)) \subseteq Items(net'[n][q[1]])
                     /\ \E g \in Items(net'[n][q[1]]) : g.kind = "step1"
  BY <1>1, <1>3, Greeting
<1>6. q \in known'[n] /\ \A x \in Node : known[x] \subseteq known'[x] /\ todo[x] \subseteq todo'[x]
  BY <1>1, <1>3, AddOne DEF Typed, PeerInv
<1>7. ASSUME NEW a \in Node, NEW b, Mentions(a, b)
      PROVE  Mentions(a, b)' \/ (a = n /\ Entry(b) = q)
  BY <1>0, <1>3, <1>7, MentionTaken DEF Typed
<1>8. EventsSound'
  BY <1>0, <1>2, <1>4, EventsKept DEF KnowInv
<1>9. Discovery'
  <2> SUFFICES ASSUME NEW x \in Node, NEW y \in Node, x # y,
                      phase'[x] \in {"listening", "listed", "joined"}, phase'[y] # "off"
               PROVE  HearsOf(x, y)'
    BY DEF Discovery
  <2>1. phase'[x] = phase[x] /\ phase[y] # "off"
    BY <1>4 DEF Ends
  <2>2. HearsOf(x, y)
    BY <2>1 DEF KnowInv, Discovery
  <2>3. CASE Entry(y) \in known[x]
    BY <1>6, <2>3 DEF HearsOf
  <2>4. CASE Mentions(x, y)
    BY <1>6, <1>7, <2>4 DEF HearsOf
  <2>5. CASE phase[x] = "listed" /\ Entry(y) \in listing[x]
    BY <1>0, <2>1, <2>5 DEF HearsOf
  <2> QED
    BY <2>2, <2>3, <2>4, <2>5 DEF HearsOf
<1>10. OwnEntry'
  BY <1>0, <1>4, OwnEntryKept DEF KnowInv
<1>11. QuestionsSound'
  BY <1>0, <1>4, <1>5, QuestionsKept DEF KnowInv
<1>12. ASSUME NEW a \in Node, NEW b \in Node, Pair(a, b), phase'[a] = phase[a], phase'[b] = phase[b], Reaches(a, b)
       PROVE  Reaches(a, b)'
  <2>1. /\ ins[b] \subseteq ins'[b] /\ SyncInv
        /\ Items(net[a][b]) \subseteq Items(net'[a][b]) /\ Items(net[b][a]) \subseteq Items(net'[b][a])
        /\ (b \in todo[a] => b \in todo'[a]) /\ (a \in todo[b] => a \in todo'[b])
        /\ pulling[b] = Entry(a) => pulling'[b] = Entry(a)
        /\ Entry(b) \in known[a] => Entry(b) \in known'[a]
    BY <1>0, <1>5, <1>6 DEF Typed
  <2>2. Alive(Entry(a)) /\ Alive(Entry(b)) /\ Entry(a)[1] = a /\ Entry(b)[1] = b
    BY <1>12, PairAlive
  <2>3. CASE Shows(ins[b], base, Entry(a))
    BY <1>0, <2>1, <2>3, ShownStays
  <2>4. CASE phase[b] # "registered" /\ UnderWay(a, b)
    BY <1>0, <1>12, <2>1, <2>4, UnderWayStays
  <2>5. CASE b \in todo[a]
    BY <2>1, <2>5 DEF Reaches, WillPush
  <2>6. CASE Mentions(a, b)
    <3>1. CASE Mentions(a, b)'
      BY <3>1 DEF Reaches, WillPush
    <3>2. CASE a = n /\ Entry(b) = q
      <4>1. Entry(b) \in known'[a] /\ Items(FullState(a, FALSE)) \subseteq Items(net'[a][b])
        BY <1>5, <1>6, <2>2, <3>2
      <4> QED
        BY <1>0, <1>12, <4>1, PushedReaches DEF KnowInv
    <3> QED
      BY <1>7, <2>6, <3>1, <3>2
  <2>7. ASSUME Entry(b) \in known[a], WillAsk(b, a)' PROVE Reaches(a, b)'
    BY <2>1, <2>7 DEF Reaches
  <2>8. CASE Entry(b) \in known[a] /\ WillAsk(b, a)
    <3> SUFFICES WillAsk(b, a)'
      BY <2>7, <2>8
    <3>1. CASE Mentions(b, a)
      <4>1. CASE Mentions(b, a)'
        BY <4>1 DEF WillAsk
      <4>2. CASE b = n /\ Entry(a) = q
        <5>1. Asks(b, a)'
          BY <1>5, <2>2, <4>2 DEF Asks
        <5> QED
          BY <5>1 DEF WillAsk
      <4> QED
        BY <1>7, <3>1, <4>1, <4>2
    <3>2. CASE Asks(b, a)
      <4>1. Asks(b, a)'
        BY <2>1, <3>2 DEF Asks
      <4> QED
        BY <4>1 DEF WillAsk
    <3>3. CASE phase[b] \in {"registered", "listening", "listed"}
      BY <1>12, <3>3 DEF WillAsk
    <3>4. CASE a \in todo[b] \/ pulling[b] = Entry(a)
      BY <2>1, <3>4 DEF WillAsk
    <3> QED
      BY <2>8, <3>1, <3>2, <3>3, <3>4 DEF WillAsk
  <2>9. CASE WillPush(a, b)
    BY <2>5, <2>6, <2>9 DEF WillPush
  <2> QED
    BY <1>12, <2>3, <2>4, <2>8, <2>9 DEF Reaches
<1>13. Exchange'
  BY <1>4, <1>12, ExchangeBy DEF KnowInv
<1> QED
  BY <1>8, <1>9, <1>10, <1>11, <1>13 DEF KnowInv

LEMMA PeerLeaveKnow == ASSUME Typed, KnowInv, NEW n \in Node, PeerLeave(n) PROVE KnowInv'
<1>0. /\ queue[n] # <<>> /\ Head(queue[n]).kind = "leave"
      /\ queue' = [queue EXCEPT ![n] = Tail(@)]
      /\ UNCHANGED <<phase, starts, ins, base, listing, pulling, net>>
      /\ ChainKept /\ Grows /\ Ends /\ StayOff
  BY Same, Quiet DEF PeerLeave, Event, lifeVars, docVars, Grows
<1>1. PICK q \in Head(queue[n]).peers :
         /\ known' = [known EXCEPT ![n] = @ \ PeerOf(@, q[1])]
         /\ todo' = [todo EXCEPT ![n] = @ \ {q[1]}]
  BY DEF PeerLeave
<1>2. /\ \A x \in Node : x # n => queue'[x] = queue[x]
      /\ Items(queue[n]) = {Head(queue[n])} \cup Items(queue'[n])
  BY <1>0, EventItems DEF Typed
<1>3. phase[q[1]] = "off"
  <2>1. Head(queue[n]) \in Items(queue[n])
    BY <1>2
  <2> QED
    BY <1>0, <2>1 DEF KnowInv, EventsSound
<1>4. \A x, y \in Node : phase[y] # "off" =>
        (Entry(y) \in known[x] => Entry(y) \in known'[x]) /\ (y \in todo[x] => y \in todo'[x])
  <2> SUFFICES ASSUME NEW x \in Node, NEW y \in Node, phase[y] # "off"
               PROVE  (Entry(y) \in known[x] => Entry(y) \in known'[x]) /\ (y \in todo[x] => y \in todo'[x])
    OBVIOUS
  <2>1. y # q[1] /\ Entry(y)[1] = y
    BY <1>3, Entries DEF Typed
  <2>2. known'[x] = IF x = n THEN known[n] \ PeerOf(known[n], q[1]) ELSE known[x]
    BY <1>1 DEF Typed, PeerInv
  <2>3. todo'[x] = IF x = n THEN todo[n] \ {q[1]} ELSE todo[x]
    BY <1>1 DEF Typed, PeerInv
  <2> QED
    BY <2>1, <2>2, <2>3 DEF PeerOf
<1>5. ASSUME NEW a \in Node, NEW b, Mentions(a, b) PROVE Mentions(a, b)'
  BY <1>0, <1>5, MentionTaken DEF Typed
<1>6. EventsSound'
  BY <1>0, <1>2, EventsKept DEF KnowInv
<1>7. Discovery'
  <2> SUFFICES ASSUME NEW x \in Node, NEW y \in Node, x # y,
                      phase[x] \in {"listening", "listed", "joined"}, phase[y] # "off"
               PROVE  HearsOf(x, y)'
    BY <1>0 DEF Discovery
  <2>1. HearsOf(x, y)
    BY DEF KnowInv, Discovery
  <2>2. CASE Entry(y) \in known[x]
    BY <1>4, <2>2 DEF HearsOf
  <2>3. CASE Mentions(x, y)
    BY <1>5, <2>3 DEF HearsOf
  <2>4. CASE phase[x] = "listed" /\ Entry(y) \in listing[x]
    BY <1>0, <2>4 DEF HearsOf
  <2> QED
    BY <2>1, <2>2, <2>3, <2>4 DEF HearsOf
<1>8. OwnEntry'
  BY <1>0, OwnEntryKept DEF KnowInv
<1>9. QuestionsSound'
  BY <1>0, QuestionsKept DEF KnowInv
<1>10. ASSUME NEW a \in Node, NEW b \in Node, Pair(a, b), Reaches(a, b) PROVE Reaches(a, b)'
  <2>1. phase[a] # "off" /\ phase[b] # "off"
    BY <1>10 DEF Pair
  <2>2. CASE Shows(ins[b], base, Entry(a))
    BY <1>0, <2>2, ShownStays DEF Typed
  <2>3. CASE Mentions(a, b)
    BY <1>5, <2>3 DEF Reaches, WillPush
  <2>4. CASE b \in todo[a]
    BY <1>4, <2>1, <2>4 DEF Reaches, WillPush
  <2>5. CASE Entry(b) \in known[a] /\ WillAsk(b, a)
    <3>1. Entry(b) \in known'[a]
      BY <1>4, <2>1, <2>5
    <3> SUFFICES WillAsk(b, a)'
      BY <3>1 DEF Reaches
    <3>2. CASE Mentions(b, a)
      BY <1>5, <3>2 DEF WillAsk
    <3>3. CASE Asks(b, a)
      <4>1. Asks(b, a)'
        BY <1>0, <3>3 DEF Asks
      <4> QED
        BY <4>1 DEF WillAsk
    <3>4. CASE a \in todo[b]
      BY <1>4, <2>1, <3>4 DEF WillAsk
    <3>5. CASE phase[b] \in {"registered", "listening", "listed"} \/ pulling[b] = Entry(a)
      BY <1>0, <3>5 DEF WillAsk
    <3> QED
      BY <2>5, <3>2, <3>3, <3>4, <3>5 DEF WillAsk
  <2>6. CASE phase[b] # "registered" /\ UnderWay(a, b)
    BY <1>0, <2>6, UnderWayStays DEF Typed
  <2> QED
    BY <1>10, <2>2, <2>3, <2>4, <2>5, <2>6 DEF Reaches, WillPush
<1>11. Exchange'
  BY <1>0, <1>10, ExchangeBy DEF KnowInv
<1> QED
  BY <1>6, <1>7, <1>8, <1>9, <1>11 DEF KnowInv

----------------------------------------------------------------------------
(* The end of a process.                                                   *)

LEMMA EndKnow ==
    ASSUME Typed, KnowInv, NEW n \in Node, phase[n] # "off", NEW lossy, End(n, lossy) PROVE KnowInv'
<1> DEFINE gone == [kind |-> "leave", peers |-> {Current(n)}]
<1>0. /\ starts' = starts /\ base' = base /\ starts[n] = 1 /\ Current(n) = Entry(n)
      /\ ChainKept
  BY CurrentEntry, Same DEF End, Typed, SyncInv
<1>1. Ends /\ StayOff /\ phase'[n] = "off"
  <2>1. PICK D \in SUBSET {m \in Node \ {n} : phase[m] # "off"} :
          phase' = [m \in Node |-> IF m = n THEN "off" ELSE IF m \in D THEN "dying" ELSE phase[m]]
    BY DEF End
  <2>2. Ends /\ phase'[n] = "off"
    BY <2>1 DEF Ends
  <2> QED
    BY <2>2, EndsStayOff
<1>2. \A x \in Node : x # n =>
        /\ ins'[x] = ins[x] /\ known'[x] = known[x] /\ listing'[x] = listing[x]
        /\ todo'[x] = todo[x] /\ pulling'[x] = pulling[x]
  BY DEF End, Typed, SyncInv, Within, PeerInv
<1>3. \A x, y \in Node : x # n => net'[x][y] = IF y = n THEN <<>> ELSE net[x][y]
  BY DEF End
<1>4. \A x \in Node : x # n => Items(queue[x]) \subseteq Items(queue'[x]) /\ Items(queue'[x]) \subseteq Items(queue[x]) \cup {gone}
  <2> SUFFICES ASSUME NEW x \in Node, x # n
               PROVE  Items(queue[x]) \subseteq Items(queue'[x]) /\ Items(queue'[x]) \subseteq Items(queue[x]) \cup {gone}
    OBVIOUS
  <2>1. queue'[x] = queue[x] \/ queue'[x] = Append(queue[x], gone)
    BY DEF End
  <2>2. queue[x] \in Events /\ gone \in [kind : {"join", "leave", "list"}, peers : SUBSET Process]
    BY CurrentStarted DEF Typed, SyncInv, PeerInv
  <2> HIDE DEF gone
  <2>3. Items(Append(queue[x], gone)) = Items(queue[x]) \cup {gone}
    BY <2>2, EventAdded
  <2> QED
    BY <2>1, <2>3
<1>5. Items(queue'[n]) = {}
  <2>1. queue'[n] = <<>>
    BY DEF End
  <2> QED
    BY <2>1, ItemsOf
<1>6. gone.kind = "leave" /\ gone.peers = {Entry(n)} /\ Entry(n)[1] = n
  BY <1>0, Entries DEF Typed
<1> HIDE DEF gone
<1>7. EventsSound'
  <2> SUFFICES ASSUME NEW x \in Node, NEW e \in Items(queue'[x])
               PROVE  /\ e.kind = "join" => \E p \in Process : e.peers = {p}
                      /\ e.kind = "leave" => \A p \in e.peers : phase'[p[1]] = "off" /\ starts'[p[1]] = 1
    BY DEF EventsSound
  <2>1. CASE e = gone
    BY <1>0, <1>1, <1>6, <2>1
  <2>2. CASE e \in Items(queue[x])
    <3>1. /\ e.kind = "join" => \E p \in Process : e.peers = {p}
          /\ e.kind = "leave" => \A p \in e.peers : phase[p[1]] = "off" /\ starts[p[1]] = 1
      BY <2>2 DEF KnowInv, EventsSound
    <3>2. \A p \in e.peers : p[1] \in Node
      BY <2>2, QueuePeers, Entries DEF Typed
    <3> QED
      BY <1>0, <1>1, <3>1, <3>2 DEF StayOff
  <2> QED
    BY <1>4, <1>5, <2>1, <2>2
<1>8. Discovery'
  <2> SUFFICES ASSUME NEW x \in Node, NEW y \in Node, x # y,
                      phase'[x] \in {"listening", "listed", "joined"}, phase'[y] # "off"
               PROVE  HearsOf(x, y)'
    BY DEF Discovery
  <2>1. phase'[x] = phase[x] /\ phase[y] # "off" /\ x # n
    BY <1>1 DEF Ends
  <2>2. HearsOf(x, y)
    BY <2>1 DEF KnowInv, Discovery
  <2>3. Mentions(x, y) => Mentions(x, y)'
    BY <1>4, <2>1, MentionStays
  <2> QED
    BY <1>2, <2>1, <2>2, <2>3 DEF HearsOf
<1>9. OwnEntry'
  <2> SUFFICES ASSUME NEW x \in Node, phase'[x] = "joined" PROVE Shows(ins'[x], base', Entry(x))
    BY DEF OwnEntry
  <2>1. phase[x] = "joined" /\ x # n
    BY <1>1 DEF Ends
  <2> QED
    BY <1>0, <1>2, <2>1 DEF KnowInv, OwnEntry
<1>10. QuestionsSound'
  <2> SUFFICES ASSUME NEW x \in Node, NEW y \in Node, NEW q \in Items(net'[x][y]), q.kind = "step1"
               PROVE  q.sv \subseteq ins'[x] \/ (phase'[x] = "off" /\ starts'[x] = 1)
    BY DEF QuestionsSound
  <2>1. CASE x = n
    BY <1>0, <1>1, <2>1
  <2>2. CASE x # n
    <3>1. q \in Items(net[x][y])
      BY <1>3, <2>2, ItemsOf
    <3>2. q.sv \subseteq ins[x] \/ (phase[x] = "off" /\ starts[x] = 1)
      BY <3>1 DEF KnowInv, QuestionsSound
    <3> QED
      BY <1>0, <1>1, <1>2, <2>2, <3>2 DEF StayOff
  <2> QED
    BY <2>1, <2>2
<1>11. ASSUME NEW a \in Node, NEW b \in Node, Pair(a, b), phase'[a] = phase[a], phase'[b] = phase[b], Reaches(a, b)
       PROVE  Reaches(a, b)'
  <2>1. a # n /\ b # n
    BY <1>1, <1>11
  <2>2. /\ ins[b] \subseteq ins'[b] /\ SyncInv
        /\ Items(queue[a]) \subseteq Items(queue'[a]) /\ Items(queue[b]) \subseteq Items(queue'[b])
        /\ Items(net[a][b]) \subseteq Items(net'[a][b]) /\ Items(net[b][a]) \subseteq Items(net'[b][a])
        /\ (b \in todo[a] => b \in todo'[a]) /\ (a \in todo[b] => a \in todo'[b])
        /\ pulling[b] = Entry(a) => pulling'[b] = Entry(a)
        /\ Entry(b) \in known[a] => Entry(b) \in known'[a]
    BY <1>2, <1>3, <1>4, <2>1 DEF Typed
  <2> QED
    BY <1>0, <1>11, <2>2, ReachStays
<1>12. Exchange'
  BY <1>1, <1>11, ExchangeBy DEF KnowInv
<1> QED
  BY <1>7, <1>8, <1>9, <1>10, <1>12 DEF KnowInv

----------------------------------------------------------------------------
(* RingNode.start.                                                         *)

LEMMA RegisterKnow == ASSUME Typed, KnowInv, NEW n \in Node, Register(n) PROVE KnowInv'
<1> DEFINE event == [kind |-> "join", peers |-> {<<n, starts[n] + 1>>}]
<1>0. /\ phase[n] = "off" /\ starts[n] = 0 /\ starts' = [starts EXCEPT ![n] = @ + 1]
      /\ phase' = [phase EXCEPT ![n] = "registered"] /\ Notify(n, event)
      /\ UNCHANGED <<ins, base, known, listing, todo, pulling, net>> /\ ChainKept
  BY Same DEF Register, docVars, loopVars, Typed, SyncInv, LifeType, StartOnce
<1>1. /\ \A x \in Node : x # n => phase'[x] = phase[x] /\ starts'[x] = starts[x]
      /\ phase'[n] = "registered"
  BY <1>0 DEF Typed, SyncInv, LifeType
<1>2. event.kind = "join" /\ event.peers = {Entry(n)} /\ Entry(n) \in Process
  BY <1>0, Entries DEF Entry, Typed
<1>3. event \in [kind : {"join", "leave", "list"}, peers : SUBSET Process]
  BY <1>2
<1> HIDE DEF event
<1>4. ASSUME NEW x \in Node
      PROVE  /\ Items(queue[x]) \subseteq Items(queue'[x]) /\ Items(queue'[x]) \subseteq Items(queue[x]) \cup {event}
             /\ x # n /\ Watching(x) => event \in Items(queue'[x])
  <2>1. queue'[x] = IF x # n /\ Watching(x) THEN Append(queue[x], event) ELSE queue[x]
    BY <1>0 DEF Notify
  <2>2. queue[x] \in Events
    BY DEF Typed, PeerInv
  <2>3. Items(Append(queue[x], event)) = Items(queue[x]) \cup {event}
    BY <1>3, <2>2, EventAdded
  <2>4. CASE x # n /\ Watching(x)
    BY <2>1, <2>3, <2>4
  <2>5. CASE ~(x # n /\ Watching(x))
    BY <2>1, <2>5
  <2> QED
    BY <2>4, <2>5
<1>5. ASSUME NEW x \in Node, x # n, phase[x] \notin {"off", "registered"} PROVE Mentions(x, n)'
  BY <1>2, <1>4, <1>5 DEF Watching, Mentions
<1>6. ASSUME NEW x \in Node, NEW y, Mentions(x, y) PROVE Mentions(x, y)'
  BY <1>4, <1>6, MentionStays
<1>7. EventsSound'
  <2> SUFFICES ASSUME NEW x \in Node, NEW e \in Items(queue'[x])
               PROVE  /\ e.kind = "join" => \E p \in Process : e.peers = {p}
                      /\ e.kind = "leave" => \A p \in e.peers : phase'[p[1]] = "off" /\ starts'[p[1]] = 1
    BY DEF EventsSound
  <2>1. CASE e = event
    BY <1>2, <2>1
  <2>2. CASE e \in Items(queue[x])
    <3>1. /\ e.kind = "join" => \E p \in Process : e.peers = {p}
          /\ e.kind = "leave" => \A p \in e.peers : phase[p[1]] = "off" /\ starts[p[1]] = 1
      BY <2>2 DEF KnowInv, EventsSound
    <3>2. \A p \in e.peers : p[1] \in Node
      BY <2>2, QueuePeers, Entries DEF Typed
    <3>3. \A k \in Node : starts[k] = 1 => k # n
      BY <1>0
    <3> QED
      BY <1>1, <3>1, <3>2, <3>3
  <2> QED
    BY <1>4, <2>1, <2>2
<1>8. Discovery'
  <2> SUFFICES ASSUME NEW x \in Node, NEW y \in Node, x # y,
                      phase'[x] \in {"listening", "listed", "joined"}, phase'[y] # "off"
               PROVE  HearsOf(x, y)'
    BY DEF Discovery
  <2>1. x # n /\ phase'[x] = phase[x]
    BY <1>1
  <2>2. CASE y = n
    BY <1>5, <2>1, <2>2 DEF HearsOf
  <2>3. CASE y # n
    <3>1. HearsOf(x, y)
      BY <1>1, <2>1, <2>3 DEF KnowInv, Discovery
    <3>2. Mentions(x, y) => Mentions(x, y)'
      BY <1>6
    <3> QED
      BY <1>0, <2>1, <3>1, <3>2 DEF HearsOf
  <2> QED
    BY <2>2, <2>3
<1>9. OwnEntry'
  <2> SUFFICES ASSUME NEW x \in Node, phase'[x] = "joined" PROVE Shows(ins'[x], base', Entry(x))
    BY DEF OwnEntry
  <2>1. phase[x] = "joined"
    BY <1>1
  <2> QED
    BY <1>0, <2>1 DEF KnowInv, OwnEntry
<1>10. QuestionsSound'
  <2> SUFFICES ASSUME NEW x \in Node, NEW y \in Node, NEW q \in Items(net[x][y]), q.kind = "step1"
               PROVE  q.sv \subseteq ins[x] \/ (phase'[x] = "off" /\ starts'[x] = 1)
    BY <1>0 DEF QuestionsSound
  <2>1. q.sv \subseteq ins[x] \/ (phase[x] = "off" /\ starts[x] = 1)
    BY DEF KnowInv, QuestionsSound
  <2>2. starts[x] = 1 => x # n
    BY <1>0
  <2> QED
    BY <1>1, <2>1, <2>2
<1>11. Exchange'
  <2> SUFFICES ASSUME NEW a \in Node, NEW b \in Node, Pair(a, b)' PROVE Reaches(a, b)'
    BY DEF Exchange
  <2>1. a # b /\ a # n /\ phase[a] = "joined"
    BY <1>1 DEF Pair
  <2>2. CASE b = n
    BY <1>5, <2>1, <2>2 DEF Reaches, WillPush
  <2>3. CASE b # n
    <3>1. phase'[b] = phase[b] /\ Pair(a, b)
      BY <1>1, <2>1, <2>3 DEF Pair
    <3>2. Reaches(a, b)
      BY <3>1 DEF KnowInv, Exchange
    <3>3. /\ ins[b] \subseteq ins'[b] /\ SyncInv
          /\ Items(queue[a]) \subseteq Items(queue'[a]) /\ Items(queue[b]) \subseteq Items(queue'[b])
          /\ Items(net[a][b]) \subseteq Items(net'[a][b]) /\ Items(net[b][a]) \subseteq Items(net'[b][a])
          /\ (b \in todo[a] => b \in todo'[a]) /\ (a \in todo[b] => a \in todo'[b])
          /\ pulling[b] = Entry(a) => pulling'[b] = Entry(a)
          /\ Entry(b) \in known[a] => Entry(b) \in known'[a]
      BY <1>0, <1>4 DEF Typed
    <3> QED
      BY <1>0, <3>1, <3>2, <3>3, ReachStays
  <2> QED
    BY <2>2, <2>3
<1> QED
  BY <1>7, <1>8, <1>9, <1>10, <1>11 DEF KnowInv

\* n comes closer to joining, and hears of everybody that is there.
LEMMA NearerKnow ==
    ASSUME Typed, KnowInv, NEW n \in Node, phase[n] \in {"registered", "listening"},
           NEW next \in {"listening", "listed"}, phase' = [phase EXCEPT ![n] = next],
           UNCHANGED <<starts, ins, base, known, todo, pulling, net>>,
           \A x \in Node : x # n => queue'[x] = queue[x] /\ listing'[x] = listing[x],
           \A e \in Items(queue'[n]) : e \in Items(queue[n]) \/ e.kind = "list",
           \A y \in Node : y # n /\ phase[y] # "off" => HearsOf(n, y)'
    PROVE  KnowInv'
<1>1. /\ \A x \in Node : x # n => phase'[x] = phase[x]
      /\ phase'[n] = next
  BY DEF Typed, SyncInv, LifeType
<1>2. StayOff /\ ChainKept /\ Grows
  BY <1>1, Same DEF StayOff, Grows
<1>3. EventsSound'
  <2> SUFFICES ASSUME NEW x \in Node, NEW e \in Items(queue'[x])
               PROVE  /\ e.kind = "join" => \E p \in Process : e.peers = {p}
                      /\ e.kind = "leave" => \A p \in e.peers : phase'[p[1]] = "off" /\ starts'[p[1]] = 1
    BY DEF EventsSound
  <2>1. CASE e.kind = "list"
    BY <2>1
  <2>2. CASE e \in Items(queue[x])
    <3>1. /\ e.kind = "join" => \E p \in Process : e.peers = {p}
          /\ e.kind = "leave" => \A p \in e.peers : phase[p[1]] = "off" /\ starts[p[1]] = 1
      BY <2>2 DEF KnowInv, EventsSound
    <3>2. \A p \in e.peers : p[1] \in Node
      BY <2>2, QueuePeers, Entries DEF Typed
    <3> QED
      BY <1>2, <3>1, <3>2 DEF StayOff
  <2> QED
    BY <2>1, <2>2
<1>4. Discovery'
  <2> SUFFICES ASSUME NEW x \in Node, NEW y \in Node, x # y,
                      phase'[x] \in {"listening", "listed", "joined"}, phase'[y] # "off"
               PROVE  HearsOf(x, y)'
    BY DEF Discovery
  <2>1. phase[y] # "off"
    BY <1>1
  <2>2. CASE x = n
    BY <2>1, <2>2
  <2>3. CASE x # n
    <3>1. HearsOf(x, y)
      BY <1>1, <2>1, <2>3 DEF KnowInv, Discovery
    <3> QED
      BY <1>1, <2>3, <3>1 DEF HearsOf, Mentions
  <2> QED
    BY <2>2, <2>3
<1>5. OwnEntry'
  <2> SUFFICES ASSUME NEW x \in Node, phase'[x] = "joined" PROVE Shows(ins'[x], base', Entry(x))
    BY DEF OwnEntry
  <2>1. phase[x] = "joined"
    BY <1>1
  <2> QED
    BY <2>1 DEF KnowInv, OwnEntry
<1>6. QuestionsSound'
  BY <1>2, QuestionsKept DEF KnowInv
<1>7. Exchange'
  <2> SUFFICES ASSUME NEW a \in Node, NEW b \in Node, Pair(a, b)' PROVE Reaches(a, b)'
    BY DEF Exchange
  <2>1. a # b /\ a # n /\ phase[a] = "joined" /\ Pair(a, b)
    BY <1>1 DEF Pair
  <2>2. Reaches(a, b)
    BY <2>1 DEF KnowInv, Exchange
  <2>3. Items(queue[a]) \subseteq Items(queue'[a])
    BY <2>1
  <2>4. CASE b = n
    <3>1. WillAsk(b, a)'
      BY <1>1, <2>4 DEF WillAsk
    <3>2. CASE Shows(ins[b], base, Entry(a))
      BY <1>2, <3>2, ShownStays DEF Typed
    <3>3. CASE WillPush(a, b)
      BY <2>3, <3>3, WillPushStays
    <3>4. CASE Entry(b) \in known[a]
      BY <3>1, <3>4 DEF Reaches
    <3>5. CASE UnderWay(a, b)
      BY <1>1, <1>2, <2>4, <3>5, UnderWayStays DEF Typed
    <3> QED
      BY <2>2, <3>2, <3>3, <3>4, <3>5 DEF Reaches
  <2>5. CASE b # n
    <3>1. phase'[b] = phase[b] /\ Items(queue[b]) \subseteq Items(queue'[b])
      BY <1>1, <2>5
    <3> QED
      BY <1>2, <2>2, <2>3, <3>1, ReachStays DEF Typed
  <2> QED
    BY <2>4, <2>5
<1> QED
  BY <1>3, <1>4, <1>5, <1>6, <1>7 DEF KnowInv

LEMMA WireKnow == ASSUME Typed, KnowInv, NEW n \in Node, Wire(n) PROVE KnowInv'
<1> DEFINE there == {Current(m) : m \in {x \in Node \ {n} : phase[x] # "off"}}
           list == [kind |-> "list", peers |-> there]
<1>1. /\ phase[n] = "registered" /\ phase' = [phase EXCEPT ![n] = "listening"]
      /\ queue' = [queue EXCEPT ![n] = <<list>>]
      /\ UNCHANGED <<starts, ins, base, known, listing, todo, pulling, net>>
  BY DEF Wire, lifeVars, docVars, loopVars
<1>2. list.kind = "list" /\ list.peers = there
  OBVIOUS
<1>3. \A y \in Node : y # n /\ phase[y] # "off" => Entry(y) \in there
  BY CurrentEntry DEF Typed, SyncInv
<1> HIDE DEF there, list
<1>4. queue'[n] = <<list>> /\ \A x \in Node : x # n => queue'[x] = queue[x]
  BY <1>1 DEF Typed, PeerInv
<1>5. Items(queue'[n]) = {list}
  BY <1>4, ItemsOf
<1>6. \A y \in Node : y # n /\ phase[y] # "off" => HearsOf(n, y)'
  BY <1>2, <1>3, <1>5 DEF HearsOf, Mentions
<1>7. \A e \in Items(queue'[n]) : e \in Items(queue[n]) \/ e.kind = "list"
  BY <1>2, <1>5
<1> QED
  BY <1>1, <1>4, <1>6, <1>7, NearerKnow

LEMMA ListedKnow == ASSUME Typed, KnowInv, NEW n \in Node, Listed(n) PROVE KnowInv'
<1>1. /\ phase[n] = "listening" /\ phase' = [phase EXCEPT ![n] = "listed"] /\ queue[n] # <<>>
      /\ queue' = [queue EXCEPT ![n] = Tail(@)]
      /\ listing' = [listing EXCEPT ![n] = Head(queue[n]).peers]
      /\ UNCHANGED <<starts, ins, base, known, todo, pulling, net>>
  BY DEF Listed, lifeVars, docVars
<1>2. /\ \A x \in Node : x # n => queue'[x] = queue[x] /\ listing'[x] = listing[x]
      /\ listing'[n] = Head(queue[n]).peers /\ phase'[n] = "listed"
  BY <1>1 DEF Typed, PeerInv, SyncInv, LifeType
<1>3. Items(queue[n]) = {Head(queue[n])} \cup Items(queue'[n])
  BY <1>1, EventItems DEF Typed
<1>4. ASSUME NEW y \in Node, y # n, phase[y] # "off" PROVE HearsOf(n, y)'
  <2>1. HearsOf(n, y)
    BY <1>1, <1>4 DEF KnowInv, Discovery
  <2>2. CASE Entry(y) \in known[n]
    BY <1>1, <2>2 DEF HearsOf
  <2>3. CASE Mentions(n, y)
    <3>1. Mentions(n, y)' \/ Entry(y) \in Head(queue[n]).peers
      BY <1>1, <2>3, MentionTaken DEF Typed
    <3> QED
      BY <1>2, <3>1 DEF HearsOf
  <2>4. CASE phase[n] = "listed"
    BY <1>1, <2>4
  <2> QED
    BY <2>1, <2>2, <2>3, <2>4 DEF HearsOf
<1> QED
  BY <1>1, <1>2, <1>3, <1>4, NearerKnow

\* A node that joins has made no entry before, so it makes one now.
LEMMA JoinMakes ==
    ASSUME Typed, NEW n \in Node, Join(n)
    PROVE  /\ Entry(n) \notin Made /\ Current(n) = Entry(n) /\ EntriesOf(n, n) = {}
           /\ ins' = [ins EXCEPT ![n] = @ \cup {Entry(n)}]
           /\ \E last \in Integrated(ins[n]) \cup {None} : base' = [base EXCEPT ![Entry(n)] = last]
           /\ Broadcast(n, AddPeers(known[n], listing[n]), {Entry(n)}, {})
<1>1. phase[n] = "listed" /\ Current(n) = Entry(n)
  BY CurrentEntry DEF Join, Typed, SyncInv
<1>2. Entry(n) \notin Made
  BY <1>1, Entries DEF Made, Typed
<1>3. EntriesOf(n, n) = {}
  <2> SUFFICES ASSUME NEW p \in EntriesOf(n, n) PROVE FALSE
    OBVIOUS
  <2>1. p \in ins[n] /\ p[1] = n
    BY IntegratedClosed DEF EntriesOf, Members
  <2>2. p \in Made /\ p \in Process
    BY <2>1, Held DEF Typed, Made
  <2>3. p = Entry(n)
    BY <2>1, <2>2, Entries DEF Typed
  <2> QED
    BY <1>2, <2>2, <2>3
<1>4. /\ ins' = [ins EXCEPT ![n] = @ \cup {Entry(n)}]
      /\ \E last \in IF Integrated(ins[n]) = {} THEN {None} ELSE Integrated(ins[n]) :
           base' = [base EXCEPT ![Entry(n)] = last]
      /\ Broadcast(n, AddPeers(known[n], listing[n]), {Entry(n)}, {})
  BY <1>1, <1>3 DEF Join
<1> QED
  BY <1>1, <1>2, <1>3, <1>4

LEMMA JoinKnow == ASSUME Typed, KnowInv, NEW n \in Node, Join(n) PROVE KnowInv'
<1> DEFINE peers == AddPeers(known[n], listing[n])
           entry == Entry(n)
           f == <<Update({entry}, {}, TRUE)>>
<1>1. /\ phase[n] = "listed" /\ phase' = [phase EXCEPT ![n] = "joined"]
      /\ known' = [known EXCEPT ![n] = peers] /\ listing' = [listing EXCEPT ![n] = {}]
      /\ todo' = [todo EXCEPT ![n] = Identifiers(peers)]
      /\ UNCHANGED <<starts, pulling, queue>>
  BY DEF Join, lifeVars, Identifiers
<1>2. /\ entry \notin Made /\ ins' = [ins EXCEPT ![n] = @ \cup {entry}] /\ Send(n, peers, f)
      /\ \E last \in Integrated(ins[n]) \cup {None} : base' = [base EXCEPT ![entry] = last]
  BY JoinMakes DEF Broadcast
<1>3. known[n] \subseteq peers /\ listing[n] \subseteq peers
  <2>1. known[n] \subseteq Process /\ listing[n] \subseteq Process
    BY DEF Typed, PeerInv
  <2> QED
    BY <2>1, Entries DEF AddPeers, PeerOf, Typed
<1>4. f \in Seq(MessageOf(Process, Gone)) /\ Items(f) = {Update({entry}, {}, TRUE)}
  <2>1. Update({entry}, {}, TRUE) \in MessageOf(Process, Gone)
    BY Entries DEF Update, Message, MessageOf, Typed
  <2> QED
    BY <2>1, ShortSeqs, ItemsOf
<1>5. Update({entry}, {}, TRUE).kind # "step1"
  BY DEF Update, Message
<1> HIDE DEF peers, f
<1>6. /\ \A x \in Node : x # n => /\ phase'[x] = phase[x] /\ known'[x] = known[x] /\ listing'[x] = listing[x]
                                  /\ todo'[x] = todo[x] /\ ins'[x] = ins[x]
      /\ phase'[n] = "joined" /\ known'[n] = peers /\ todo'[n] = Identifiers(peers)
      /\ ins'[n] = ins[n] \cup {entry}
  BY <1>1, <1>2 DEF Typed, SyncInv, LifeType, Within, PeerInv
<1>7. \A x, y \in Node : /\ Items(net[x][y]) \subseteq Items(net'[x][y])
                         /\ Items(net'[x][y]) \subseteq Items(net[x][y]) \cup (IF x = n THEN Items(f) ELSE {})
  <2>1. Within(Process, Gone, ins, del, net)
    BY WithinGrows DEF Typed, SyncInv, Made
  <2> QED
    BY <1>2, <1>4, <2>1, SentItems
<1>8. StayOff /\ Grows
  BY <1>6, <1>1 DEF StayOff, Grows
<1>9. PICK last \in Integrated(ins[n]) \cup {None} : base' = [base EXCEPT ![entry] = last]
  BY <1>2
<1>10. base'[entry] = last /\ \A p \in Made : base'[p] = base[p]
  BY <1>2, <1>9, Entries DEF Typed, PeerInv
<1>11. ChainKept
  BY <1>10 DEF ChainKept
<1>12. ASSUME NEW b \in Node, n # b, phase[b] # "off" PROVE Mentions(n, b)' \/ b \in todo'[n]
  <2>1. HearsOf(n, b)
    BY <1>1, <1>12 DEF KnowInv, Discovery
  <2>2. CASE Mentions(n, b)
    BY <1>1, <2>2 DEF Mentions
  <2>3. CASE Entry(b) \in peers
    BY <1>6, <2>3, Entries DEF Identifiers, Typed
  <2> QED
    BY <1>3, <2>1, <2>2, <2>3 DEF HearsOf
<1>13. EventsSound'
  BY <1>1, <1>8, EventsKept DEF KnowInv
<1>14. Discovery'
  <2> SUFFICES ASSUME NEW x \in Node, NEW y \in Node, x # y,
                      phase'[x] \in {"listening", "listed", "joined"}, phase'[y] # "off"
               PROVE  HearsOf(x, y)'
    BY DEF Discovery
  <2>1. phase[y] # "off" /\ phase[x] \in {"listening", "listed", "joined"}
    BY <1>1, <1>6
  <2>2. HearsOf(x, y)
    BY <2>1 DEF KnowInv, Discovery
  <2>3. Mentions(x, y) => Mentions(x, y)'
    BY <1>1 DEF Mentions
  <2>4. CASE x = n
    BY <1>3, <1>6, <2>2, <2>3, <2>4 DEF HearsOf
  <2>5. CASE x # n
    BY <1>6, <2>2, <2>3, <2>5 DEF HearsOf
  <2> QED
    BY <2>4, <2>5
<1>15. OwnEntry'
  <2> SUFFICES ASSUME NEW x \in Node, phase'[x] = "joined" PROVE Shows(ins'[x], base', Entry(x))
    BY DEF OwnEntry
  <2>1. CASE x = n
    <3> DEFINE T == Integrated(ins[n]) \cup {entry}
    <3>1. T \subseteq ins'[n] /\ entry \in T
      BY <1>6, IntegratedClosed
    <3>2. Integrated(ins[n]) \subseteq Made
      BY IntegratedClosed, Held DEF Typed
    <3>3. Closed(Integrated(ins[n]), base)
      BY IntegratedClosed
    <3>4. Closed(T, base')
      BY <1>10, <3>2, <3>3 DEF Closed
    <3> QED
      BY <2>1, <3>1, <3>4 DEF Shows
  <2>2. CASE x # n
    <3>1. Shows(ins[x], base, Entry(x)) /\ ins[x] \subseteq Made
      BY <1>6, <2>2, Held DEF KnowInv, OwnEntry, Typed
    <3> QED
      BY <1>6, <1>11, <2>2, <3>1, ShowsKept DEF ChainKept
  <2> QED
    BY <2>1, <2>2
<1>16. QuestionsSound'
  BY <1>1, <1>4, <1>5, <1>7, <1>8, QuestionsKept DEF KnowInv
<1>17. Exchange'
  <2> SUFFICES ASSUME NEW a \in Node, NEW b \in Node, Pair(a, b)' PROVE Reaches(a, b)'
    BY DEF Exchange
  <2>1. a # b /\ phase[a] # "off" /\ phase[b] # "off"
    BY <1>1, <1>6 DEF Pair
  <2>2. CASE a = n
    BY <1>12, <2>1, <2>2 DEF Reaches, WillPush
  <2>3. CASE a # n
    <3>1. Pair(a, b) /\ todo'[a] = todo[a] /\ known'[a] = known[a]
      BY <1>1, <1>6, <2>3 DEF Pair
    <3>2. Reaches(a, b)
      BY <3>1 DEF KnowInv, Exchange
    <3>3. ins[b] \subseteq ins'[b] /\ Items(net[a][b]) \subseteq Items(net'[a][b]) /\ SyncInv
      BY <1>7, <1>8 DEF Grows, Typed
    <3>4. CASE b = n
      <4>1. WillAsk(b, a)'
        BY <1>12, <2>1, <3>4 DEF WillAsk
      <4>2. CASE Shows(ins[b], base, Entry(a))
        BY <1>11, <3>3, <4>2, ShownStays
      <4>3. CASE WillPush(a, b)
        BY <1>1, <3>1, <4>3, WillPushStays
      <4>4. CASE Entry(b) \in known[a]
        BY <3>1, <4>1, <4>4 DEF Reaches
      <4>5. CASE UnderWay(a, b)
        BY <1>6, <1>11, <3>3, <3>4, <4>5, UnderWayStays
      <4> QED
        BY <3>2, <4>2, <4>3, <4>4, <4>5 DEF Reaches
    <3>5. CASE b # n
      BY <1>1, <1>6, <1>7, <1>11, <3>1, <3>2, <3>3, <3>5, ReachStays
    <3> QED
      BY <3>4, <3>5
  <2> QED
    BY <2>2, <2>3
<1> QED
  BY <1>13, <1>14, <1>15, <1>16, <1>17 DEF KnowInv

----------------------------------------------------------------------------

\* The founders hold each other's entries and have nothing to say.
LEMMA KnowInvInit == ASSUME StartOnce, Init PROVE KnowInv
<1>1. PICK F \in SUBSET Node :
        /\ phase = [n \in Node |-> IF n \in F THEN "joined" ELSE "off"]
        /\ ins = [n \in Node |-> IF n \in F THEN F \X {1} ELSE {}]
        /\ known = [n \in Node |-> IF n \in F THEN (F \ {n}) \X {1} ELSE {}]
  BY CastsAssumption DEF Init
<1>2. /\ base = [p \in Process |-> None] /\ queue = [n \in Node |-> <<>>]
      /\ net = [n \in Node |-> [m \in Node |-> <<>>]]
  BY DEF Init
<1>3. \A n, m \in Node : Items(queue[n]) = {} /\ Items(net[n][m]) = {}
  BY <1>2, ItemsOf
<1>4. EventsSound /\ QuestionsSound
  BY <1>3 DEF EventsSound, QuestionsSound
<1>5. \A n, m \in Node : phase[n] # "off" /\ phase[m] # "off" =>
        phase[n] = "joined" /\ (n # m => Entry(m) \in known[n])
  BY <1>1 DEF Entry
<1>6. Discovery
  BY <1>5 DEF Discovery, HearsOf
<1>7. ASSUME NEW n \in Node, NEW m \in Node, phase[n] # "off", phase[m] # "off"
      PROVE  Shows(ins[m], base, Entry(n))
  <2>1. Entry(n) \in ins[m]
    BY <1>1, <1>7 DEF Entry
  <2>2. base[Entry(n)] = None
    BY <1>2, Entries
  <2>3. Closed({Entry(n)}, base) /\ {Entry(n)} \in SUBSET ins[m]
    BY <2>1, <2>2 DEF Closed
  <2> QED
    BY <2>3 DEF Shows
<1>8. OwnEntry
  BY <1>7 DEF OwnEntry
<1>9. Exchange
  BY <1>7 DEF Exchange, Pair, Reaches
<1> QED
  BY <1>4, <1>6, <1>8, <1>9 DEF KnowInv

LEMMA KnowInvStep == Typed /\ KnowInv /\ [Next]_vars => KnowInv'
<1> SUFFICES ASSUME Typed, KnowInv, [Next]_vars PROVE KnowInv'
  OBVIOUS
<1>1. CASE UNCHANGED vars
  BY <1>1 DEF vars, lifeVars, docVars, loopVars, KnowInv, EventsSound, Discovery, HearsOf, Mentions,
              OwnEntry, QuestionsSound, Exchange, Pair, Reaches, WillPush, WillAsk, Asks, UnderWay
<1>2. ASSUME NEW n \in Node, Start(n) PROVE KnowInv'
  BY <1>2, WireKnow, ListedKnow, JoinKnow, SyncPushKnow, SyncPullKnow DEF Start
<1>3. ASSUME NEW n \in Node, Unregister(n) \/ Rejected(n) \/ Crash(n) PROVE KnowInv'
  BY <1>3, EndKnow DEF Unregister, Rejected, Crash
<1>4. ASSUME NEW n \in Node, NEW m \in Node, Handle(n, m) \/ Cleanup(n, m) PROVE KnowInv'
  BY <1>4, ReceiveUpdateKnow, ReceiveStep1Know, ReceiveStep2Know, IgnoreKnow, CleanupKnow DEF Handle
<1> QED
  BY <1>1, <1>2, <1>3, <1>4, RegisterKnow, PeerJoinKnow, PeerLeaveKnow, LeaveKnow DEF Next

\* Nothing is on its way any more, so every entry is where it should be.
LEMMA SettledKnow ==
    ASSUME Typed, KnowInv, Settled, NEW a \in Node, NEW b \in Node, phase[a] = "joined", phase[b] = "joined",
           Current(b) \notin mistaken
    PROVE  EntriesOf(a, b) # {}
<1>1. Items(net[a][b]) = {} /\ Items(net[b][a]) = {} /\ Items(queue[a]) = {} /\ Items(queue[b]) = {}
  BY ItemsOf DEF Settled
<1>2. \A n \in Node : todo[n] = {} /\ pulling[n] = None
  BY DEF Settled, Syncing
<1>3. Shows(ins[a], base, Entry(b))
  <2>1. CASE a = b
    BY <2>1 DEF KnowInv, OwnEntry
  <2>2. CASE a # b
    <3>1. Reaches(b, a)
      BY <2>2 DEF KnowInv, Exchange, Pair
    <3>2. ~WillPush(b, a)
      BY <1>1, <1>2 DEF WillPush, Mentions
    <3>3. Entry(b) # None
      BY Entries, NoneAssumption DEF Typed
    <3>4. ~WillAsk(a, b)
      BY <1>1, <1>2, <3>3 DEF WillAsk, Mentions, Asks
    <3>5. ~UnderWay(b, a)
      BY <1>1 DEF UnderWay
    <3> QED
      BY <3>1, <3>2, <3>4, <3>5 DEF Reaches
  <2> QED
    BY <2>1, <2>2
<1>4. Entry(b) \in Integrated(ins[a]) /\ Entry(b)[1] = b
  BY <1>3, IntegratedShows, Entries DEF Typed
<1>5. Entry(b) \notin del[a]
  <2>1. Entry(b) \notin Gone
    <3>1. Entry(b) = Current(b)
      BY CurrentEntry DEF Typed, SyncInv
    <3> QED
      BY <1>4, <3>1 DEF Gone
  <2> QED
    BY <2>1 DEF Typed, SyncInv, Within
<1> QED
  BY <1>4, <1>5 DEF EntriesOf, Members

\* When every node starts at most once, and everything that was sent has arrived,
\* every node that joined is a member in the eyes of every other, unless it was taken
\* for dead.
THEOREM KnowCorrect == StartOnce => (Spec => []SettledKnowEachOther)
<1> SUFFICES ASSUME StartOnce PROVE Spec => []SettledKnowEachOther
  OBVIOUS
<1>1. SyncInv /\ PeerInv /\ KnowInv => SettledKnowEachOther
  BY SettledKnow DEF SettledKnowEachOther, Typed
<1>2. Init => KnowInv
  BY KnowInvInit
<1>3. SyncInv /\ PeerInv /\ KnowInv /\ [Next]_vars => KnowInv'
  BY KnowInvStep DEF Typed
<1> QED
  BY <1>1, <1>2, <1>3, SyncInvInit, SyncInvStep, PeerInvInit, PeerInvStep, PTL DEF Spec
=============================================================================

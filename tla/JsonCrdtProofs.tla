--------------------------- MODULE JsonCrdtProofs ---------------------------
(***************************************************************************)
(* Proofs about JsonCrdt, for any number of replicas, paths and values and *)
(* any options: types, causal delivery, the order of the stamps, and what  *)
(* the document holds.                                                     *)
(***************************************************************************)
EXTENDS JsonCrdt, SequenceTheorems, TLAPS

----------------------------------------------------------------------------
(* The operators the actions are built from keep their types. *)

\* Reading the clock for a local operation gives a clock of that replica, later
\* than the one before by time or counter.
LEMMA TickType ==
    ASSUME NEW r \in Replica, NEW h \in HlcOf(Replica), NEW now \in Nat
    PROVE  /\ Tick(h, now, r) \in HlcOf(Replica)
           /\ Tick(h, now, r).r = r
           /\ Before(h, Tick(h, now, r))
BY ReplicaAssumption DEF Tick, HlcOf, Before

\* Merging gives a clock of the replica that is past both arguments.
LEMMA MergeType ==
    ASSUME NEW r \in Replica, NEW h \in HlcOf(Replica), NEW g \in HlcOf(Replica)
    PROVE  /\ Merge(h, g, r) \in HlcOf(Replica)
           /\ Before(h, Merge(h, g, r)) /\ Before(g, Merge(h, g, r))
BY ReplicaAssumption DEF Merge, HlcOf, Before

\* The two edits of a document give documents.
LEMMA DocumentType ==
    ASSUME NEW d \in Document, NEW p \in Path, NEW v \in Value \cup {Absent}
    PROVE  setAtPath(d, p, v) \in Document /\ delAtPath(d, p) \in Document
BY DEF Document, setAtPath, delAtPath

\* What is left of a buffer is made of the items it had.
LEMMA ThinningsType ==
    ASSUME NEW S, NEW s \in Seq(S), NEW kept \in Thinnings(s)
    PROVE  kept \in Seq(S)
<1>1. PICK n \in 0 .. Len(s) :
        \E f \in [1 .. n -> 1 .. Len(s)] : kept = [i \in 1 .. n |-> s[f[i]]]
  BY DEF Thinnings
<1>2. PICK f \in [1 .. n -> 1 .. Len(s)] : kept = [i \in 1 .. n |-> s[f[i]]]
  BY <1>1
<1>3. n \in Nat /\ \A i \in 1 .. n : s[f[i]] \in S
  BY <1>2, LenProperties, ElementOfSeq
<1> QED
  BY <1>2, <1>3, IsASeq

\* So is a buffer that is perhaps cleaned.
LEMMA CleanedType ==
    ASSUME NEW S, NEW s \in Seq(S), NEW tooLong, NEW kept \in Cleaned(s, tooLong)
    PROVE  kept \in Seq(S)
BY ThinningsType DEF Cleaned

\* A log cut at its front is made of the operations it had.
LEMMA KeepLastType ==
    ASSUME NEW S, NEW s \in Seq(S), NEW n \in Nat
    PROVE  KeepLast(s, n) \in Seq(S)
<1>1. \A i \in Len(s) - n + 1 .. Len(s) : n < Len(s) => s[i] \in S
  BY ElementOfSeq
<1>2. CASE n < Len(s)
  BY <1>1, <1>2, SubSeqProperties DEF KeepLast
<1>3. CASE ~(n < Len(s))
  BY <1>3 DEF KeepLast
<1> QED
  BY <1>2, <1>3

\* applyOp leaves a document and two maps.
LEMMA ApplyType ==
    ASSUME TypeOK, NEW r \in Replica, NEW op \in Op
    PROVE  /\ DocAfter(r, op) \in Document
           /\ LwwAfter(r, op) \in [Key -> HlcOf(Replica) \cup {NoHlc}]
           /\ TombAfter(r, op) \in [Key -> HlcOf(Replica) \cup {NoHlc}]
<1>1. /\ op.path \in Path /\ op.value \in Value \cup {Absent} /\ op.hlc \in HlcOf(Replica)
      /\ KeyOf[op.path] \in Key
  BY KeyAssumption DEF Op
<1>2. doc[r] \in Document
  BY DEF TypeOK
<1>3. DocAfter(r, op) \in Document
  BY <1>1, <1>2, DocumentType DEF DocAfter
<1>4. /\ lww[r] \in [Key -> HlcOf(Replica) \cup {NoHlc}]
      /\ tomb[r] \in [Key -> HlcOf(Replica) \cup {NoHlc}]
  BY DEF TypeOK
<1> QED
  BY <1>1, <1>3, <1>4 DEF LwwAfter, TombAfter

\* set() and del() make operations, stamped later than the replica's clock.
LEMMA NewOpType ==
    ASSUME TypeOK, NEW r \in Replica, NEW kind \in {"set", "tombstone"},
           NEW p \in Path, NEW v \in Value \cup {Absent}, NEW op \in NewOps(r, kind, p, v)
    PROVE  /\ op \in Op
           /\ op.src = r /\ op.hlc.r = r /\ op.kind = kind /\ op.path = p
           /\ op.value = IF kind = "set" THEN v ELSE Absent
           /\ op.deps = vcTick(vc[r], r)
           /\ Before(hlc[r], op.hlc)
<1>1. PICK now \in Clock : op = makeLocalOp(r, kind, p, v, Tick(hlc[r], now, r))
  BY DEF NewOps
<1>2. vc[r] \in VectorClock /\ seq[r] \in Nat /\ hlc[r] \in HlcOf(Replica)
  BY DEF TypeOK
<1>3. vcTick(vc[r], r) \in VectorClock
  BY <1>2 DEF vcTick, VectorClock
<1>4. /\ Tick(hlc[r], now, r) \in HlcOf(Replica) /\ Tick(hlc[r], now, r).r = r
      /\ Before(hlc[r], Tick(hlc[r], now, r))
  BY <1>2, TickType, BoundsAssumption
<1> QED
  BY <1>1, <1>2, <1>3, <1>4 DEF makeLocalOp, Op

\* applyOp of a received operation keeps the types.
LEMMA ApplyRemoteType ==
    ASSUME TypeOK, NEW r \in Replica, NEW op \in Op, ApplyRemote(r, op)
    PROVE  /\ doc' \in [Replica -> Document]
           /\ vc' \in [Replica -> VectorClock]
           /\ hlc' \in [Replica -> HlcOf(Replica)]
           /\ lww' \in [Replica -> [Key -> HlcOf(Replica) \cup {NoHlc}]]
           /\ tomb' \in [Replica -> [Key -> HlcOf(Replica) \cup {NoHlc}]]
           /\ log' \in [Replica -> Seq(Op)]
           /\ applied' \in [Replica -> SUBSET Op]
<1>1. doc' \in [Replica -> Document]
  BY ApplyType DEF ApplyRemote, TypeOK
<1>2. lww' \in [Replica -> [Key -> HlcOf(Replica) \cup {NoHlc}]]
  BY ApplyType DEF ApplyRemote, TypeOK
<1>3. tomb' \in [Replica -> [Key -> HlcOf(Replica) \cup {NoHlc}]]
  BY ApplyType DEF ApplyRemote, TypeOK
<1>4. vcMerge(vc[r], op.deps) \in VectorClock
  <2>1. vc[r] \in VectorClock /\ op.deps \in VectorClock
    BY DEF TypeOK, Op
  <2> QED
    BY <2>1 DEF vcMerge, VectorClock
<1>5. vc' \in [Replica -> VectorClock]
  BY <1>4 DEF ApplyRemote, TypeOK
<1>6. Merge(hlc[r], op.hlc, r) \in HlcOf(Replica)
  BY MergeType DEF TypeOK, Op
<1>7. hlc' \in [Replica -> HlcOf(Replica)]
  BY <1>6 DEF ApplyRemote, TypeOK
<1>8. log' \in [Replica -> Seq(Op)]
  BY AppendProperties DEF ApplyRemote, TypeOK
<1>9. applied' \in [Replica -> SUBSET Op]
  BY DEF ApplyRemote, TypeOK
<1> QED
  BY <1>1, <1>2, <1>3, <1>5, <1>7, <1>8, <1>9

\* What a throw of applyOp leaves has the types too.
LEMMA ApplyThrowsType ==
    ASSUME TypeOK, NEW r \in Replica, NEW op \in Op, ApplyThrows(r, op)
    PROVE  /\ lww' \in [Replica -> [Key -> HlcOf(Replica) \cup {NoHlc}]]
           /\ doc' = doc /\ tomb' = tomb /\ vc' = vc /\ log' = log
           /\ hlc' = hlc /\ applied' = applied
BY ApplyType DEF ApplyThrows, TypeOK

\* drainPending is idle or at work on sequences of operations.
LEMMA StartDrainType ==
    ASSUME NEW r \in Replica, NEW items \in Seq(Op)
    PROVE  StartDrain(r, items) \in {Idle} \cup Draining
BY EmptySeq DEF StartDrain, Draining

----------------------------------------------------------------------------
(* Types *)

LEMMA InitType == Init => TypeOK
<1> SUFFICES ASSUME Init PROVE TypeOK
  OBVIOUS
<1>1. doc \in [Replica -> Document]
  BY DEF Init, EmptyDoc, Document
<1>2. /\ vc \in [Replica -> VectorClock] /\ seq \in [Replica -> Nat]
  BY DEF Init, VectorClock
<1>3. hlc \in [Replica -> HlcOf(Replica)]
  <2>1. PICK t \in [Replica -> Clock] :
          hlc = [r \in Replica |-> [t |-> t[r], c |-> 0, r |-> r]]
    BY DEF Init
  <2> QED
    BY <2>1, BoundsAssumption DEF HlcOf
<1>4. /\ lww \in [Replica -> [Key -> HlcOf(Replica) \cup {NoHlc}]]
      /\ tomb \in [Replica -> [Key -> HlcOf(Replica) \cup {NoHlc}]]
  BY DEF Init
<1>5. /\ log \in [Replica -> Seq(Op)] /\ pending \in [Replica -> Seq(Op)]
      /\ drain \in {Idle} \cup Draining
      /\ ops \in SUBSET Op /\ applied \in [Replica -> SUBSET Op]
  BY EmptySeq DEF Init
<1> QED
  BY <1>1, <1>2, <1>3, <1>4, <1>5 DEF TypeOK


\* A local operation keeps the types.
LEMMA FinishOpType ==
    ASSUME TypeOK, NEW r \in Replica, NEW op \in Op, NEW gcNow \in Clock,
           FinishOp(r, op, gcNow)
    PROVE  TypeOK'
<1>1. op.seq \in Nat /\ op.deps \in VectorClock /\ op.hlc \in HlcOf(Replica)
  BY DEF Op
<1>2. seq' \in [Replica -> Nat] /\ vc' \in [Replica -> VectorClock]
  BY <1>1 DEF TypeOK, FinishOp
<1>3. hlc' \in [Replica -> HlcOf(Replica)]
  BY <1>1, MergeType DEF TypeOK, FinishOp
<1>4. doc' \in [Replica -> Document]
  BY ApplyType DEF TypeOK, FinishOp
<1>5. lww' \in [Replica -> [Key -> HlcOf(Replica) \cup {NoHlc}]]
  BY ApplyType DEF TypeOK, FinishOp
<1>6. AutoGcTombs(TombAfter(r, op), gcNow) \in [Key -> HlcOf(Replica) \cup {NoHlc}]
  BY ApplyType DEF AutoGcTombs, FreshTombs
<1>7. tomb' \in [Replica -> [Key -> HlcOf(Replica) \cup {NoHlc}]]
  BY <1>6 DEF TypeOK, FinishOp
<1>8. AutoGcLog(Append(log[r], op)) \in Seq(Op)
  <2>1. Append(log[r], op) \in Seq(Op)
    BY AppendProperties DEF TypeOK
  <2> QED
    BY <2>1, KeepLastType, OptionsAssumption DEF AutoGcLog
<1>9. log' \in [Replica -> Seq(Op)]
  BY <1>8 DEF TypeOK, FinishOp
<1>10. pending' \in [Replica -> Seq(Op)]
  <2>1. pending[r] \in Seq(Op)
    BY DEF TypeOK
  <2>2. PICK kept \in Cleaned(pending[r], AutoGcTooLong(pending[r])) :
          pending' = [pending EXCEPT ![r] = kept]
    BY DEF FinishOp
  <2>4. kept \in Seq(Op)
    BY <2>1, <2>2, CleanedType
  <2> QED
    BY <2>2, <2>4 DEF TypeOK
<1>11. ops' \in SUBSET Op /\ applied' \in [Replica -> SUBSET Op]
  BY DEF TypeOK, FinishOp
<1>12. drain' \in {Idle} \cup Draining
  BY DEF TypeOK, FinishOp
<1> QED
  BY <1>2, <1>3, <1>4, <1>5, <1>7, <1>9, <1>10, <1>11, <1>12 DEF TypeOK

\* A set that throws keeps the types.
LEMMA FailOpType ==
    ASSUME TypeOK, NEW r \in Replica, NEW op \in Op, FailOp(r, op)
    PROVE  TypeOK'
<1>1. op.seq \in Nat /\ op.deps \in VectorClock /\ op.hlc \in HlcOf(Replica)
  BY DEF Op
<1>2. seq' \in [Replica -> Nat] /\ vc' \in [Replica -> VectorClock]
  BY <1>1 DEF TypeOK, FailOp
<1>3. hlc' \in [Replica -> HlcOf(Replica)]
  BY <1>1 DEF TypeOK, FailOp
<1>4. lww' \in [Replica -> [Key -> HlcOf(Replica) \cup {NoHlc}]]
  BY ApplyType DEF TypeOK, FailOp
<1> QED
  BY <1>2, <1>3, <1>4 DEF TypeOK, FailOp

\* Receiving an operation keeps the types.
LEMMA ReceiveType ==
    ASSUME TypeOK, NEW r \in Replica, NEW op \in ops, NEW kept \in Thinnings(pending[r]),
           ReceiveEarly(r, op, kept) \/ ReceiveReady(r, op, kept)
    PROVE  TypeOK'
<1>1. op \in Op /\ pending[r] \in Seq(Op)
  BY DEF TypeOK
<1>2. kept \in Seq(Op)
  BY <1>1, ThinningsType
<1>3. CASE ReceiveEarly(r, op, kept)
  <2>1. Append(kept, op) \in Seq(Op)
    BY <1>1, <1>2, AppendProperties
  <2> QED
    BY <1>3, <2>1 DEF ReceiveEarly, TypeOK
<1>4. CASE ReceiveReady(r, op, kept)
  <2>1. pending' \in [Replica -> Seq(Op)] /\ seq' = seq /\ ops' = ops
    BY <1>2, <1>4 DEF ReceiveReady, TypeOK
  <2>2. CASE Throws(r, op)
    BY <1>1, <1>4, <2>1, <2>2, ApplyThrowsType DEF ReceiveReady, TypeOK
  <2>3. CASE ~Throws(r, op)
    <3>1. drain' \in {Idle} \cup Draining
      BY <1>2, <1>4, <2>3, StartDrainType DEF ReceiveReady
    <3> QED
      BY <1>1, <1>4, <2>1, <2>3, <3>1, ApplyRemoteType DEF ReceiveReady, TypeOK
  <2> QED
    BY <2>2, <2>3
<1> QED
  BY <1>3, <1>4

\* A step of the drain loop keeps the types.
LEMMA DrainItemType == TypeOK /\ DrainItem => TypeOK'
<1> SUFFICES ASSUME TypeOK, DrainItem PROVE TypeOK'
  OBVIOUS
<1> DEFINE r  == drain.at
           op == Head(drain.todo)
<1>1. drain \in Draining /\ drain.todo # <<>>
  BY DEF DrainItem, TypeOK
<1>2. /\ r \in Replica /\ op \in Op /\ drain.rest \in Seq(Op)
      /\ drain.todo \in Seq(Op) /\ Tail(drain.todo) \in Seq(Op)
  BY <1>1, HeadTailProperties DEF Draining
<1>3. UNCHANGED <<seq, pending, ops>>
  BY DEF DrainItem
<1>4. Append(drain.rest, op) \in Seq(Op)
  BY <1>2, AppendProperties
<1>5. /\ [drain EXCEPT !.todo = Tail(@)] \in Draining
      /\ [drain EXCEPT !.todo = Tail(@), !.rest = Append(@, op)] \in Draining
      /\ [drain EXCEPT !.todo = Tail(@), !.progressed = TRUE] \in Draining
  BY <1>1, <1>2, <1>4 DEF Draining
<1>6. CASE UNCHANGED <<doc, lww, tomb, vc, log, hlc, applied>> /\ drain' \in Draining
  BY <1>3, <1>6 DEF TypeOK
<1>7. CASE ApplyThrows(r, op) /\ drain' = Idle
  BY <1>2, <1>3, <1>7, ApplyThrowsType DEF TypeOK
<1>8. CASE ApplyRemote(r, op) /\ drain' \in Draining
  BY <1>2, <1>3, <1>8, ApplyRemoteType DEF TypeOK
<1> QED
  BY <1>5, <1>6, <1>7, <1>8 DEF DrainItem

\* The end of a pass keeps the types.
LEMMA DrainPassType == TypeOK /\ DrainPass => TypeOK'
<1> SUFFICES ASSUME TypeOK, DrainPass PROVE TypeOK'
  OBVIOUS
<1>1. drain.at \in Replica /\ drain.rest \in Seq(Op)
  BY DEF DrainPass, TypeOK, Draining
<1>2. drain' \in {Idle} \cup Draining
  BY <1>1, StartDrainType DEF DrainPass
<1> QED
  BY <1>1, <1>2 DEF DrainPass, TypeOK

\* So do the gc methods and a drainPending() of the application.
LEMMA MaintenanceType ==
    ASSUME TypeOK, NEW r \in Replica, DrainPending(r) \/ Gc(r)
    PROVE  TypeOK'
<1>1. CASE DrainPending(r)
  BY <1>1, StartDrainType DEF DrainPending, TypeOK
<1>2. CASE GcLog(r)
  <2>1. PICK n \in 0 .. Len(log[r]) : log' = [log EXCEPT ![r] = KeepLast(@, n)]
    BY <1>2 DEF GcLog
  <2>2. KeepLast(log[r], n) \in Seq(Op)
    BY <2>1, KeepLastType, LenProperties DEF TypeOK
  <2> QED
    BY <1>2, <2>1, <2>2 DEF GcLog, TypeOK
<1>3. CASE CleanPendingBuffer(r)
  <2>1. PICK kept \in Thinnings(pending[r]) : pending' = [pending EXCEPT ![r] = kept]
    BY <1>3 DEF CleanPendingBuffer
  <2>2. kept \in Seq(Op)
    BY <2>1, ThinningsType DEF TypeOK
  <2> QED
    BY <1>3, <2>1, <2>2 DEF CleanPendingBuffer, TypeOK
<1>4. CASE GcTombstones(r)
  <2>1. PICK now \in Clock : tomb' = [tomb EXCEPT ![r] = FreshTombs(@, now)]
    BY <1>4 DEF GcTombstones
  <2>2. FreshTombs(tomb[r], now) \in [Key -> HlcOf(Replica) \cup {NoHlc}]
    BY DEF FreshTombs, TypeOK
  <2> QED
    BY <1>4, <2>1, <2>2 DEF GcTombstones, TypeOK
<1> QED
  BY <1>1, <1>2, <1>3, <1>4 DEF Gc

\* The steps of Next, with the operation a local call makes named.
LEMMA NextCases ==
    ASSUME TypeOK, Next
    PROVE  \/ \E r \in Replica, kind \in Kinds, p \in Path, v \in Value \cup {Absent} :
                \E op \in NewOps(r, kind, p, v) :
                   \/ \E gcNow \in Clock : FinishOp(r, op, gcNow)
                   \/ FailOp(r, op)
           \/ \E r \in Replica : DrainPending(r) \/ Gc(r)
           \/ \E r \in Replica, op \in ops : \E kept \in Thinnings(pending[r]) :
                ReceiveEarly(r, op, kept) \/ ReceiveReady(r, op, kept)
           \/ DrainItem
           \/ DrainPass
<1>1. ASSUME NEW r \in Replica, Local(r)
      PROVE  \E kind \in Kinds, p \in Path, v \in Value \cup {Absent} :
                \E op \in NewOps(r, kind, p, v) :
                   \/ \E gcNow \in Clock : FinishOp(r, op, gcNow)
                   \/ FailOp(r, op)
  BY <1>1 DEF Local, set, del
<1> QED
  BY <1>1 DEF Next, Receive

LEMMA StepType == TypeOK /\ [Next]_vars => TypeOK'
<1> SUFFICES ASSUME TypeOK, [Next]_vars PROVE TypeOK'
  OBVIOUS
<1>1. CASE Next
  BY <1>1, KindsAssumption, NextCases, NewOpType, FinishOpType, FailOpType, MaintenanceType, ReceiveType,
     DrainItemType, DrainPassType
<1>2. CASE UNCHANGED vars
  BY <1>2 DEF vars, TypeOK
<1> QED
  BY <1>1, <1>2

\* Every state of every replica has its declared type, whatever is received,
\* collected or thrown.
THEOREM TypeCorrect == Spec => []TypeOK
  BY InitType, StepType, PTL DEF Spec

----------------------------------------------------------------------------
(* Causal delivery and stamps.  Of the state, only the clocks and the two  *)
(* histories matter here, and a step changes them in one of three ways:    *)
(* FinishOp, FailOp, or ApplyRemote of an operation that is ready.         *)

\* An operation that is ready moves the vector clock by one, at its source.
LEMMA MergeReady ==
    ASSUME TypeOK, NEW r \in Replica, NEW op \in Op, isCausallyReady(vc[r], op)
    PROVE  /\ vcMerge(vc[r], op.deps) \in VectorClock
           /\ op.deps[op.src] = vc[r][op.src] + 1
           /\ \A s \in Replica : vcMerge(vc[r], op.deps)[s] =
                IF s = op.src THEN vc[r][s] + 1 ELSE vc[r][s]
           /\ \A s \in Replica : op.deps[s] <= vcMerge(vc[r], op.deps)[s]
<1>1. vc[r] \in VectorClock /\ op.deps \in VectorClock /\ op.src \in Replica
  BY DEF TypeOK, Op
<1> QED
  BY <1>1 DEF vcMerge, VectorClock, isCausallyReady

\* An operation that is ready was made by another replica.
LEMMA ReadyIsForeign ==
    ASSUME TypeOK, ClockBounds, NEW r \in Replica, NEW op \in ops, isCausallyReady(vc[r], op)
    PROVE  op.src # r
<1>1. op \in Op /\ op.src \in Replica /\ op.deps \in VectorClock /\ vc[r] \in VectorClock
  BY DEF TypeOK, Op
<1>2. op.deps[op.src] = vc[r][op.src] + 1 /\ op.deps[op.src] <= vc[op.src][op.src]
  BY <1>1 DEF isCausallyReady, ClockBounds
<1>3. vc[r][op.src] \in Nat /\ op.deps[op.src] \in Nat
  BY <1>1 DEF VectorClock
<1> QED
  BY <1>2, <1>3

LEMMA FinishOpClocks ==
    ASSUME CausalInv, NEW r \in Replica, NEW op \in Op, NEW gcNow \in Clock,
           FinishOp(r, op, gcNow), op.src = r, op.hlc.r = r,
           op.deps = vcTick(vc[r], r), Before(hlc[r], op.hlc)
    PROVE  ClockBounds' /\ ClockIsApplied' /\ AppliedPast' /\ Stamps'
<1> USE DEF CausalInv
<1>1. vc \in [Replica -> VectorClock] /\ ops \subseteq Op /\ applied \in [Replica -> SUBSET Op]
  BY DEF TypeOK
<1>2. \A s, q \in Replica : vc[s][q] \in Nat
  BY <1>1 DEF VectorClock
<1>3. \A n \in Op : n.src \in Replica /\ n.deps \in VectorClock /\ n.hlc \in HlcOf(Replica)
  BY DEF Op
<1>4. \A n \in Op, q \in Replica : n.deps[q] \in Nat
  BY <1>3 DEF VectorClock
<1>5. \A s \in Replica : op.deps[s] = IF s = r THEN vc[r][r] + 1 ELSE vc[r][s]
  BY <1>1 DEF vcTick, VectorClock
<1>6. \A s, q \in Replica : vc'[s][q] = IF s = r /\ q = r THEN vc[r][r] + 1 ELSE vc[s][q]
  BY <1>1, <1>5 DEF FinishOp
<1>7. ops' = ops \cup {op} /\ op \notin ops
  BY <1>2, <1>4, <1>5 DEF FinishOp, ClockBounds
<1>8. \A s \in Replica : applied'[s] = IF s = r THEN applied[s] \cup {op} ELSE applied[s]
  BY <1>1 DEF FinishOp
<1>9. ClockBounds'
  <2>1. \A s, q \in Replica : vc'[s][q] <= vc'[q][q]
    BY <1>2, <1>6 DEF ClockBounds
  <2>2. \A n \in ops', s \in Replica : n.deps[s] <= vc'[s][s]
    BY <1>1, <1>2, <1>4, <1>5, <1>6, <1>7 DEF ClockBounds
  <2>3. \A n \in ops' : n.deps[n.src] >= 1
    BY <1>2, <1>5, <1>7 DEF ClockBounds
  <2>4. \A n, m \in ops' : n.src = m.src /\ n.deps[n.src] = m.deps[m.src] => n = m
    BY <1>1, <1>2, <1>4, <1>5, <1>7 DEF ClockBounds
  <2> QED
    BY <2>1, <2>2, <2>3, <2>4 DEF ClockBounds
<1>10. ClockIsApplied'
  <2> SUFFICES ASSUME NEW s \in Replica
               PROVE  applied'[s] = {n \in ops' : seen(vc'[s], n)}
    BY DEF ClockIsApplied
  <2>1. \A n \in ops : seen(vc'[s], n) <=> seen(vc[s], n)
    BY <1>1, <1>2, <1>3, <1>4, <1>6 DEF seen, ClockBounds
  <2>2. seen(vc'[s], op) <=> s = r
    BY <1>2, <1>5, <1>6 DEF seen, ClockBounds
  <2>3. applied[s] = {n \in ops : seen(vc[s], n)}
    BY DEF ClockIsApplied
  <2> QED
    BY <1>7, <1>8, <2>1, <2>2, <2>3
<1>11. AppliedPast'
  <2> SUFFICES ASSUME NEW s \in Replica, NEW n \in applied'[s], NEW q \in Replica
               PROVE  n.deps[q] <= vc'[s][q]
    BY DEF AppliedPast
  <2>1. CASE n \in applied[s]
    BY <1>1, <1>2, <1>4, <1>6, <2>1 DEF AppliedPast
  <2>2. CASE n = op /\ s = r
    BY <1>2, <1>5, <1>6, <2>2
  <2> QED
    BY <1>8, <2>1, <2>2
<1>12. Stamps'
  <2>1. hlc \in [Replica -> HlcOf(Replica)] /\ op.hlc \in HlcOf(Replica)
    BY <1>3 DEF TypeOK
  <2>2. /\ hlc'[r] = Merge(op.hlc, op.hlc, r)
        /\ \A s \in Replica : s # r => hlc'[s] = hlc[s]
    BY <2>1 DEF FinishOp
  <2>3. Before(op.hlc, hlc'[r])
    BY <2>1, <2>2, MergeType
  <2>4. \A n \in applied[r] : Before(n.hlc, op.hlc) /\ Before(n.hlc, hlc'[r])
    <3>1. hlc'[r] \in HlcOf(Replica)
      BY <2>1, <2>2, MergeType
    <3>2. \A n \in applied[r] : n.hlc \in HlcOf(Replica) /\ Before(n.hlc, hlc[r])
      BY <1>1, <1>3 DEF Stamps
    <3> QED
      BY <2>1, <2>3, <3>1, <3>2 DEF HlcOf, Before
  <2>5. \A n \in ops : Precedes(n, op) => n \in applied[r]
    BY <1>1, <1>2, <1>3, <1>4, <1>5 DEF Precedes, ClockIsApplied, seen, ClockBounds
  <2>6. \A n \in ops : ~Precedes(op, n)
    BY <1>1, <1>2, <1>4, <1>5 DEF Precedes, ClockBounds
  <2>7. \A n \in ops' : n.hlc.r = n.src
    BY <1>7 DEF Stamps
  <2>8. \A s \in Replica : \A n \in applied'[s] : Before(n.hlc, hlc'[s])
    BY <1>8, <2>2, <2>3, <2>4 DEF Stamps
  <2>9. \A n, m \in ops' : Precedes(n, m) => Before(n.hlc, m.hlc)
    <3>1. ~Precedes(op, op)
      BY DEF Precedes
    <3> QED
      BY <1>7, <2>4, <2>5, <2>6, <3>1 DEF Stamps
  <2> QED
    BY <2>7, <2>8, <2>9 DEF Stamps, Precedes
<1> QED
  BY <1>9, <1>10, <1>11, <1>12

\* A set that throws only leaves a number out.
LEMMA FailOpClocks ==
    ASSUME CausalInv, NEW r \in Replica, NEW op \in Op, FailOp(r, op),
           op.deps = vcTick(vc[r], r), Before(hlc[r], op.hlc)
    PROVE  ClockBounds' /\ ClockIsApplied' /\ AppliedPast' /\ Stamps'
<1> USE DEF CausalInv
<1>1. vc \in [Replica -> VectorClock] /\ ops \subseteq Op /\ applied \in [Replica -> SUBSET Op]
  BY DEF TypeOK
<1>2. \A s, q \in Replica : vc[s][q] \in Nat
  BY <1>1 DEF VectorClock
<1>3. \A n \in Op : n.src \in Replica /\ n.deps \in VectorClock /\ n.hlc \in HlcOf(Replica)
  BY DEF Op
<1>4. \A n \in Op, q \in Replica : n.deps[q] \in Nat
  BY <1>3 DEF VectorClock
<1>5. \A s \in Replica : op.deps[s] = IF s = r THEN vc[r][r] + 1 ELSE vc[r][s]
  BY <1>1 DEF vcTick, VectorClock
<1>6. \A s, q \in Replica : vc'[s][q] = IF s = r /\ q = r THEN vc[r][r] + 1 ELSE vc[s][q]
  BY <1>1, <1>5 DEF FailOp
<1>7. ops' = ops /\ applied' = applied
  BY DEF FailOp
<1>8. ClockBounds'
  <2>1. \A s, q \in Replica : vc'[s][q] <= vc'[q][q]
    BY <1>2, <1>6 DEF ClockBounds
  <2>2. \A n \in ops', s \in Replica : n.deps[s] <= vc'[s][s]
    BY <1>1, <1>2, <1>4, <1>6, <1>7 DEF ClockBounds
  <2> QED
    BY <1>7, <2>1, <2>2 DEF ClockBounds
<1>9. ClockIsApplied'
  <2> SUFFICES ASSUME NEW s \in Replica
               PROVE  applied'[s] = {n \in ops' : seen(vc'[s], n)}
    BY DEF ClockIsApplied
  <2>1. \A n \in ops : seen(vc'[s], n) <=> seen(vc[s], n)
    BY <1>1, <1>2, <1>3, <1>4, <1>6 DEF seen, ClockBounds
  <2> QED
    BY <1>7, <2>1 DEF ClockIsApplied
<1>10. AppliedPast'
  BY <1>1, <1>2, <1>4, <1>6, <1>7 DEF AppliedPast
<1>11. Stamps'
  <2>1. hlc \in [Replica -> HlcOf(Replica)] /\ op.hlc \in HlcOf(Replica)
    BY <1>3 DEF TypeOK
  <2>2. \A s \in Replica : hlc'[s] = IF s = r THEN op.hlc ELSE hlc[s]
    BY <2>1 DEF FailOp
  <2>3. \A n \in applied[r] : Before(n.hlc, op.hlc)
    <3>1. \A n \in applied[r] : n.hlc \in HlcOf(Replica) /\ Before(n.hlc, hlc[r])
      BY <1>1, <1>3 DEF Stamps
    <3> QED
      BY <2>1, <3>1 DEF HlcOf, Before
  <2> QED
    BY <1>7, <2>2, <2>3 DEF Stamps, Precedes
<1> QED
  BY <1>8, <1>9, <1>10, <1>11

LEMMA ApplyRemoteClocks ==
    ASSUME CausalInv, NEW r \in Replica, NEW op \in ops, isCausallyReady(vc[r], op),
           ApplyRemote(r, op), ops' = ops
    PROVE  ClockBounds' /\ ClockIsApplied' /\ AppliedPast' /\ Stamps'
<1> USE DEF CausalInv
<1>1. vc \in [Replica -> VectorClock] /\ ops \subseteq Op /\ applied \in [Replica -> SUBSET Op]
  BY DEF TypeOK
<1>2. \A s, q \in Replica : vc[s][q] \in Nat
  BY <1>1 DEF VectorClock
<1>3. \A n \in Op : n.src \in Replica /\ n.deps \in VectorClock /\ n.hlc \in HlcOf(Replica)
  BY DEF Op
<1>4. \A n \in Op, q \in Replica : n.deps[q] \in Nat
  BY <1>3 DEF VectorClock
<1>5. op \in Op /\ op.src \in Replica /\ op.src # r
  BY <1>1, <1>3, ReadyIsForeign
<1>6. \A s, q \in Replica : vc'[s][q] =
        IF s = r /\ q = op.src THEN op.deps[op.src] ELSE vc[s][q]
  BY <1>1, <1>5, MergeReady DEF ApplyRemote
<1>7. op.deps[op.src] = vc[r][op.src] + 1 /\ \A q \in Replica : op.deps[q] <= vc'[r][q]
  BY <1>1, <1>5, MergeReady DEF ApplyRemote
<1>8. \A s \in Replica : applied'[s] = IF s = r THEN applied[s] \cup {op} ELSE applied[s]
  BY <1>1 DEF ApplyRemote
<1>9. ClockBounds'
  <2>1. \A s, q \in Replica : vc'[s][q] <= vc'[q][q]
    BY <1>2, <1>5, <1>6 DEF ClockBounds
  <2>2. \A n \in ops, s \in Replica : n.deps[s] <= vc'[s][s]
    BY <1>5, <1>6 DEF ClockBounds
  <2> QED
    BY <2>1, <2>2 DEF ClockBounds
<1>10. ClockIsApplied'
  <2> SUFFICES ASSUME NEW s \in Replica
               PROVE  applied'[s] = {n \in ops : seen(vc'[s], n)}
    BY DEF ClockIsApplied
  <2>1. CASE s # r
    <3>1. \A n \in ops : seen(vc'[s], n) <=> seen(vc[s], n)
      BY <1>1, <1>3, <1>6, <2>1 DEF seen
    <3> QED
      BY <1>8, <2>1, <3>1 DEF ClockIsApplied
  <2>2. CASE s = r
    <3>1. \A n \in ops : seen(vc'[r], n) <=> seen(vc[r], n) \/ n = op
      <4> SUFFICES ASSUME NEW n \in ops
                   PROVE  seen(vc'[r], n) <=> seen(vc[r], n) \/ n = op
        OBVIOUS
      <4>1. n.src \in Replica /\ n.deps[n.src] \in Nat /\ vc[r][n.src] \in Nat
        BY <1>1, <1>2, <1>3, <1>4
      <4>2. CASE n.src # op.src
        BY <1>6, <4>1, <4>2 DEF seen
      <4>3. CASE n.src = op.src
        <5>1. vc'[r][n.src] = vc[r][n.src] + 1
          BY <1>5, <1>6, <1>7, <4>3
        <5>2. n.deps[n.src] = vc[r][n.src] + 1 => n = op
          BY <1>7, <4>3 DEF ClockBounds
        <5> QED
          BY <1>7, <4>1, <4>3, <5>1, <5>2 DEF seen
      <4> QED
        BY <4>2, <4>3
    <3> QED
      BY <1>8, <2>2, <3>1 DEF ClockIsApplied
  <2> QED
    BY <2>1, <2>2
<1>11. AppliedPast'
  <2> SUFFICES ASSUME NEW s \in Replica, NEW n \in applied'[s], NEW q \in Replica
               PROVE  n.deps[q] <= vc'[s][q]
    BY DEF AppliedPast
  <2>1. CASE n \in applied[s]
    <3>1. n.deps[q] <= vc[s][q] /\ n.deps[q] \in Nat
      BY <1>1, <1>4, <2>1 DEF AppliedPast
    <3> QED
      BY <1>2, <1>5, <1>6, <1>7, <3>1
  <2>2. CASE n = op /\ s = r
    BY <1>7, <2>2
  <2> QED
    BY <1>8, <2>1, <2>2
<1>12. Stamps'
  <2>1. hlc \in [Replica -> HlcOf(Replica)] /\ op.hlc \in HlcOf(Replica)
    BY <1>3, <1>5 DEF TypeOK
  <2>2. /\ hlc'[r] = Merge(hlc[r], op.hlc, r)
        /\ \A s \in Replica : s # r => hlc'[s] = hlc[s]
    BY <2>1 DEF ApplyRemote
  <2>3. hlc'[r] \in HlcOf(Replica) /\ Before(op.hlc, hlc'[r]) /\ Before(hlc[r], hlc'[r])
    BY <2>1, <2>2, MergeType
  <2>4. \A n \in applied[r] : Before(n.hlc, hlc'[r])
    <3>1. \A n \in applied[r] : n.hlc \in HlcOf(Replica) /\ Before(n.hlc, hlc[r])
      BY <1>1, <1>3 DEF Stamps
    <3> QED
      BY <2>1, <2>3, <3>1 DEF HlcOf, Before
  <2>5. \A s \in Replica : \A n \in applied'[s] : Before(n.hlc, hlc'[s])
    BY <1>8, <2>2, <2>3, <2>4 DEF Stamps
  <2> QED
    BY <2>5 DEF Stamps, Precedes
<1> QED
  BY <1>9, <1>10, <1>11, <1>12

\* What is buffered was made: nothing enters a buffer from elsewhere.
LEMMA StartDrainExist ==
    ASSUME NEW r \in Replica, NEW items \in Seq(ops)
    PROVE  StartDrain(r, items) # Idle =>
             StartDrain(r, items).todo \in Seq(ops) /\ StartDrain(r, items).rest \in Seq(ops)
BY EmptySeq DEF StartDrain

LEMMA FinishOpBuffers ==
    ASSUME TypeOK, BufferedExist, NEW r \in Replica, NEW op \in Op, NEW gcNow \in Clock,
           FinishOp(r, op, gcNow)
    PROVE  BufferedExist'
<1>1. PICK kept \in Cleaned(pending[r], AutoGcTooLong(pending[r])) :
        pending' = [pending EXCEPT ![r] = kept]
  BY DEF FinishOp
<1>2. pending[r] \in Seq(ops)
  BY DEF BufferedExist
<1>3. kept \in Seq(ops)
  BY <1>1, <1>2, CleanedType
<1>4. ops \subseteq ops' /\ drain' = Idle
  BY DEF FinishOp
<1>5. \A s \in Replica : pending'[s] \in Seq(ops)
  BY <1>1, <1>3 DEF BufferedExist
<1>6. \A s \in Replica : pending'[s] \in Seq(ops')
  BY <1>4, <1>5, SeqMonotonic
<1>7. pending' \in [Replica -> Seq(ops')]
  BY <1>1, <1>6 DEF BufferedExist
<1> QED
  BY <1>4, <1>7 DEF BufferedExist

LEMMA ReceiveBuffers ==
    ASSUME TypeOK, BufferedExist, NEW r \in Replica, NEW op \in ops, NEW kept \in Thinnings(pending[r]),
           ReceiveEarly(r, op, kept) \/ ReceiveReady(r, op, kept)
    PROVE  BufferedExist'
<1>1. pending[r] \in Seq(ops)
  BY DEF BufferedExist
<1>2. kept \in Seq(ops)
  BY <1>1, ThinningsType
<1>3. CASE ReceiveEarly(r, op, kept)
  <2>1. Append(kept, op) \in Seq(ops)
    BY <1>2, AppendProperties
  <2>2. pending' \in [Replica -> Seq(ops)]
    BY <1>3, <2>1 DEF ReceiveEarly, BufferedExist
  <2>3. drain' = Idle /\ ops' = ops
    BY <1>3 DEF ReceiveEarly, MayReceive
  <2> QED
    BY <2>2, <2>3 DEF BufferedExist
<1>4. CASE ReceiveReady(r, op, kept)
  <2>1. pending' \in [Replica -> Seq(ops)] /\ ops' = ops
    BY <1>2, <1>4 DEF ReceiveReady, BufferedExist
  <2>2. drain' = Idle \/ drain' = StartDrain(r, kept)
    BY <1>4 DEF ReceiveReady, MayReceive
  <2>3. drain' # Idle => drain'.todo \in Seq(ops) /\ drain'.rest \in Seq(ops)
    BY <1>2, <2>2, StartDrainExist
  <2> QED
    BY <2>1, <2>3 DEF BufferedExist
<1> QED
  BY <1>3, <1>4

LEMMA DrainItemBuffers == TypeOK /\ BufferedExist /\ DrainItem => BufferedExist'
<1> SUFFICES ASSUME TypeOK, BufferedExist, DrainItem PROVE BufferedExist'
  OBVIOUS
<1> DEFINE op == Head(drain.todo)
<1>1. /\ drain \in Draining /\ drain.todo # <<>>
      /\ drain.todo \in Seq(ops) /\ drain.rest \in Seq(ops)
  BY DEF DrainItem, TypeOK, BufferedExist
<1>2. op \in ops /\ Tail(drain.todo) \in Seq(ops)
  BY <1>1, HeadTailProperties
<1>3. Append(drain.rest, op) \in Seq(ops)
  BY <1>1, <1>2, AppendProperties
<1>4. /\ [drain EXCEPT !.todo = Tail(@)].todo = Tail(drain.todo)
      /\ [drain EXCEPT !.todo = Tail(@)].rest = drain.rest
      /\ [drain EXCEPT !.todo = Tail(@), !.rest = Append(@, op)].todo = Tail(drain.todo)
      /\ [drain EXCEPT !.todo = Tail(@), !.rest = Append(@, op)].rest = Append(drain.rest, op)
      /\ [drain EXCEPT !.todo = Tail(@), !.progressed = TRUE].todo = Tail(drain.todo)
      /\ [drain EXCEPT !.todo = Tail(@), !.progressed = TRUE].rest = drain.rest
  BY <1>1 DEF Draining
<1>5. pending' = pending /\ ops' = ops
  BY DEF DrainItem
<1>6. \/ drain' = Idle
      \/ drain'.todo = Tail(drain.todo) /\ drain'.rest \in {drain.rest, Append(drain.rest, op)}
  BY <1>4 DEF DrainItem
<1> QED
  BY <1>1, <1>2, <1>3, <1>5, <1>6 DEF BufferedExist

LEMMA DrainPassBuffers == TypeOK /\ BufferedExist /\ DrainPass => BufferedExist'
<1> SUFFICES ASSUME TypeOK, BufferedExist, DrainPass PROVE BufferedExist'
  OBVIOUS
<1>1. drain.at \in Replica /\ drain.rest \in Seq(ops)
  BY DEF DrainPass, TypeOK, Draining, BufferedExist
<1>2. pending' \in [Replica -> Seq(ops)] /\ ops' = ops
  BY <1>1 DEF DrainPass, BufferedExist
<1>3. drain' = Idle \/ drain' = StartDrain(drain.at, drain.rest)
  BY DEF DrainPass
<1> QED
  BY <1>1, <1>2, <1>3, StartDrainExist DEF BufferedExist

LEMMA MaintenanceBuffers ==
    ASSUME TypeOK, BufferedExist, NEW r \in Replica, DrainPending(r) \/ Gc(r)
    PROVE  BufferedExist'
<1>1. CASE DrainPending(r)
  <2>1. drain' = StartDrain(r, pending[r]) /\ pending[r] \in Seq(ops)
    BY <1>1 DEF DrainPending, BufferedExist
  <2>2. drain' # Idle => drain'.todo \in Seq(ops) /\ drain'.rest \in Seq(ops)
    BY <2>1, StartDrainExist
  <2> QED
    BY <1>1, <2>2 DEF DrainPending, BufferedExist
<1>2. CASE GcLog(r) \/ GcTombstones(r)
  BY <1>2 DEF GcLog, GcTombstones, BufferedExist
<1>3. CASE CleanPendingBuffer(r)
  <2>1. PICK kept \in Thinnings(pending[r]) : pending' = [pending EXCEPT ![r] = kept]
    BY <1>3 DEF CleanPendingBuffer
  <2>2. kept \in Seq(ops)
    BY <2>1, ThinningsType DEF BufferedExist
  <2> QED
    BY <1>3, <2>1, <2>2 DEF CleanPendingBuffer, BufferedExist
<1> QED
  BY <1>1, <1>2, <1>3 DEF Gc

LEMMA InitCausal == Init => CausalInv
<1> SUFFICES ASSUME Init PROVE CausalInv
  OBVIOUS
<1>1. TypeOK
  BY InitType
<1>2. BufferedExist
  BY EmptySeq DEF Init, BufferedExist
<1>3. ClockBounds /\ ClockIsApplied /\ AppliedPast /\ Stamps
  BY DEF Init, ClockBounds, ClockIsApplied, AppliedPast, Stamps
<1> QED
  BY <1>1, <1>2, <1>3 DEF CausalInv

\* The loop applies operations that are ready, like receive().
LEMMA DrainItemCases ==
    ASSUME CausalInv, DrainItem
    PROVE  \/ UNCHANGED <<doc, vc, hlc, lww, tomb, ops, applied>>
           \/ \E r \in Replica, op \in ops :
                /\ isCausallyReady(vc[r], op) /\ ops' = ops
                /\ \/ ~Throws(r, op) /\ ApplyRemote(r, op)
                   \/ Throws(r, op) /\ ApplyThrows(r, op)
<1> DEFINE r == drain.at
           op == Head(drain.todo)
<1>1. r \in Replica
  BY DEF DrainItem, CausalInv, TypeOK, Draining
<1>2. op \in ops
  BY HeadTailProperties DEF DrainItem, CausalInv, BufferedExist
<1> QED
  BY <1>1, <1>2 DEF DrainItem

LEMMA StepCausal == CausalInv /\ [Next]_vars => CausalInv'
<1> SUFFICES ASSUME CausalInv, [Next]_vars PROVE CausalInv'
  OBVIOUS
<1>1. TypeOK /\ BufferedExist
  BY DEF CausalInv
<1>2. TypeOK'
  BY <1>1, StepType
<1>3. ASSUME UNCHANGED <<vc, hlc, ops, applied>>
      PROVE  ClockBounds' /\ ClockIsApplied' /\ AppliedPast' /\ Stamps'
  BY <1>3 DEF CausalInv, ClockBounds, ClockIsApplied, AppliedPast, Stamps, Precedes
<1>4. ASSUME NEW r \in Replica, NEW op \in ops, isCausallyReady(vc[r], op), ops' = ops,
             ApplyRemote(r, op) \/ ApplyThrows(r, op)
      PROVE  ClockBounds' /\ ClockIsApplied' /\ AppliedPast' /\ Stamps'
  BY <1>3, <1>4, ApplyRemoteClocks DEF ApplyThrows
<1>5. ASSUME NEW r \in Replica, NEW kind \in Kinds, NEW p \in Path,
             NEW v \in Value \cup {Absent}, NEW op \in NewOps(r, kind, p, v),
             (\E gcNow \in Clock : FinishOp(r, op, gcNow)) \/ FailOp(r, op)
      PROVE  CausalInv'
  <2>1. op \in Op /\ op.src = r /\ op.hlc.r = r /\ op.deps = vcTick(vc[r], r) /\ Before(hlc[r], op.hlc)
    BY <1>1, KindsAssumption, NewOpType
  <2>2. ASSUME NEW gcNow \in Clock, FinishOp(r, op, gcNow) PROVE CausalInv'
    BY <1>1, <1>2, <2>1, <2>2, FinishOpClocks, FinishOpBuffers DEF CausalInv
  <2>3. CASE FailOp(r, op)
    <3>1. BufferedExist'
      BY <1>1, <2>3 DEF FailOp, BufferedExist
    <3> QED
      BY <1>2, <2>1, <2>3, <3>1, FailOpClocks DEF CausalInv
  <2> QED
    BY <1>5, <2>2, <2>3
<1>6. ASSUME NEW r \in Replica, DrainPending(r) \/ Gc(r)
      PROVE  CausalInv'
  <2>1. UNCHANGED <<vc, hlc, ops, applied>>
    BY <1>6 DEF DrainPending, Gc, GcLog, GcTombstones, CleanPendingBuffer
  <2> QED
    BY <1>1, <1>2, <1>3, <1>6, <2>1, MaintenanceBuffers DEF CausalInv
<1>7. ASSUME NEW r \in Replica, NEW op \in ops, NEW kept \in Thinnings(pending[r]),
             ReceiveEarly(r, op, kept) \/ ReceiveReady(r, op, kept)
      PROVE  CausalInv'
  <2>1. BufferedExist'
    BY <1>1, <1>7, ReceiveBuffers
  <2>2. CASE ReceiveEarly(r, op, kept)
    BY <1>2, <1>3, <2>1, <2>2 DEF ReceiveEarly, CausalInv
  <2>3. CASE ReceiveReady(r, op, kept)
    BY <1>2, <1>4, <2>1, <2>3 DEF ReceiveReady, CausalInv
  <2> QED
    BY <1>7, <2>2, <2>3
<1>8. CASE DrainItem
  <2>1. BufferedExist'
    BY <1>1, <1>8, DrainItemBuffers
  <2> QED
    BY <1>2, <1>3, <1>4, <1>8, <2>1, DrainItemCases DEF CausalInv
<1>9. CASE DrainPass
  <2>1. BufferedExist' /\ UNCHANGED <<vc, hlc, ops, applied>>
    BY <1>1, <1>9, DrainPassBuffers DEF DrainPass
  <2> QED
    BY <1>2, <1>3, <2>1 DEF CausalInv
<1>10. CASE UNCHANGED vars
  BY <1>1, <1>2, <1>3, <1>10 DEF vars, CausalInv, BufferedExist
<1> QED
  BY <1>1, <1>5, <1>6, <1>7, <1>8, <1>9, <1>10, NextCases

\* The causal invariant holds in every reachable state.
THEOREM CausalCorrect == Spec => []CausalInv
  BY InitCausal, StepCausal, PTL DEF Spec

\* Whatever is lost, repeated, reordered, expired or thrown, the vector clock of
\* a replica covers exactly the operations it applied.
THEOREM ClockCorrect == Spec => []ClockIsApplied
  BY CausalCorrect, PTL DEF CausalInv

\* Comparing times and counters orders what happened before, so stamps tell
\* operations apart.
LEMMA StampsOrdered == CausalInv => HlcOrder
<1> SUFFICES ASSUME CausalInv, NEW n \in ops, NEW m \in ops
             PROVE  /\ Precedes(n, m) => Later(m.hlc, n.hlc)
                    /\ n # m => n.hlc # m.hlc
  BY DEF HlcOrder
<1>1. /\ n.hlc \in HlcOf(Replica) /\ m.hlc \in HlcOf(Replica)
      /\ n.src \in Replica /\ n.deps \in VectorClock /\ m.deps \in VectorClock
  BY DEF CausalInv, TypeOK, Op
<1>2. Before(n.hlc, m.hlc) => Later(m.hlc, n.hlc) /\ n.hlc # m.hlc
  BY <1>1 DEF Before, Later, HlcOf
<1>3. Before(m.hlc, n.hlc) => n.hlc # m.hlc
  BY <1>1 DEF Before, HlcOf
<1>4. n # m /\ n.src = m.src => Precedes(n, m) \/ Precedes(m, n)
  BY <1>1 DEF Precedes, VectorClock
<1> QED
  BY <1>2, <1>3, <1>4 DEF CausalInv, Stamps

\* Stamps are unique and grow along the happened-before order.
THEOREM HlcCorrect == Spec => []HlcOrder
  BY StampsOrdered, CausalCorrect, PTL

----------------------------------------------------------------------------
(* What the document holds, when the application writes top-level keys.    *)

LEMMA FlatNeverThrows ==
    ASSUME FlatPaths, NEW r \in Replica, NEW op \in Op
    PROVE  ~Throws(r, op)
BY DEF FlatPaths, Throws, Blocked, Op

\* applyOp touches the path of the operation only, and what it leaves there is
\* the operation's value if the operation wins.
LEMMA FlatEdit ==
    ASSUME FlatPaths, TypeOK, NEW r \in Replica, NEW op \in Op
    PROVE  /\ \A p \in Path : p # op.path => DocAfter(r, op)[p] = doc[r][p]
           /\ SetWins(r, op) => DocAfter(r, op)[op.path] = op.value
           /\ TombWins(r, op) => DocAfter(r, op)[op.path] = Absent
           /\ ~SetWins(r, op) /\ ~TombWins(r, op) => DocAfter(r, op) = doc[r]
<1>1. op.path \in Path /\ \A p \in Path : Anc[p] = {}
  BY DEF Op, FlatPaths
<1>2. SetWins(r, op) => ~TombWins(r, op)
  BY DEF SetWins, TombWins
<1> QED
  BY <1>1, <1>2 DEF DocAfter, setAtPath, delAtPath

\* The map entries after applyOp come from the operations applied by then.
LEMMA MapsAfter ==
    ASSUME TypeOK, MapsFromApplied, NEW r \in Replica, NEW op \in Op, NEW k \in Key
    PROVE  /\ LwwAfter(r, op)[k] # NoHlc =>
                \E n \in applied[r] \cup {op} :
                  n.kind = "set" /\ KeyOf[n.path] = k /\ n.hlc = LwwAfter(r, op)[k]
           /\ TombAfter(r, op)[k] # NoHlc =>
                \E n \in applied[r] \cup {op} :
                  n.kind = "tombstone" /\ KeyOf[n.path] = k /\ n.hlc = TombAfter(r, op)[k]
<1>1. lww[r] \in [Key -> HlcOf(Replica) \cup {NoHlc}] /\ tomb[r] \in [Key -> HlcOf(Replica) \cup {NoHlc}]
  BY DEF TypeOK
<1>2. /\ lww[r][k] # NoHlc =>
           \E n \in applied[r] : n.kind = "set" /\ KeyOf[n.path] = k /\ n.hlc = lww[r][k]
      /\ tomb[r][k] # NoHlc =>
           \E n \in applied[r] : n.kind = "tombstone" /\ KeyOf[n.path] = k /\ n.hlc = tomb[r][k]
  BY DEF MapsFromApplied
<1>3. \/ LwwAfter(r, op)[k] = lww[r][k]
      \/ op.kind = "set" /\ KeyOf[op.path] = k /\ LwwAfter(r, op)[k] = op.hlc
  BY <1>1 DEF LwwAfter, SetWins
<1>4. \/ TombAfter(r, op)[k] = tomb[r][k]
      \/ op.kind = "tombstone" /\ KeyOf[op.path] = k /\ TombAfter(r, op)[k] = op.hlc
  BY <1>1 DEF TombAfter, TombWins
<1> QED
  BY <1>2, <1>3, <1>4

\* An operation that everything on its path happened before wins, and nothing
\* applied earlier has it in its past.
LEMMA OneMoreApplied ==
    ASSUME FlatPaths, TypeOK, MapsFromApplied, CausallyLastDecides,
           NEW r \in Replica, NEW op \in Op,
           op.kind = "tombstone" => op.value = Absent,
           op \notin applied[r],
           \A n \in applied[r] : ~Precedes(op, n),
           \A n \in applied[r] : Precedes(n, op) => Before(n.hlc, op.hlc),
           NEW m \in applied[r] \cup {op},
           \A n \in applied[r] \cup {op} : n.path = m.path /\ n # m => Precedes(n, m)
    PROVE  DocAfter(r, op)[m.path] = m.value
<1>1. applied[r] \subseteq Op
  BY DEF TypeOK
<1>2. /\ op.path \in Path /\ op.hlc \in HlcOf(Replica) /\ op.kind \in {"set", "tombstone"}
      /\ KeyOf[op.path] \in Key
  BY KeyAssumption DEF Op
<1>3. CASE m # op
  <2>1. m \in applied[r] /\ m.path \in Path
    BY <1>1, <1>3 DEF Op
  <2>2. op.path # m.path
    BY <1>3, <2>1
  <2>3. doc[r][m.path] = m.value
    BY <2>1 DEF CausallyLastDecides
  <2> QED
    BY <2>1, <2>2, <2>3, FlatEdit
<1>4. CASE m = op
  <2>1. \A n \in applied[r] : KeyOf[n.path] = KeyOf[op.path] => Later(op.hlc, n.hlc) /\ ~Later(n.hlc, op.hlc)
    <3> SUFFICES ASSUME NEW n \in applied[r], KeyOf[n.path] = KeyOf[op.path]
                 PROVE  Later(op.hlc, n.hlc) /\ ~Later(n.hlc, op.hlc)
      OBVIOUS
    <3>1. n.path = op.path /\ n # op /\ n.hlc \in HlcOf(Replica)
      BY <1>1, <1>2 DEF FlatPaths, Op
    <3>2. Before(n.hlc, op.hlc)
      BY <1>4, <3>1
    <3> QED
      BY <1>2, <3>1, <3>2, ReplicaAssumption DEF Before, Later, HlcOf
  <2>2. /\ tomb[r][KeyOf[op.path]] # NoHlc =>
             Later(op.hlc, tomb[r][KeyOf[op.path]]) /\ ~Later(tomb[r][KeyOf[op.path]], op.hlc)
        /\ lww[r][KeyOf[op.path]] # NoHlc => Later(op.hlc, lww[r][KeyOf[op.path]])
    BY <1>2, <2>1 DEF MapsFromApplied
  <2>3. CASE op.kind = "set"
    BY <1>4, <2>2, <2>3, FlatEdit DEF SetWins, Beats
  <2>4. CASE op.kind = "tombstone"
    BY <1>4, <2>2, <2>4, FlatEdit DEF TombWins, Beats
  <2> QED
    BY <1>2, <2>3, <2>4
<1> QED
  BY <1>3, <1>4

FlatInv == MapsFromApplied /\ CausallyLastDecides

LEMMA FinishOpFlat ==
    ASSUME FlatPaths, CausalInv, FlatInv, NEW r \in Replica, NEW op \in Op, NEW gcNow \in Clock,
           FinishOp(r, op, gcNow), op.src = r, op.deps = vcTick(vc[r], r),
           op.kind = "tombstone" => op.value = Absent, Before(hlc[r], op.hlc)
    PROVE  FlatInv'
<1> USE DEF CausalInv, FlatInv
<1>1. vc \in [Replica -> VectorClock] /\ ops \subseteq Op /\ applied \in [Replica -> SUBSET Op]
  BY DEF TypeOK
<1>2. \A n \in Op, q \in Replica : n.deps[q] \in Nat /\ n.src \in Replica
  BY DEF Op, VectorClock
<1>3. applied[r] \subseteq ops
  BY DEF ClockIsApplied
<1>4. op.deps[r] = vc[r][r] + 1 /\ vc[r][r] \in Nat
  BY <1>1 DEF vcTick, VectorClock
<1>5. \A n \in applied[r] : ~Precedes(op, n) /\ n # op
  BY <1>1, <1>2, <1>3, <1>4 DEF Precedes, ClockBounds
<1>6. \A n \in applied[r] : Before(n.hlc, op.hlc)
  <2>1. \A n \in applied[r] : n.hlc \in HlcOf(Replica) /\ Before(n.hlc, hlc[r])
    BY <1>1 DEF Stamps, Op
  <2>2. hlc[r] \in HlcOf(Replica) /\ op.hlc \in HlcOf(Replica)
    BY DEF TypeOK, Op
  <2> QED
    BY <2>1, <2>2 DEF Before, HlcOf
<1>7. \A s \in Replica : applied'[s] = IF s = r THEN applied[r] \cup {op} ELSE applied[s]
  BY <1>1 DEF FinishOp
<1>8. CausallyLastDecides'
  <2> SUFFICES ASSUME NEW s \in Replica, NEW m \in applied'[s],
                      \A n \in applied'[s] : n.path = m.path /\ n # m => Precedes(n, m)
               PROVE  doc'[s][m.path] = m.value
    BY DEF CausallyLastDecides, Precedes
  <2>1. \A q \in Replica : doc'[q] = IF q = r THEN DocAfter(r, op) ELSE doc[q]
    BY DEF FinishOp, TypeOK
  <2>2. CASE s = r
    <3>1. applied'[s] = applied[r] \cup {op} /\ doc'[s] = DocAfter(r, op)
      BY <1>7, <2>1, <2>2
    <3> QED
      BY <1>5, <1>6, <3>1, OneMoreApplied
  <2>3. CASE s # r
    BY <1>7, <2>1, <2>3 DEF CausallyLastDecides
  <2> QED
    BY <2>2, <2>3
<1>9. MapsFromApplied'
  <2>1. \A n \in ops' : n.kind = "tombstone" => n.value = Absent
    BY DEF FinishOp, MapsFromApplied
  <2>2. \A s \in Replica, k \in Key :
          /\ lww'[s][k] = IF s = r THEN LwwAfter(r, op)[k] ELSE lww[s][k]
          /\ tomb'[s][k] # NoHlc =>
               tomb'[s][k] = IF s = r THEN TombAfter(r, op)[k] ELSE tomb[s][k]
    BY DEF FinishOp, TypeOK, AutoGcTombs, FreshTombs
  <2>3. \A s \in Replica, k \in Key :
         /\ lww'[s][k] # NoHlc =>
              \E n \in applied'[s] : n.kind = "set" /\ KeyOf[n.path] = k /\ n.hlc = lww'[s][k]
         /\ tomb'[s][k] # NoHlc =>
              \E n \in applied'[s] : n.kind = "tombstone" /\ KeyOf[n.path] = k /\ n.hlc = tomb'[s][k]
    <3> SUFFICES ASSUME NEW s \in Replica, NEW k \in Key
                 PROVE  /\ lww'[s][k] # NoHlc =>
                             \E n \in applied'[s] : n.kind = "set" /\ KeyOf[n.path] = k /\ n.hlc = lww'[s][k]
                        /\ tomb'[s][k] # NoHlc =>
                             \E n \in applied'[s] : n.kind = "tombstone" /\ KeyOf[n.path] = k /\ n.hlc = tomb'[s][k]
      OBVIOUS
    <3>1. CASE s = r
      BY <1>7, <2>2, <3>1, MapsAfter
    <3>2. CASE s # r
      BY <1>7, <2>2, <3>2 DEF MapsFromApplied
    <3> QED
      BY <3>1, <3>2
  <2> QED
    BY <2>1, <2>3 DEF MapsFromApplied
<1> QED
  BY <1>8, <1>9

LEMMA ApplyRemoteFlat ==
    ASSUME FlatPaths, CausalInv, FlatInv, NEW r \in Replica, NEW op \in ops,
           isCausallyReady(vc[r], op), ApplyRemote(r, op), ops' = ops
    PROVE  FlatInv'
<1> USE DEF CausalInv, FlatInv
<1>1. vc \in [Replica -> VectorClock] /\ ops \subseteq Op /\ applied \in [Replica -> SUBSET Op]
  BY DEF TypeOK
<1>2. op \in Op /\ op.src \in Replica /\ op.deps \in VectorClock
  BY <1>1 DEF Op
<1>3. applied[r] \subseteq ops
  BY DEF ClockIsApplied
<1>4. op.deps[op.src] = vc[r][op.src] + 1 /\ vc[r][op.src] \in Nat
  BY <1>1, <1>2 DEF isCausallyReady, VectorClock
<1>5. \A n \in applied[r] : ~Precedes(op, n) /\ n # op
  <2>1. \A n \in applied[r] : n.deps[op.src] <= vc[r][op.src] /\ n.deps[op.src] \in Nat
    BY <1>1, <1>2 DEF AppliedPast, Op, VectorClock
  <2> QED
    BY <1>4, <2>1 DEF Precedes
<1>6. \A n \in applied[r] : Precedes(n, op) => Before(n.hlc, op.hlc)
  BY <1>3 DEF Stamps
<1>7. \A s \in Replica : applied'[s] = IF s = r THEN applied[r] \cup {op} ELSE applied[s]
  BY <1>1 DEF ApplyRemote
<1>8. CausallyLastDecides'
  <2> SUFFICES ASSUME NEW s \in Replica, NEW m \in applied'[s],
                      \A n \in applied'[s] : n.path = m.path /\ n # m => Precedes(n, m)
               PROVE  doc'[s][m.path] = m.value
    BY DEF CausallyLastDecides, Precedes
  <2>1. \A q \in Replica : doc'[q] = IF q = r THEN DocAfter(r, op) ELSE doc[q]
    BY DEF ApplyRemote, TypeOK
  <2>2. CASE s = r
    <3>1. applied'[s] = applied[r] \cup {op} /\ doc'[s] = DocAfter(r, op)
      BY <1>7, <2>1, <2>2
    <3>2. op.kind = "tombstone" => op.value = Absent
      BY DEF MapsFromApplied
    <3> QED
      BY <1>2, <1>5, <1>6, <3>1, <3>2, OneMoreApplied
  <2>3. CASE s # r
    BY <1>7, <2>1, <2>3 DEF CausallyLastDecides
  <2> QED
    BY <2>2, <2>3
<1>9. MapsFromApplied'
  <2>1. \A s \in Replica, k \in Key :
          /\ lww'[s][k] = IF s = r THEN LwwAfter(r, op)[k] ELSE lww[s][k]
          /\ tomb'[s][k] = IF s = r THEN TombAfter(r, op)[k] ELSE tomb[s][k]
    BY DEF ApplyRemote, TypeOK
  <2>2. \A s \in Replica, k \in Key :
         /\ lww'[s][k] # NoHlc =>
              \E n \in applied'[s] : n.kind = "set" /\ KeyOf[n.path] = k /\ n.hlc = lww'[s][k]
         /\ tomb'[s][k] # NoHlc =>
              \E n \in applied'[s] : n.kind = "tombstone" /\ KeyOf[n.path] = k /\ n.hlc = tomb'[s][k]
    <3> SUFFICES ASSUME NEW s \in Replica, NEW k \in Key
                 PROVE  /\ lww'[s][k] # NoHlc =>
                             \E n \in applied'[s] : n.kind = "set" /\ KeyOf[n.path] = k /\ n.hlc = lww'[s][k]
                        /\ tomb'[s][k] # NoHlc =>
                             \E n \in applied'[s] : n.kind = "tombstone" /\ KeyOf[n.path] = k /\ n.hlc = tomb'[s][k]
      OBVIOUS
    <3>1. CASE s = r
      BY <1>2, <1>7, <2>1, <3>1, MapsAfter
    <3>2. CASE s # r
      BY <1>7, <2>1, <3>2 DEF MapsFromApplied
    <3> QED
      BY <3>1, <3>2
  <2> QED
    BY <2>2 DEF MapsFromApplied
<1> QED
  BY <1>8, <1>9

\* What a step does to the document, the maps and the histories, apart from the
\* removal of old tombstones: nothing, or the application of one operation.
LEMMA StepCases ==
    ASSUME CausalInv, [Next]_vars
    PROVE  \/ \E r \in Replica, kind \in Kinds, p \in Path, v \in Value \cup {Absent} :
                \E op \in NewOps(r, kind, p, v) :
                   \/ \E gcNow \in Clock : FinishOp(r, op, gcNow)
                   \/ Throws(r, op)
           \/ \E r \in Replica, op \in ops :
                /\ isCausallyReady(vc[r], op) /\ ops' = ops
                /\ (ApplyRemote(r, op) \/ Throws(r, op))
           \/ /\ UNCHANGED <<doc, lww, ops, applied>>
              /\ \A r \in Replica, k \in Key : tomb'[r][k] \in {tomb[r][k], NoHlc}
<1> USE DEF CausalInv
<1>1. CASE UNCHANGED <<doc, lww, tomb, ops, applied>>
  BY <1>1
<1>2. ASSUME NEW r \in Replica, GcTombstones(r)
      PROVE  /\ UNCHANGED <<doc, lww, ops, applied>>
             /\ \A s \in Replica, k \in Key : tomb'[s][k] \in {tomb[s][k], NoHlc}
  BY <1>2 DEF GcTombstones, FreshTombs, TypeOK
<1>3. CASE Next
  BY <1>1, <1>2, <1>3, NextCases, DrainItemCases
     DEF FailOp, DrainPending, Gc, GcLog, CleanPendingBuffer, ReceiveEarly, ReceiveReady, DrainPass
<1> QED
  BY <1>1, <1>3 DEF vars

LEMMA StepFlat ==
    ASSUME FlatPaths, CausalInv, FlatInv, [Next]_vars
    PROVE  FlatInv'
<1>1. ASSUME NEW r \in Replica, NEW kind \in Kinds, NEW p \in Path,
             NEW v \in Value \cup {Absent}, NEW op \in NewOps(r, kind, p, v)
      PROVE  /\ op \in Op /\ op.src = r /\ op.deps = vcTick(vc[r], r)
             /\ Before(hlc[r], op.hlc) /\ (op.kind = "tombstone" => op.value = Absent)
             /\ ~Throws(r, op)
  BY KindsAssumption, NewOpType, FlatNeverThrows DEF CausalInv
<1>2. ASSUME NEW r \in Replica, NEW op \in ops
      PROVE  ~Throws(r, op)
  BY FlatNeverThrows DEF CausalInv, TypeOK
<1>3. CASE /\ UNCHANGED <<doc, lww, ops, applied>>
           /\ \A r \in Replica, k \in Key : tomb'[r][k] \in {tomb[r][k], NoHlc}
  BY <1>3 DEF FlatInv, MapsFromApplied, CausallyLastDecides, Precedes
<1> QED
  BY <1>1, <1>2, <1>3, StepCases, FinishOpFlat, ApplyRemoteFlat

\* With top-level keys, an operation that every other operation a replica applied
\* on its path happened before decides what the path holds there: a deletion or
\* a write made knowingly is never undone by the order of deliveries.
THEOREM CausallyLastCorrect == FlatPaths => (Spec => []CausallyLastDecides)
<1> SUFFICES ASSUME FlatPaths PROVE Spec => []CausallyLastDecides
  OBVIOUS
<1>1. Init => FlatInv
  BY DEF Init, FlatInv, MapsFromApplied, CausallyLastDecides
<1>2. CausalInv /\ FlatInv /\ [Next]_vars => FlatInv'
  BY StepFlat
<1> QED
  BY <1>1, <1>2, CausalCorrect, PTL DEF Spec, FlatInv

----------------------------------------------------------------------------
(* Without deletions, the latest stamp wins and replicas converge. *)

\* The order of the stamps is total and transitive.
LEMMA LaterTotal ==
    ASSUME NEW a \in HlcOf(Replica), NEW b \in HlcOf(Replica), NEW c \in HlcOf(Replica)
    PROVE  /\ ~Later(a, a)
           /\ a = b \/ Later(a, b) \/ Later(b, a)
           /\ Later(a, b) => ~Later(b, a)
           /\ Later(a, b) /\ Later(b, c) => Later(a, c)
<1>1. /\ a.t \in Nat /\ a.c \in Nat /\ a.r \in Nat
      /\ b.t \in Nat /\ b.c \in Nat /\ b.r \in Nat
      /\ c.t \in Nat /\ c.c \in Nat /\ c.r \in Nat
  BY ReplicaAssumption DEF HlcOf
<1>2. a.t = b.t /\ a.c = b.c /\ a.r = b.r => a = b
  BY DEF HlcOf
<1>3. Later(a, b) /\ Later(b, c) => Later(a, c)
  BY <1>1 DEF Later
<1> QED
  BY <1>1, <1>2, <1>3 DEF Later

\* applyOp of one more set, when only sets were made.
LEMMA OneMoreSet ==
    ASSUME FlatPaths, TypeOK, MapsFromApplied, SetsOnly, NEW r \in Replica, NEW op \in Op, op.kind = "set",
           \A n \in applied[r] : n.hlc # op.hlc
    PROVE  /\ TombAfter(r, op) = tomb[r]
           /\ \A n \in applied[r] \cup {op} :
                /\ LwwAfter(r, op)[KeyOf[n.path]] # NoHlc
                /\ ~Later(n.hlc, LwwAfter(r, op)[KeyOf[n.path]])
                /\ n.hlc = LwwAfter(r, op)[KeyOf[n.path]] => DocAfter(r, op)[n.path] = n.value
           /\ \A p \in Path : LwwAfter(r, op)[KeyOf[p]] = NoHlc => DocAfter(r, op)[p] = Absent
<1>1. /\ op.path \in Path /\ op.hlc \in HlcOf(Replica) /\ op.hlc # NoHlc
      /\ KeyOf[op.path] \in Key
  BY KeyAssumption, NoHlcAssumption DEF Op
<1>2. lww[r] \in [Key -> HlcOf(Replica) \cup {NoHlc}]
  BY DEF TypeOK
<1>3. \A n \in applied[r] : n.path \in Path /\ n.hlc \in HlcOf(Replica) /\ KeyOf[n.path] \in Key
  BY KeyAssumption DEF TypeOK, Op
<1>4. tomb[r][KeyOf[op.path]] = NoHlc /\ ~TombWins(r, op)
  BY <1>1 DEF SetsOnly, TombWins
<1>5. TombAfter(r, op) = tomb[r]
  BY <1>4 DEF TombAfter
<1>6. SetWins(r, op) <=>
        (lww[r][KeyOf[op.path]] # NoHlc => Later(op.hlc, lww[r][KeyOf[op.path]]))
  BY <1>4 DEF SetWins, Beats
<1>7. \A p \in Path : LwwAfter(r, op)[KeyOf[p]] =
        IF SetWins(r, op) /\ p = op.path THEN op.hlc ELSE lww[r][KeyOf[p]]
  BY <1>1, <1>2, KeyAssumption DEF LwwAfter, FlatPaths
<1>8. \A p \in Path : DocAfter(r, op)[p] =
        IF SetWins(r, op) /\ p = op.path THEN op.value ELSE doc[r][p]
  BY <1>1, <1>4, FlatEdit
<1>9. ASSUME NEW n \in applied[r]
      PROVE  /\ LwwAfter(r, op)[KeyOf[n.path]] # NoHlc
             /\ ~Later(n.hlc, LwwAfter(r, op)[KeyOf[n.path]])
             /\ n.hlc = LwwAfter(r, op)[KeyOf[n.path]] => DocAfter(r, op)[n.path] = n.value
  <2>1. /\ lww[r][KeyOf[n.path]] # NoHlc /\ lww[r][KeyOf[n.path]] \in HlcOf(Replica)
        /\ ~Later(n.hlc, lww[r][KeyOf[n.path]])
        /\ n.hlc = lww[r][KeyOf[n.path]] => doc[r][n.path] = n.value
    BY <1>2, <1>3 DEF SetsOnly
  <2>2. CASE SetWins(r, op) /\ n.path = op.path
    <3>1. ~Later(n.hlc, op.hlc)
      BY <1>1, <1>3, <1>6, <2>1, <2>2, LaterTotal
    <3> QED
      BY <1>1, <1>7, <2>2, <3>1
  <2>3. CASE ~(SetWins(r, op) /\ n.path = op.path)
    BY <1>3, <1>7, <1>8, <2>1, <2>3
  <2> QED
    BY <2>2, <2>3
<1>10. /\ LwwAfter(r, op)[KeyOf[op.path]] # NoHlc
       /\ ~Later(op.hlc, LwwAfter(r, op)[KeyOf[op.path]])
       /\ op.hlc = LwwAfter(r, op)[KeyOf[op.path]] => DocAfter(r, op)[op.path] = op.value
  <2>1. CASE SetWins(r, op)
    BY <1>1, <1>7, <1>8, <2>1, LaterTotal
  <2>2. CASE ~SetWins(r, op)
    <3>1. /\ lww[r][KeyOf[op.path]] # NoHlc /\ lww[r][KeyOf[op.path]] \in HlcOf(Replica)
          /\ ~Later(op.hlc, lww[r][KeyOf[op.path]])
      BY <1>1, <1>2, <1>6, <2>2
    <3>2. op.hlc # lww[r][KeyOf[op.path]]
      BY <1>1, <3>1 DEF MapsFromApplied
    <3> QED
      BY <1>1, <1>7, <2>2, <3>1, <3>2
  <2> QED
    BY <2>1, <2>2
<1>11. \A p \in Path : LwwAfter(r, op)[KeyOf[p]] = NoHlc => DocAfter(r, op)[p] = Absent
  BY <1>1, <1>7, <1>8 DEF SetsOnly
<1> QED
  BY <1>5, <1>9, <1>10, <1>11

\* No two operations a replica applied have the stamp of an operation it has yet
\* to apply.
LEMMA FreshStamp ==
    ASSUME CausalInv, NEW r \in Replica, NEW op \in Op,
           \/ op.src = r /\ op.deps = vcTick(vc[r], r) /\ Before(hlc[r], op.hlc)
           \/ op \in ops /\ isCausallyReady(vc[r], op)
    PROVE  \A n \in applied[r] : n.hlc # op.hlc
<1> SUFFICES ASSUME NEW n \in applied[r] PROVE n.hlc # op.hlc
  OBVIOUS
<1> USE DEF CausalInv
<1>1. /\ n \in ops /\ n \in Op /\ n.hlc \in HlcOf(Replica) /\ op.hlc \in HlcOf(Replica)
      /\ hlc[r] \in HlcOf(Replica) /\ vc[r] \in VectorClock
      /\ op.src \in Replica /\ op.deps \in VectorClock /\ n.src \in Replica /\ n.deps \in VectorClock
  BY DEF ClockIsApplied, TypeOK, Op
<1>2. CASE op.src = r /\ op.deps = vcTick(vc[r], r) /\ Before(hlc[r], op.hlc)
  <2>1. Before(n.hlc, hlc[r])
    BY DEF Stamps
  <2> QED
    BY <1>1, <1>2, <2>1 DEF Before, HlcOf
<1>3. CASE op \in ops /\ isCausallyReady(vc[r], op)
  <2>1. n.deps[op.src] <= vc[r][op.src] /\ op.deps[op.src] = vc[r][op.src] + 1
    BY <1>1, <1>3 DEF AppliedPast, isCausallyReady
  <2>2. n # op
    BY <1>1, <2>1 DEF VectorClock
  <2>3. n.src = op.src => Precedes(n, op)
    BY <1>1, <2>1, <2>2 DEF Precedes, VectorClock
  <2>4. n.src = op.src => Before(n.hlc, op.hlc)
    BY <1>1, <1>3, <2>3 DEF Stamps
  <2> QED
    BY <1>1, <1>3, <2>4 DEF Stamps, Before, HlcOf
<1> QED
  BY <1>2, <1>3

\* One more applied set keeps what SetsOnly says of the replica that applied it.
LEMMA ApplySetsOnly ==
    ASSUME FlatPaths, CausalInv, MapsFromApplied, SetsOnly, NEW r \in Replica, NEW op \in Op,
           op.kind = "set", \A n \in applied[r] : n.hlc # op.hlc,
           ops' \subseteq ops \cup {op},
           doc' = [doc EXCEPT ![r] = DocAfter(r, op)],
           lww' = [lww EXCEPT ![r] = LwwAfter(r, op)],
           applied' = [applied EXCEPT ![r] = @ \cup {op}],
           \A s \in Replica, k \in Key : tomb'[s][k] \in
             {IF s = r THEN TombAfter(r, op)[k] ELSE tomb[s][k], NoHlc}
    PROVE  SetsOnly'
<1>1. TypeOK
  BY DEF CausalInv
<1>2. \A s \in Replica :
        /\ doc'[s] = IF s = r THEN DocAfter(r, op) ELSE doc[s]
        /\ lww'[s] = IF s = r THEN LwwAfter(r, op) ELSE lww[s]
        /\ applied'[s] = IF s = r THEN applied[r] \cup {op} ELSE applied[s]
  BY <1>1 DEF TypeOK
<1>3. \A s \in Replica, k \in Key : tomb'[s][k] = NoHlc
  BY <1>1, OneMoreSet DEF SetsOnly
<1>4. \A n \in ops' : n.kind = "set"
  BY DEF SetsOnly
<1>5. \A s \in Replica : \A n \in applied'[s] :
         /\ lww'[s][KeyOf[n.path]] # NoHlc
         /\ ~Later(n.hlc, lww'[s][KeyOf[n.path]])
         /\ n.hlc = lww'[s][KeyOf[n.path]] => doc'[s][n.path] = n.value
  <2> SUFFICES ASSUME NEW s \in Replica, NEW n \in applied'[s]
               PROVE  /\ lww'[s][KeyOf[n.path]] # NoHlc
                      /\ ~Later(n.hlc, lww'[s][KeyOf[n.path]])
                      /\ n.hlc = lww'[s][KeyOf[n.path]] => doc'[s][n.path] = n.value
    OBVIOUS
  <2>1. CASE s = r
    BY <1>1, <1>2, <2>1, OneMoreSet
  <2>2. CASE s # r
    BY <1>2, <2>2 DEF SetsOnly
  <2> QED
    BY <2>1, <2>2
<1>6. \A s \in Replica, p \in Path : lww'[s][KeyOf[p]] = NoHlc => doc'[s][p] = Absent
  BY <1>1, <1>2, OneMoreSet DEF SetsOnly
<1> QED
  BY <1>3, <1>4, <1>5, <1>6 DEF SetsOnly

LEMMA StepSetsOnly ==
    ASSUME FlatPaths, Kinds \subseteq {"set"}, CausalInv, MapsFromApplied, SetsOnly, [Next]_vars
    PROVE  SetsOnly'
<1>1. TypeOK
  BY DEF CausalInv
<1>2. ASSUME NEW r \in Replica, NEW kind \in Kinds, NEW p \in Path,
             NEW v \in Value \cup {Absent}, NEW op \in NewOps(r, kind, p, v)
      PROVE  ~Throws(r, op) /\ \A gcNow \in Clock : FinishOp(r, op, gcNow) => SetsOnly'
  <2>1. /\ op \in Op /\ op.src = r /\ op.deps = vcTick(vc[r], r)
        /\ Before(hlc[r], op.hlc) /\ op.kind = "set"
    <3>1. kind = "set"
      OBVIOUS
    <3> QED
      BY <1>1, <3>1, NewOpType
  <2>2. ASSUME NEW gcNow \in Clock, FinishOp(r, op, gcNow) PROVE SetsOnly'
    <3>1. \A s \in Replica, k \in Key : tomb'[s][k] \in
            {IF s = r THEN TombAfter(r, op)[k] ELSE tomb[s][k], NoHlc}
      BY <1>1, <2>2 DEF FinishOp, TypeOK, AutoGcTombs, FreshTombs
    <3>2. \A n \in applied[r] : n.hlc # op.hlc
      BY <2>1, FreshStamp
    <3> QED
      BY <2>1, <2>2, <3>1, <3>2, ApplySetsOnly DEF FinishOp
  <2> QED
    BY <2>1, <2>2, FlatNeverThrows
<1>3. ASSUME NEW r \in Replica, NEW op \in ops, isCausallyReady(vc[r], op), ops' = ops
      PROVE  ~Throws(r, op) /\ (ApplyRemote(r, op) => SetsOnly')
  <2>1. op \in Op /\ op.kind = "set"
    BY <1>1 DEF TypeOK, SetsOnly
  <2>2. ASSUME ApplyRemote(r, op) PROVE SetsOnly'
    <3>1. \A s \in Replica, k \in Key : tomb'[s][k] \in
            {IF s = r THEN TombAfter(r, op)[k] ELSE tomb[s][k], NoHlc}
      BY <1>1, <2>2 DEF ApplyRemote, TypeOK
    <3>2. \A n \in applied[r] : n.hlc # op.hlc
      BY <1>3, <2>1, FreshStamp
    <3> QED
      BY <1>3, <2>1, <2>2, <3>1, <3>2, ApplySetsOnly DEF ApplyRemote
  <2> QED
    BY <2>1, <2>2, FlatNeverThrows
<1>4. CASE /\ UNCHANGED <<doc, lww, ops, applied>>
           /\ \A r \in Replica, k \in Key : tomb'[r][k] \in {tomb[r][k], NoHlc}
  BY <1>4 DEF SetsOnly
<1> QED
  BY <1>2, <1>3, <1>4, StepCases

\* An application that only sets top-level keys: every replica holds, for each of
\* them, the value of the latest operation it applied.
LEMMA SetsOnlyLww ==
    ASSUME CausalInv, HlcOrder, MapsFromApplied, SetsOnly, FlatPaths
    PROVE  LastWriterWins
<1> SUFFICES ASSUME NEW r \in Replica, NEW m \in applied[r],
                    \A n \in applied[r] : n.path = m.path /\ n # m => Later(m.hlc, n.hlc)
             PROVE  doc[r][m.path] = m.value
  BY DEF LastWriterWins
<1>1. applied[r] \subseteq Op /\ m.path \in Path /\ KeyOf[m.path] \in Key
  BY KeyAssumption DEF CausalInv, TypeOK, Op
<1>2. /\ lww[r][KeyOf[m.path]] # NoHlc /\ ~Later(m.hlc, lww[r][KeyOf[m.path]])
      /\ m.hlc = lww[r][KeyOf[m.path]] => doc[r][m.path] = m.value
  BY DEF SetsOnly
<1>3. PICK n \in applied[r] : KeyOf[n.path] = KeyOf[m.path] /\ n.hlc = lww[r][KeyOf[m.path]]
  BY <1>1, <1>2 DEF MapsFromApplied
<1>4. n.path = m.path
  BY <1>1, <1>3 DEF FlatPaths, Op
<1> QED
  BY <1>2, <1>3, <1>4

LEMMA SetsOnlyConverge ==
    ASSUME CausalInv, MapsFromApplied, SetsOnly, FlatPaths
    PROVE  Convergence
<1> SUFFICES ASSUME NEW r \in Replica, NEW s \in Replica, applied[r] = applied[s],
                    NEW p \in Path
             PROVE  doc[r][p] = doc[s][p]
  BY DEF Convergence, CausalInv, TypeOK, Document
<1> DEFINE k == KeyOf[p]
<1>1. /\ k \in Key /\ applied[r] \subseteq Op
      /\ lww[r][k] \in HlcOf(Replica) \cup {NoHlc} /\ lww[s][k] \in HlcOf(Replica) \cup {NoHlc}
  BY KeyAssumption DEF CausalInv, TypeOK
<1>2. \A q \in {r, s} : lww[q][k] # NoHlc =>
        \E n \in applied[r] : n.path = p /\ n.hlc = lww[q][k]
  BY <1>1 DEF MapsFromApplied, FlatPaths, Op
<1>3. \A q \in {r, s} : \A n \in applied[r] : n.path = p =>
        /\ lww[q][k] # NoHlc /\ ~Later(n.hlc, lww[q][k])
        /\ n.hlc = lww[q][k] => doc[q][p] = n.value
  BY DEF SetsOnly
<1>4. CASE lww[r][k] = NoHlc
  BY <1>2, <1>3, <1>4 DEF SetsOnly
<1>5. CASE lww[r][k] # NoHlc
  <2>1. PICK n \in applied[r] : n.path = p /\ n.hlc = lww[r][k]
    BY <1>2, <1>5
  <2>2. PICK m \in applied[r] : m.path = p /\ m.hlc = lww[s][k]
    BY <1>2, <1>3, <2>1
  <2>3. n.hlc = m.hlc
    <3>1. ~Later(n.hlc, m.hlc) /\ ~Later(m.hlc, n.hlc)
      BY <1>3, <2>1, <2>2
    <3>2. n.hlc \in HlcOf(Replica) /\ m.hlc \in HlcOf(Replica)
      BY <1>1 DEF Op
    <3> QED
      BY <3>1, <3>2, LaterTotal
  <2> QED
    BY <1>3, <2>1, <2>2, <2>3
<1> QED
  BY <1>4, <1>5

LEMMA SetsOnlyInvariant == FlatPaths /\ Kinds \subseteq {"set"} => (Spec => [](MapsFromApplied /\ SetsOnly))
<1> SUFFICES ASSUME FlatPaths, Kinds \subseteq {"set"}
             PROVE  Spec => [](MapsFromApplied /\ SetsOnly)
  OBVIOUS
<1>1. Init => FlatInv /\ SetsOnly
  BY KeyAssumption DEF Init, FlatInv, MapsFromApplied, CausallyLastDecides, SetsOnly, EmptyDoc
<1>2. CausalInv /\ FlatInv /\ SetsOnly /\ [Next]_vars => (FlatInv /\ SetsOnly)'
  BY StepFlat, StepSetsOnly DEF FlatInv
<1> QED
  BY <1>1, <1>2, CausalCorrect, PTL DEF Spec, FlatInv

\* An application that only sets top-level keys: what a replica holds at a path is
\* the value of the latest operation on it that the replica applied.
THEOREM LwwCorrect == FlatPaths /\ Kinds \subseteq {"set"} => (Spec => []LastWriterWins)
<1> SUFFICES ASSUME FlatPaths, Kinds \subseteq {"set"} PROVE Spec => []LastWriterWins
  OBVIOUS
<1>1. CausalInv /\ HlcOrder /\ MapsFromApplied /\ SetsOnly => LastWriterWins
  BY SetsOnlyLww
<1> QED
  BY <1>1, CausalCorrect, HlcCorrect, SetsOnlyInvariant, PTL

\* Such an application converges: replicas that applied the same operations hold
\* the same document, in whatever order the operations reached them.
THEOREM ConvergenceCorrect == FlatPaths /\ Kinds \subseteq {"set"} => (Spec => []Convergence)
<1> SUFFICES ASSUME FlatPaths, Kinds \subseteq {"set"} PROVE Spec => []Convergence
  OBVIOUS
<1>1. CausalInv /\ MapsFromApplied /\ SetsOnly => Convergence
  BY SetsOnlyConverge
<1> QED
  BY <1>1, CausalCorrect, SetsOnlyInvariant, PTL

----------------------------------------------------------------------------
(* What was deleted stays deleted, as long as its tombstone is kept. *)

\* No tombstone is old enough to be collected.
TombstonesKept == \A now \in Clock : now <= Grace

\* The tombstone of a key is as late as every deletion applied on it.
TombsCover ==
    \A r \in Replica : \A n \in applied[r] : n.kind = "tombstone" =>
        /\ tomb[r][KeyOf[n.path]] # NoHlc
        /\ ~Later(n.hlc, tomb[r][KeyOf[n.path]])

LEMMA FreshTombsKeep ==
    ASSUME TombstonesKept, NEW t \in [Key -> HlcOf(Replica) \cup {NoHlc}], NEW now \in Clock
    PROVE  FreshTombs(t, now) = t
<1>1. \A k \in Key : t[k] # NoHlc => t[k].t \in Nat
  BY DEF HlcOf
<1>2. now \in Nat /\ now <= Grace
  BY BoundsAssumption DEF TombstonesKept
<1>3. \A k \in Key : t[k] # NoHlc => ~(now - t[k].t > Grace)
  BY <1>1, <1>2, OptionsAssumption
<1> QED
  BY <1>3 DEF FreshTombs

\* What a step does when tombstones are kept: nothing to the document and the
\* maps, or the application of one operation with a stamp of its own.
LEMMA KeepingStep ==
    ASSUME FlatPaths, TombstonesKept, CausalInv, [Next]_vars
    PROVE  \/ UNCHANGED <<doc, tomb, applied>>
           \/ \E r \in Replica, op \in Op :
                /\ \A n \in applied[r] : n.hlc # op.hlc
                /\ op \notin applied[r]
                /\ doc' = [doc EXCEPT ![r] = DocAfter(r, op)]
                /\ tomb' = [tomb EXCEPT ![r] = TombAfter(r, op)]
                /\ applied' = [applied EXCEPT ![r] = @ \cup {op}]
<1>1. TypeOK
  BY DEF CausalInv
<1>2. ASSUME NEW r \in Replica, NEW kind \in Kinds, NEW p \in Path,
             NEW v \in Value \cup {Absent}, NEW op \in NewOps(r, kind, p, v)
      PROVE  /\ ~Throws(r, op) /\ op \in Op
             /\ \A n \in applied[r] : n.hlc # op.hlc
             /\ \A gcNow \in Clock : FinishOp(r, op, gcNow) =>
                  tomb' = [tomb EXCEPT ![r] = TombAfter(r, op)]
  <2>1. op \in Op /\ op.src = r /\ op.deps = vcTick(vc[r], r) /\ Before(hlc[r], op.hlc)
    BY <1>1, KindsAssumption, NewOpType
  <2>2. \A gcNow \in Clock : AutoGcTombs(TombAfter(r, op), gcNow) = TombAfter(r, op)
    BY <1>1, <2>1, ApplyType, FreshTombsKeep DEF AutoGcTombs
  <2> QED
    BY <2>1, <2>2, FlatNeverThrows, FreshStamp DEF FinishOp
<1>3. ASSUME NEW r \in Replica, NEW op \in ops, isCausallyReady(vc[r], op)
      PROVE  ~Throws(r, op) /\ op \in Op /\ \A n \in applied[r] : n.hlc # op.hlc
  BY <1>1, <1>3, FlatNeverThrows, FreshStamp DEF TypeOK
<1>4. ASSUME NEW r \in Replica, GcTombstones(r)
      PROVE  UNCHANGED <<doc, tomb, applied>>
  <2>1. PICK now \in Clock : tomb' = [tomb EXCEPT ![r] = FreshTombs(@, now)]
    BY <1>4 DEF GcTombstones
  <2>2. tomb[r] \in [Key -> HlcOf(Replica) \cup {NoHlc}]
    BY <1>1 DEF TypeOK
  <2>3. tomb' = [tomb EXCEPT ![r] = tomb[r]]
    BY <2>1, <2>2, FreshTombsKeep
  <2> QED
    BY <1>1, <1>4, <2>3 DEF GcTombstones, TypeOK
<1>5. ASSUME NEW r \in Replica, NEW op \in ops, NEW kept \in Thinnings(pending[r]), ReceiveReady(r, op, kept)
      PROVE  isCausallyReady(vc[r], op) /\ (ApplyRemote(r, op) \/ Throws(r, op))
  BY <1>5 DEF ReceiveReady
<1>6. CASE UNCHANGED <<doc, tomb, applied>>
  BY <1>6
<1>7. CASE Next
  <2>1. CASE DrainItem
    BY <1>3, <2>1, DrainItemCases DEF ApplyRemote
  <2>2. CASE \E r \in Replica, op \in ops : \E kept \in Thinnings(pending[r]) :
               ReceiveEarly(r, op, kept) \/ ReceiveReady(r, op, kept)
    BY <1>3, <1>5, <2>2 DEF ReceiveEarly, ApplyRemote
  <2>3. CASE \E r \in Replica : DrainPending(r) \/ Gc(r)
    BY <1>4, <2>3 DEF DrainPending, Gc, GcLog, CleanPendingBuffer
  <2>4. CASE \E r \in Replica, kind \in Kinds, p \in Path, v \in Value \cup {Absent} :
               \E op \in NewOps(r, kind, p, v) :
                  (\E gcNow \in Clock : FinishOp(r, op, gcNow)) \/ FailOp(r, op)
    <3>1. PICK r \in Replica, kind \in Kinds, p \in Path, v \in Value \cup {Absent} :
            \E op \in NewOps(r, kind, p, v) :
              (\E gcNow \in Clock : FinishOp(r, op, gcNow)) \/ FailOp(r, op)
      BY <2>4
    <3>2. PICK op \in NewOps(r, kind, p, v) :
            (\E gcNow \in Clock : FinishOp(r, op, gcNow)) \/ FailOp(r, op)
      BY <3>1
    <3>3. /\ ~Throws(r, op) /\ op \in Op
          /\ \A n \in applied[r] : n.hlc # op.hlc
          /\ \A gcNow \in Clock : FinishOp(r, op, gcNow) =>
               tomb' = [tomb EXCEPT ![r] = TombAfter(r, op)]
      BY <1>2
    <3>4. op \notin applied[r]
      BY <3>3
    <3>5. PICK gcNow \in Clock : FinishOp(r, op, gcNow)
      BY <3>2, <3>3 DEF FailOp
    <3>6. /\ tomb' = [tomb EXCEPT ![r] = TombAfter(r, op)]
          /\ doc' = [doc EXCEPT ![r] = DocAfter(r, op)]
          /\ applied' = [applied EXCEPT ![r] = @ \cup {op}]
      BY <3>3, <3>5 DEF FinishOp
    <3> QED
      BY <3>3, <3>4, <3>6
  <2> QED
    BY <1>1, <1>7, <2>1, <2>2, <2>3, <2>4, NextCases DEF DrainPass
<1> QED
  BY <1>6, <1>7 DEF vars

LEMMA StepTombsCover ==
    ASSUME FlatPaths, TombstonesKept, CausalInv, TombsCover, [Next]_vars
    PROVE  TombsCover'
<1>1. CASE UNCHANGED <<doc, tomb, applied>>
  BY <1>1 DEF TombsCover
<1>2. ASSUME NEW r \in Replica, NEW op \in Op,
             tomb' = [tomb EXCEPT ![r] = TombAfter(r, op)],
             applied' = [applied EXCEPT ![r] = @ \cup {op}]
      PROVE  TombsCover'
  <2>1. /\ tomb[r] \in [Key -> HlcOf(Replica) \cup {NoHlc}] /\ KeyOf[op.path] \in Key
        /\ op.hlc \in HlcOf(Replica) /\ op.hlc # NoHlc
    BY KeyAssumption, NoHlcAssumption DEF CausalInv, TypeOK, Op
  <2>2. \A s \in Replica : /\ tomb'[s] = IF s = r THEN TombAfter(r, op) ELSE tomb[s]
                           /\ applied'[s] = IF s = r THEN applied[r] \cup {op} ELSE applied[s]
    BY <1>2 DEF CausalInv, TypeOK
  <2>3. ASSUME NEW n \in applied[r], n.kind = "tombstone"
        PROVE  /\ TombAfter(r, op)[KeyOf[n.path]] # NoHlc
               /\ ~Later(n.hlc, TombAfter(r, op)[KeyOf[n.path]])
    <3>1. /\ n.hlc \in HlcOf(Replica) /\ KeyOf[n.path] \in Key
          /\ tomb[r][KeyOf[n.path]] # NoHlc /\ ~Later(n.hlc, tomb[r][KeyOf[n.path]])
      BY <2>3, KeyAssumption DEF TombsCover, CausalInv, TypeOK, Op
    <3>2. CASE TombWins(r, op) /\ KeyOf[n.path] = KeyOf[op.path]
      <4>1. TombAfter(r, op)[KeyOf[n.path]] = op.hlc
        BY <2>1, <3>2 DEF TombAfter
      <4>2. Later(op.hlc, tomb[r][KeyOf[n.path]])
        BY <3>1, <3>2 DEF TombWins, Beats
      <4>3. ~Later(n.hlc, op.hlc)
        BY <2>1, <3>1, <4>2, LaterTotal
      <4> QED
        BY <2>1, <4>1, <4>3
    <3>3. CASE ~(TombWins(r, op) /\ KeyOf[n.path] = KeyOf[op.path])
      BY <2>1, <3>1, <3>3 DEF TombAfter
    <3> QED
      BY <3>2, <3>3
  <2>4. ASSUME op.kind = "tombstone"
        PROVE  /\ TombAfter(r, op)[KeyOf[op.path]] # NoHlc
               /\ ~Later(op.hlc, TombAfter(r, op)[KeyOf[op.path]])
    BY <2>1, <2>4, LaterTotal DEF TombAfter, TombWins, Beats
  <2> QED
    BY <2>2, <2>3, <2>4 DEF TombsCover
<1> QED
  BY <1>1, <1>2, KeepingStep

\* With top-level keys and tombstones that are kept, a path a replica does not
\* hold comes back only by a write later than every deletion the replica applied.
THEOREM NoResurrectionCorrect == FlatPaths /\ TombstonesKept => (Spec => NoResurrection)
<1> SUFFICES ASSUME FlatPaths, TombstonesKept PROVE Spec => NoResurrection
  OBVIOUS
<1>1. Init => TombsCover
  BY DEF Init, TombsCover
<1>2. CausalInv /\ TombsCover /\ [Next]_vars => TombsCover'
  BY StepTombsCover
<1>3. CausalInv /\ TombsCover /\ [Next]_vars =>
        [\A r \in Replica, p \in Path :
           doc[r][p] = Absent /\ doc'[r][p] # Absent =>
             \E m \in applied'[r] \ applied[r] : \A n \in applied[r] :
               n.kind = "tombstone" /\ n.path = p => Later(m.hlc, n.hlc)]_vars
  <2> SUFFICES ASSUME CausalInv, TombsCover, [Next]_vars, NEW r \in Replica, NEW p \in Path,
                      doc[r][p] = Absent, doc'[r][p] # Absent
               PROVE  \E m \in applied'[r] \ applied[r] : \A n \in applied[r] :
                        n.kind = "tombstone" /\ n.path = p => Later(m.hlc, n.hlc)
    OBVIOUS
  <2>1. TypeOK
    BY DEF CausalInv
  <2>2. PICK s \in Replica, op \in Op :
          /\ \A n \in applied[s] : n.hlc # op.hlc
          /\ op \notin applied[s]
          /\ doc' = [doc EXCEPT ![s] = DocAfter(s, op)]
          /\ applied' = [applied EXCEPT ![s] = @ \cup {op}]
    BY KeepingStep
  <2>3. s = r /\ applied'[r] = applied[r] \cup {op} /\ doc'[r] = DocAfter(r, op)
    BY <2>1, <2>2 DEF TypeOK
  <2>4. p = op.path /\ SetWins(r, op)
    BY <2>1, <2>3, FlatEdit
  <2>5. ASSUME NEW n \in applied[r], n.kind = "tombstone", n.path = p
        PROVE  Later(op.hlc, n.hlc)
    <3>1. /\ n.hlc \in HlcOf(Replica) /\ op.hlc \in HlcOf(Replica)
          /\ tomb[r][KeyOf[p]] \in HlcOf(Replica) \cup {NoHlc}
      BY <2>1, KeyAssumption DEF TypeOK, Op
    <3>2. tomb[r][KeyOf[p]] # NoHlc /\ ~Later(n.hlc, tomb[r][KeyOf[p]])
      BY <2>5 DEF TombsCover
    <3>3. ~Later(tomb[r][KeyOf[p]], op.hlc)
      BY <2>4, <3>2 DEF SetWins
    <3>4. n.hlc # op.hlc
      BY <2>2, <2>3
    <3> QED
      BY <3>1, <3>2, <3>3, <3>4, LaterTotal
  <2> QED
    BY <2>2, <2>3, <2>5
<1> QED
  BY <1>1, <1>2, <1>3, CausalCorrect, PTL DEF Spec, NoResurrection

----------------------------------------------------------------------------
(* Causal broadcast: an operation the replica makes is issued, an operation *)
(* it applies is delivered, and every other step leaves both as they are.   *)

\* A number of a replica's component of the vector clock names one operation.
LEMMA DotUnique ==
    ASSUME CausalInv, NEW n \in ops, NEW m \in ops, Dot(n) = Dot(m)
    PROVE  n = m
BY DEF CausalInv, ClockBounds, Dot

LEMMA BroadcastInit == Init => Causal!Init
BY DEF Init, Causal!Init

\* What the abstract variables become when an operation is issued.
LEMMA BroadcastIssue ==
    ASSUME CausalInv, NEW r \in Replica, NEW op \in Op,
           op.src = r, op.deps = vcTick(vc[r], r), vc[r][r] < MaxOps[r],
           ops' = ops \cup {op}, applied' = [applied EXCEPT ![r] = @ \cup {op}]
    PROVE  Causal!Next
<1> USE DEF CausalInv
<1>1. /\ vc[r] \in [Replica -> Nat] /\ op.deps \in [Replica -> Nat]
      /\ op.deps[r] = vc[r][r] + 1
      /\ \A s \in Replica \ {r} : op.deps[s] = vc[r][s]
  BY DEF TypeOK, VectorClock, vcTick
<1>2. ASSUME NEW n \in ops
      PROVE  /\ n.src \in Replica /\ n.deps \in [Replica -> Nat]
             /\ n.deps[r] < op.deps[r]
             /\ n # op /\ ~Precedes(op, n)
             /\ Precedes(n, op) <=> n \in applied[r]
  <2>1. n.src \in Replica /\ n.deps \in [Replica -> Nat]
    BY DEF TypeOK, Op, VectorClock
  <2>2. n.deps[r] <= vc[r][r]
    BY DEF ClockBounds
  <2>3. n.deps[r] < op.deps[r]
    BY <1>1, <2>1, <2>2
  <2>4. n # op /\ ~Precedes(op, n)
    BY <1>1, <2>1, <2>3 DEF Precedes
  <2>5. Precedes(n, op) <=> n.deps[n.src] <= vc[r][n.src]
    BY <1>1, <2>1, <2>2, <2>3, <2>4 DEF Precedes
  <2>6. n \in applied[r] <=> n.deps[n.src] <= vc[r][n.src]
    BY <1>1, <2>1 DEF ClockIsApplied, seen
  <2> QED
    BY <2>1, <2>3, <2>4, <2>5, <2>6
<1>3. Dot(op) \in UNION {{s} \X (1 .. MaxOps[s]) : s \in Replica}
  <2>1. MaxOps[r] \in Nat /\ op.deps[r] \in 1 .. MaxOps[r]
    BY <1>1, BoundsAssumption
  <2>2. Dot(op) \in {r} \X (1 .. MaxOps[r])
    BY <2>1 DEF Dot
  <2> QED
    BY <2>2
<1>4. Dot(op) \notin {Dot(n) : n \in ops}
  BY <1>2 DEF Dot
<1>5. {Dot(n) : n \in ops'} = {Dot(n) : n \in ops} \cup {Dot(op)}
  BY DEF Dot
<1>6. \A s \in Replica : applied[s] \subseteq ops
  BY DEF ClockIsApplied
<1>7. applied \in [Replica -> SUBSET Op]
  BY DEF TypeOK
<1> DEFINE precedesOf(S) == {<<Dot(e[1]), Dot(e[2])>> : e \in {x \in S \X S : Precedes(x[1], x[2])}}
           deliveredOf(a) == [s \in Replica |-> {Dot(n) : n \in a[s]}]
<1>8. precedesOf(ops \cup {op}) = precedesOf(ops) \cup ({Dot(n) : n \in applied[r]} \X {Dot(op)})
  <2>1. \A x \in (ops \cup {op}) \X (ops \cup {op}) :
          Precedes(x[1], x[2]) <=> \/ x \in ops \X ops /\ Precedes(x[1], x[2])
                                   \/ x[1] \in applied[r] /\ x[2] = op
    BY <1>2, <1>6 DEF Precedes
  <2>2. ASSUME NEW y \in precedesOf(ops \cup {op})
        PROVE  y \in precedesOf(ops) \cup ({Dot(n) : n \in applied[r]} \X {Dot(op)})
    <3>1. PICK x \in (ops \cup {op}) \X (ops \cup {op}) :
            Precedes(x[1], x[2]) /\ y = <<Dot(x[1]), Dot(x[2])>>
      OBVIOUS
    <3>2. CASE x \in ops \X ops
      BY <3>1, <3>2
    <3>3. CASE x[1] \in applied[r] /\ x[2] = op
      BY <3>1, <3>3
    <3> QED
      BY <2>1, <3>1, <3>2, <3>3
  <2>3. ASSUME NEW y \in precedesOf(ops)
        PROVE  y \in precedesOf(ops \cup {op})
    <3>1. PICK x \in ops \X ops : Precedes(x[1], x[2]) /\ y = <<Dot(x[1]), Dot(x[2])>>
      OBVIOUS
    <3> QED
      BY <3>1
  <2>4. ASSUME NEW n \in applied[r]
        PROVE  <<Dot(n), Dot(op)>> \in precedesOf(ops \cup {op})
    <3>1. n \in ops /\ Precedes(n, op)
      BY <1>2, <1>6
    <3>2. /\ <<n, op>> \in {x \in (ops \cup {op}) \X (ops \cup {op}) : Precedes(x[1], x[2])}
          /\ <<n, op>>[1] = n /\ <<n, op>>[2] = op
      BY <3>1
    <3> QED
      BY <3>2
  <2> QED
    BY <2>2, <2>3, <2>4
<1>9. deliveredOf(applied') = [deliveredOf(applied) EXCEPT ![r] = @ \cup {Dot(op)}]
  <2>1. \A s \in Replica : applied'[s] = IF s = r THEN applied[s] \cup {op} ELSE applied[s]
    BY <1>7
  <2>2. {Dot(n) : n \in applied[r] \cup {op}} = {Dot(n) : n \in applied[r]} \cup {Dot(op)}
    OBVIOUS
  <2>3. \A s \in Replica : deliveredOf(applied')[s] =
          IF s = r THEN {Dot(n) : n \in applied[r]} \cup {Dot(op)} ELSE {Dot(n) : n \in applied[s]}
    BY <2>1, <2>2
  <2> QED
    BY <2>3
<1>10. Causal!Issue(r, Dot(op))
  BY <1>4, <1>5, <1>8, <1>9 DEF Causal!Issue
<1> QED
  BY <1>3, <1>10 DEF Causal!Next

\* What they become when an operation is delivered.
LEMMA BroadcastDeliver ==
    ASSUME CausalInv, NEW r \in Replica, NEW op \in ops, isCausallyReady(vc[r], op),
           ops' = ops, applied' = [applied EXCEPT ![r] = @ \cup {op}]
    PROVE  Causal!Next
<1> USE DEF CausalInv
<1>1. /\ vc[r] \in [Replica -> Nat] /\ op.deps \in [Replica -> Nat] /\ op.src \in Replica
      /\ op.deps[op.src] = vc[r][op.src] + 1
      /\ \A s \in Replica \ {op.src} : op.deps[s] <= vc[r][s]
  BY DEF TypeOK, Op, VectorClock, isCausallyReady
<1>2. applied \in [Replica -> SUBSET Op] /\ \A s \in Replica : applied[s] \subseteq ops
  BY DEF TypeOK, ClockIsApplied
<1>3. op \notin applied[r]
  BY <1>1 DEF ClockIsApplied, seen
<1>4. Dot(op) \notin {Dot(n) : n \in applied[r]}
  BY <1>2, <1>3, DotUnique
<1>5. Dot(op) \in {Dot(n) : n \in ops}
  OBVIOUS
<1>6. ASSUME NEW n \in ops, Precedes(n, op)
      PROVE  n \in applied[r]
  <2>1. n.src \in Replica /\ n.deps \in [Replica -> Nat] /\ n.deps[n.src] <= op.deps[n.src] /\ n # op
    BY <1>6 DEF TypeOK, Op, VectorClock, Precedes
  <2>2. n.src = op.src => n.deps[n.src] # op.deps[op.src]
    BY <2>1 DEF ClockBounds
  <2>3. n.deps[n.src] <= vc[r][n.src]
    BY <1>1, <2>1, <2>2
  <2> QED
    BY <2>3 DEF ClockIsApplied, seen
<1>7. ASSUME NEW d, <<d, Dot(op)>> \in {<<Dot(e[1]), Dot(e[2])>> : e \in {x \in ops \X ops : Precedes(x[1], x[2])}}
      PROVE  d \in {Dot(n) : n \in applied[r]}
  <2>1. PICK e \in ops \X ops : Precedes(e[1], e[2]) /\ d = Dot(e[1]) /\ Dot(op) = Dot(e[2])
    BY <1>7
  <2>2. e[2] = op
    BY <2>1, DotUnique
  <2> QED
    BY <1>6, <2>1, <2>2
<1> DEFINE deliveredOf(a) == [s \in Replica |-> {Dot(n) : n \in a[s]}]
<1>8. deliveredOf(applied') = [deliveredOf(applied) EXCEPT ![r] = @ \cup {Dot(op)}]
  <2>1. \A s \in Replica : applied'[s] = IF s = r THEN applied[s] \cup {op} ELSE applied[s]
    BY <1>2
  <2>2. {Dot(n) : n \in applied[r] \cup {op}} = {Dot(n) : n \in applied[r]} \cup {Dot(op)}
    OBVIOUS
  <2>3. \A s \in Replica : deliveredOf(applied')[s] =
          IF s = r THEN {Dot(n) : n \in applied[r]} \cup {Dot(op)} ELSE {Dot(n) : n \in applied[s]}
    BY <2>1, <2>2
  <2> QED
    BY <2>3
<1>9. Causal!Deliver(r, Dot(op))
  BY <1>4, <1>7, <1>8 DEF Causal!Deliver
<1> QED
  BY <1>5, <1>9 DEF Causal!Next

LEMMA BroadcastStep == CausalInv /\ [Next]_vars => [Causal!Next]_(Causal!cbVars)
<1> SUFFICES ASSUME CausalInv, [Next]_vars
             PROVE  Causal!Next \/ UNCHANGED Causal!cbVars
  OBVIOUS
<1>1. CASE UNCHANGED <<ops, applied>>
  BY <1>1 DEF Causal!cbVars
<1>2. ASSUME NEW r \in Replica, NEW kind \in Kinds, NEW p \in Path, NEW v \in Value \cup {Absent},
             NEW op \in NewOps(r, kind, p, v), NEW gcNow \in Clock, FinishOp(r, op, gcNow)
      PROVE  Causal!Next
  <2>1. op \in Op /\ op.src = r /\ op.deps = vcTick(vc[r], r)
    BY KindsAssumption, NewOpType DEF CausalInv
  <2> QED
    BY <1>2, <2>1, BroadcastIssue DEF FinishOp
<1>3. ASSUME NEW r \in Replica, NEW op \in ops, isCausallyReady(vc[r], op), ops' = ops,
             ApplyRemote(r, op) \/ ApplyThrows(r, op)
      PROVE  Causal!Next \/ UNCHANGED <<ops, applied>>
  BY <1>3, BroadcastDeliver DEF ApplyRemote, ApplyThrows
<1>4. CASE Next
  <2>1. CASE DrainItem
    BY <1>1, <1>3, <2>1, DrainItemCases
  <2>2. CASE \E r \in Replica, op \in ops : \E kept \in Thinnings(pending[r]) :
               ReceiveEarly(r, op, kept) \/ ReceiveReady(r, op, kept)
    <3>1. PICK r \in Replica, op \in ops : \E kept \in Thinnings(pending[r]) :
            ReceiveEarly(r, op, kept) \/ ReceiveReady(r, op, kept)
      BY <2>2
    <3>2. \/ UNCHANGED <<ops, applied>>
          \/ /\ isCausallyReady(vc[r], op) /\ ops' = ops
             /\ ApplyRemote(r, op) \/ ApplyThrows(r, op)
      BY <3>1 DEF ReceiveEarly, ReceiveReady
    <3> QED
      BY <1>1, <1>3, <3>2
  <2>3. CASE \E r \in Replica : DrainPending(r) \/ Gc(r)
    BY <1>1, <2>3 DEF DrainPending, Gc, GcLog, CleanPendingBuffer, GcTombstones
  <2>4. CASE \E r \in Replica, kind \in Kinds, p \in Path, v \in Value \cup {Absent} :
               \E op \in NewOps(r, kind, p, v) :
                  (\E gcNow \in Clock : FinishOp(r, op, gcNow)) \/ FailOp(r, op)
    BY <1>1, <1>2, <2>4 DEF FailOp
  <2>5. CASE DrainPass
    BY <1>1, <2>5 DEF DrainPass
  <2>6. TypeOK
    BY DEF CausalInv
  <2> QED
    BY <1>4, <2>1, <2>2, <2>3, <2>4, <2>5, <2>6, NextCases
<1> QED
  BY <1>1, <1>4 DEF vars

\* JSONCrdt implements causal broadcast: whatever is lost, repeated, reordered,
\* buffered, expired or thrown, a replica applies an operation at most once and
\* after everything its maker had applied.
THEOREM ImplementsCausalBroadcast == Spec => ImplementsCausal
<1>1. Init => Causal!Init
  BY BroadcastInit
<1>2. CausalInv /\ [Next]_vars => [Causal!Next]_(Causal!cbVars)
  BY BroadcastStep
<1> QED
  BY <1>1, <1>2, CausalCorrect, PTL DEF Spec, ImplementsCausal, Causal!Spec
=============================================================================

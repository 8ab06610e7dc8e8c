------------------------ MODULE JsonCrdtBufferProofs ------------------------
(***************************************************************************)
(* Proofs about what replicas of JsonCrdt keep for each other: the buffer  *)
(* of what came too early, which a drain never leaves half done, and the   *)
(* log, from which diffSince answers.  Both are for applications whose     *)
(* calls do not throw, because they write top-level keys only; an          *)
(* exception in the middle of a drain leaves behind what was applied.      *)
(***************************************************************************)
EXTENDS JsonCrdtProofs, WellFoundedInduction

\* Every path is a top-level key; two of them may share a map entry.
TopLevelOnly == \A p \in Path : Anc[p] = {}

LEMMA TopLevelNeverThrows ==
    ASSUME TopLevelOnly, NEW r \in Replica, NEW op \in Op
    PROVE  ~Throws(r, op)
BY DEF TopLevelOnly, Throws, Blocked, Op

----------------------------------------------------------------------------
(* The pending buffer *)

\* A local operation makes nothing ready that was buffered: the replica had
\* counted every operation of its own.
LEMMA LocalKeepsWaiting ==
    ASSUME CausalInv, NEW r \in Replica, NEW op \in Op, op.src = r,
           op.deps = vcTick(vc[r], r), vc' = [vc EXCEPT ![r] = op.deps], ops' = ops \cup {op},
           NEW a \in Replica
    PROVE  Waiting(a) \subseteq Waiting(a)'
<1>1. vc \in [Replica -> VectorClock] /\ ops \subseteq Op
  BY DEF CausalInv, TypeOK
<1>2. CASE a # r
  BY <1>1, <1>2 DEF Waiting
<1>3. CASE a = r
  <2> SUFFICES ASSUME NEW n \in Waiting(r) PROVE n \in Waiting(r)'
    BY <1>3
  <2>1. /\ n \in ops /\ n \in Op /\ n.src \in Replica /\ n.deps \in VectorClock /\ vc[r] \in VectorClock
        /\ ~isCausallyReady(vc[r], n) /\ ~seen(vc[r], n)
    BY <1>1 DEF Waiting, Op
  <2>2. \A s \in Replica : n.deps[s] \in Nat /\ vc[r][s] \in Nat
    BY <2>1 DEF VectorClock
  <2>3. \A s \in Replica : vc'[r][s] = IF s = r THEN vc[r][r] + 1 ELSE vc[r][s]
    BY <1>1, <2>1 DEF vcTick, VectorClock
  <2>4. n.deps[r] <= vc[r][r]
    BY <2>1 DEF CausalInv, ClockBounds
  <2>5. n.src # r
    BY <2>1, <2>2, <2>4 DEF seen
  <2>6. ~seen(vc'[r], n)
    BY <2>1, <2>3, <2>5 DEF seen
  <2>7. ~isCausallyReady(vc'[r], n)
    BY <2>1, <2>2, <2>3, <2>4, <2>5 DEF isCausallyReady
  <2> QED
    BY <2>1, <2>6, <2>7 DEF Waiting
<1> QED
  BY <1>2, <1>3

\* Nor does a step that leaves the clock of a replica alone.
LEMMA SameClockWaiting ==
    ASSUME ops' = ops, NEW a \in Replica, vc'[a] = vc[a]
    PROVE  Waiting(a)' = Waiting(a)
BY DEF Waiting

\* drainPending is idle on nothing, and has put nothing aside when it starts.
LEMMA StartDrainSettled ==
    ASSUME NEW r \in Replica, NEW items, NEW S
    PROVE  LET d == StartDrain(r, items)
           IN  /\ d = Idle => items = <<>>
               /\ d # Idle => d.at = r /\ d.rest \in Seq(S)
<1>1. Idle # [busy |-> TRUE, at |-> r, todo |-> items, rest |-> <<>>, progressed |-> FALSE]
  <2>1. [busy |-> TRUE, at |-> r, todo |-> items, rest |-> <<>>, progressed |-> FALSE].busy # Idle.busy
    BY DEF Idle
  <2> QED
    BY <2>1
<1> QED
  BY <1>1, EmptySeq DEF StartDrain

LEMMA FinishOpDrain ==
    ASSUME CausalInv, DrainInv, NEW r \in Replica, NEW op \in Op, NEW gcNow \in Clock,
           FinishOp(r, op, gcNow), op.src = r, op.deps = vcTick(vc[r], r)
    PROVE  DrainInv'
<1>1. PICK kept \in Cleaned(pending[r], AutoGcTooLong(pending[r])) :
        pending' = [pending EXCEPT ![r] = kept]
  BY DEF FinishOp
<1>2. /\ drain = Idle /\ drain' = Idle
      /\ vc' = [vc EXCEPT ![r] = op.deps] /\ ops' = ops \cup {op}
  BY DEF FinishOp
<1>3. \A a \in Replica : pending[a] \in Seq(Waiting(a))
  BY <1>2 DEF DrainInv
<1>4. kept \in Seq(Waiting(r))
  BY <1>1, <1>3, CleanedType
<1>5. \A a \in Replica : pending'[a] \in Seq(Waiting(a))
  BY <1>1, <1>3, <1>4 DEF CausalInv, TypeOK
<1>6. \A a \in Replica : Waiting(a) \subseteq Waiting(a)'
  BY <1>2, LocalKeepsWaiting
<1>7. \A a \in Replica : pending'[a] \in Seq(Waiting(a)')
  BY <1>5, <1>6, SeqMonotonic
<1> QED
  BY <1>2, <1>7 DEF DrainInv

LEMMA ReceiveDrain ==
    ASSUME TopLevelOnly, CausalInv, DrainInv, NEW r \in Replica, NEW op \in ops,
           NEW kept \in Thinnings(pending[r]), ReceiveEarly(r, op, kept) \/ ReceiveReady(r, op, kept)
    PROVE  DrainInv'
<1>1. drain = Idle /\ ops' = ops /\ ~seen(vc[r], op)
  BY DEF ReceiveEarly, ReceiveReady, MayReceive
<1>2. pending \in [Replica -> Seq(Op)] /\ \A a \in Replica : pending[a] \in Seq(Waiting(a))
  BY <1>1 DEF DrainInv, CausalInv, TypeOK
<1>3. kept \in Seq(Waiting(r))
  BY <1>2, ThinningsType
<1>4. CASE ReceiveEarly(r, op, kept)
  <2>1. drain' = Idle /\ vc' = vc /\ pending' = [pending EXCEPT ![r] = Append(kept, op)]
    BY <1>1, <1>4 DEF ReceiveEarly
  <2>2. op \in Waiting(r)
    BY <1>1, <1>4 DEF ReceiveEarly, Waiting
  <2>3. Append(kept, op) \in Seq(Waiting(r))
    BY <1>3, <2>2, AppendProperties
  <2>4. \A a \in Replica : pending'[a] \in Seq(Waiting(a)) /\ Waiting(a)' = Waiting(a)
    BY <1>1, <1>2, <2>1, <2>3, SameClockWaiting
  <2> QED
    BY <2>1, <2>4 DEF DrainInv
<1>5. CASE ReceiveReady(r, op, kept)
  <2>1. ~Throws(r, op)
    BY TopLevelNeverThrows DEF CausalInv, TypeOK
  <2>2. /\ pending' = [pending EXCEPT ![r] = kept] /\ drain' = StartDrain(r, kept)
        /\ \A a \in Replica \ {r} : vc'[a] = vc[a]
    BY <1>5, <2>1 DEF ReceiveReady, ApplyRemote, CausalInv, TypeOK
  <2>3. \A a \in Replica \ {r} : pending'[a] \in Seq(Waiting(a)')
    BY <1>1, <1>2, <2>2, SameClockWaiting
  <2>4. drain' = Idle => pending'[r] \in Seq(Waiting(r)')
    BY <1>2, <2>2, StartDrainSettled, EmptySeq
  <2>5. drain' # Idle => drain'.at = r /\ drain'.rest \in Seq(Waiting(r)')
    BY <2>2, StartDrainSettled
  <2> QED
    BY <2>3, <2>4, <2>5 DEF DrainInv
<1> QED
  BY <1>4, <1>5

LEMMA DrainItemDrain ==
    ASSUME TopLevelOnly, CausalInv, DrainInv, DrainItem
    PROVE  DrainInv'
<1>0. PICK r \in Replica : drain.at = r
  BY DEF DrainItem, CausalInv, TypeOK, Draining
<1> DEFINE op == Head(drain.todo)
<1>1. /\ drain # Idle /\ drain \in Draining /\ drain.at = r /\ drain.todo # <<>>
      /\ drain.rest \in Seq(Op) /\ drain.progressed \in BOOLEAN
  BY <1>0 DEF DrainItem, CausalInv, TypeOK, Draining
<1>2. op \in ops /\ op \in Op /\ ops' = ops /\ pending' = pending
  BY <1>1, HeadTailProperties DEF DrainItem, CausalInv, BufferedExist, TypeOK
<1>3. \A a \in Replica \ {r} : pending[a] \in Seq(Waiting(a))
  BY <1>1 DEF DrainInv
<1>4. ~Throws(r, op)
  BY <1>1, <1>2, TopLevelNeverThrows
<1>5. Idle \notin Draining
  <2>1. \A d \in Draining : d.busy = TRUE
    BY DEF Draining
  <2> QED
    BY <2>1 DEF Idle
<1>6. \A a \in Replica \ {r} : vc'[a] = vc[a]
  BY <1>1, <1>4 DEF DrainItem, ApplyRemote, CausalInv, TypeOK
<1>7. \A a \in Replica \ {r} : pending'[a] \in Seq(Waiting(a)')
  BY <1>2, <1>3, <1>6, SameClockWaiting
<1>8. CASE seen(vc[r], op) /\ drain' = [drain EXCEPT !.todo = Tail(@)] /\ vc' = vc
  <2>1. drain'.at = r /\ drain'.rest = drain.rest /\ drain'.progressed = drain.progressed
        /\ drain' # Idle
    BY <1>1, <1>8 DEF Draining, Idle
  <2>2. Waiting(r)' = Waiting(r)
    BY <1>1, <1>2, <1>8, SameClockWaiting
  <2> QED
    BY <1>1, <1>7, <2>1, <2>2 DEF DrainInv
<1>9. CASE /\ ~seen(vc[r], op) /\ ~isCausallyReady(vc[r], op) /\ vc' = vc
           /\ drain' = [drain EXCEPT !.todo = Tail(@), !.rest = Append(@, op)]
  <2>1. drain'.at = r /\ drain'.rest = Append(drain.rest, op) /\ drain'.progressed = drain.progressed
        /\ drain' # Idle
    BY <1>1, <1>9 DEF Draining, Idle
  <2>2. Waiting(r)' = Waiting(r) /\ op \in Waiting(r)
    BY <1>1, <1>2, <1>9, SameClockWaiting DEF Waiting
  <2>3. drain.rest \in Seq(Waiting(r)) => Append(drain.rest, op) \in Seq(Waiting(r))
    BY <2>2, AppendProperties
  <2> QED
    BY <1>1, <1>7, <2>1, <2>2, <2>3 DEF DrainInv
<1>10. CASE drain' = [drain EXCEPT !.todo = Tail(@), !.progressed = TRUE]
  <2>1. drain'.at = r /\ drain'.progressed = TRUE
    BY <1>1, <1>10 DEF Draining
  <2>2. drain' # Idle
    BY <1>1, <1>5, <1>10 DEF Draining, Idle
  <2> QED
    BY <1>7, <2>1, <2>2 DEF DrainInv
<1> QED
  BY <1>1, <1>4, <1>8, <1>9, <1>10 DEF DrainItem

LEMMA DrainPassDrain ==
    ASSUME CausalInv, DrainInv, DrainPass
    PROVE  DrainInv'
<1>0. PICK r \in Replica : drain.at = r
  BY DEF DrainPass, CausalInv, TypeOK, Draining
<1>1. drain # Idle /\ drain.at = r /\ drain.rest \in Seq(Op) /\ pending \in [Replica -> Seq(Op)]
  BY <1>0 DEF DrainPass, CausalInv, TypeOK, Draining
<1>2. /\ ops' = ops /\ vc' = vc /\ pending' = [pending EXCEPT ![r] = drain.rest]
      /\ drain' = IF drain.progressed THEN StartDrain(r, drain.rest) ELSE Idle
  BY <1>1 DEF DrainPass
<1>3. \A a \in Replica : Waiting(a)' = Waiting(a)
  BY <1>2, SameClockWaiting
<1>4. \A a \in Replica \ {r} : pending'[a] \in Seq(Waiting(a)')
  BY <1>1, <1>2, <1>3 DEF DrainInv
<1>5. CASE drain.progressed
  <2>1. drain' = Idle => pending'[r] \in Seq(Waiting(r)')
    BY <1>1, <1>2, <1>5, StartDrainSettled, EmptySeq
  <2>2. drain' # Idle => drain'.at = r /\ drain'.rest \in Seq(Waiting(r)')
    BY <1>1, <1>2, <1>5, StartDrainSettled
  <2> QED
    BY <1>4, <2>1, <2>2 DEF DrainInv
<1>6. CASE ~drain.progressed
  <2>1. drain' = Idle /\ pending'[r] \in Seq(Waiting(r)')
    BY <1>1, <1>2, <1>3, <1>6 DEF DrainInv
  <2> QED
    BY <1>4, <2>1 DEF DrainInv
<1> QED
  BY <1>5, <1>6

LEMMA MaintenanceDrain ==
    ASSUME CausalInv, DrainInv, NEW r \in Replica, DrainPending(r) \/ Gc(r)
    PROVE  DrainInv'
<1>1. ops' = ops /\ vc' = vc /\ drain = Idle
  BY DEF DrainPending, Gc, GcLog, CleanPendingBuffer, GcTombstones
<1>2. \A a \in Replica : pending[a] \in Seq(Waiting(a)) /\ Waiting(a)' = Waiting(a)
  BY <1>1, SameClockWaiting DEF DrainInv
<1>3. CASE DrainPending(r)
  <2>1. drain' = StartDrain(r, pending[r]) /\ pending' = pending
    BY <1>3 DEF DrainPending
  <2>2. drain' # Idle => drain'.at = r /\ drain'.rest \in Seq(Waiting(r)')
    BY <2>1, StartDrainSettled
  <2> QED
    BY <1>2, <2>1, <2>2 DEF DrainInv
<1>4. CASE GcLog(r) \/ GcTombstones(r)
  BY <1>2, <1>4 DEF GcLog, GcTombstones, DrainInv
<1>5. CASE CleanPendingBuffer(r)
  <2>1. PICK kept \in Thinnings(pending[r]) : pending' = [pending EXCEPT ![r] = kept]
    BY <1>5 DEF CleanPendingBuffer
  <2>2. kept \in Seq(Waiting(r)) /\ drain' = Idle
    BY <1>2, <1>5, <2>1, ThinningsType DEF CleanPendingBuffer
  <2> QED
    BY <1>2, <2>1, <2>2 DEF DrainInv, CausalInv, TypeOK
<1> QED
  BY <1>3, <1>4, <1>5 DEF Gc

LEMMA StepDrain ==
    ASSUME TopLevelOnly, CausalInv, DrainInv, [Next]_vars
    PROVE  DrainInv'
<1>1. ASSUME NEW r \in Replica, NEW kind \in Kinds, NEW p \in Path,
             NEW v \in Value \cup {Absent}, NEW op \in NewOps(r, kind, p, v),
             (\E gcNow \in Clock : FinishOp(r, op, gcNow)) \/ FailOp(r, op)
      PROVE  DrainInv'
  <2>1. op \in Op /\ op.src = r /\ op.deps = vcTick(vc[r], r)
    BY KindsAssumption, NewOpType DEF CausalInv
  <2>2. ~FailOp(r, op)
    BY <2>1, TopLevelNeverThrows DEF FailOp
  <2> QED
    BY <1>1, <2>1, <2>2, FinishOpDrain
<1>2. CASE UNCHANGED vars
  BY <1>2 DEF vars, DrainInv, Waiting
<1> QED
  BY <1>1, <1>2, NextCases, MaintenanceDrain, ReceiveDrain, DrainItemDrain, DrainPassDrain DEF CausalInv

\* Between two calls nothing waits in a buffer that could be applied, and nothing
\* that was applied: neither a local operation, nor an expiry, nor an operation
\* received or repeated makes a buffered one ready without a drain that takes it.
THEOREM BufferCorrect == TopLevelOnly => (Spec => []BufferSettled)
<1> SUFFICES ASSUME TopLevelOnly PROVE Spec => []BufferSettled
  OBVIOUS
<1>1. Init => DrainInv
  BY EmptySeq DEF Init, DrainInv
<1>2. CausalInv /\ DrainInv /\ [Next]_vars => DrainInv'
  BY StepDrain
<1>3. DrainInv => BufferSettled
  <2> SUFFICES ASSUME DrainInv, drain = Idle, NEW r \in Replica, NEW i \in DOMAIN pending[r]
               PROVE  ~isCausallyReady(vc[r], pending[r][i]) /\ ~seen(vc[r], pending[r][i])
    BY DEF BufferSettled
  <2>1. pending[r] \in Seq(Waiting(r))
    BY DEF DrainInv
  <2>2. pending[r][i] \in Waiting(r)
    BY <2>1, ElementOfSeq, LenProperties
  <2> QED
    BY <2>2 DEF Waiting
<1> QED
  BY <1>1, <1>2, <1>3, CausalCorrect, PTL DEF Spec

----------------------------------------------------------------------------
(* Filtering a list.  The library's induction theorems take an operator as *)
(* parameter, so each induction is an argument about a least number here.  *)

\* A set of naturals that is not empty has a least member.
LEMMA LeastNumber ==
    ASSUME NEW T \in SUBSET Nat, T # {}
    PROVE  \E x \in T : \A y \in T : x <= y
<1>1. PICK x \in T : \A y \in T : <<y, x>> \notin OpToRel(<, Nat)
  BY WFMin, NatLessThanWellFounded, Zenon
<1>2. \A y \in T : ~(y < x)
  BY <1>1, Zenon DEF OpToRel
<1> QED
  BY <1>2

Lacking(op, since) == op.deps[op.src] > since[op.src]

\* g holds what the filter has kept of l at each of its first n positions.
KeptUpTo(l, since, g, n) ==
    g = [i \in 0 .. n |->
           IF i = 0 THEN <<>>
           ELSE IF l[i].deps[l[i].src] > since[l[i].src] THEN Append(g[i - 1], l[i])
           ELSE g[i - 1]]

LEMMA KeptExists ==
    ASSUME NEW l, NEW since, NEW n \in Nat
    PROVE  \E g : KeptUpTo(l, since, g, n)
<1> DEFINE T == {k \in Nat : ~\E g : KeptUpTo(l, since, g, k)}
<1> SUFFICES ASSUME T # {} PROVE FALSE
  OBVIOUS
<1>1. PICK k \in T : \A y \in T : k <= y
  <2>1. T \in SUBSET Nat
    OBVIOUS
  <2> HIDE DEF T
  <2> QED
    BY <2>1, LeastNumber
<1>2. CASE k = 0
  <2>1. KeptUpTo(l, since, [i \in 0 .. 0 |-> <<>>], 0)
    BY DEF KeptUpTo
  <2> QED
    BY <1>2, <2>1
<1>3. CASE k # 0
  <2>1. k - 1 \in Nat /\ k - 1 \notin T
    BY <1>1, <1>3
  <2>2. PICK g : KeptUpTo(l, since, g, k - 1)
    BY <2>1
  <2> DEFINE last == IF l[k].deps[l[k].src] > since[l[k].src] THEN Append(g[k - 1], l[k]) ELSE g[k - 1]
             h == [i \in 0 .. k |-> IF i = k THEN last ELSE g[i]]
  <2>3. \A i \in 0 .. k : h[i] = IF i = 0 THEN <<>>
                                 ELSE IF l[i].deps[l[i].src] > since[l[i].src]
                                      THEN Append(h[i - 1], l[i]) ELSE h[i - 1]
    <3> SUFFICES ASSUME NEW i \in 0 .. k
                 PROVE  h[i] = IF i = 0 THEN <<>>
                               ELSE IF l[i].deps[l[i].src] > since[l[i].src]
                                    THEN Append(h[i - 1], l[i]) ELSE h[i - 1]
      OBVIOUS
    <3>1. CASE i = 0
      BY <1>3, <2>1, <2>2, <3>1 DEF KeptUpTo
    <3>2. CASE i # 0
      <4>1. i - 1 \in 0 .. k /\ i - 1 # k /\ h[i - 1] = g[i - 1]
        BY <3>2
      <4>2. CASE i = k
        BY <3>2, <4>1, <4>2
      <4>3. CASE i # k
        <5>1. i \in 0 .. k - 1 /\ h[i] = g[i]
          BY <4>3
        <5>2. g[i] = IF l[i].deps[l[i].src] > since[l[i].src] THEN Append(g[i - 1], l[i]) ELSE g[i - 1]
          BY <2>2, <3>2, <5>1 DEF KeptUpTo
        <5> QED
          BY <3>2, <4>1, <5>1, <5>2
      <4> QED
        BY <4>2, <4>3
    <3> QED
      BY <3>1, <3>2
  <2>4. h = [i \in 0 .. k |-> h[i]]
    OBVIOUS
  <2> HIDE DEF h
  <2>5. KeptUpTo(l, since, h, k)
    BY <2>3, <2>4 DEF KeptUpTo
  <2> QED
    BY <2>5
<1> QED
  BY <1>2, <1>3

LEMMA NotCoveredIsKept ==
    ASSUME NEW S, NEW l \in Seq(S), NEW since
    PROVE  \E g : KeptUpTo(l, since, g, Len(l)) /\ notCovered(l, since) = g[Len(l)]
<1>1. \E g : KeptUpTo(l, since, g, Len(l))
  BY LenProperties, KeptExists
<1> DEFINE g == CHOOSE k : KeptUpTo(l, since, k, Len(l))
<1>2. KeptUpTo(l, since, g, Len(l))
  BY <1>1
<1>3. notCovered(l, since) = g[Len(l)]
  BY DEF notCovered, KeptUpTo
<1> HIDE DEF g
<1> QED
  BY <1>2, <1>3

\* The filter keeps what is lacking and nothing else, and what it keeps first is the
\* first lacking operation of the list.
KeptRight(l, since, g, n) ==
    /\ g[n] \in Seq(Op)
    /\ {g[n][k] : k \in DOMAIN g[n]} = {l[j] : j \in {i \in 1 .. n : Lacking(l[i], since)}}
    /\ g[n] # <<>> =>
         \E j \in 1 .. n : /\ Lacking(l[j], since) /\ Head(g[n]) = l[j]
                           /\ \A i \in 1 .. j - 1 : ~Lacking(l[i], since)

LEMMA KeptStep ==
    ASSUME NEW l \in Seq(Op), NEW since, NEW g, KeptUpTo(l, since, g, Len(l)),
           NEW n \in 1 .. Len(l), KeptRight(l, since, g, n - 1)
    PROVE  KeptRight(l, since, g, n)
<1>1. n \in Nat /\ n # 0 /\ Len(l) \in Nat /\ l[n] \in Op
  BY LenProperties, ElementOfSeq
<1>2. g[n] = IF Lacking(l[n], since) THEN Append(g[n - 1], l[n]) ELSE g[n - 1]
  <2>1. n \in 0 .. Len(l)
    BY <1>1
  <2>2. g[n] = IF n = 0 THEN <<>>
               ELSE IF l[n].deps[l[n].src] > since[l[n].src] THEN Append(g[n - 1], l[n])
               ELSE g[n - 1]
    BY <2>1, Zenon DEF KeptUpTo
  <2> QED
    BY <1>1, <2>2 DEF Lacking
<1> DEFINE P(k) == {l[j] : j \in {i \in 1 .. k : Lacking(l[i], since)}}
<1>3. CASE ~Lacking(l[n], since)
  <2>1. {i \in 1 .. n : Lacking(l[i], since)} = {i \in 1 .. n - 1 : Lacking(l[i], since)}
    BY <1>1, <1>3
  <2>2. g[n] = g[n - 1] /\ P(n) = P(n - 1)
    BY <1>2, <1>3, <2>1
  <2>3. g[n] # <<>> =>
          \E j \in 1 .. n : /\ Lacking(l[j], since) /\ Head(g[n]) = l[j]
                            /\ \A i \in 1 .. j - 1 : ~Lacking(l[i], since)
    <3>1. 1 .. n - 1 \subseteq 1 .. n
      BY <1>1
    <3> QED
      BY <2>2, <3>1 DEF KeptRight
  <2>4. g[n] \in Seq(Op) /\ {g[n][k] : k \in DOMAIN g[n]} = P(n - 1)
    BY <2>2 DEF KeptRight
  <2>5. {g[n][k] : k \in DOMAIN g[n]} = P(n)
    BY <2>2, <2>4
  <2> HIDE DEF P
  <2>6. P(n) = {l[j] : j \in {i \in 1 .. n : Lacking(l[i], since)}}
    BY DEF P
  <2> QED
    BY <2>3, <2>4, <2>5, <2>6 DEF KeptRight
<1>4. CASE Lacking(l[n], since)
  <2> DEFINE f == g[n - 1]
  <2>1. f \in Seq(Op) /\ g[n] = Append(f, l[n])
    BY <1>2, <1>4 DEF KeptRight
  <2> HIDE DEF f
  <2>2. /\ g[n] \in Seq(Op) /\ Len(g[n]) = Len(f) + 1
        /\ \A k \in 1 .. Len(f) : g[n][k] = f[k]
        /\ g[n][Len(f) + 1] = l[n]
        /\ DOMAIN g[n] = 1 .. Len(f) + 1 /\ DOMAIN f = 1 .. Len(f) /\ Len(f) \in Nat
    BY <1>1, <2>1, AppendProperties, LenProperties
  <2>3. {g[n][k] : k \in DOMAIN g[n]} = {f[k] : k \in DOMAIN f} \cup {l[n]}
    BY <2>2
  <2>4. {i \in 1 .. n : Lacking(l[i], since)} = {i \in 1 .. n - 1 : Lacking(l[i], since)} \cup {n}
    BY <1>1, <1>4
  <2>5. P(n) = P(n - 1) \cup {l[n]}
    BY <2>4
  <2>6. {f[k] : k \in DOMAIN f} = P(n - 1)
    BY DEF KeptRight, f
  <2>7. \E j \in 1 .. n : /\ Lacking(l[j], since) /\ Head(g[n]) = l[j]
                          /\ \A i \in 1 .. j - 1 : ~Lacking(l[i], since)
    <3>1. CASE f = <<>>
      <4>1. Head(g[n]) = l[n]
        BY <2>1, <2>2, <3>1, HeadTailProperties, EmptySeq
      <4>2. P(n - 1) = {}
        BY <2>2, <2>6, <3>1, EmptySeq
      <4>3. \A i \in 1 .. n - 1 : ~Lacking(l[i], since)
        <5>1. \A i \in 1 .. n - 1 : Lacking(l[i], since) => l[i] \in P(n - 1)
          OBVIOUS
        <5> QED
          BY <4>2, <5>1
      <4>4. n \in 1 .. n
        BY <1>1
      <4> QED
        BY <1>4, <4>1, <4>3, <4>4
    <3>2. CASE f # <<>>
      <4>1. Head(g[n]) = Head(f)
        <5>1. Len(f) >= 1
          BY <2>1, <2>2, <3>2, EmptySeq
        <5>2. Head(g[n]) = g[n][1] /\ Head(f) = f[1]
          BY <2>1, <2>2, <3>2, <5>1, HeadTailProperties, EmptySeq
        <5> QED
          BY <2>2, <5>1, <5>2
      <4>2. PICK j \in 1 .. n - 1 : /\ Lacking(l[j], since) /\ Head(f) = l[j]
                                    /\ \A i \in 1 .. j - 1 : ~Lacking(l[i], since)
        BY <3>2 DEF KeptRight, f
      <4>3. j \in 1 .. n
        BY <1>1
      <4> QED
        BY <4>1, <4>2, <4>3
    <3> QED
      BY <3>1, <3>2
  <2> QED
    BY <2>2, <2>3, <2>5, <2>6, <2>7 DEF KeptRight
<1> QED
  BY <1>3, <1>4

LEMMA KeptAll ==
    ASSUME NEW l \in Seq(Op), NEW since, NEW g, KeptUpTo(l, since, g, Len(l))
    PROVE  KeptRight(l, since, g, Len(l))
<1> DEFINE T == {n \in 0 .. Len(l) : ~KeptRight(l, since, g, n)}
<1>1. Len(l) \in Nat
  BY LenProperties
<1> SUFFICES ASSUME T # {} PROVE FALSE
  BY <1>1
<1>2. PICK n \in T : \A y \in T : n <= y
  <2>1. T \in SUBSET Nat
    BY <1>1
  <2> HIDE DEF T
  <2> QED
    BY <2>1, LeastNumber
<1>3. CASE n = 0
  <2>1. g[0] = <<>>
    BY <1>1 DEF KeptUpTo
  <2>2. 1 .. 0 = {} /\ DOMAIN <<>> = {} /\ <<>> \in Seq(Op)
    BY EmptySeq
  <2>3. KeptRight(l, since, g, 0)
    BY <2>1, <2>2 DEF KeptRight
  <2> QED
    BY <1>3, <2>3
<1>4. CASE n # 0
  <2>1. n \in 1 .. Len(l) /\ n - 1 \in 0 .. Len(l) /\ ~(n <= n - 1)
    BY <1>1, <1>4
  <2>2. KeptRight(l, since, g, n - 1)
    BY <1>2, <2>1
  <2> QED
    BY <2>1, <2>2, KeptStep
<1> QED
  BY <1>3, <1>4

\* What diffSince answers with.
LEMMA NotCoveredRight ==
    ASSUME NEW l \in Seq(Op), NEW since
    PROVE  LET d == notCovered(l, since)
           IN  /\ d \in Seq(Op)
               /\ {d[k] : k \in DOMAIN d} = {l[j] : j \in {i \in DOMAIN l : Lacking(l[i], since)}}
               /\ d # <<>> =>
                    \E j \in DOMAIN l : /\ Lacking(l[j], since) /\ Head(d) = l[j]
                                        /\ \A i \in DOMAIN l : i < j => ~Lacking(l[i], since)
<1>1. PICK g : KeptUpTo(l, since, g, Len(l)) /\ notCovered(l, since) = g[Len(l)]
  BY NotCoveredIsKept
<1>2. KeptRight(l, since, g, Len(l))
  BY <1>1, KeptAll
<1> DEFINE d == notCovered(l, since)
<1>3. DOMAIN l = 1 .. Len(l) /\ Len(l) \in Nat /\ d = g[Len(l)]
  BY <1>1, LenProperties
<1> HIDE DEF d
<1>4. /\ d \in Seq(Op)
      /\ {d[k] : k \in DOMAIN d} = {l[j] : j \in {i \in DOMAIN l : Lacking(l[i], since)}}
  BY <1>2, <1>3 DEF KeptRight
<1>5. ASSUME d # <<>>
      PROVE  \E j \in DOMAIN l : /\ Lacking(l[j], since) /\ Head(d) = l[j]
                                 /\ \A i \in DOMAIN l : i < j => ~Lacking(l[i], since)
  <2>1. PICK j \in 1 .. Len(l) : /\ Lacking(l[j], since) /\ Head(d) = l[j]
                                 /\ \A i \in 1 .. j - 1 : ~Lacking(l[i], since)
    BY <1>2, <1>3, <1>5 DEF KeptRight
  <2>2. \A i \in 1 .. Len(l) : i < j => i \in 1 .. j - 1
    BY <1>3
  <2> QED
    BY <1>3, <2>1, <2>2
<1> QED
  BY <1>4, <1>5 DEF d

----------------------------------------------------------------------------
(* The log and diffSince *)

\* No log is about to be cut.
LogsShort == EnableAutoGc => \A r \in Replica : Len(log[r]) < 2 * MaxLogSize

\* An operation that precedes nothing applied goes to the end of the log.
LEMMA LogAppend ==
    ASSUME TypeOK, LogInOrder, NEW r \in Replica, NEW op \in Op,
           log' = [log EXCEPT ![r] = Append(log[r], op)],
           applied' = [applied EXCEPT ![r] = @ \cup {op}],
           \A n \in applied[r] : ~Precedes(op, n)
    PROVE  LogInOrder'
<1> SUFFICES ASSUME NEW a \in Replica
             PROVE  /\ {log'[a][i] : i \in DOMAIN log'[a]} = applied'[a]
                    /\ \A i, j \in DOMAIN log'[a] : i < j => ~Precedes(log'[a][j], log'[a][i])
  BY DEF LogInOrder, Precedes
<1>1. log \in [Replica -> Seq(Op)] /\ applied \in [Replica -> SUBSET Op]
  BY DEF TypeOK
<1>2. CASE a # r
  BY <1>1, <1>2 DEF LogInOrder
<1>3. CASE a = r
  <2> DEFINE l == log[r]
             k == log'[r]
  <2>1. l \in Seq(Op) /\ k = Append(l, op) /\ applied'[r] = applied[r] \cup {op}
    BY <1>1
  <2>2. /\ DOMAIN l = 1 .. Len(l) /\ DOMAIN k = 1 .. Len(l) + 1 /\ Len(l) \in Nat
        /\ \A i \in 1 .. Len(l) : k[i] = l[i]
        /\ k[Len(l) + 1] = op
    BY <2>1, AppendProperties, LenProperties
  <2>3. /\ {l[i] : i \in DOMAIN l} = applied[r]
        /\ \A i, j \in DOMAIN l : i < j => ~Precedes(l[j], l[i])
    BY DEF LogInOrder
  <2> HIDE DEF l, k
  <2>4. {k[i] : i \in DOMAIN k} = {l[i] : i \in DOMAIN l} \cup {op}
    BY <2>2
  <2>5. ASSUME NEW i \in DOMAIN k, NEW j \in DOMAIN k, i < j PROVE ~Precedes(k[j], k[i])
    <3>1. i \in 1 .. Len(l) /\ k[i] = l[i] /\ l[i] \in applied[r]
      BY <2>2, <2>3, <2>5
    <3>2. CASE j \in 1 .. Len(l)
      BY <2>2, <2>3, <2>5, <3>1, <3>2
    <3>3. CASE j = Len(l) + 1
      BY <2>2, <3>1, <3>3
    <3> QED
      BY <2>2, <3>2, <3>3
  <2>6. {k[i] : i \in DOMAIN k} = applied'[r]
    BY <2>1, <2>3, <2>4
  <2> QED
    BY <1>3, <2>5, <2>6 DEF k
<1> QED
  BY <1>2, <1>3

\* What a replica can apply, or makes, precedes nothing it applied.
LEMMA NewPrecedesNothing ==
    ASSUME CausalInv, NEW r \in Replica, NEW op \in Op, op.deps[op.src] > vc[r][op.src]
    PROVE  \A n \in applied[r] : ~Precedes(op, n)
<1> SUFFICES ASSUME NEW n \in applied[r], Precedes(op, n) PROVE FALSE
  OBVIOUS
<1>1. n \in Op /\ vc[r] \in VectorClock
  BY DEF CausalInv, TypeOK
<1>2. op.src \in Replica /\ op.deps[op.src] \in Nat /\ vc[r][op.src] \in Nat /\ n.deps[op.src] \in Nat
  BY <1>1 DEF Op, VectorClock
<1>3. n.deps[op.src] <= vc[r][op.src] /\ op.deps[op.src] <= n.deps[op.src]
  BY <1>2 DEF CausalInv, AppliedPast, Precedes
<1> QED
  BY <1>2, <1>3

LEMMA LocalLog ==
    ASSUME CausalInv, LogsShort, LogInOrder, NoGaps, NEW r \in Replica, NEW op \in Op,
           NEW gcNow \in Clock, FinishOp(r, op, gcNow), op.src = r, op.deps = vcTick(vc[r], r)
    PROVE  LogInOrder' /\ NoGaps'
<1>1. TypeOK /\ vc \in [Replica -> VectorClock] /\ log[r] \in Seq(Op) /\ op.deps \in VectorClock
  BY DEF CausalInv, TypeOK, Op
<1>2. op.deps[r] = vc[r][r] + 1 /\ \A s \in Replica : vc[s][s] \in Nat
  BY <1>1 DEF vcTick, VectorClock
<1>3. AutoGcLog(Append(log[r], op)) = Append(log[r], op)
  <2>1. Len(Append(log[r], op)) = Len(log[r]) + 1 /\ Len(log[r]) \in Nat
    BY <1>1, AppendProperties, LenProperties
  <2>2. EnableAutoGc => ~(Len(Append(log[r], op)) > 2 * MaxLogSize)
    BY <2>1, OptionsAssumption DEF LogsShort
  <2> QED
    BY <2>2 DEF AutoGcLog
<1>4. \A n \in applied[r] : ~Precedes(op, n)
  BY <1>1, <1>2, NewPrecedesNothing
<1>5. /\ log' = [log EXCEPT ![r] = Append(log[r], op)]
      /\ applied' = [applied EXCEPT ![r] = @ \cup {op}]
      /\ ops' = ops \cup {op} /\ vc' = [vc EXCEPT ![r] = op.deps]
  BY <1>3 DEF FinishOp
<1>6. LogInOrder'
  BY <1>1, <1>4, <1>5, LogAppend
<1>7. NoGaps'
  <2>1. \A s \in Replica : vc'[s][s] = IF s = r THEN vc[r][r] + 1 ELSE vc[s][s]
    BY <1>1, <1>2, <1>5
  <2> SUFFICES ASSUME NEW s \in Replica, NEW i \in 1 .. vc'[s][s]
               PROVE  \E n \in ops' : n.src = s /\ n.deps[s] = i
    BY DEF NoGaps
  <2>2. CASE s = r /\ i = vc[r][r] + 1
    BY <1>2, <1>5, <2>2
  <2>3. CASE ~(s = r /\ i = vc[r][r] + 1)
    <3>1. i \in 1 .. vc[s][s]
      BY <1>2, <2>1, <2>3
    <3> QED
      BY <1>5, <3>1 DEF NoGaps
  <2> QED
    BY <2>2, <2>3
<1> QED
  BY <1>6, <1>7

LEMMA RemoteLog ==
    ASSUME CausalInv, LogInOrder, NoGaps, NEW r \in Replica, NEW op \in ops,
           isCausallyReady(vc[r], op), ApplyRemote(r, op), ops' = ops
    PROVE  LogInOrder' /\ NoGaps'
<1>1. TypeOK /\ op \in Op /\ vc \in [Replica -> VectorClock] /\ op.src \in Replica /\ op.src # r
  BY ReadyIsForeign DEF CausalInv, TypeOK, Op
<1>2. op.deps[op.src] = vc[r][op.src] + 1 /\ vc[r][op.src] \in Nat
  BY <1>1, MergeReady DEF VectorClock
<1>3. \A n \in applied[r] : ~Precedes(op, n)
  BY <1>1, <1>2, NewPrecedesNothing
<1>4. LogInOrder'
  BY <1>1, <1>3, LogAppend DEF ApplyRemote
<1>5. \A s \in Replica : vc'[s][s] = vc[s][s]
  BY <1>1, MergeReady DEF ApplyRemote
<1> QED
  BY <1>4, <1>5 DEF NoGaps

LEMMA StepLog ==
    ASSUME TopLevelOnly, ~ManualGc, CausalInv, LogsShort, LogInOrder, NoGaps, [Next]_vars
    PROVE  LogInOrder' /\ NoGaps'
<1>1. ASSUME NEW r \in Replica, NEW kind \in Kinds, NEW p \in Path,
             NEW v \in Value \cup {Absent}, NEW op \in NewOps(r, kind, p, v),
             (\E gcNow \in Clock : FinishOp(r, op, gcNow)) \/ FailOp(r, op)
      PROVE  LogInOrder' /\ NoGaps'
  <2>1. op \in Op /\ op.src = r /\ op.deps = vcTick(vc[r], r)
    BY KindsAssumption, NewOpType DEF CausalInv
  <2>2. ~FailOp(r, op)
    BY <2>1, TopLevelNeverThrows DEF FailOp
  <2> QED
    BY <1>1, <2>1, <2>2, LocalLog
<1>2. ASSUME UNCHANGED <<log, applied, vc, ops>> PROVE LogInOrder' /\ NoGaps'
  BY <1>2 DEF LogInOrder, NoGaps, Precedes
<1>3. ASSUME NEW r \in Replica, NEW op \in ops PROVE ~Throws(r, op)
  BY TopLevelNeverThrows DEF CausalInv, TypeOK
<1>4. ASSUME NEW r \in Replica, NEW op \in ops, NEW kept \in Thinnings(pending[r]),
             ReceiveEarly(r, op, kept) \/ ReceiveReady(r, op, kept)
      PROVE  LogInOrder' /\ NoGaps'
  <2>1. CASE ReceiveEarly(r, op, kept)
    BY <1>2, <2>1 DEF ReceiveEarly
  <2>2. CASE ReceiveReady(r, op, kept)
    BY <1>3, <2>2, RemoteLog DEF ReceiveReady
  <2> QED
    BY <1>4, <2>1, <2>2
<1>5. CASE DrainItem
  <2> DEFINE op == Head(drain.todo)
  <2>1. drain.at \in Replica /\ op \in ops
    BY <1>5, HeadTailProperties DEF DrainItem, CausalInv, TypeOK, Draining, BufferedExist
  <2>2. ~Throws(drain.at, op)
    BY <1>3, <2>1
  <2>3. \/ UNCHANGED <<log, applied, vc, ops>>
        \/ isCausallyReady(vc[drain.at], op) /\ ApplyRemote(drain.at, op) /\ ops' = ops
    BY <1>5, <2>2 DEF DrainItem
  <2> QED
    BY <1>2, <2>1, <2>3, RemoteLog
<1>6. CASE DrainPass \/ UNCHANGED vars \/ \E r \in Replica : DrainPending(r) \/ Gc(r)
  BY <1>2, <1>6 DEF DrainPass, vars, DrainPending, Gc, GcLog, CleanPendingBuffer, GcTombstones
<1> QED
  BY <1>1, <1>4, <1>5, <1>6, NextCases DEF CausalInv

\* The first operation of the log that another replica lacks is one it can apply:
\* what it would wait for is lacking too, and is behind no such operation.
LEMMA LogAnswers ==
    ASSUME CausalInv, LogInOrder, NoGaps
    PROVE  DiffIsComplete
<1> SUFFICES ASSUME NEW r \in Replica, NEW s \in Replica
             PROVE  LET d == diffSince(s, vc[r])
                    IN  /\ {d[i] : i \in DOMAIN d} = applied[s] \ applied[r]
                        /\ d # <<>> => isCausallyReady(vc[r], Head(d))
  BY DEF DiffIsComplete
<1> DEFINE d == diffSince(s, vc[r])
           l == log[s]
<1>1. l \in Seq(Op) /\ vc \in [Replica -> VectorClock] /\ ops \subseteq Op
  BY DEF CausalInv, TypeOK
<1>2. /\ {d[k] : k \in DOMAIN d} = {l[j] : j \in {i \in DOMAIN l : Lacking(l[i], vc[r])}}
      /\ d # <<>> =>
           \E j \in DOMAIN l : /\ Lacking(l[j], vc[r]) /\ Head(d) = l[j]
                               /\ \A i \in DOMAIN l : i < j => ~Lacking(l[i], vc[r])
  BY <1>1, NotCoveredRight DEF diffSince
<1>3. /\ {l[i] : i \in DOMAIN l} = applied[s]
      /\ \A i, j \in DOMAIN l : i < j => ~Precedes(l[j], l[i])
  BY DEF LogInOrder
<1> HIDE DEF d, l
<1>4. /\ applied[s] = {op \in ops : seen(vc[s], op)} /\ applied[r] = {op \in ops : seen(vc[r], op)}
  BY DEF CausalInv, ClockIsApplied
<1>5. \A q \in Replica : vc[r][q] \in Nat /\ vc[s][q] \in Nat /\ vc[q][q] \in Nat
  BY <1>1 DEF VectorClock
<1>6. \A op \in ops : /\ op.src \in Replica /\ \A q \in Replica : op.deps[q] \in Nat
                      /\ Lacking(op, vc[r]) <=> ~seen(vc[r], op)
  <2> SUFFICES ASSUME NEW op \in ops
               PROVE  /\ op.src \in Replica /\ \A q \in Replica : op.deps[q] \in Nat
                      /\ Lacking(op, vc[r]) <=> ~seen(vc[r], op)
    OBVIOUS
  <2>1. op.src \in Replica /\ op.deps \in VectorClock
    BY <1>1 DEF Op
  <2>2. \A q \in Replica : op.deps[q] \in Nat
    BY <2>1 DEF VectorClock
  <2> QED
    BY <1>5, <2>1, <2>2 DEF Lacking, seen
<1>7. {d[k] : k \in DOMAIN d} = applied[s] \ applied[r]
  <2>1. {l[j] : j \in {i \in DOMAIN l : Lacking(l[i], vc[r])}} = {op \in applied[s] : Lacking(op, vc[r])}
    BY <1>3
  <2>2. {op \in applied[s] : Lacking(op, vc[r])} = applied[s] \ applied[r]
    BY <1>4, <1>6
  <2> QED
    BY <1>2, <2>1, <2>2
<1>8. ASSUME d # <<>> PROVE isCausallyReady(vc[r], Head(d))
  <2>1. PICK j \in DOMAIN l : /\ Lacking(l[j], vc[r]) /\ Head(d) = l[j]
                              /\ \A i \in DOMAIN l : i < j => ~Lacking(l[i], vc[r])
    BY <1>2, <1>8
  <2> DEFINE op == l[j]
  <2>2. op \in applied[s] /\ op \in ops /\ seen(vc[s], op)
    BY <1>3, <1>4
  <2>3. ASSUME NEW n \in ops, Lacking(n, vc[r]), Precedes(n, op) PROVE FALSE
    <3>1. n.deps[n.src] <= vc[s][n.src]
      <4>1. op.deps[n.src] <= vc[s][n.src]
        BY <1>6, <2>2 DEF CausalInv, AppliedPast
      <4> QED
        BY <1>5, <1>6, <2>2, <2>3, <4>1 DEF Precedes
    <3>2. n \in applied[s]
      BY <1>4, <1>5, <1>6, <3>1 DEF seen
    <3>3. PICK i \in DOMAIN l : l[i] = n
      BY <1>3, <3>2
    <3>4. DOMAIN l \subseteq Nat
      BY <1>1, LenProperties DEF l
    <3>5. ~(i < j) /\ i # j
      BY <2>1, <2>3, <3>3 DEF Precedes
    <3>6. j < i
      BY <3>4, <3>5
    <3> QED
      BY <1>3, <2>3, <3>3, <3>6
  <2> HIDE DEF op
  <2>4. \A q \in Replica : op.deps[q] <= vc[q][q]
    BY <2>2 DEF CausalInv, ClockBounds
  <2>5. ASSUME NEW q \in Replica, q # op.src PROVE op.deps[q] <= vc[r][q]
    <3> SUFFICES ASSUME op.deps[q] > vc[r][q] PROVE FALSE
      BY <1>5, <1>6, <2>2
    <3>1. op.deps[q] \in 1 .. vc[q][q]
      BY <1>5, <1>6, <2>2, <2>4
    <3>2. PICK n \in ops : n.src = q /\ n.deps[q] = op.deps[q]
      BY <3>1 DEF NoGaps
    <3>3. Lacking(n, vc[r]) /\ Precedes(n, op)
      BY <1>5, <1>6, <2>2, <2>5, <3>2 DEF Lacking, Precedes
    <3> QED
      BY <2>3, <3>3 DEF op
  <2>6. op.deps[op.src] = vc[r][op.src] + 1
    <3>1. /\ op.src \in Replica /\ op.deps[op.src] \in Nat /\ vc[r][op.src] \in Nat
          /\ op.deps[op.src] > vc[r][op.src]
      BY <1>5, <1>6, <2>1, <2>2 DEF Lacking, op
    <3> SUFFICES ASSUME op.deps[op.src] > vc[r][op.src] + 1 PROVE FALSE
      BY <3>1
    <3>2. vc[r][op.src] + 1 \in 1 .. vc[op.src][op.src]
      BY <1>5, <2>4, <3>1
    <3>3. PICK n \in ops : n.src = op.src /\ n.deps[op.src] = vc[r][op.src] + 1
      BY <3>1, <3>2 DEF NoGaps
    <3>4. Lacking(n, vc[r]) /\ Precedes(n, op)
      BY <3>1, <3>3 DEF Lacking, Precedes
    <3> QED
      BY <2>3, <3>4 DEF op
  <2> QED
    BY <2>1, <2>5, <2>6 DEF isCausallyReady, op
<1> QED
  BY <1>7, <1>8 DEF d

\* As long as no log is cut, by hand or by autoGc, diffSince gives a replica exactly
\* what it lacks of another, with an operation in front that it can apply at once.
THEOREM DiffCorrect ==
    TopLevelOnly /\ ~ManualGc => (Spec /\ []LogsShort => []DiffIsComplete)
<1> SUFFICES ASSUME TopLevelOnly, ~ManualGc
             PROVE  Spec /\ []LogsShort => []DiffIsComplete
  OBVIOUS
<1>1. Init => LogInOrder /\ NoGaps
  BY EmptySeq DEF Init, LogInOrder, NoGaps
<1>2. CausalInv /\ LogsShort /\ LogInOrder /\ NoGaps /\ [Next]_vars => LogInOrder' /\ NoGaps'
  BY StepLog
<1>3. CausalInv /\ LogInOrder /\ NoGaps => DiffIsComplete
  BY LogAnswers
<1> QED
  BY <1>1, <1>2, <1>3, CausalCorrect, PTL DEF Spec
=============================================================================

----------------------- MODULE JsonCrdtPersistProofs -----------------------
(***************************************************************************)
(* Proofs about JsonCrdtPersist, for any number of replicas and of crashes *)
(* at any moment: when each operation is saved before it leaves (SaveEach),*)
(* a restart is invisible to causal delivery, no operation is lost and no  *)
(* identifier is used twice.  The state of the replicas keeps the          *)
(* invariants of JsonCrdt, and every snapshot could be the state of its    *)
(* replica now.                                                            *)
(***************************************************************************)
EXTENDS JsonCrdtPersist, JsonCrdtProofs

----------------------------------------------------------------------------
(* What a step does to the clocks and to the operations *)

\* A local call counts one operation, which no replica has yet.
LEMMA LocalEffect ==
    ASSUME CausalInv, NEW r \in Replica, Local(r)
    PROVE  \E op \in Op : /\ op.src = r /\ op.deps = vcTick(vc[r], r) /\ op \notin ops
                          /\ vc' = [vc EXCEPT ![r] = op.deps]
                          /\ ops' \in {ops, ops \cup {op}}
<1>1. PICK kind \in Kinds, p \in Path, v \in Value \cup {Absent} :
        \E op \in NewOps(r, kind, p, v) :
           (\E gcNow \in Clock : FinishOp(r, op, gcNow)) \/ FailOp(r, op)
  BY DEF Local, set, del
<1>2. PICK op \in NewOps(r, kind, p, v) :
           (\E gcNow \in Clock : FinishOp(r, op, gcNow)) \/ FailOp(r, op)
  BY <1>1
<1>3. op \in Op /\ op.src = r /\ op.deps = vcTick(vc[r], r)
  BY KindsAssumption, NewOpType DEF CausalInv
<1>4. op \notin ops
  <2>1. vc[r] \in VectorClock /\ op.deps \in VectorClock
    BY <1>3 DEF CausalInv, TypeOK, Op
  <2>2. op.deps[r] = vc[r][r] + 1 /\ vc[r][r] \in Nat
    BY <1>3, <2>1 DEF vcTick, VectorClock
  <2> QED
    BY <2>2 DEF CausalInv, ClockBounds
<1>5. vc' = [vc EXCEPT ![r] = op.deps] /\ ops' \in {ops, ops \cup {op}}
  BY <1>2 DEF FinishOp, FailOp
<1> QED
  BY <1>3, <1>4, <1>5

\* The other calls make no operation; one that moves a clock counts an operation
\* of another replica.
LEMMA OtherEffect ==
    ASSUME CausalInv, OtherStep
    PROVE  /\ ops' = ops /\ snap' = snap
           /\ \/ vc' = vc
              \/ \E r \in Replica, op \in ops :
                   /\ op.src # r
                   /\ \A a, b \in Replica : vc'[a][b] =
                        IF a = r /\ b = op.src THEN op.deps[op.src] ELSE vc[a][b]
<1>1. ASSUME NEW r \in Replica, NEW op \in ops, isCausallyReady(vc[r], op), ApplyRemote(r, op)
      PROVE  /\ op.src # r
             /\ \A a, b \in Replica : vc'[a][b] =
                  IF a = r /\ b = op.src THEN op.deps[op.src] ELSE vc[a][b]
  <2>1. TypeOK /\ op \in Op /\ op.src # r /\ op.src \in Replica
    BY <1>1, ReadyIsForeign DEF CausalInv, TypeOK, Op
  <2>2. vc \in [Replica -> VectorClock] /\ vc' = [vc EXCEPT ![r] = vcMerge(vc[r], op.deps)]
    BY <1>1, <2>1 DEF TypeOK, ApplyRemote
  <2> QED
    BY <1>1, <2>1, <2>2, MergeReady
<1>2. CASE \E r \in Replica : DrainPending(r) \/ Gc(r)
  BY <1>2 DEF OtherStep, DrainPending, Gc, GcLog, CleanPendingBuffer, GcTombstones
<1>3. CASE \E r \in Replica, op \in ops : Receive(r, op)
  BY <1>1, <1>3 DEF OtherStep, Receive, ReceiveEarly, ReceiveReady, ApplyThrows
<1>4. CASE DrainItem
  <2>1. ops' = ops
    BY <1>4 DEF DrainItem
  <2> QED
    BY <1>1, <1>4, <2>1, DrainItemCases DEF OtherStep, ApplyThrows
<1>5. CASE DrainPass
  BY <1>5 DEF OtherStep, DrainPass
<1> QED
  BY <1>2, <1>3, <1>4, <1>5 DEF OtherStep

----------------------------------------------------------------------------
(* Snapshots *)

\* A snapshot is what the replica holds, and passes for its state.
LEMMA SnapshotNow ==
    ASSUME CausalInv, NEW r \in Replica
    PROVE  /\ snapshot(r) \in Snapshot /\ snapshot(r) # NoSnap
           /\ snapshot(r).vc = vc[r]
           /\ SnapshotCausal(snapshot(r))
<1>1. /\ doc[r] \in Document /\ vc[r] \in VectorClock /\ hlc[r] \in HlcOf(Replica)
      /\ lww[r] \in [Key -> HlcOf(Replica) \cup {NoHlc}]
      /\ tomb[r] \in [Key -> HlcOf(Replica) \cup {NoHlc}] /\ applied[r] \in SUBSET Op
  BY DEF CausalInv, TypeOK
<1>2. snapshot(r) \in Snapshot
  BY <1>1 DEF snapshot, Snapshot
<1>3. snapshot(r).vc = vc[r] /\ snapshot(r).hlc = hlc[r] /\ snapshot(r).applied = applied[r]
  BY DEF snapshot
<1>4. SnapshotCausal(snapshot(r))
  BY <1>3 DEF SnapshotCausal, CausalInv, ClockIsApplied, AppliedPast, Stamps
<1> QED
  BY <1>2, <1>3, <1>4, NoSnapAssumption

\* So does the one taken when the call returns.
LEMMA SnapshotNext ==
    CausalInv' => \A r \in Replica : /\ snapshot(r)' \in Snapshot /\ snapshot(r)' # NoSnap
                                     /\ snapshot(r)'.vc = vc'[r]
                                     /\ SnapshotCausal(snapshot(r))'
<1>1. CausalInv => \A r \in Replica : /\ snapshot(r) \in Snapshot /\ snapshot(r) # NoSnap
                                      /\ snapshot(r).vc = vc[r]
                                      /\ SnapshotCausal(snapshot(r))
  BY SnapshotNow
<1>2. CausalInv' => (\A r \in Replica : /\ snapshot(r) \in Snapshot /\ snapshot(r) # NoSnap
                                        /\ snapshot(r).vc = vc[r]
                                        /\ SnapshotCausal(snapshot(r)))'
  BY <1>1, PTL
<1> QED
  BY <1>2

LEMMA SavedVcType ==
    ASSUME SavedInv, NEW r \in Replica
    PROVE  SavedVc(r) \in VectorClock
BY DEF SavedInv, SavedVc, Snapshot, VectorClock

LEMMA InitSaved == PersistInit => SavedInv
<1> SUFFICES ASSUME PersistInit PROVE SavedInv
  OBVIOUS
<1>1. \A r, s \in Replica : SavedVc(r)[s] = 0 /\ vc[r][s] = 0
  BY DEF PersistInit, Init, SavedVc
<1> QED
  BY <1>1 DEF PersistInit, Init, SavedInv, NothingPastSaved

\* What was saved still passes for a state of its replica when a replica makes an
\* operation past what that replica saved itself.
LEMMA SnapshotStays ==
    ASSUME SavedInv, NEW r \in Replica, snap[r] # NoSnap, snap'[r] = snap[r],
           NEW op \in Op, op.deps[op.src] > SavedVc(op.src)[op.src],
           ops' \in {ops, ops \cup {op}}
    PROVE  SnapshotCausal(snap[r])'
<1>1. SnapshotCausal(snap[r]) /\ SavedVc(r) = snap[r].vc
  BY DEF SavedInv, SavedVc
<1>2. op.src \in Replica /\ op.deps \in VectorClock
  BY DEF Op
<1>3. SavedVc(r)[op.src] <= SavedVc(op.src)[op.src]
  BY <1>2 DEF SavedInv, NothingPastSaved
<1>4. SavedVc(r)[op.src] \in Nat /\ SavedVc(op.src)[op.src] \in Nat /\ op.deps[op.src] \in Nat
  BY <1>2, SavedVcType DEF VectorClock
<1>5. ~seen(snap[r].vc, op)
  BY <1>1, <1>3, <1>4 DEF seen
<1> QED
  BY <1>1, <1>5 DEF SnapshotCausal

\* A call of the application, saved before its operation is given out.
LEMMA LocalSaved ==
    ASSUME SaveEach, CausalInv, SavedInv, CausalInv', NEW r \in Replica, LocalStep(r)
    PROVE  SavedInv'
<1>1. PICK op \in Op : /\ op.src = r /\ op.deps = vcTick(vc[r], r) /\ op \notin ops
                       /\ vc' = [vc EXCEPT ![r] = op.deps]
                       /\ ops' \in {ops, ops \cup {op}}
  BY LocalEffect DEF LocalStep
<1>2. /\ vc \in [Replica -> VectorClock] /\ ops \subseteq Op
      /\ \A s \in Replica : SavedVc(s) \in VectorClock
  BY SavedVcType DEF CausalInv, TypeOK
<1>3. \A a, b \in Replica : vc[a][b] \in Nat /\ SavedVc(a)[b] \in Nat
  BY <1>2 DEF VectorClock
<1>4. \A b \in Replica : op.deps[b] = IF b = r THEN vc[r][r] + 1 ELSE vc[r][b]
  BY <1>1, <1>2 DEF vcTick, VectorClock
<1>5. \A a, b \in Replica : vc'[a][b] = IF a = r /\ b = r THEN vc[r][r] + 1 ELSE vc[a][b]
  BY <1>1, <1>2, <1>4
<1>6. op.deps[op.src] > SavedVc(op.src)[op.src]
  BY <1>1, <1>3, <1>4 DEF SavedInv, NothingPastSaved
<1>7. \A n \in ops, s \in Replica : n.deps[s] <= SavedVc(s)[s] /\ n.deps[s] \in Nat
  BY <1>2 DEF SavedInv, NothingPastSaved, Op, VectorClock
<1>8. CASE ops' = ops
  <2>1. snap' = snap
    BY <1>8 DEF LocalStep
  <2>2. \A a \in Replica : SavedVc(a)' = SavedVc(a)
    BY <2>1 DEF SavedVc
  <2>3. NothingPastSaved'
    BY <1>3, <1>5, <1>8, <2>2 DEF SavedInv, NothingPastSaved
  <2>4. \A a \in Replica : snap[a] # NoSnap => SnapshotCausal(snap[a])'
    BY <1>6, <1>8, <2>1, SnapshotStays
  <2> QED
    BY <2>1, <2>3, <2>4 DEF SavedInv
<1>9. CASE ops' = ops \cup {op}
  <2>1. snap' = [snap EXCEPT ![r] = snapshot(r)']
    BY <1>1, <1>9 DEF LocalStep
  <2>2. /\ snapshot(r)' \in Snapshot /\ snapshot(r)' # NoSnap
        /\ snapshot(r)'.vc = vc'[r] /\ SnapshotCausal(snapshot(r))'
    BY SnapshotNext
  <2>3. /\ snap'[r] = snapshot(r)' /\ \A a \in Replica \ {r} : snap'[a] = snap[a]
    BY <2>1 DEF SavedInv
  <2>4. \A a \in Replica : SavedVc(a)' = IF a = r THEN vc'[r] ELSE SavedVc(a)
    BY <2>2, <2>3 DEF SavedVc
  <2>5. NothingPastSaved'
    <3>1. \A a, b \in Replica : SavedVc(a)[b]' = IF a = r THEN vc'[r][b] ELSE SavedVc(a)[b]
      BY <2>4
    <3>2. /\ \A a, b \in Replica : SavedVc(a)[b] <= SavedVc(b)[b] /\ SavedVc(b)[b] <= vc[b][b]
          /\ \A a, b \in Replica : a # b => vc[a][b] <= SavedVc(b)[b]
      BY DEF SavedInv, NothingPastSaved
    <3>3. \A n \in ops', s \in Replica : n.deps[s] <= SavedVc(s)[s]'
      BY <1>3, <1>4, <1>5, <1>7, <1>9, <3>1, <3>2
    <3> QED
      BY <1>3, <1>5, <3>1, <3>2, <3>3 DEF NothingPastSaved
  <2>6. \A a \in Replica \ {r} : snap[a] # NoSnap => SnapshotCausal(snap[a])'
    BY <1>6, <1>9, <2>3, SnapshotStays
  <2>7. SnapshotCausal(snap[r])'
    BY <2>2, <2>3
  <2> QED
    BY <2>1, <2>2, <2>3, <2>5, <2>6, <2>7 DEF SavedInv
<1> QED
  BY <1>1, <1>8, <1>9

\* The other calls change no snapshot, and wait for operations that were saved.
LEMMA OtherSaved ==
    ASSUME CausalInv, SavedInv, OtherStep
    PROVE  SavedInv'
<1>1. ops' = ops /\ snap' = snap
  BY OtherEffect
<1>2. /\ vc \in [Replica -> VectorClock] /\ ops \subseteq Op
      /\ \A s \in Replica : SavedVc(s) \in VectorClock /\ SavedVc(s)' = SavedVc(s)
  BY <1>1, SavedVcType DEF CausalInv, TypeOK, SavedVc
<1>3. \A a, b \in Replica : vc[a][b] \in Nat /\ SavedVc(a)[b] \in Nat
  BY <1>2 DEF VectorClock
<1>4. \A n \in ops, s \in Replica : n.deps[s] <= SavedVc(s)[s]
  BY DEF SavedInv, NothingPastSaved
<1>5. \A a, b \in Replica : IF a = b THEN vc'[a][b] = vc[a][b]
                                     ELSE vc'[a][b] <= SavedVc(b)[b]
  BY <1>3, <1>4, OtherEffect DEF SavedInv, NothingPastSaved
<1>6. NothingPastSaved'
  BY <1>1, <1>2, <1>3, <1>4, <1>5 DEF SavedInv, NothingPastSaved
<1>7. \A a \in Replica : snap[a] # NoSnap => SnapshotCausal(snap[a])'
  BY <1>1 DEF SavedInv, SnapshotCausal
<1> QED
  BY <1>1, <1>6, <1>7 DEF SavedInv

\* A snapshot between two calls.
LEMMA SaveSaved ==
    ASSUME CausalInv, SavedInv, NEW r \in Replica, Save(r)
    PROVE  SavedInv'
<1>1. UNCHANGED <<vc, ops>> /\ snap' = [snap EXCEPT ![r] = snapshot(r)]
  BY DEF Save, vars
<1>2. /\ vc \in [Replica -> VectorClock] /\ \A s \in Replica : SavedVc(s) \in VectorClock
  BY SavedVcType DEF CausalInv, TypeOK
<1>3. /\ snap'[r] = snapshot(r) /\ \A a \in Replica \ {r} : snap'[a] = snap[a]
  BY <1>1 DEF SavedInv
<1>4. snapshot(r) \in Snapshot /\ snapshot(r) # NoSnap /\ snapshot(r).vc = vc[r] /\ SnapshotCausal(snapshot(r))
  BY SnapshotNow
<1>5. \A a, b \in Replica : SavedVc(a)[b]' = IF a = r THEN vc[r][b] ELSE SavedVc(a)[b]
  BY <1>3, <1>4 DEF SavedVc
<1>6. \A a, b \in Replica : vc[a][b] \in Nat /\ SavedVc(a)[b] \in Nat
  BY <1>2 DEF VectorClock
<1>7. /\ \A a, b \in Replica : SavedVc(a)[b] <= SavedVc(b)[b] /\ SavedVc(b)[b] <= vc[b][b]
      /\ \A a, b \in Replica : a # b => vc[a][b] <= SavedVc(b)[b]
      /\ \A op \in ops, s \in Replica : op.deps[s] <= SavedVc(s)[s] /\ op.deps[s] \in Nat
  BY DEF SavedInv, NothingPastSaved, CausalInv, TypeOK, Op, VectorClock
<1>8. NothingPastSaved'
  BY <1>1, <1>5, <1>6, <1>7 DEF NothingPastSaved
<1>9. \A a \in Replica : snap'[a] # NoSnap => SnapshotCausal(snap[a])'
  BY <1>1, <1>3, <1>4 DEF SavedInv, SnapshotCausal
<1> QED
  BY <1>1, <1>4, <1>8, <1>9 DEF SavedInv

----------------------------------------------------------------------------
(* Restarts *)

\* What a replica starts with after a crash passes for a state of it.
LEMMA RestoredState ==
    ASSUME CausalInv, SavedInv, NEW r \in Replica, NEW now \in Clock, NEW x,
           x = IF snap[r] = NoSnap THEN NewInstance(r, now) ELSE snap[r]
    PROVE  x \in Snapshot /\ x.vc = SavedVc(r) /\ SnapshotCausal(x)
<1>1. CASE snap[r] # NoSnap
  BY <1>1 DEF SavedInv, SavedVc
<1>2. CASE snap[r] = NoSnap
  <2>1. x = NewInstance(r, now)
    BY <1>2
  <2>2. /\ x.doc = EmptyDoc /\ x.vc = [s \in Replica |-> 0] /\ x.hlc = [t |-> now, c |-> 0, r |-> r]
        /\ x.lww = [k \in Key |-> NoHlc] /\ x.tomb = [k \in Key |-> NoHlc] /\ x.applied = {}
    BY <2>1 DEF NewInstance
  <2>3. EmptyDoc \in Document /\ [t |-> now, c |-> 0, r |-> r] \in HlcOf(Replica)
    BY BoundsAssumption DEF EmptyDoc, Document, HlcOf
  <2>4. x \in Snapshot
    BY <2>1, <2>3 DEF NewInstance, Snapshot, VectorClock
  <2>5. \A op \in ops : ~seen(x.vc, op)
    <3> SUFFICES ASSUME NEW op \in ops PROVE ~seen(x.vc, op)
      OBVIOUS
    <3>1. op.src \in Replica /\ op.deps[op.src] \in Nat /\ op.deps[op.src] >= 1
      BY DEF CausalInv, TypeOK, ClockBounds, Op, VectorClock
    <3> QED
      BY <2>2, <3>1 DEF seen
  <2>6. SnapshotCausal(x)
    BY <2>2, <2>5 DEF SnapshotCausal
  <2> QED
    BY <1>2, <2>2, <2>4, <2>6 DEF SavedVc
<1> QED
  BY <1>1, <1>2

\* A restart, in the middle of a call or not, leaves a state that causal delivery
\* could have led to.
LEMMA RestartCausal ==
    ASSUME CausalInv, SavedInv, NEW r \in Replica, Restart(r)
    PROVE  CausalInv' /\ SavedInv'
<1>1. PICK now \in Clock : restore(r, IF snap[r] = NoSnap THEN NewInstance(r, now) ELSE snap[r])
  BY DEF Restart
<1> DEFINE x == IF snap[r] = NoSnap THEN NewInstance(r, now) ELSE snap[r]
<1>2. x \in Snapshot /\ x.vc = SavedVc(r) /\ SnapshotCausal(x)
  BY RestoredState
<1>3. restore(r, x)
  BY <1>1
<1> HIDE DEF x
<1>4. /\ ops' = ops /\ snap' = snap
      /\ seq' = [seq EXCEPT ![r] = 0]
      /\ drain' = IF drain # Idle /\ drain.at = r THEN Idle ELSE drain
  BY <1>3 DEF Restart, restore
<1>5. /\ x.doc \in Document /\ x.vc \in VectorClock /\ x.hlc \in HlcOf(Replica)
      /\ x.lww \in [Key -> HlcOf(Replica) \cup {NoHlc}]
      /\ x.tomb \in [Key -> HlcOf(Replica) \cup {NoHlc}] /\ x.applied \in SUBSET Op
  BY <1>2 DEF Snapshot
<1>6. TypeOK'
  BY <1>3, <1>4, <1>5, EmptySeq DEF CausalInv, TypeOK, restore
<1>7. BufferedExist'
  BY <1>3, <1>4, EmptySeq DEF CausalInv, BufferedExist, restore
<1>8. /\ \A a \in Replica : vc'[a] = IF a = r THEN x.vc ELSE vc[a]
      /\ \A a \in Replica : hlc'[a] = IF a = r THEN x.hlc ELSE hlc[a]
      /\ \A a \in Replica : applied'[a] = IF a = r THEN x.applied ELSE applied[a]
  BY <1>3 DEF restore, CausalInv, TypeOK
<1>9. /\ \A a \in Replica : SavedVc(a) \in VectorClock /\ vc[a] \in VectorClock
      /\ \A n \in ops : n.src \in Replica /\ n.deps \in VectorClock
  BY SavedVcType DEF CausalInv, TypeOK, Op
<1>10. /\ \A a, b \in Replica : SavedVc(a)[b] \in Nat /\ vc[a][b] \in Nat
       /\ \A n \in ops, b \in Replica : n.deps[b] \in Nat
  BY <1>9 DEF VectorClock
<1>11. \A a \in Replica : SavedVc(a)' = SavedVc(a)
  BY <1>4 DEF SavedVc
<1>12. /\ \A a, b \in Replica : SavedVc(a)[b] <= SavedVc(b)[b] /\ SavedVc(b)[b] <= vc[b][b]
       /\ \A a, b \in Replica : a # b => vc[a][b] <= SavedVc(b)[b]
       /\ \A n \in ops, b \in Replica : n.deps[b] <= SavedVc(b)[b]
  BY DEF SavedInv, NothingPastSaved
<1>13. \A a, b \in Replica : /\ SavedVc(b)[b] <= vc'[b][b] /\ vc'[a][b] \in Nat
                             /\ a # b => vc'[a][b] <= SavedVc(b)[b]
  BY <1>2, <1>8, <1>10, <1>12
<1>14. NothingPastSaved'
  BY <1>4, <1>11, <1>12, <1>13 DEF NothingPastSaved
<1>15. SavedInv'
  BY <1>4, <1>14 DEF SavedInv, SnapshotCausal
<1>16. ClockBounds'
  <2>1. \A a, b \in Replica : vc'[a][b] <= vc'[b][b]
    BY <1>10, <1>13
  <2>2. \A n \in ops, b \in Replica : n.deps[b] <= vc'[b][b]
    BY <1>10, <1>12, <1>13
  <2> QED
    BY <1>4, <2>1, <2>2 DEF CausalInv, ClockBounds
<1>17. ClockIsApplied'
  BY <1>2, <1>4, <1>8 DEF CausalInv, ClockIsApplied, SnapshotCausal
<1>18. AppliedPast' /\ Stamps'
  BY <1>2, <1>4, <1>8 DEF CausalInv, AppliedPast, Stamps, SnapshotCausal, Precedes
<1> QED
  BY <1>6, <1>7, <1>15, <1>16, <1>17, <1>18 DEF CausalInv

----------------------------------------------------------------------------
(* No operation is lost, repeated or left out *)

LEMMA StepSaved ==
    ASSUME SaveEach, CausalInv, SavedInv, [PersistNext]_persistVars
    PROVE  CausalInv' /\ SavedInv'
<1>1. ASSUME NEW r \in Replica, LocalStep(r) PROVE CausalInv' /\ SavedInv'
  <2>1. [Next]_vars
    BY <1>1 DEF LocalStep, Next
  <2> QED
    BY <1>1, <2>1, StepCausal, LocalSaved
<1>2. CASE OtherStep
  <2>1. [Next]_vars
    BY <1>2 DEF OtherStep, Next
  <2> QED
    BY <1>2, <2>1, StepCausal, OtherSaved
<1>3. ASSUME NEW r \in Replica, Save(r) PROVE CausalInv' /\ SavedInv'
  <2>1. [Next]_vars
    BY <1>3 DEF Save
  <2> QED
    BY <1>3, <2>1, StepCausal, SaveSaved
<1>4. ASSUME NEW r \in Replica, Restart(r) PROVE CausalInv' /\ SavedInv'
  BY <1>4, RestartCausal
<1>5. CASE UNCHANGED persistVars
  <2>1. [Next]_vars /\ ops' = ops /\ vc' = vc /\ snap' = snap
    BY <1>5 DEF persistVars, vars
  <2>2. \A a \in Replica : SavedVc(a)' = SavedVc(a)
    BY <2>1 DEF SavedVc
  <2>3. SavedInv'
    BY <2>1, <2>2 DEF SavedInv, NothingPastSaved, SnapshotCausal
  <2> QED
    BY <2>1, <2>3, StepCausal
<1> QED
  BY <1>1, <1>2, <1>3, <1>4, <1>5 DEF PersistNext

\* When each operation is saved before it leaves, the invariant of causal delivery
\* survives crashes, and every snapshot could be the state of its replica now.
THEOREM SavedCorrect == SaveEach => (PersistSpec => [](CausalInv /\ SavedInv))
<1> SUFFICES ASSUME SaveEach PROVE PersistSpec => [](CausalInv /\ SavedInv)
  OBVIOUS
<1>1. PersistInit => CausalInv /\ SavedInv
  BY InitCausal, InitSaved DEF PersistInit
<1>2. CausalInv /\ SavedInv /\ [PersistNext]_persistVars => (CausalInv /\ SavedInv)'
  BY StepSaved
<1> QED
  BY <1>1, <1>2, PTL DEF PersistSpec

\* No operation is lost by a crash, at any point of any call: the replica that
\* made it holds it whenever it is up.
THEOREM MakersRememberCorrect == SaveEach => (PersistSpec => []MakersRemember)
<1>1. CausalInv /\ SavedInv => MakersRemember
  <2> SUFFICES ASSUME CausalInv, SavedInv, NEW op \in ops PROVE op \in applied[op.src]
    BY DEF MakersRemember
  <2>1. op.src \in Replica /\ op.deps[op.src] \in Nat
    BY DEF CausalInv, TypeOK, Op, VectorClock
  <2>2. seen(vc[op.src], op)
    BY <2>1 DEF CausalInv, ClockBounds, seen
  <2> QED
    BY <2>1, <2>2 DEF CausalInv, ClockIsApplied
<1> QED
  BY <1>1, SavedCorrect, PTL

\* What a replica holds, after a crash too, is closed under happened-before: what
\* it lost is what diffSince of another replica gives it again.
THEOREM RestoredClosedCorrect == SaveEach => (PersistSpec => []RestoredIsClosed)
<1>1. CausalInv => RestoredIsClosed
  <2> SUFFICES ASSUME CausalInv, NEW r \in Replica, NEW m \in applied[r], NEW n \in ops, Precedes(n, m)
               PROVE  n \in applied[r]
    BY DEF RestoredIsClosed
  <2>0. m \in Op /\ n \in Op /\ vc[r] \in VectorClock
    BY DEF CausalInv, TypeOK
  <2>1. /\ n.src \in Replica /\ n.deps[n.src] \in Nat /\ vc[r][n.src] \in Nat
        /\ m.deps[n.src] \in Nat
    BY <2>0 DEF Op, VectorClock
  <2>2. m.deps[n.src] <= vc[r][n.src] /\ n.deps[n.src] <= m.deps[n.src]
    BY <2>1 DEF CausalInv, AppliedPast, Precedes
  <2>3. seen(vc[r], n)
    BY <2>1, <2>2 DEF seen
  <2> QED
    BY <2>3 DEF CausalInv, ClockIsApplied
<1> QED
  BY <1>1, SavedCorrect, PTL

\* An identifier tells its source and its stamp, and no two operations share those.
LEMMA StampsIdentify == CausalInv => UniqueIds
<1> SUFFICES ASSUME CausalInv, NEW n \in ops, NEW m \in ops, n # m, makeOpId(n) = makeOpId(m)
             PROVE  FALSE
  BY DEF UniqueIds
<1>1. /\ n.hlc \in HlcOf(Replica) /\ m.hlc \in HlcOf(Replica)
      /\ n.src \in Replica /\ n.deps \in VectorClock /\ m.deps \in VectorClock
  BY DEF CausalInv, TypeOK, Op
<1>2. n.src = m.src /\ n.hlc.t = m.hlc.t /\ n.hlc.c = m.hlc.c
  BY DEF makeOpId
<1>3. Precedes(n, m) \/ Precedes(m, n)
  BY <1>1, <1>2 DEF Precedes, VectorClock
<1>4. Before(n.hlc, m.hlc) \/ Before(m.hlc, n.hlc)
  BY <1>3 DEF CausalInv, Stamps
<1> QED
  BY <1>1, <1>2, <1>4 DEF Before, HlcOf

\* No identifier is used twice, although the counter that is part of it starts
\* again from one with the instance.
THEOREM UniqueIdsCorrect == SaveEach => (PersistSpec => []UniqueIds)
  BY StampsIdentify, SavedCorrect, PTL

----------------------------------------------------------------------------
(* What the document holds after crashes, when the application writes      *)
(* top-level keys.                                                         *)

\* What the invariants of the document say of a replica, they say of a snapshot
\* of it.
LEMMA SnapshotOfFlat ==
    ASSUME TypeOK, NEW r \in Replica
    PROVE  /\ FlatInv => SnapshotMaps(snapshot(r)) /\ SnapshotCausallyLast(snapshot(r))
           /\ SetsOnly => SnapshotSetsOnly(snapshot(r))
<1>1. /\ snapshot(r).doc = doc[r] /\ snapshot(r).lww = lww[r] /\ snapshot(r).tomb = tomb[r]
      /\ snapshot(r).applied = applied[r]
  BY DEF snapshot
<1>2. FlatInv => SnapshotMaps(snapshot(r))
  BY <1>1 DEF FlatInv, MapsFromApplied, SnapshotMaps
<1>3. FlatInv => SnapshotCausallyLast(snapshot(r))
  BY <1>1 DEF FlatInv, CausallyLastDecides, SnapshotCausallyLast
<1>4. SetsOnly => SnapshotSetsOnly(snapshot(r))
  BY <1>1 DEF SetsOnly, SnapshotSetsOnly
<1> QED
  BY <1>2, <1>3, <1>4

LEMMA SnapshotOfFlatNext ==
    TypeOK' => \A r \in Replica :
      /\ FlatInv' => SnapshotMaps(snapshot(r))' /\ SnapshotCausallyLast(snapshot(r))'
      /\ SetsOnly' => SnapshotSetsOnly(snapshot(r))'
<1>1. TypeOK => \A r \in Replica :
        /\ FlatInv => SnapshotMaps(snapshot(r)) /\ SnapshotCausallyLast(snapshot(r))
        /\ SetsOnly => SnapshotSetsOnly(snapshot(r))
  BY SnapshotOfFlat
<1>2. TypeOK' => (\A r \in Replica :
        /\ FlatInv => SnapshotMaps(snapshot(r)) /\ SnapshotCausallyLast(snapshot(r))
        /\ SetsOnly => SnapshotSetsOnly(snapshot(r)))'
  BY <1>1, PTL
<1> QED
  BY <1>2

\* A snapshot that a step takes or leaves in place keeps what was said of it.
LEMMA StepSnapshots ==
    ASSUME CausalInv, SavedInv, TypeOK', [PersistNext]_persistVars, NEW a \in Replica
    PROVE  \/ snap'[a] = snap[a]
           \/ snap'[a] = snapshot(a)'
<1>1. snap \in [Replica -> Snapshot \cup {NoSnap}]
  BY DEF SavedInv
<1>2. ASSUME NEW r \in Replica, LocalStep(r) PROVE snap'[a] = snap[a] \/ snap'[a] = snapshot(a)'
  BY <1>1, <1>2 DEF LocalStep
<1>3. ASSUME NEW r \in Replica, Save(r) PROVE snap'[a] = snap[a] \/ snap'[a] = snapshot(a)'
  BY <1>1, <1>3 DEF Save, vars, snapshot
<1>4. CASE (\E r \in Replica : Restart(r)) \/ OtherStep \/ UNCHANGED persistVars
  BY <1>4 DEF Restart, OtherStep, persistVars
<1> QED
  BY <1>2, <1>3, <1>4 DEF PersistNext

\* So does the state that a restart takes from it.
LEMMA RestartFlat ==
    ASSUME TypeOK, SavedInv, NEW r \in Replica, Restart(r)
    PROVE  /\ FlatInv /\ SavedFlat => FlatInv'
           /\ SetsOnly /\ SavedSetsOnly => SetsOnly'
<1>1. PICK now \in Clock : restore(r, IF snap[r] = NoSnap THEN NewInstance(r, now) ELSE snap[r])
  BY DEF Restart
<1> DEFINE x == IF snap[r] = NoSnap THEN NewInstance(r, now) ELSE snap[r]
<1>2. /\ SavedFlat => SnapshotMaps(x) /\ SnapshotCausallyLast(x)
      /\ SavedSetsOnly => SnapshotSetsOnly(x)
  <2>1. CASE snap[r] # NoSnap
    BY <2>1 DEF SavedFlat, SavedSetsOnly
  <2>2. CASE snap[r] = NoSnap
    <3>1. /\ x.doc = [p \in Path |-> Absent] /\ x.applied = {}
          /\ x.lww = [k \in Key |-> NoHlc] /\ x.tomb = [k \in Key |-> NoHlc]
      BY <2>2 DEF NewInstance, EmptyDoc
    <3> HIDE DEF x
    <3> QED
      BY <3>1 DEF SnapshotMaps, SnapshotCausallyLast, SnapshotSetsOnly
  <2> QED
    BY <2>1, <2>2
<1>3. restore(r, x)
  BY <1>1
<1> HIDE DEF x
<1>4. /\ ops' = ops
      /\ \A a \in Replica : doc'[a] = IF a = r THEN x.doc ELSE doc[a]
      /\ \A a \in Replica : lww'[a] = IF a = r THEN x.lww ELSE lww[a]
      /\ \A a \in Replica : tomb'[a] = IF a = r THEN x.tomb ELSE tomb[a]
      /\ \A a \in Replica : applied'[a] = IF a = r THEN x.applied ELSE applied[a]
  BY <1>3 DEF restore, TypeOK
<1>5. FlatInv /\ SavedFlat => MapsFromApplied'
  BY <1>2, <1>4 DEF FlatInv, MapsFromApplied, SnapshotMaps
<1>6. FlatInv /\ SavedFlat => CausallyLastDecides'
  BY <1>2, <1>4 DEF FlatInv, CausallyLastDecides, SnapshotCausallyLast, Precedes
<1>7. SetsOnly /\ SavedSetsOnly => SetsOnly'
  BY <1>2, <1>4 DEF SetsOnly, SnapshotSetsOnly
<1> QED
  BY <1>5, <1>6, <1>7 DEF FlatInv

LEMMA StepSavedFlat ==
    ASSUME SaveEach, FlatPaths, CausalInv, SavedInv, FlatInv, SavedFlat,
           [PersistNext]_persistVars
    PROVE  /\ FlatInv' /\ SavedFlat'
           /\ Kinds \subseteq {"set"} /\ SetsOnly /\ SavedSetsOnly => SetsOnly' /\ SavedSetsOnly'
<1>1. CausalInv' /\ SavedInv' /\ TypeOK /\ TypeOK'
  BY StepSaved DEF CausalInv
<1>2. /\ FlatInv'
      /\ Kinds \subseteq {"set"} /\ SetsOnly /\ SavedSetsOnly => SetsOnly'
  <2>1. CASE \E r \in Replica : Restart(r)
    BY <1>1, <2>1, RestartFlat
  <2>2. CASE ~\E r \in Replica : Restart(r)
    <3>1. [Next]_vars
      BY <2>2 DEF PersistNext, LocalStep, OtherStep, Save, Next, persistVars
    <3> QED
      BY <3>1, StepFlat, StepSetsOnly DEF FlatInv
  <2> QED
    BY <2>1, <2>2
<1>3. ASSUME NEW a \in Replica, snap'[a] # NoSnap
      PROVE  SnapshotMaps(snap[a])' /\ SnapshotCausallyLast(snap[a])'
  <2>1. CASE snap'[a] = snap[a]
    BY <1>3, <2>1 DEF SavedFlat, SnapshotMaps, SnapshotCausallyLast, Precedes
  <2>2. CASE snap'[a] = snapshot(a)'
    BY <1>1, <1>2, <2>2, SnapshotOfFlatNext
  <2> QED
    BY <1>1, <2>1, <2>2, StepSnapshots
<1>4. ASSUME Kinds \subseteq {"set"}, SetsOnly, SavedSetsOnly, NEW a \in Replica, snap'[a] # NoSnap
      PROVE  SnapshotSetsOnly(snap[a])'
  <2>1. CASE snap'[a] = snap[a]
    BY <1>4, <2>1 DEF SavedSetsOnly, SnapshotSetsOnly
  <2>2. CASE snap'[a] = snapshot(a)'
    BY <1>1, <1>2, <1>4, <2>2, SnapshotOfFlatNext
  <2> QED
    BY <1>1, <2>1, <2>2, StepSnapshots
<1> QED
  BY <1>2, <1>3, <1>4 DEF SavedFlat, SavedSetsOnly

LEMMA InitFlat == PersistInit => FlatInv /\ SavedFlat /\ SavedSetsOnly /\ SetsOnly
BY KeyAssumption DEF PersistInit, Init, EmptyDoc, FlatInv, MapsFromApplied, CausallyLastDecides,
   SavedFlat, SavedSetsOnly, SetsOnly

\* With crashes, sets and deletions of top-level keys: an operation that everything
\* else applied to its path happened before decides what the path holds.
THEOREM CausallyLastAfterCrash ==
    SaveEach /\ FlatPaths => (PersistSpec => []CausallyLastDecides)
<1> SUFFICES ASSUME SaveEach, FlatPaths PROVE PersistSpec => []CausallyLastDecides
  OBVIOUS
<1>1. PersistInit => CausalInv /\ SavedInv /\ FlatInv /\ SavedFlat
  BY InitCausal, InitSaved, InitFlat DEF PersistInit
<1>2. CausalInv /\ SavedInv /\ FlatInv /\ SavedFlat /\ [PersistNext]_persistVars
        => (CausalInv /\ SavedInv /\ FlatInv /\ SavedFlat)'
  BY StepSaved, StepSavedFlat
<1> QED
  BY <1>1, <1>2, PTL DEF PersistSpec, FlatInv

LEMMA SavedSetsOnlyInvariant ==
    SaveEach /\ FlatPaths /\ Kinds \subseteq {"set"} =>
      (PersistSpec => [](CausalInv /\ MapsFromApplied /\ SetsOnly))
<1> SUFFICES ASSUME SaveEach, FlatPaths, Kinds \subseteq {"set"}
             PROVE  PersistSpec => [](CausalInv /\ MapsFromApplied /\ SetsOnly)
  OBVIOUS
<1> DEFINE I == CausalInv /\ SavedInv /\ FlatInv /\ SavedFlat /\ SetsOnly /\ SavedSetsOnly
<1>1. PersistInit => I
  BY InitCausal, InitSaved, InitFlat DEF PersistInit
<1>2. I /\ [PersistNext]_persistVars => I'
  BY StepSaved, StepSavedFlat
<1>3. I => CausalInv /\ MapsFromApplied /\ SetsOnly
  BY DEF FlatInv
<1> QED
  BY <1>1, <1>2, <1>3, PTL DEF PersistSpec

\* Crashes leave the last writer in place: a restored replica holds at a path the
\* value of the latest set among those it holds, whatever it applied before.
THEOREM LwwAfterCrash ==
    SaveEach /\ FlatPaths /\ Kinds \subseteq {"set"} => (PersistSpec => []LastWriterWins)
<1> SUFFICES ASSUME SaveEach, FlatPaths, Kinds \subseteq {"set"}
             PROVE  PersistSpec => []LastWriterWins
  OBVIOUS
<1>1. CausalInv => HlcOrder
  BY StampsOrdered
<1>2. CausalInv /\ MapsFromApplied /\ SetsOnly => LastWriterWins
  BY <1>1, SetsOnlyLww
<1> QED
  BY <1>2, SavedSetsOnlyInvariant, PTL

\* And replicas that hold the same operations hold the same document, restored
\* from a snapshot or not.
THEOREM ConvergenceAfterCrash ==
    SaveEach /\ FlatPaths /\ Kinds \subseteq {"set"} => (PersistSpec => []Convergence)
<1> SUFFICES ASSUME SaveEach, FlatPaths, Kinds \subseteq {"set"}
             PROVE  PersistSpec => []Convergence
  OBVIOUS
<1>1. CausalInv /\ MapsFromApplied /\ SetsOnly => Convergence
  BY SetsOnlyConverge
<1> QED
  BY <1>1, SavedSetsOnlyInvariant, PTL
=============================================================================

-------------------------- MODULE JsonCrdtPersist --------------------------
(***************************************************************************)
(* JSONCrdt with snapshot() and restore(): the application saves snapshots *)
(* of its replica and, after a crash, builds a new instance and restores   *)
(* the last one, as PersistentCrdt of packages/core/docs/CRDT.md does.     *)
(* What a snapshot does not hold is gone: seq, the log, the pending buffer *)
(* and what was applied after it.  The operations that were returned are   *)
(* with the other replicas, or on their way, all the same.                 *)
(***************************************************************************)
EXTENDS JsonCrdt

CONSTANTS SaveEach,      \* whether each local operation is saved in its 'change' event
          NoSnap,        \* nothing was saved
          MaxRestarts    \* bound: crashes of each replica

ASSUME PersistAssumption == SaveEach \in BOOLEAN /\ MaxRestarts \in Nat

Snapshot == [doc : Document, vc : VectorClock, hlc : HlcOf(Replica),
             lww : [Key -> HlcOf(Replica) \cup {NoHlc}],
             tomb : [Key -> HlcOf(Replica) \cup {NoHlc}], applied : SUBSET Op]

ASSUME NoSnapAssumption == NoSnap \notin Snapshot

VARIABLES snap,      \* snap[r]: what replica r saved last, or NoSnap
          restarts   \* history: crashes of each replica

persistVars == <<vars, snap, restarts>>

\* snapshot() of replica r; `applied` is history, the operations it holds.
snapshot(r) == [doc |-> doc[r], vc |-> vc[r], hlc |-> hlc[r], lww |-> lww[r],
                tomb |-> tomb[r], applied |-> applied[r]]

\* A new instance of replica r, whose constructor reads wall time now.
NewInstance(r, now) ==
    [doc |-> EmptyDoc, vc |-> [s \in Replica |-> 0], hlc |-> [t |-> now, c |-> 0, r |-> r],
     lww |-> [k \in Key |-> NoHlc], tomb |-> [k \in Key |-> NoHlc], applied |-> {}]

\* Faults: restore() forgets the vector clock, or the lww map.
restoreWithoutVc(r, s) ==
    /\ doc' = [doc EXCEPT ![r] = s.doc]
    /\ hlc' = [hlc EXCEPT ![r] = s.hlc]
    /\ lww' = [lww EXCEPT ![r] = s.lww]
    /\ tomb' = [tomb EXCEPT ![r] = s.tomb]
    /\ applied' = [applied EXCEPT ![r] = s.applied]
    /\ log' = [log EXCEPT ![r] = <<>>]
    /\ pending' = [pending EXCEPT ![r] = <<>>]
    /\ UNCHANGED <<vc, ops>>
restoreWithoutLww(r, s) ==
    /\ doc' = [doc EXCEPT ![r] = s.doc]
    /\ vc' = [vc EXCEPT ![r] = s.vc]
    /\ hlc' = [hlc EXCEPT ![r] = s.hlc]
    /\ lww' = [lww EXCEPT ![r] = [k \in Key |-> NoHlc]]
    /\ tomb' = [tomb EXCEPT ![r] = s.tomb]
    /\ applied' = [applied EXCEPT ![r] = s.applied]
    /\ log' = [log EXCEPT ![r] = <<>>]
    /\ pending' = [pending EXCEPT ![r] = <<>>]
    /\ UNCHANGED ops

\* The state of replica r becomes s; log and pending are cleared.
restore(r, s) ==
    /\ doc' = [doc EXCEPT ![r] = s.doc]
    /\ vc' = [vc EXCEPT ![r] = s.vc]
    /\ hlc' = [hlc EXCEPT ![r] = s.hlc]
    /\ lww' = [lww EXCEPT ![r] = s.lww]
    /\ tomb' = [tomb EXCEPT ![r] = s.tomb]
    /\ applied' = [applied EXCEPT ![r] = s.applied]
    /\ log' = [log EXCEPT ![r] = <<>>]
    /\ pending' = [pending EXCEPT ![r] = <<>>]
    /\ UNCHANGED ops

\* The application saves a snapshot between two calls.
Save(r) ==
    /\ drain = Idle
    /\ snap' = [snap EXCEPT ![r] = snapshot(r)]
    /\ UNCHANGED <<vars, restarts>>

\* The process dies, in the middle of a call too, and starts again.
Restart(r) ==
    /\ restarts[r] < MaxRestarts
    /\ restarts' = [restarts EXCEPT ![r] = @ + 1]
    /\ \E now \in Clock :
         restore(r, IF snap[r] = NoSnap THEN NewInstance(r, now) ELSE snap[r])
    /\ seq' = [seq EXCEPT ![r] = 0]
    /\ drain' = IF drain # Idle /\ drain.at = r THEN Idle ELSE drain
    /\ UNCHANGED snap

\* Fault: the snapshot is taken before the operation is applied.
LocalAfterSave(r) ==
    /\ Local(r)
    /\ snap' = IF SaveEach /\ ops' # ops THEN [snap EXCEPT ![r] = snapshot(r)] ELSE snap
    /\ UNCHANGED restarts

\* A local call.  With SaveEach the operation leaves the replica after it is
\* saved; a call that throws emits no 'change'.
LocalStep(r) ==
    /\ Local(r)
    /\ snap' = IF SaveEach /\ ops' # ops THEN [snap EXCEPT ![r] = snapshot(r)'] ELSE snap
    /\ UNCHANGED restarts

OtherStep ==
    /\ \/ \E r \in Replica : DrainPending(r) \/ Gc(r)
       \/ \E r \in Replica, op \in ops : Receive(r, op)
       \/ DrainItem
       \/ DrainPass
    /\ UNCHANGED <<snap, restarts>>

PersistInit ==
    /\ Init
    /\ snap = [r \in Replica |-> NoSnap]
    /\ restarts = [r \in Replica |-> 0]

PersistNext ==
    \/ \E r \in Replica : LocalStep(r) \/ Save(r) \/ Restart(r)
    \/ OtherStep

PersistSpec == PersistInit /\ [][PersistNext]_persistVars

----------------------------------------------------------------------------
(* Properties *)

\* No operation is lost by a crash: the replica that made it holds it, or did
\* when it saved its last snapshot.
MakersRemember == \A op \in ops : op \in applied[op.src]

\* A replica that was restored asks again for what it lost, and for nothing else:
\* what it holds is closed under happened-before.
RestoredIsClosed ==
    \A r \in Replica : \A m \in applied[r], n \in ops : Precedes(n, m) => n \in applied[r]

----------------------------------------------------------------------------
(* What makes the properties above inductive, with SaveEach *)

\* The vector clock a replica starts with after a crash.
SavedVc(r) == IF snap[r] = NoSnap THEN [s \in Replica |-> 0] ELSE snap[r].vc

\* What leaves a replica is covered by what it saved: nobody depends on more.
NothingPastSaved ==
    /\ \A r, s \in Replica : SavedVc(r)[s] <= SavedVc(s)[s] /\ SavedVc(s)[s] <= vc[s][s]
    /\ \A r, s \in Replica : r # s => vc[r][s] <= SavedVc(s)[s]
    /\ \A op \in ops, s \in Replica : op.deps[s] <= SavedVc(s)[s]

\* A snapshot is a state the replica could be in now.
SnapshotCausal(x) ==
    /\ x.applied = {op \in ops : seen(x.vc, op)}
    /\ \A op \in x.applied : /\ \A s \in Replica : op.deps[s] <= x.vc[s]
                             /\ Before(op.hlc, x.hlc)

SavedInv ==
    /\ snap \in [Replica -> Snapshot \cup {NoSnap}]
    /\ NothingPastSaved
    /\ \A r \in Replica : snap[r] # NoSnap => SnapshotCausal(snap[r])

\* What MapsFromApplied, CausallyLastDecides and SetsOnly say of a replica, of a snapshot.
SnapshotMaps(x) ==
    \A k \in Key :
      /\ x.lww[k] # NoHlc =>
           \E op \in x.applied : op.kind = "set" /\ KeyOf[op.path] = k /\ op.hlc = x.lww[k]
      /\ x.tomb[k] # NoHlc =>
           \E op \in x.applied : op.kind = "tombstone" /\ KeyOf[op.path] = k /\ op.hlc = x.tomb[k]

SnapshotCausallyLast(x) ==
    \A m \in x.applied :
      (\A n \in x.applied : n.path = m.path /\ n # m => Precedes(n, m)) => x.doc[m.path] = m.value

SnapshotSetsOnly(x) ==
    /\ \A k \in Key : x.tomb[k] = NoHlc
    /\ \A op \in x.applied :
         /\ x.lww[KeyOf[op.path]] # NoHlc
         /\ ~Later(op.hlc, x.lww[KeyOf[op.path]])
         /\ op.hlc = x.lww[KeyOf[op.path]] => x.doc[op.path] = op.value
    /\ \A p \in Path : x.lww[KeyOf[p]] = NoHlc => x.doc[p] = Absent

SavedFlat ==
    \A r \in Replica :
      snap[r] # NoSnap => SnapshotMaps(snap[r]) /\ SnapshotCausallyLast(snap[r])

SavedSetsOnly == \A r \in Replica : snap[r] # NoSnap => SnapshotSetsOnly(snap[r])
=============================================================================

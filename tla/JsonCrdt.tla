----------------------------- MODULE JsonCrdt -----------------------------
(***************************************************************************)
(* JSONCrdt (packages/core/src/json-crdt.ts): replicas of a JSON document  *)
(* that exchange operations, deliver them in causal order and settle       *)
(* concurrent writes of a path by the latest hybrid logical clock.         *)
(*                                                                         *)
(* The class does not talk to a network: the application ships what set()  *)
(* and del() return and calls receive() with what arrives.  `ops` is every *)
(* operation returned so far; an operation of it may be received by any    *)
(* replica, at any time, any number of times or never, so messages are     *)
(* lost, duplicated, delayed and reordered.                                *)
(*                                                                         *)
(* A call runs to its end without interleaving with another call of the    *)
(* same replica.  The loop of drainPending() is unrolled into steps; while *)
(* it runs (drain # Idle) no other call starts.  Replicas share nothing,   *)
(* so holding back the other replicas as well hides no behaviour.          *)
(***************************************************************************)
EXTENDS Hlc, JsonDoc, Sequences, FiniteSets

CONSTANTS Replica,         \* replica identifiers, ordered as numbers
          Key,             \* keys of the lww and tombstone maps
          KeyOf,           \* KeyOf[p] = pathKey(p)
          Kinds,           \* the calls the application makes: "set", "tombstone"
          NoHlc,           \* a key that is not in a map
          MaxLogSize, MaxPendingSize, Grace, EnableAutoGc,   \* CrdtOptions
          Clock,           \* the wall times Date.now() may return
          MaxOps,          \* MaxOps[r], bound: local operations of replica r
          MaxAllOps,       \* bound: operations of all replicas
          BufferBound,     \* bound: length of a pending buffer
          ManualGc         \* whether the application calls the gc methods

ASSUME ReplicaAssumption == Replica \subseteq Nat
ASSUME KeyAssumption == KeyOf \in [Path -> Key]
ASSUME KindsAssumption == Kinds \subseteq {"set", "tombstone"}
ASSUME OptionsAssumption ==
    /\ MaxLogSize \in Nat /\ MaxPendingSize \in Nat /\ Grace \in Nat
    /\ EnableAutoGc \in BOOLEAN /\ ManualGc \in BOOLEAN
ASSUME BoundsAssumption ==
    /\ Clock \subseteq Nat /\ MaxOps \in [Replica -> Nat]
    /\ MaxAllOps \in Nat /\ BufferBound \in Nat
ASSUME NoHlcAssumption == NoHlc \notin HlcOf(Replica)

VARIABLES
    doc,       \* doc[r]: the document
    vc,        \* vc[r]: vector clock
    hlc,       \* hlc[r]: hybrid logical clock
    seq,       \* seq[r]: operations this instance made
    lww,       \* lww[r]: Key -> winning set
    tomb,      \* tomb[r]: Key -> latest deletion
    log,       \* log[r]: operations kept for diffSince
    pending,   \* pending[r]: operations received too early
    drain,     \* the drainPending() loop under way, or Idle
    ops,       \* history: every operation set() or del() returned
    applied    \* history: applied[r], the operations that replica applied

crdtVars == <<doc, vc, hlc, seq, lww, tomb, log, pending, drain>>
vars == <<doc, vc, hlc, seq, lww, tomb, log, pending, drain, ops, applied>>

VectorClock == [Replica -> Nat]

\* An operation.  Its `id` is the string built by makeOpId from the other fields.
Op == [src : Replica, seq : Nat, kind : {"set", "tombstone"}, path : Path,
       value : Value \cup {Absent}, hlc : HlcOf(Replica), deps : VectorClock]

makeOpId(op) == <<op.src, op.hlc.t, op.hlc.c, op.seq>>

Idle == [busy |-> FALSE]
Draining == [busy : {TRUE}, at : Replica, todo : Seq(Op), rest : Seq(Op),
             progressed : BOOLEAN]

----------------------------------------------------------------------------
(* Vector clocks *)

vcTick(v, r) == [v EXCEPT ![r] = @ + 1]

vcMerge(v, w) == [s \in Replica |-> IF v[s] >= w[s] THEN v[s] ELSE w[s]]

\* Fault: operations of the other replicas may be missing.
readyDespiteOthers(v, op) == op.deps[op.src] = v[op.src] + 1

isCausallyReady(v, op) ==
    /\ op.deps[op.src] = v[op.src] + 1
    /\ \A s \in Replica \ {op.src} : op.deps[s] <= v[s]

seen(v, op) == v[op.src] >= op.deps[op.src]

----------------------------------------------------------------------------
(* applyOp: what it leaves in the two maps and in the document.  A throw of *)
(* setAtPath happens after the lww entry was written.                       *)

\* Fault: only the wall times are compared.
BeatsByTime(op, h) == h # NoHlc => op.hlc.t > h.t

Beats(op, h) == h # NoHlc => Later(op.hlc, h)

TombWins(r, op) == op.kind = "tombstone" /\ Beats(op, tomb[r][KeyOf[op.path]])

\* Fault: tombstones do not count.
SetIgnoresTomb(r, op) == op.kind = "set" /\ Beats(op, lww[r][KeyOf[op.path]])

\* A set is rejected by a later tombstone of its key, then by a set as late.
SetWins(r, op) ==
    /\ op.kind = "set"
    /\ LET t == tomb[r][KeyOf[op.path]]
       IN  t # NoHlc => ~Later(t, op.hlc)
    /\ Beats(op, lww[r][KeyOf[op.path]])

Throws(r, op) == SetWins(r, op) /\ Blocked(doc[r], op.path)

TombAfter(r, op) ==
    IF TombWins(r, op) THEN [tomb[r] EXCEPT ![KeyOf[op.path]] = op.hlc] ELSE tomb[r]

LwwAfter(r, op) ==
    IF SetWins(r, op) THEN [lww[r] EXCEPT ![KeyOf[op.path]] = op.hlc] ELSE lww[r]

DocAfter(r, op) ==
    IF TombWins(r, op) THEN delAtPath(doc[r], op.path)
    ELSE IF SetWins(r, op) THEN setAtPath(doc[r], op.path, op.value)
    ELSE doc[r]

----------------------------------------------------------------------------
(* Garbage collection *)

\* gcLog(n): log.slice(-n), and slice(-0) is the whole log.
KeepLast(l, n) == IF n = 0 \/ Len(l) <= n THEN l ELSE SubSeq(l, Len(l) - n + 1, Len(l))

\* gcTombstones at wall time now.
FreshTombs(t, now) ==
    [k \in Key |-> IF t[k] # NoHlc /\ now - t[k].t > Grace THEN NoHlc ELSE t[k]]

\* What may be left of a buffer when cleanPendingBuffer dropped the items that
\* were received pendingTimeoutMs ago or earlier.  The model does not keep those
\* times, and the wall clock may have gone back: any items may go.
Thinnings(s) ==
    UNION {{[i \in 1 .. n |-> s[f[i]]] :
               f \in {g \in [1 .. n -> 1 .. Len(s)] : \A i, j \in 1 .. n : i < j => g[i] < g[j]}} :
           n \in 0 .. Len(s)}

\* The buffer is cleaned only when it is found too long.
Cleaned(s, tooLong) == IF tooLong THEN Thinnings(s) ELSE {s}

AutoGcLog(l) ==
    IF EnableAutoGc /\ Len(l) > 2 * MaxLogSize THEN KeepLast(l, MaxLogSize) ELSE l

AutoGcTombs(t, now) == IF EnableAutoGc THEN FreshTombs(t, now) ELSE t

AutoGcTooLong(s) == EnableAutoGc /\ 2 * Len(s) > MaxPendingSize

----------------------------------------------------------------------------
(* The local calls set() and del() *)

\* makeLocalOp(kind, p, v) at wall time now: the clock reading h is on the
\* operation, the vector clock is ticked before the operation is applied.
makeLocalOp(r, kind, p, v, h) ==
    [src |-> r, seq |-> seq[r] + 1, kind |-> kind, path |-> p,
     value |-> IF kind = "set" THEN v ELSE Absent,
     hlc |-> h, deps |-> vcTick(vc[r], r)]

\* The operation just made is applied and logged, the replica's garbage is
\* collected at wall time gcNow, and the operation is returned.
FinishOp(r, op, gcNow) ==
    /\ drain = Idle
    /\ vc[r][r] < MaxOps[r] /\ Cardinality(ops) < MaxAllOps
    /\ ~Throws(r, op)
    /\ seq' = [seq EXCEPT ![r] = op.seq]
    /\ vc' = [vc EXCEPT ![r] = op.deps]
    /\ hlc' = [hlc EXCEPT ![r] = Merge(op.hlc, op.hlc, r)]
    /\ doc' = [doc EXCEPT ![r] = DocAfter(r, op)]
    /\ lww' = [lww EXCEPT ![r] = LwwAfter(r, op)]
    /\ tomb' = [tomb EXCEPT ![r] = AutoGcTombs(TombAfter(r, op), gcNow)]
    /\ log' = [log EXCEPT ![r] = AutoGcLog(Append(log[r], op))]
    /\ \E kept \in Cleaned(pending[r], AutoGcTooLong(pending[r])) :
         pending' = [pending EXCEPT ![r] = kept]
    /\ ops' = ops \cup {op}
    /\ applied' = [applied EXCEPT ![r] = @ \cup {op}]
    /\ UNCHANGED drain

\* set() throws from setAtPath: the clocks and seq are past the operation and
\* its lww entry is in place, but it is neither logged nor returned.
FailOp(r, op) ==
    /\ drain = Idle
    /\ vc[r][r] < MaxOps[r]
    /\ Throws(r, op)
    /\ seq' = [seq EXCEPT ![r] = op.seq]
    /\ vc' = [vc EXCEPT ![r] = op.deps]
    /\ hlc' = [hlc EXCEPT ![r] = op.hlc]
    /\ lww' = [lww EXCEPT ![r] = LwwAfter(r, op)]
    /\ UNCHANGED <<doc, tomb, log, pending, drain, ops, applied>>

\* The operations replica r can make now: Date.now() may return anything.
NewOps(r, kind, p, v) == {makeLocalOp(r, kind, p, v, Tick(hlc[r], now, r)) : now \in Clock}

set(r, p, v) ==
    /\ "set" \in Kinds
    /\ \E op \in NewOps(r, "set", p, v) :
         (\E gcNow \in Clock : FinishOp(r, op, gcNow)) \/ FailOp(r, op)

del(r, p) ==
    /\ "tombstone" \in Kinds
    /\ \E op \in NewOps(r, "tombstone", p, Absent), gcNow \in Clock : FinishOp(r, op, gcNow)

----------------------------------------------------------------------------
(* receive() and drainPending() *)

\* applyOp of an operation of another replica, when nothing throws.
ApplyRemote(r, op) ==
    /\ doc' = [doc EXCEPT ![r] = DocAfter(r, op)]
    /\ lww' = [lww EXCEPT ![r] = LwwAfter(r, op)]
    /\ tomb' = [tomb EXCEPT ![r] = TombAfter(r, op)]
    /\ vc' = [vc EXCEPT ![r] = vcMerge(vc[r], op.deps)]
    /\ log' = [log EXCEPT ![r] = Append(log[r], op)]
    /\ hlc' = [hlc EXCEPT ![r] = Merge(hlc[r], op.hlc, r)]
    /\ applied' = [applied EXCEPT ![r] = @ \cup {op}]

\* Fault: receive() counts the operation before it applies it.
CountedThenThrows(r, op) ==
    /\ lww' = [lww EXCEPT ![r] = LwwAfter(r, op)]
    /\ vc' = [vc EXCEPT ![r] = vcMerge(vc[r], op.deps)]
    /\ UNCHANGED <<doc, tomb, log, hlc, applied>>

\* applyOp throws: only its lww entry is left behind.
ApplyThrows(r, op) ==
    /\ lww' = [lww EXCEPT ![r] = LwwAfter(r, op)]
    /\ UNCHANGED <<doc, tomb, vc, log, hlc, applied>>

\* drainPending() on a list: it has nothing to do on an empty one.
StartDrain(r, items) ==
    IF items = <<>> THEN Idle
    ELSE [busy |-> TRUE, at |-> r, todo |-> items, rest |-> <<>>, progressed |-> FALSE]

\* receive(op) of an operation that is not seen: the pending buffer is cleaned
\* first if it is full, and kept is what is left.  (A seen operation is ignored.)
MayReceive(r, op, kept) ==
    /\ drain = Idle
    /\ op \in ops
    /\ ~seen(vc[r], op)
    /\ kept \in Cleaned(pending[r], Len(pending[r]) >= MaxPendingSize)

ReceiveEarly(r, op, kept) ==
    /\ MayReceive(r, op, kept)
    /\ ~isCausallyReady(vc[r], op)
    /\ Len(kept) < BufferBound
    /\ pending' = [pending EXCEPT ![r] = Append(kept, op)]
    /\ UNCHANGED <<doc, vc, hlc, seq, lww, tomb, log, drain, ops, applied>>

ReceiveReady(r, op, kept) ==
    /\ MayReceive(r, op, kept)
    /\ isCausallyReady(vc[r], op)
    /\ pending' = [pending EXCEPT ![r] = kept]
    /\ IF Throws(r, op)
       THEN ApplyThrows(r, op) /\ UNCHANGED drain
       ELSE ApplyRemote(r, op) /\ drain' = StartDrain(r, kept)
    /\ UNCHANGED <<seq, ops>>

Receive(r, op) ==
    \E kept \in Thinnings(pending[r]) : ReceiveEarly(r, op, kept) \/ ReceiveReady(r, op, kept)

\* drainPending() called by the application.
DrainPending(r) ==
    /\ drain = Idle
    /\ pending[r] # <<>>
    /\ drain' = StartDrain(r, pending[r])
    /\ UNCHANGED <<doc, vc, hlc, seq, lww, tomb, log, pending, ops, applied>>

\* The loop takes the next item: forgets it, applies it or keeps it.
DrainItem ==
    /\ drain # Idle
    /\ drain.todo # <<>>
    /\ LET r  == drain.at
           op == Head(drain.todo)
       IN  \/ /\ seen(vc[r], op)
              /\ drain' = [drain EXCEPT !.todo = Tail(@)]
              /\ UNCHANGED <<doc, lww, tomb, vc, log, hlc, applied>>
           \/ /\ ~seen(vc[r], op)
              /\ ~isCausallyReady(vc[r], op)
              /\ drain' = [drain EXCEPT !.todo = Tail(@), !.rest = Append(@, op)]
              /\ UNCHANGED <<doc, lww, tomb, vc, log, hlc, applied>>
           \/ /\ ~seen(vc[r], op)
              /\ isCausallyReady(vc[r], op)
              /\ IF Throws(r, op)
                 THEN ApplyThrows(r, op) /\ drain' = Idle
                 ELSE /\ ApplyRemote(r, op)
                      /\ drain' = [drain EXCEPT !.todo = Tail(@), !.progressed = TRUE]
    /\ UNCHANGED <<seq, pending, ops>>

\* Fault: one pass is thought to be enough.
DrainOnce ==
    /\ drain # Idle
    /\ drain.todo = <<>>
    /\ pending' = [pending EXCEPT ![drain.at] = drain.rest]
    /\ drain' = Idle
    /\ UNCHANGED <<doc, vc, hlc, seq, lww, tomb, log, ops, applied>>

\* A pass ends: what is left becomes the buffer, and a pass that applied
\* something is followed by another one.
DrainPass ==
    /\ drain # Idle
    /\ drain.todo = <<>>
    /\ pending' = [pending EXCEPT ![drain.at] = drain.rest]
    /\ drain' = IF drain.progressed THEN StartDrain(drain.at, drain.rest) ELSE Idle
    /\ UNCHANGED <<doc, vc, hlc, seq, lww, tomb, log, ops, applied>>

----------------------------------------------------------------------------
(* The gc methods called by the application *)

GcLog(r) ==
    /\ ManualGc /\ drain = Idle
    /\ \E n \in 0 .. Len(log[r]) : log' = [log EXCEPT ![r] = KeepLast(@, n)]
    /\ UNCHANGED <<doc, vc, hlc, seq, lww, tomb, pending, drain, ops, applied>>

CleanPendingBuffer(r) ==
    /\ ManualGc /\ drain = Idle
    /\ \E kept \in Thinnings(pending[r]) : pending' = [pending EXCEPT ![r] = kept]
    /\ UNCHANGED <<doc, vc, hlc, seq, lww, tomb, log, drain, ops, applied>>

GcTombstones(r) ==
    /\ ManualGc /\ drain = Idle
    /\ \E now \in Clock : tomb' = [tomb EXCEPT ![r] = FreshTombs(@, now)]
    /\ UNCHANGED <<doc, vc, hlc, seq, lww, log, pending, drain, ops, applied>>

----------------------------------------------------------------------------
Init ==
    /\ doc = [r \in Replica |-> EmptyDoc]
    /\ vc = [r \in Replica |-> [s \in Replica |-> 0]]
    /\ \E t \in [Replica -> Clock] : hlc = [r \in Replica |-> [t |-> t[r], c |-> 0, r |-> r]]
    /\ seq = [r \in Replica |-> 0]
    /\ lww = [r \in Replica |-> [k \in Key |-> NoHlc]]
    /\ tomb = [r \in Replica |-> [k \in Key |-> NoHlc]]
    /\ log = [r \in Replica |-> <<>>]
    /\ pending = [r \in Replica |-> <<>>]
    /\ drain = Idle
    /\ ops = {}
    /\ applied = [r \in Replica |-> {}]

Local(r) == (\E p \in Path, v \in Value : set(r, p, v)) \/ (\E p \in Path : del(r, p))

Gc(r) == GcLog(r) \/ CleanPendingBuffer(r) \/ GcTombstones(r)

Next ==
    \/ \E r \in Replica : Local(r) \/ DrainPending(r) \/ Gc(r)
    \/ \E r \in Replica, op \in ops : Receive(r, op)
    \/ DrainItem
    \/ DrainPass

Spec == Init /\ [][Next]_vars

----------------------------------------------------------------------------
(* Delta synchronisation: one replica asks another for what it lacks.      *)

\* Faults: one operation too many, one too few.
diffFrom(s, since) == SelectSeq(log[s], LAMBDA op : op.deps[op.src] >= since[op.src])
diffAfterNext(s, since) == SelectSeq(log[s], LAMBDA op : op.deps[op.src] > since[op.src] + 1)

\* log.filter(...): the operations of a list that a vector clock does not cover.  (A
\* function of the position: the provers know nothing of SelectSeq.)
notCovered(l, since) ==
    LET kept[i \in 0 .. Len(l)] ==
          IF i = 0 THEN <<>>
          ELSE IF l[i].deps[l[i].src] > since[l[i].src] THEN Append(kept[i - 1], l[i])
          ELSE kept[i - 1]
    IN  kept[Len(l)]

\* diffSince(since) of replica s.
diffSince(s, since) == notCovered(log[s], since)

\* r receives the first operation it lacks of s.
SyncFrom(r, s) ==
    LET d == diffSince(s, vc[r]) IN d # <<>> /\ Receive(r, Head(d))

\* Every call returns, and any two replicas keep synchronising.
FairSpec ==
    /\ Spec
    /\ WF_vars(DrainItem \/ DrainPass)
    /\ \A r, s \in Replica : SF_vars(SyncFrom(r, s))

----------------------------------------------------------------------------
(* Properties *)

\* n happened before m: the vector clock m was made with covers n.
Precedes(n, m) == n # m /\ n.deps[n.src] <= m.deps[n.src]

\* A deployment whose application writes top-level keys only, each with a key of
\* its own in the maps.
FlatPaths ==
    /\ \A p \in Path : Anc[p] = {}
    /\ \A p, q \in Path : KeyOf[p] = KeyOf[q] => p = q

\* The types of the state.  A vector clock covers no more than each replica made.
TypeOK ==
    /\ doc \in [Replica -> Document]
    /\ vc \in [Replica -> VectorClock]
    /\ hlc \in [Replica -> HlcOf(Replica)]
    /\ seq \in [Replica -> Nat]
    /\ lww \in [Replica -> [Key -> HlcOf(Replica) \cup {NoHlc}]]
    /\ tomb \in [Replica -> [Key -> HlcOf(Replica) \cup {NoHlc}]]
    /\ log \in [Replica -> Seq(Op)]
    /\ pending \in [Replica -> Seq(Op)]
    /\ drain \in {Idle} \cup Draining
    /\ ops \in SUBSET Op
    /\ applied \in [Replica -> SUBSET Op]

\* seen() and the vector clock are the only memory of what was applied: an
\* operation is covered by the clock of a replica exactly when the replica
\* applied it, whatever was lost, repeated, buffered, expired or thrown.
ClockIsApplied ==
    \A r \in Replica : applied[r] = {op \in ops : seen(vc[r], op)}

\* The stamp of an operation is later than the stamp of everything that happened
\* before it, and no two operations have the same stamp, although wall clocks
\* differ and go back ("Permet un ordre total stable pour LWW").
HlcOrder ==
    \A n, m \in ops : /\ Precedes(n, m) => Later(m.hlc, n.hlc)
                      /\ n # m => n.hlc # m.hlc

\* "unique op id (stable)": two operations never have the same id.
UniqueIds == \A n, m \in ops : n # m => makeOpId(n) # makeOpId(m)

\* drainPending leaves nothing behind: between two calls no buffered operation
\* could be applied, and none was applied already.
BufferSettled ==
    drain = Idle =>
        \A r \in Replica : \A i \in DOMAIN pending[r] :
            ~isCausallyReady(vc[r], pending[r][i]) /\ ~seen(vc[r], pending[r][i])

\* "LWW per-path": the document holds the latest of the operations of a path
\* that the replica applied (the value of a deletion is Absent).
LastWriterWins ==
    \A r \in Replica : \A m \in applied[r] :
        (\A n \in applied[r] : n.path = m.path /\ n # m => Later(m.hlc, n.hlc))
            => doc[r][m.path] = m.value

\* Replicas that applied the same operations have the same document, in
\* whatever order the operations came.
Convergence ==
    \A r, s \in Replica : applied[r] = applied[s] => doc[r] = doc[s]

\* Among sets and deletions, an operation that every other applied operation of
\* its path happened before decides what the path holds.
CausallyLastDecides ==
    \A r \in Replica : \A m \in applied[r] :
        (\A n \in applied[r] : n.path = m.path /\ n # m => Precedes(n, m))
            => doc[r][m.path] = m.value

\* "Les tombstones empechent les anciennes operations SET de ressusciter": what
\* is absent reappears only by an operation later than every deletion of it.
NoResurrection ==
    [][\A r \in Replica, p \in Path :
         doc[r][p] = Absent /\ doc'[r][p] # Absent =>
           \E m \in applied'[r] \ applied[r] : \A n \in applied[r] :
             n.kind = "tombstone" /\ n.path = p => Later(m.hlc, n.hlc)]_vars

\* "Return ops not included in 'since' clock": diffSince gives a replica exactly
\* what the other applied and it did not, with the next one to apply in front.
DiffIsComplete ==
    \A r, s \in Replica :
      LET d == diffSince(s, vc[r])
      IN  /\ {d[i] : i \in DOMAIN d} = applied[s] \ applied[r]
          /\ d # <<>> => isCausallyReady(vc[r], Head(d))

\* Replicas that keep synchronising come to apply every operation ever made.
EventualDelivery ==
    \A r, s \in Replica : \A i \in 1 .. MaxOps[s] :
      (\E op \in ops : op.src = s /\ op.deps[s] = i)
        ~> (\E op \in applied[r] : op.src = s /\ op.deps[s] = i)

\* JSONCrdt implements causal broadcast: a message is an operation, known by its
\* source and by its number in the source's component of its vector clock.
Dot(op) == <<op.src, op.deps[op.src]>>

Causal == INSTANCE CausalBroadcast WITH
    Node <- Replica,
    Message <- UNION {{r} \X (1 .. MaxOps[r]) : r \in Replica},
    issued <- {Dot(op) : op \in ops},
    precedes <- {<<Dot(e[1]), Dot(e[2])>> : e \in {x \in ops \X ops : Precedes(x[1], x[2])}},
    delivered <- [r \in Replica |-> {Dot(op) : op \in applied[r]}]

ImplementsCausal == Causal!Spec

----------------------------------------------------------------------------
(* What makes the properties above inductive *)

\* a is earlier than b by time or counter, whatever the replicas.
Before(a, b) == a.t < b.t \/ (a.t = b.t /\ a.c < b.c)

\* What is buffered was made by a replica.
BufferedExist ==
    /\ pending \in [Replica -> Seq(ops)]
    /\ drain # Idle => drain.todo \in Seq(ops) /\ drain.rest \in Seq(ops)

\* No clock and no operation is ahead of the replica that counts, and a replica
\* numbers its operations from one without repetition.
ClockBounds ==
    /\ \A r, s \in Replica : vc[r][s] <= vc[s][s]
    /\ \A op \in ops, s \in Replica : op.deps[s] <= vc[s][s]
    /\ \A op \in ops : op.deps[op.src] >= 1
    /\ \A n, m \in ops : n.src = m.src /\ n.deps[n.src] = m.deps[m.src] => n = m

\* A replica applied what its operations depend on.
AppliedPast ==
    \A r \in Replica : \A op \in applied[r] : \A s \in Replica : op.deps[s] <= vc[r][s]

\* A replica's clock is past every operation it applied, so stamps grow along
\* the happened-before order.
Stamps ==
    /\ \A op \in ops : op.hlc.r = op.src
    /\ \A r \in Replica : \A op \in applied[r] : Before(op.hlc, hlc[r])
    /\ \A n, m \in ops : Precedes(n, m) => Before(n.hlc, m.hlc)

CausalInv ==
    TypeOK /\ BufferedExist /\ ClockBounds /\ ClockIsApplied /\ AppliedPast /\ Stamps

\* The operations replica r can neither apply nor forget yet.
Waiting(r) == {op \in ops : ~isCausallyReady(vc[r], op) /\ ~seen(vc[r], op)}

\* A buffer holds what waits, except the one that is being drained; there, what a
\* pass put aside waits unless the pass applied something since.
DrainInv ==
    /\ \A r \in Replica :
         drain = Idle \/ (drain # Idle /\ drain.at # r) => pending[r] \in Seq(Waiting(r))
    /\ drain # Idle => (~drain.progressed => drain.rest \in Seq(Waiting(drain.at)))

\* While nothing is collected, the log is what the replica applied, in an order it
\* could be applied in.
LogInOrder ==
    \A r \in Replica :
      /\ {log[r][i] : i \in DOMAIN log[r]} = applied[r]
      /\ \A i, j \in DOMAIN log[r] : i < j => ~Precedes(log[r][j], log[r][i])

\* While no set throws, the numbers of a replica have no gap.
NoGaps ==
    \A s \in Replica : \A i \in 1 .. vc[s][s] : \E op \in ops : op.src = s /\ op.deps[s] = i

\* Without nested paths, a map entry is the stamp of an applied operation of its
\* kind and key, and a deletion carries no value.
MapsFromApplied ==
    /\ \A op \in ops : op.kind = "tombstone" => op.value = Absent
    /\ \A r \in Replica, k \in Key :
         /\ lww[r][k] # NoHlc =>
              \E op \in applied[r] : op.kind = "set" /\ KeyOf[op.path] = k /\ op.hlc = lww[r][k]
         /\ tomb[r][k] # NoHlc =>
              \E op \in applied[r] : op.kind = "tombstone" /\ KeyOf[op.path] = k /\ op.hlc = tomb[r][k]

\* When the application never deletes, the lww entry of a path is the latest
\* stamp applied and the document holds that operation's value.
SetsOnly ==
    /\ \A op \in ops : op.kind = "set"
    /\ \A r \in Replica, k \in Key : tomb[r][k] = NoHlc
    /\ \A r \in Replica : \A op \in applied[r] :
         /\ lww[r][KeyOf[op.path]] # NoHlc
         /\ ~Later(op.hlc, lww[r][KeyOf[op.path]])
         /\ op.hlc = lww[r][KeyOf[op.path]] => doc[r][op.path] = op.value
    /\ \A r \in Replica, p \in Path : lww[r][KeyOf[p]] = NoHlc => doc[r][p] = Absent
=============================================================================

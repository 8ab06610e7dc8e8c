-------------------------------- MODULE Hlc --------------------------------
(***************************************************************************)
(* The hybrid logical clock of packages/core/src/json-crdt.ts.             *)
(* A reading is a record [t, c, r]: wall time, logical counter, replica.   *)
(* Replica identifiers are numbers here: the code only compares them as    *)
(* strings to break ties, and numbers carry that order.                    *)
(***************************************************************************)
EXTENDS Integers

HlcOf(Replica) == [t : Nat, c : Nat, r : Replica]

\* Fault: the replica does not break the tie.
LaterWithoutTie(a, b) == a.t > b.t \/ (a.t = b.t /\ a.c > b.c)

\* compareHlc(a, b) > 0: the lexicographic order on (t, c, r).
Later(a, b) ==
    \/ a.t > b.t
    \/ a.t = b.t /\ a.c > b.c
    \/ a.t = b.t /\ a.c = b.c /\ a.r > b.r

\* The clock of replica r after it read wall time `now` for a local operation.
Tick(h, now, r) ==
    IF now > h.t THEN [t |-> now, c |-> 0, r |-> r]
                 ELSE [t |-> h.t, c |-> h.c + 1, r |-> r]

\* Fault: the stamp received is ignored.
MergeNothing(h, g, r) == [h EXCEPT !.c = @ + 1]

\* The clock of replica r after it applied an operation stamped g.
Merge(h, g, r) ==
    [t |-> IF h.t >= g.t THEN h.t ELSE g.t,
     c |-> IF h.t = g.t THEN (IF h.c >= g.c THEN h.c ELSE g.c) + 1
           ELSE IF h.t > g.t THEN h.c + 1 ELSE g.c + 1,
     r |-> r]
=============================================================================

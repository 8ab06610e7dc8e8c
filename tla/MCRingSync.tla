----------------------------- MODULE MCRingSync -----------------------------
(* Instances of RingSync: a node joins a ring of two or of one, or two nodes join *)
(* at once. *)
EXTENDS RingSync, TLC

CONSTANTS a, b, c

JoinRing == [founders |-> {a, b}, joiners |-> {c}]
JoinTogether == [founders |-> {}, joiners |-> {a, b}]
OneJoins == {JoinRing}

\* The same with c as one of two.
WithNewcomer(n) == [founders |-> {}, joiners |-> {n, c}]
JoinNewcomer(n) == [founders |-> {c}, joiners |-> {n}]
AllCasts ==
    {JoinRing, JoinTogether} \cup {WithNewcomer(n) : n \in {a, b}} \cup {JoinNewcomer(n) : n \in {a, b}}

\* a and b play the same part.
Alike == Permutations({a, b})
=============================================================================

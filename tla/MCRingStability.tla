-------------------------- MODULE MCRingStability --------------------------
(* Three nodes, the first of which may have two entries; two hash alike.   *)
EXTENDS RingStability

CONSTANTS n1, n2, n3

Entries == {<<n1, 1>>, <<n1, 2>>, <<n2, 1>>, <<n3, 1>>}
IdOfDef == [e \in Entries |-> e[1]]
TokenDef == [i \in {n1, n2, n3} |-> IF i = n2 THEN 3 ELSE 1]
PlaceDef == [e \in Entries |-> IF e[1] = n3 THEN 2 ELSE IF e[1] = n2 THEN 0 ELSE IF e[2] = 1 THEN 1 ELSE 3]
=============================================================================

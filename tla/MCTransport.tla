---------------------------- MODULE MCTransport ----------------------------
(* Two nodes, the first of which sends three times.                        *)
EXTENDS Transport

CONSTANTS a, b
BudgetDef == [n \in {a, b} |-> IF n = a THEN 3 ELSE 1]
=============================================================================

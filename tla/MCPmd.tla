------------------------------- MODULE MCPmd -------------------------------
(***************************************************************************)
(* Small instances of Pmd for TLC.                                         *)
(***************************************************************************)
EXTENDS Pmd, TLC

CONSTANTS c1, c2, c3, n1, n2, a1, a2, p1, p2, p3

\* Node n1 runs with alias a1, then with alias a2; n2 wants alias a1.
NodeOfDef == (p1 :> n1) @@ (p2 :> n1) @@ (p3 :> n2)
AliasOfDef == (p1 :> a1) @@ (p2 :> a2) @@ (p3 :> a1)
=============================================================================

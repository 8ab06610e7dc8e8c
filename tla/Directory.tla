----------------------------- MODULE Directory -----------------------------
(***************************************************************************)
(* What the port mapper promises the nodes: a directory from node          *)
(* identifiers to what the node's process announced, in which no two nodes *)
(* have the same alias.                                                    *)
(***************************************************************************)
CONSTANTS Node, Proc, NodeOf, AliasOf, NoAlias, None

VARIABLE dir     \* dir[n]: the process that announced node n, or None

Init == dir = [n \in Node |-> None]

\* Process p announces its node, for the first time or again.
Join(p) ==
    /\ \A m \in Node \ {NodeOf[p]} :
         dir[m] # None /\ AliasOf[p] # NoAlias => AliasOf[dir[m]] # AliasOf[p]
    /\ dir' = [dir EXCEPT ![NodeOf[p]] = p]

Leave(n) ==
    /\ dir[n] # None
    /\ dir' = [dir EXCEPT ![n] = None]

Next == (\E p \in Proc : Join(p)) \/ (\E n \in Node : Leave(n))

Spec == Init /\ [][Next]_dir
=============================================================================

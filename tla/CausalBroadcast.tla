-------------------------- MODULE CausalBroadcast --------------------------
(***************************************************************************)
(* What "causal delivery using vector clock" (the class comment of         *)
(* JSONCrdt) promises: a message reaches a node at most once, and only     *)
(* after every message its issuer had delivered when it issued it.         *)
(***************************************************************************)
CONSTANTS Node, Message

VARIABLES issued,      \* the messages broadcast so far
          precedes,    \* <<m, n>>: m was delivered at n's issuer before n
          delivered    \* delivered[p]: the messages delivered at node p

cbVars == <<issued, precedes, delivered>>

Init ==
    /\ issued = {}
    /\ precedes = {}
    /\ delivered = [p \in Node |-> {}]

\* Node p broadcasts m, and delivers it to itself.
Issue(p, m) ==
    /\ m \notin issued
    /\ issued' = issued \cup {m}
    /\ precedes' = precedes \cup (delivered[p] \X {m})
    /\ delivered' = [delivered EXCEPT ![p] = @ \cup {m}]

Deliver(p, m) ==
    /\ m \notin delivered[p]
    /\ \A n \in issued : <<n, m>> \in precedes => n \in delivered[p]
    /\ delivered' = [delivered EXCEPT ![p] = @ \cup {m}]
    /\ UNCHANGED <<issued, precedes>>

Next ==
    \E p \in Node : \/ \E m \in Message : Issue(p, m)
                    \/ \E m \in issued : Deliver(p, m)

Spec == Init /\ [][Next]_cbVars
=============================================================================

---------------------------- MODULE RingRouting ----------------------------
(***************************************************************************)
(* The consistent-hash lookups of RingNode (packages/core/src/ring-node.ts) *)
(* over the members its replica of the ring holds.                         *)
(*                                                                         *)
(* A member is an entry of the Yjs array.  Nothing keeps a node from having *)
(* two entries.  The array is sorted by token; the sort is stable, so that *)
(* entries with equal tokens keep the order they have in the array, which  *)
(* is the same at every node that has both.                                *)
(***************************************************************************)
EXTENDS Naturals

CONSTANTS Id,       \* node identifiers
          Entry,    \* entries of the ring
          IdOf,     \* IdOf[e]: the nodeId of entry e
          Token,    \* Token[i]: consistentHash(i)
          Place,    \* Place[e]: where e stands in the array
          Space,    \* the hashes are the naturals below Space
          NoEntry

ASSUME EntryAssumption ==
    /\ IdOf \in [Entry -> Id]
    /\ Place \in [Entry -> Nat]
    /\ Entry # {} => \E last \in Entry : \A e \in Entry : Place[e] <= Place[last]
    /\ \A e, f \in Entry : Place[e] = Place[f] => e = f
    /\ NoEntry \notin Entry
ASSUME HashAssumption ==
    /\ Space \in Nat
    /\ Token \in [Id -> Nat]
    /\ \A i \in Id : Token[i] < Space

----------------------------------------------------------------------------
TokenOf(e) == Token[IdOf[e]]

\* getSortedMembers puts e in front of f.
Before(e, f) ==
    \/ TokenOf(e) < TokenOf(f)
    \/ TokenOf(e) = TokenOf(f) /\ Place[e] < Place[f]

\* The first and the last element of what getSortedMembers returns for S.
First(S) == CHOOSE e \in S : \A f \in S : f = e \/ Before(e, f)
Last(S)  == CHOOSE e \in S : \A f \in S : f = e \/ Before(f, e)

\* Fault: keys past the last token go to the last member.
SuccessorNoWrap(S, h) ==
    LET after == {e \in S : TokenOf(e) >= h} IN IF after # {} THEN First(after) ELSE Last(S)

\* The member responsible for a key that hashes to h; S is not empty.
findSuccessor(S, h) ==
    LET after == {e \in S : TokenOf(e) >= h} IN First(IF after # {} THEN after ELSE S)

NextOf(S, e) ==
    LET after == {f \in S : Before(e, f)} IN First(IF after # {} THEN after ELSE S)

\* Fault: no wrap-around for the first member.
PrevNoWrap(S, e) ==
    LET before == {f \in S : Before(f, e)} IN IF before # {} THEN Last(before) ELSE e

PrevOf(S, e) ==
    LET before == {f \in S : Before(f, e)} IN Last(IF before # {} THEN before ELSE S)

EntriesOf(S, i) == {e \in S : IdOf[e] = i}

\* getNeighbors at node i: the neighbours of its first entry, unless they are
\* entries of its own.
getNeighbors(S, i) ==
    LET Other(e) == IF IdOf[e] # i THEN e ELSE NoEntry
    IN  IF EntriesOf(S, i) = {}
        THEN [predecessor |-> NoEntry, successor |-> NoEntry]
        ELSE LET e == First(EntriesOf(S, i))
             IN  [predecessor |-> Other(PrevOf(S, e)), successor |-> Other(NextOf(S, e))]

----------------------------------------------------------------------------
(* What the lookups are for.                                               *)

\* How far a key that hashes to h is from entry e, going up and around.
Distance(h, e) ==
    IF TokenOf(e) >= h THEN TokenOf(e) - h ELSE TokenOf(e) + Space - h

OneEntryEach(S) == \A e, f \in S : IdOf[e] = IdOf[f] => e = f
=============================================================================

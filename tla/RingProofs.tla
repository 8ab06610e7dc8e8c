----------------------------- MODULE RingProofs -----------------------------
(***************************************************************************)
(* What RingRouting's lookups return on any ring, and when RingStability   *)
(* routes, proved for every set of nodes and entries, every hash and every *)
(* quorum.  The lookups take the first or the last of a set of entries;    *)
(* that these exist, and are unique, is all that the rest needs of them.   *)
(***************************************************************************)
EXTENDS RingStability, TLAPS, WellFoundedInduction, FiniteSetTheorems

\* A set of naturals that is not empty has a least element.
LEMMA LeastNat ==
    ASSUME NEW T \in SUBSET Nat, T # {}
    PROVE  \E x \in T : \A y \in T : x <= y
<1>1. PICK x \in T : \A y \in T : <<y, x>> \notin OpToRel(<, Nat)
  BY WFMin, NatLessThanWellFounded, Zenon
<1>2. \A y \in T : ~(y < x)
  BY <1>1, Zenon DEF OpToRel
<1> QED
  BY <1>2

\* A bounded one has a greatest.
LEMMA GreatestNat ==
    ASSUME NEW T \in SUBSET Nat, T # {}, NEW top \in Nat, \A y \in T : y <= top
    PROVE  \E x \in T : \A y \in T : y <= x
<1> DEFINE U == {top - y : y \in T}
<1>1. U \in SUBSET Nat /\ U # {}
  <2>1. \A y \in T : top - y \in Nat
    OBVIOUS
  <2>2. U \subseteq Nat
    BY <2>1
  <2>3. U # {}
    <3>1. PICK y \in T : TRUE
      OBVIOUS
    <3>2. top - y \in U
      OBVIOUS
    <3> QED
      BY <3>2
  <2> QED
    BY <2>2, <2>3
<1>2. PICK u \in U : \A w \in U : u <= w
  BY <1>1, LeastNat
<1>3. PICK x \in T : u = top - x
  OBVIOUS
<1>4. \A y \in T : top - x <= top - y
  BY <1>2, <1>3
<1> QED
  BY <1>3, <1>4

\* Before is a strict order in which any two entries are comparable.
LEMMA TokenType == \A e \in Entry : TokenOf(e) \in Nat /\ TokenOf(e) < Space /\ Place[e] \in Nat
BY EntryAssumption, HashAssumption DEF TokenOf

LEMMA BeforeTotal ==
    /\ \A e \in Entry : ~Before(e, e)
    /\ \A e, f \in Entry : e = f \/ Before(e, f) \/ Before(f, e)
    /\ \A e, f \in Entry : ~(Before(e, f) /\ Before(f, e))
    /\ \A e, f, g \in Entry : Before(e, f) /\ Before(f, g) => Before(e, g)
BY TokenType, EntryAssumption DEF Before

\* Every set of entries that is not empty has one that is in front of all others,
\* and First finds it.
LEMMA FirstIsFirst ==
    ASSUME NEW S \in SUBSET Entry, S # {}
    PROVE  /\ First(S) \in S
           /\ \A f \in S : f = First(S) \/ Before(First(S), f)
<1> DEFINE Tokens == {TokenOf(e) : e \in S}
<1>1. PICK t \in Tokens : \A u \in Tokens : t <= u
  <2>1. Tokens \in SUBSET Nat /\ Tokens # {}
    BY TokenType
  <2> QED
    BY <2>1, LeastNat
<1> DEFINE Least == {e \in S : TokenOf(e) = t}
           Places == {Place[e] : e \in Least}
<1>2. PICK p \in Places : \A q \in Places : p <= q
  <2>1. Places \in SUBSET Nat /\ Places # {}
    BY TokenType
  <2> QED
    BY <2>1, LeastNat
<1>3. PICK e \in Least : Place[e] = p
  OBVIOUS
<1>4. \A f \in S : f = e \/ Before(e, f)
  <2> SUFFICES ASSUME NEW f \in S PROVE f = e \/ Before(e, f)
    OBVIOUS
  <2>1. CASE TokenOf(f) = t
    <3>1. Place[e] <= Place[f]
      BY <2>1, <1>2, <1>3
    <3>2. Place[e] = Place[f] => e = f
      BY EntryAssumption
    <3>3. TokenOf(e) = t /\ Place[e] \in Nat /\ Place[f] \in Nat
      BY TokenType
    <3>4. e = f \/ Place[e] # Place[f]
      BY <3>2
    <3> HIDE DEF Tokens, Least, Places
    <3> QED
      BY <3>1, <3>3, <3>4, <2>1 DEF Before
  <2>2. CASE TokenOf(f) # t
    <3>1. TokenOf(f) \in Tokens
      OBVIOUS
    <3>2. t <= TokenOf(f)
      BY <3>1, <1>1
    <3>3. TokenOf(e) = t /\ t \in Nat /\ TokenOf(f) \in Nat
      BY TokenType
    <3> QED
      BY <3>2, <3>3, <2>2 DEF Before
  <2> QED
    BY <2>1, <2>2
<1>5. e \in S
  OBVIOUS
<1> QED
  BY <1>4, <1>5 DEF First

\* The same for the last one.
LEMMA LastIsLast ==
    ASSUME NEW S \in SUBSET Entry, S # {}
    PROVE  /\ Last(S) \in S
           /\ \A f \in S : f = Last(S) \/ Before(f, Last(S))
<1> DEFINE Tokens == {TokenOf(e) : e \in S}
<1>1. PICK t \in Tokens : \A u \in Tokens : u <= t
  <2>1. Tokens \in SUBSET Nat /\ Tokens # {} /\ \A u \in Tokens : u <= Space
    BY TokenType, HashAssumption
  <2>2. Space \in Nat
    BY HashAssumption
  <2> HIDE DEF Tokens
  <2> QED
    BY <2>1, <2>2, GreatestNat
<1> DEFINE Greatest == {e \in S : TokenOf(e) = t}
           Places == {Place[e] : e \in Greatest}
<1>2. PICK p \in Places : \A q \in Places : q <= p
  <2>1. PICK top \in Nat : \A e \in Entry : Place[e] <= top
    <3>1. PICK last \in Entry : \A e \in Entry : Place[e] <= Place[last]
      BY EntryAssumption
    <3> QED
      BY <3>1, TokenType
  <2>2. Places \in SUBSET Nat /\ Places # {} /\ \A u \in Places : u <= top
    BY <2>1, TokenType
  <2> HIDE DEF Places
  <2> QED
    BY <2>2, GreatestNat
<1>3. PICK e \in Greatest : Place[e] = p
  OBVIOUS
<1>4. \A f \in S : f = e \/ Before(f, e)
  <2> SUFFICES ASSUME NEW f \in S PROVE f = e \/ Before(f, e)
    OBVIOUS
  <2>1. CASE TokenOf(f) = t
    <3>1. Place[f] <= Place[e]
      BY <2>1, <1>2, <1>3
    <3>2. Place[e] = Place[f] => e = f
      BY EntryAssumption
    <3>3. TokenOf(e) = t /\ Place[e] \in Nat /\ Place[f] \in Nat
      BY TokenType
    <3>4. e = f \/ Place[e] # Place[f]
      BY <3>2
    <3> HIDE DEF Tokens, Greatest, Places
    <3> QED
      BY <3>1, <3>3, <3>4, <2>1 DEF Before
  <2>2. CASE TokenOf(f) # t
    <3>1. TokenOf(f) \in Tokens
      OBVIOUS
    <3>2. TokenOf(f) <= t
      BY <3>1, <1>1
    <3>3. TokenOf(e) = t /\ t \in Nat /\ TokenOf(f) \in Nat
      BY TokenType
    <3> QED
      BY <3>2, <3>3, <2>2 DEF Before
  <2> QED
    BY <2>1, <2>2
<1>5. e \in S
  OBVIOUS
<1> QED
  BY <1>4, <1>5 DEF Last

\* Nothing else is first, and nothing else is last.
LEMMA FirstUnique ==
    ASSUME NEW S \in SUBSET Entry, NEW e \in S, \A f \in S : f = e \/ Before(e, f)
    PROVE  First(S) = e
BY FirstIsFirst, BeforeTotal

LEMMA LastUnique ==
    ASSUME NEW S \in SUBSET Entry, NEW e \in S, \A f \in S : f = e \/ Before(f, e)
    PROVE  Last(S) = e
BY LastIsLast, BeforeTotal

----------------------------------------------------------------------------
(* findSuccessor.                                                          *)

AtOrAfter(S, h) == {e \in S : TokenOf(e) >= h}

\* The successor of a key is the member nearest to it, going up and around.
LEMMA SuccessorIsNearest ==
    ASSUME NEW S \in SUBSET Entry, S # {}, NEW h \in 0..(Space - 1)
    PROVE  /\ findSuccessor(S, h) \in S
           /\ \A e \in S : Distance(h, findSuccessor(S, h)) <= Distance(h, e)
<1> DEFINE after == AtOrAfter(S, h)
           owner == findSuccessor(S, h)
<1>1. h \in Nat /\ h < Space /\ Space \in Nat
  BY HashAssumption
<1>2. CASE after # {}
  <2>1. owner = First(after)
    BY <1>2 DEF findSuccessor, AtOrAfter
  <2>2. owner \in after /\ \A f \in after : f = owner \/ Before(owner, f)
    BY <2>1, <1>2, FirstIsFirst DEF AtOrAfter
  <2>3. owner \in S /\ TokenOf(owner) >= h
    BY <2>2 DEF AtOrAfter
  <2> SUFFICES ASSUME NEW e \in S PROVE Distance(h, owner) <= Distance(h, e)
    BY <2>3
  <2>4. /\ TokenOf(owner) \in Nat /\ TokenOf(owner) < Space
        /\ TokenOf(e) \in Nat /\ TokenOf(e) < Space
    BY <2>3, TokenType
  <2>5. CASE TokenOf(e) >= h
    <3>1. e = owner \/ Before(owner, e)
      BY <2>2, <2>5 DEF AtOrAfter
    <3>2. TokenOf(owner) <= TokenOf(e)
      BY <3>1, <2>4 DEF Before
    <3> HIDE DEF owner
    <3> QED
      BY <3>2, <2>3, <2>4, <2>5, <1>1 DEF Distance
  <2>6. CASE ~(TokenOf(e) >= h)
    <3> HIDE DEF owner
    <3> QED
      BY <2>3, <2>4, <2>6, <1>1 DEF Distance
  <2> QED
    BY <2>5, <2>6
<1>3. CASE after = {}
  <2>1. owner = First(S)
    BY <1>3 DEF findSuccessor, AtOrAfter
  <2>2. owner \in S /\ \A f \in S : f = owner \/ Before(owner, f)
    BY <2>1, FirstIsFirst
  <2>3. \A e \in S : ~(TokenOf(e) >= h)
    BY <1>3 DEF AtOrAfter
  <2> SUFFICES ASSUME NEW e \in S PROVE Distance(h, owner) <= Distance(h, e)
    BY <2>2
  <2>4. TokenOf(owner) \in Nat /\ TokenOf(e) \in Nat
    BY <2>2, TokenType
  <2>5. TokenOf(owner) <= TokenOf(e)
    BY <2>2, <2>4 DEF Before
  <2> HIDE DEF owner
  <2> QED
    BY <2>2, <2>3, <2>4, <2>5, <1>1 DEF Distance
<1> QED
  BY <1>2, <1>3

\* When a member goes, a key that was another's stays with that other.
LEMMA OthersKeepTheirKeys ==
    ASSUME NEW S \in SUBSET Entry, NEW h \in 0..(Space - 1), NEW e \in S \ {findSuccessor(S, h)}
    PROVE  findSuccessor(S \ {e}, h) = findSuccessor(S, h)
<1> DEFINE after == AtOrAfter(S, h)
           left == AtOrAfter(S \ {e}, h)
           owner == findSuccessor(S, h)
<1>1. left = after \ {e}
  BY DEF AtOrAfter
<1>2. CASE after # {}
  <2>1. owner = First(after)
    BY <1>2 DEF findSuccessor, AtOrAfter
  <2>2. owner \in after /\ \A f \in after : f = owner \/ Before(owner, f)
    BY <2>1, <1>2, FirstIsFirst DEF AtOrAfter
  <2>3. owner \in left /\ \A f \in left : f = owner \/ Before(owner, f)
    BY <2>2, <1>1
  <2>4. First(left) = owner
    <3>1. left \in SUBSET Entry
      BY DEF AtOrAfter
    <3> HIDE DEF left, owner
    <3> QED
      BY <3>1, <2>3, FirstUnique
  <2>5. findSuccessor(S \ {e}, h) = First(left)
    BY <2>3 DEF findSuccessor, AtOrAfter
  <2> QED
    BY <2>4, <2>5
<1>3. CASE after = {}
  <2>1. owner = First(S)
    BY <1>3 DEF findSuccessor, AtOrAfter
  <2>2. owner \in S /\ \A f \in S : f = owner \/ Before(owner, f)
    BY <2>1, FirstIsFirst
  <2>3. owner \in S \ {e} /\ \A f \in S \ {e} : f = owner \/ Before(owner, f)
    BY <2>2
  <2>4. First(S \ {e}) = owner
    <3> HIDE DEF owner
    <3> QED
      BY <2>3, FirstUnique
  <2>5. findSuccessor(S \ {e}, h) = First(S \ {e})
    BY <1>1, <1>3 DEF findSuccessor, AtOrAfter
  <2> QED
    BY <2>4, <2>5
<1> QED
  BY <1>2, <1>3

----------------------------------------------------------------------------
(* getNeighbors.                                                           *)

\* The entry in front of the one behind e is e, on any ring.
LEMMA PrevOfNext ==
    ASSUME NEW S \in SUBSET Entry, NEW e \in S
    PROVE  NextOf(S, e) \in S /\ PrevOf(S, NextOf(S, e)) = e
<1> DEFINE behind == {f \in S : Before(e, f)}
           next == NextOf(S, e)
           front == {f \in S : Before(f, next)}
<1>1. CASE behind # {}
  <2>1. next \in behind /\ \A f \in behind : f = next \/ Before(next, f)
    <3>1. next = First(behind)
      BY <1>1 DEF NextOf
    <3> QED
      BY <3>1, <1>1, FirstIsFirst
  <2>2. e \in front
    BY <2>1
  <2>3. \A f \in front : f = e \/ Before(f, e)
    BY <2>1, BeforeTotal
  <2>4. Last(front) = e
    <3> HIDE DEF next
    <3> QED
      BY <2>2, <2>3, LastUnique
  <2>5. PrevOf(S, next) = Last(front)
    BY <2>2 DEF PrevOf
  <2> QED
    BY <2>1, <2>4, <2>5
<1>2. CASE behind = {}
  <2>1. next \in S /\ \A f \in S : f = next \/ Before(next, f)
    <3>1. next = First(S)
      BY <1>2 DEF NextOf
    <3> QED
      BY <3>1, FirstIsFirst
  <2>2. front = {}
    BY <2>1, BeforeTotal
  <2>3. \A f \in S : f = e \/ Before(f, e)
    BY <1>2, BeforeTotal
  <2>4. Last(S) = e
    BY <2>3, LastUnique
  <2>5. PrevOf(S, next) = Last(S)
    BY <2>2 DEF PrevOf
  <2> QED
    BY <2>1, <2>4, <2>5
<1> QED
  BY <1>1, <1>2

\* An entry that is its own neighbour is the only one.
LEMMA AloneNext ==
    ASSUME NEW S \in SUBSET Entry, NEW e \in S, NextOf(S, e) = e
    PROVE  S = {e}
<1> DEFINE behind == {f \in S : Before(e, f)}
<1>1. behind = {}
  <2> SUFFICES ASSUME behind # {} PROVE FALSE
    OBVIOUS
  <2>1. First(behind) = e
    BY DEF NextOf
  <2>2. e \in behind
    BY <2>1, FirstIsFirst
  <2> QED
    BY <2>2, BeforeTotal
<1>2. First(S) = e
  BY <1>1 DEF NextOf
<1>3. \A f \in S : f = e \/ Before(e, f)
  BY <1>2, FirstIsFirst
<1> QED
  BY <1>1, <1>3

\* The neighbours that a node without a second entry is told.
LEMMA NeighborsOf ==
    ASSUME NEW S \in SUBSET Entry, OneEntryEach(S), NEW e \in S
    PROVE  /\ getNeighbors(S, IdOf[e]).predecessor =
                IF IdOf[PrevOf(S, e)] # IdOf[e] THEN PrevOf(S, e) ELSE NoEntry
           /\ getNeighbors(S, IdOf[e]).successor =
                IF IdOf[NextOf(S, e)] # IdOf[e] THEN NextOf(S, e) ELSE NoEntry
<1>1. EntriesOf(S, IdOf[e]) = {e}
  BY DEF EntriesOf, OneEntryEach
<1>2. First({e}) = e
  BY FirstUnique
<1> QED
  BY <1>1, <1>2 DEF getNeighbors

LEMMA NeighborsLemma ==
    ASSUME NEW S \in SUBSET Entry, OneEntryEach(S), NEW e \in S
    PROVE  LET next == getNeighbors(S, IdOf[e]).successor
           IN  IF next = NoEntry THEN S = {e}
               ELSE next \in S /\ getNeighbors(S, IdOf[next]).predecessor = e
<1> DEFINE next == NextOf(S, e)
<1>1. next \in S /\ PrevOf(S, next) = e
  BY PrevOfNext
<1>2. next # NoEntry
  BY <1>1, EntryAssumption
<1>3. CASE IdOf[next] = IdOf[e]
  <2>1. next = e
    BY <1>1, <1>3 DEF OneEntryEach
  <2>2. S = {e}
    BY <2>1, AloneNext
  <2>3. getNeighbors(S, IdOf[e]).successor = NoEntry
    BY <1>3, NeighborsOf
  <2> QED
    BY <2>2, <2>3
<1>4. CASE IdOf[next] # IdOf[e]
  <2>1. getNeighbors(S, IdOf[e]).successor = next
    BY <1>4, NeighborsOf
  <2>2. getNeighbors(S, IdOf[next]).predecessor = e
    <3> HIDE DEF next
    <3> QED
      BY <1>1, <1>4, NeighborsOf
  <2> QED
    BY <1>1, <1>2, <2>1, <2>2
<1> QED
  BY <1>3, <1>4

----------------------------------------------------------------------------
(* The state machine.                                                      *)

LEMMA RemovedType ==
    ASSUME NEW i \in Id, NEW S \in SUBSET Entry, NEW T \in removeNodeFromRing(i, S)
    PROVE  T \in SUBSET Entry
BY DEF removeNodeFromRing, EntriesOf

\* When a node may route, and what it then finds: a ring, and a quorum.
Permitted == ringState = "STABLE" => phase = "joined" /\ quiet
Answerable == members # {} /\ Cardinality(Present) >= quorumSize

RingInv == TypeOK /\ Permitted

LEMMA RingInvInit == Init => RingInv /\ RoutesOnlyWhenSettled
BY DEF Init, RingInv, TypeOK, Permitted, RoutesOnlyWhenSettled

LEMMA RingInvStep == RingInv /\ [Next]_vars => RingInv'
<1> SUFFICES ASSUME TypeOK, Permitted, [Next]_vars
             PROVE  TypeOK' /\ Permitted'
  BY DEF RingInv
<1> USE SelfAssumption DEF TypeOK, Permitted
<1>1. CASE joinRing
  BY <1>1 DEF joinRing
<1>2. CASE Heartbeat
  BY <1>2 DEF Heartbeat
<1>3. ASSUME NEW i \in Peer, RemoteOnline(i) \/ RemoteOffline(i)
      PROVE  TypeOK' /\ Permitted'
  BY <1>3 DEF RemoteOnline, RemoteOffline, TopologyChange, Peer, Hooked
<1>4. ASSUME NEW S \in SUBSET Entry, RemoteUpdate(S)
      PROVE  TypeOK' /\ Permitted'
  BY <1>4 DEF RemoteUpdate, TopologyChange, Hooked
<1>5. CASE cleanupOfflineNodes
  <2>1. members' \subseteq Entry
    BY <1>5 DEF cleanupOfflineNodes
  <2>2. states' \in [Id -> {"none", "fresh", "expired"}]
    BY <1>5 DEF cleanupOfflineNodes
  <2> QED
    BY <1>5, <2>1, <2>2 DEF cleanupOfflineNodes, TopologyChange, Running
<1>6. CASE Leave
  <2>1. members' \subseteq Entry
    BY <1>6, RemovedType DEF Leave, leaveRing
  <2> QED
    BY <1>6, <2>1 DEF Leave, leaveRing, TopologyChange, Running
<1>7. CASE Shutdown
  <2>1. members' \subseteq Entry
    BY <1>7, RemovedType DEF Shutdown
  <2> QED
    BY <1>7, <2>1 DEF Shutdown, TopologyChange, Running
<1>8. ASSUME NEW i \in Id, HeartbeatExpires(i)
      PROVE  TypeOK' /\ Permitted'
  BY <1>8 DEF HeartbeatExpires
<1>9. CASE WindowPasses \/ stabilityCheck \/ UNCHANGED vars
  BY <1>9 DEF WindowPasses, stabilityCheck, vars
<1> QED
  BY <1>1, <1>2, <1>3, <1>4, <1>5, <1>6, <1>7, <1>8, <1>9 DEF Next

\* No step of a node that stays STABLE changes its members or the peers it
\* hears of; only the node itself may come back, with a heartbeat.
LEMMA StableStep ==
    ASSUME RingInv, Next, ringState = "STABLE", ringState' = "STABLE"
    PROVE  members' = members /\ (Present \ {self})' = Present \ {self} /\ Present \subseteq Present'
<1> DEFINE Kept == members' = members /\ (Present \ {self})' = Present \ {self} /\ Present \subseteq Present'
<1> USE DEF Present
<1>1. TypeOK /\ phase = "joined" /\ Hooked
  BY DEF RingInv, Permitted, Hooked
<1>2. \A happened : TopologyChange(happened) => ~happened
  BY DEF TopologyChange
<1>3. ~joinRing /\ ~cleanupOfflineNodes /\ ~Leave /\ ~Shutdown
  BY <1>1, <1>2 DEF joinRing, cleanupOfflineNodes, Leave, leaveRing, Shutdown
<1>4. CASE Heartbeat
  BY <1>4, <1>1 DEF Heartbeat, TypeOK
<1>5. ASSUME NEW i \in Peer, RemoteOnline(i)
      PROVE  Kept
  <2>1. i \in Present
    BY <1>5, <1>1, <1>2 DEF RemoteOnline
  <2>2. PICK age \in {"fresh", "expired"} : states' = [states EXCEPT ![i] = age]
    BY <1>5 DEF RemoteOnline
  <2>3. Present' = Present
    BY <2>1, <2>2, <1>1 DEF TypeOK
  <2> QED
    BY <1>5, <2>3 DEF RemoteOnline
<1>6. ASSUME NEW i \in Peer, RemoteOffline(i)
      PROVE  Kept
  <2>1. i \notin Present
    BY <1>6, <1>1, <1>2 DEF RemoteOffline
  <2>2. i \in Id /\ states[i] = "none" /\ states' = [states EXCEPT ![i] = "none"]
    BY <2>1, <1>6 DEF RemoteOffline, Peer
  <2>3. Present' = Present
    BY <2>2, <1>1 DEF TypeOK
  <2> QED
    BY <1>6, <2>3 DEF RemoteOffline
<1>7. ASSUME NEW S \in SUBSET Entry PROVE ~RemoteUpdate(S)
  BY <1>1, <1>2 DEF RemoteUpdate
<1>8. ASSUME NEW i \in Id, HeartbeatExpires(i)
      PROVE  Kept
  <2>1. states' = [states EXCEPT ![i] = "expired"] /\ states[i] = "fresh" /\ members' = members
    BY <1>8 DEF HeartbeatExpires
  <2>2. Present' = Present
    BY <2>1, <1>1 DEF TypeOK
  <2> QED
    BY <2>1, <2>2
<1>9. CASE WindowPasses \/ stabilityCheck
  BY <1>9 DEF WindowPasses, stabilityCheck
<1> QED
  BY <1>3, <1>4, <1>5, <1>6, <1>7, <1>8, <1>9 DEF Next

\* Places are bounded, so a ring is finite, and its quorum is a number.
LEMMA QuorumType ==
    ASSUME members \subseteq Entry
    PROVE  quorumSize \in Int
<1>1. CASE Entry = {}
  <2>1. members = {} /\ Cardinality({}) \in Nat
    BY <1>1, FS_EmptySet
  <2> QED
    BY <2>1, QuorumAssumption DEF quorumSize
<1>2. CASE Entry # {}
  <2>1. PICK last \in Entry : \A e \in Entry : Place[e] <= Place[last]
    BY <1>2, EntryAssumption
  <2>2. Place \in [Entry -> 0..Place[last]] /\ Place[last] \in Nat
    BY <2>1, EntryAssumption
  <2>3. Place \in Injection(Entry, 0..Place[last])
    BY <2>2, EntryAssumption DEF Injection, IsInjective
  <2>4. IsFiniteSet(0..Place[last])
    BY <2>2, FS_Interval
  <2>5. IsFiniteSet(Entry)
    BY <2>3, <2>4, FS_Injection
  <2>6. Cardinality(members) \in Nat
    BY <2>5, FS_Subset, FS_CardinalityType
  <2> QED
    BY <2>6, QuorumAssumption DEF quorumSize
<1> QED
  BY <1>1, <1>2

LEMMA FrozenStep ==
    RingInv /\ [Next]_vars =>
      [ringState = "STABLE" /\ ringState' = "STABLE"
          => members' = members /\ (Present \ {self})' = Present \ {self}]_vars
BY StableStep

\* A node becomes STABLE with a quorum of online peers.  While it is STABLE nobody it
\* knows of goes, and the members, so the size of a quorum, stay.
LEMMA AnswerableStep ==
    ASSUME RingInv, RoutesOnlyWhenSettled, [Next]_vars
    PROVE  RoutesOnlyWhenSettled'
<1>1. (ringState = "STABLE" => phase = "joined" /\ quiet)'
  BY RingInvStep DEF RingInv, Permitted
<1>2. ASSUME UNCHANGED vars PROVE RoutesOnlyWhenSettled'
  BY <1>2 DEF vars, RoutesOnlyWhenSettled, Present, quorumSize
<1>3. ASSUME Next, ringState' = "STABLE", ringState = "STABLE" PROVE Answerable'
  <2>1. members' = members /\ Present \subseteq Present' /\ Present' \subseteq Id
    BY <1>3, StableStep DEF Present
  <2>2. IsFiniteSet(Present') /\ Cardinality(Present) <= Cardinality(Present')
    BY <2>1, IdAssumption, FS_Subset
  <2>3. Cardinality(Present) \in Nat /\ Cardinality(Present') \in Nat
    BY <2>1, <2>2, IdAssumption, FS_Subset, FS_CardinalityType
  <2>4. members # {} /\ Cardinality(Present) >= quorumSize
    BY <1>3 DEF RoutesOnlyWhenSettled
  <2>5. quorumSize' = quorumSize
    BY <2>1 DEF quorumSize
  <2>6. quorumSize \in Int
    BY QuorumType DEF RingInv, TypeOK
  <2> QED
    BY <2>1, <2>2, <2>3, <2>4, <2>5, <2>6 DEF Answerable
<1>4. ASSUME Next, ringState' = "STABLE", ringState # "STABLE" PROVE Answerable'
  <2>1. stabilityCheck
    <3>1. \A happened : ~(TopologyChange(happened) /\ ringState' = "STABLE")
      BY <1>4 DEF TopologyChange
    <3> QED
      BY <1>4, <3>1 DEF Next, joinRing, Heartbeat, RemoteOnline, RemoteOffline, RemoteUpdate,
                        cleanupOfflineNodes, Leave, leaveRing, Shutdown, HeartbeatExpires, WindowPasses
  <2>2. members' = members /\ states' = states /\ members # {}
        /\ Cardinality(getOnlinePeers) >= quorumSize
    BY <2>1 DEF stabilityCheck, hasQuorumConverged
  <2>3. getOnlinePeers \subseteq Present /\ Present \subseteq Id
    BY DEF getOnlinePeers, Present
  <2>4. IsFiniteSet(Present) /\ IsFiniteSet(getOnlinePeers)
        /\ Cardinality(getOnlinePeers) <= Cardinality(Present)
    BY <2>3, IdAssumption, FS_Subset
  <2>5. Cardinality(getOnlinePeers) \in Nat /\ Cardinality(Present) \in Nat
    BY <2>4, FS_CardinalityType
  <2>6. quorumSize' = quorumSize /\ Present' = Present
    BY <2>2 DEF quorumSize, Present
  <2>7. quorumSize \in Int
    BY QuorumType DEF RingInv, TypeOK
  <2> QED
    BY <2>2, <2>4, <2>5, <2>6, <2>7 DEF Answerable
<1> QED
  BY <1>1, <1>2, <1>3, <1>4 DEF RoutesOnlyWhenSettled, Answerable

\* The variables have their types, and only a node that has not started is
\* BOOTSTRAPPING, for every ring.
THEOREM TypeCorrect == Spec => []TypeOK
<1>1. RingInv => TypeOK
  BY DEF RingInv
<1> QED
  BY <1>1, RingInvInit, RingInvStep, PTL DEF Spec

\* A node that may route has joined, had a quiet window, finds members for its
\* lookups and still knows of a quorum, whatever the peers, the daemon and the
\* application do (stabilityCheck, setRingState).
THEOREM RoutesCorrect == Spec => []RoutesOnlyWhenSettled
<1>1. RingInv /\ RoutesOnlyWhenSettled /\ [Next]_vars => RoutesOnlyWhenSettled'
  BY AnswerableStep
<1> QED
  BY <1>1, RingInvInit, RingInvStep, PTL DEF Spec

\* A node that stays STABLE keeps its members and its peers (onDocUpdate and
\* onAwarenessChange leave STABLE for every change).
THEOREM FrozenCorrect == Spec => TopologyFrozen
BY RingInvInit, RingInvStep, FrozenStep, PTL DEF Spec, TopologyFrozen

\* On every ring without a second entry of a node, neighbours agree (getNeighbors).
THEOREM NeighborsCorrect == Spec => []NeighborsAgree
<1>1. TypeOK => NeighborsAgree
  <2> SUFFICES ASSUME members \in SUBSET Entry, OneEntryEach(members), NEW e \in members
               PROVE  LET next == getNeighbors(members, IdOf[e]).successor
                      IN  IF next = NoEntry THEN members = {e}
                          ELSE next \in members /\ getNeighbors(members, IdOf[next]).predecessor = e
    BY DEF TypeOK, NeighborsAgree
  <2> QED
    BY NeighborsLemma
<1> QED
  BY <1>1, TypeCorrect, PTL

\* A key belongs to the nearest member, and when another member goes it stays
\* there (findSuccessor).
THEOREM KeysCorrect == Spec => []OnlyOwnKeysMove
<1>1. TypeOK => OnlyOwnKeysMove
  <2> SUFFICES ASSUME members \in SUBSET Entry, NEW h \in 0..(Space - 1), members # {}
               PROVE  LET owner == findSuccessor(members, h)
                      IN  /\ \A e \in members : Distance(h, owner) <= Distance(h, e)
                          /\ \A e \in members \ {owner} : findSuccessor(members \ {e}, h) = owner
    BY DEF TypeOK, OnlyOwnKeysMove
  <2> QED
    BY SuccessorIsNearest, OthersKeepTheirKeys
<1> QED
  BY <1>1, TypeCorrect, PTL
=============================================================================

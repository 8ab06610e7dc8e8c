-------------------------- MODULE TransportProofs --------------------------
(***************************************************************************)
(* Order and cleanliness of the transport, proved for every set of nodes,  *)
(* any number of sends and any crashes: for a node that awaits its sends   *)
(* to a peer, messages are handled in the order they were sent in, and the *)
(* socket it has open is the one it keeps.                                 *)
(*                                                                         *)
(* The invariant says where the messages of such a pair are: the oldest    *)
(* are handled, the next ones flow in the only socket between the two, and *)
(* at most one waits for a connection or for its turn.                     *)
(***************************************************************************)
EXTENDS Transport, TLAPS

\* The numbers in f grow; the numbers in f are smaller than i.
InOrder(f) == \A j, k \in DOMAIN f : j < k /\ f[j] \in Nat /\ f[k] \in Nat => f[j] < f[k]
Below(f, i) == \A k \in DOMAIN f : f[k] \in Nat => f[k] < i

CallRecord == [to : Node, socket : Socket, state : {"connecting", "due", "written", "rejected"}]

Types ==
    /\ TypeOK
    /\ calls \in [Node -> Seq(CallRecord)]
    /\ due \in [Node -> Seq(Nat)]
    /\ pipe \in [Socket -> Seq(Nat \cup {FIN})]
    /\ handled \in [Node -> [Node -> Seq(Nat)]]

\* Sockets, calls and the map of a node refer to one another.
Links ==
    /\ \A s \in Socket :
         /\ near[s] # "none" => s[2] \in DOMAIN calls[s[1]]
         /\ near[s] = "connecting" => Call(s).state = "connecting"
         /\ near[s] = "ended" => stop[s[1]] # "no"
         /\ far[s] = "open" => near[s] \in {"open", "ended"} \/ (near[s] = "closed" /\ ~up[s[1]])
    /\ \A n, m \in Node :
         connections[n][m] # None =>
            connections[n][m][1] = n /\ near[connections[n][m]] = "open" /\ To(connections[n][m]) = m
    /\ \A n \in Node : \A i \in DOMAIN calls[n] : calls[n][i].state = "due" =>
         /\ calls[n][i].socket[1] = n /\ near[calls[n][i].socket] # "none"
         /\ To(calls[n][i].socket) = calls[n][i].to
    /\ \A n \in Node : \A k \in DOMAIN due[n] :
         /\ due[n][k] \in DOMAIN calls[n] /\ calls[n][due[n][k]].state = "due"
         /\ \A j \in DOMAIN due[n] : due[n][j] = due[n][k] => j = k

Waiting(n, m) == {i \in DOMAIN calls[n] : calls[n][i].to = m /\ calls[n][i].state \in {"connecting", "due"}}
Mine(n, m) == {s \in Socket : s[1] = n /\ near[s] # "none" /\ To(s) = m}
Flowing(n, m) == {s \in Mine(n, m) : far[s] = "open"}

\* What n keeps for m, if it awaits its sends.
Kempt(n, m) ==
    /\ \A s \in Mine(n, m) : near[s] = "open" => connections[n][m] = s
    /\ \A s \in Mine(n, m) : near[s] = "connecting" => connections[n][m] = None
    /\ \A i, j \in Waiting(n, m) : i = j
    /\ stop[n] # "no" => Waiting(n, m) = {} /\ connections[n][m] = None
    /\ \A s, t \in Flowing(n, m) : s = t

\* Where its messages are: what is handled, then what flows, then what waits.
Ordered(n, m) ==
    /\ InOrder(handled[m][n]) /\ Below(handled[m][n], Len(calls[n]) + 1)
    /\ \A i \in Waiting(n, m) : Below(handled[m][n], i)
    /\ \A s \in Flowing(n, m) :
         /\ InOrder(pipe[s]) /\ Below(pipe[s], Len(calls[n]) + 1)
         /\ \A i \in Waiting(n, m) : Below(pipe[s], i)
         /\ \A k \in DOMAIN pipe[s] : pipe[s][k] \in Nat => Below(handled[m][n], pipe[s][k])

PairsInv == \A n, m \in Node : <<n, m>> \notin overlapped => Kempt(n, m) /\ Ordered(n, m)

TransportInv == Types /\ Links /\ PairsInv

----------------------------------------------------------------------------
(* Sequences.                                                              *)

LEMMA Appended ==
    \A S : \A f \in Seq(S), x \in S :
       /\ Append(f, x) \in Seq(S) /\ Len(f) \in Nat /\ Len(Append(f, x)) = Len(f) + 1
       /\ DOMAIN f = 1..Len(f) /\ DOMAIN Append(f, x) = 1..(Len(f) + 1)
       /\ Append(f, x)[Len(f) + 1] = x
       /\ \A k \in DOMAIN f : Append(f, x)[k] = f[k]
OBVIOUS

LEMMA Tailed ==
    \A S : \A f \in Seq(S) : f # <<>> =>
       /\ Tail(f) \in Seq(S) /\ Head(f) \in S /\ 1 \in DOMAIN f /\ f[1] = Head(f)
       /\ \A k \in DOMAIN Tail(f) : k \in Nat \ {0} /\ k + 1 \in DOMAIN f /\ Tail(f)[k] = f[k + 1]
OBVIOUS

LEMMA Cut ==
    \A S : \A f \in Seq(S) : \A c \in 0..Len(f) :
       /\ SubSeq(f, 1, c) \in Seq(S)
       /\ \A k \in DOMAIN SubSeq(f, 1, c) : k \in DOMAIN f /\ SubSeq(f, 1, c)[k] = f[k]
OBVIOUS

LEMMA Domains == \A S : \A f \in Seq(S) : Len(f) \in Nat /\ DOMAIN f = 1..Len(f)
OBVIOUS

LEMMA EmptySeq == \A S : <<>> \in Seq(S)
OBVIOUS

LEMMA OrderAppend ==
    ASSUME NEW S, NEW f \in Seq(S), NEW x \in S, InOrder(f), x \in Nat => Below(f, x)
    PROVE  InOrder(Append(f, x))
<1> DEFINE g == Append(f, x)
<1> SUFFICES ASSUME NEW j \in DOMAIN g, NEW k \in DOMAIN g, j < k, g[j] \in Nat, g[k] \in Nat
             PROVE  g[j] < g[k]
  BY DEF InOrder
<1>1. /\ DOMAIN f = 1..Len(f) /\ DOMAIN g = 1..(Len(f) + 1) /\ Len(f) \in Nat
      /\ g[Len(f) + 1] = x /\ \A h \in DOMAIN f : g[h] = f[h]
  BY Appended
<1> HIDE DEF g
<1>2. j \in DOMAIN f /\ (k \in DOMAIN f \/ k = Len(f) + 1)
  BY <1>1
<1> QED
  BY <1>1, <1>2 DEF InOrder, Below

LEMMA BelowAppend ==
    ASSUME NEW S, NEW f \in Seq(S), NEW x \in S, NEW i, Below(f, i), x \in Nat => x < i
    PROVE  Below(Append(f, x), i)
<1> DEFINE g == Append(f, x)
<1>1. /\ DOMAIN f = 1..Len(f) /\ DOMAIN g = 1..(Len(f) + 1) /\ Len(f) \in Nat
      /\ g[Len(f) + 1] = x /\ \A h \in DOMAIN f : g[h] = f[h]
  BY Appended
<1> HIDE DEF g
<1>2. Below(g, i)
  BY <1>1 DEF Below
<1> QED
  BY <1>2 DEF g

LEMMA BelowMore == \A f : \A i, j \in Nat : Below(f, i) /\ i <= j => Below(f, j)
BY DEF Below

\* What is left when the first number is taken out.
LEMMA OrderTail ==
    ASSUME NEW S, NEW f \in Seq(S), f # <<>>, InOrder(f)
    PROVE  /\ InOrder(Tail(f))
           /\ \A i : Below(f, i) => Below(Tail(f), i)
           /\ Head(f) \in Nat => \A k \in DOMAIN Tail(f) : Tail(f)[k] \in Nat => Head(f) < Tail(f)[k]
<1> DEFINE g == Tail(f)
<1>1. /\ Head(f) = f[1] /\ 1 \in DOMAIN f
      /\ \A k \in DOMAIN g : k \in Nat \ {0} /\ k + 1 \in DOMAIN f /\ g[k] = f[k + 1]
  BY Tailed
<1> HIDE DEF g
<1>2. InOrder(g)
  BY <1>1 DEF InOrder
<1>3. \A i : Below(f, i) => Below(g, i)
  BY <1>1 DEF Below
<1>4. Head(f) \in Nat => \A k \in DOMAIN g : g[k] \in Nat => Head(f) < g[k]
  BY <1>1 DEF InOrder
<1> QED
  BY <1>2, <1>3, <1>4 DEF g

LEMMA OrderCut ==
    ASSUME NEW S, NEW f \in Seq(S), NEW c \in 0..Len(f), InOrder(f)
    PROVE  /\ InOrder(SubSeq(f, 1, c))
           /\ \A i : Below(f, i) => Below(SubSeq(f, 1, c), i)
<1>1. \A k \in DOMAIN SubSeq(f, 1, c) : k \in DOMAIN f /\ SubSeq(f, 1, c)[k] = f[k]
  BY Cut
<1> QED
  BY <1>1 DEF InOrder, Below

----------------------------------------------------------------------------
(* Sockets and calls.                                                      *)

LEMMA SocketParts ==
    /\ \A s \in Socket : s[1] \in Node /\ s[2] \in 1..Budget[s[1]] /\ s = <<s[1], s[2]>>
    /\ \A n \in Node : \A i \in 1..Budget[n] : <<n, i>> \in Socket
BY DEF Socket

LEMMA CallTypes ==
    ASSUME Types, NEW n \in Node, NEW i \in DOMAIN calls[n]
    PROVE  /\ calls[n][i] \in CallRecord /\ i \in Nat /\ Len(calls[n]) \in Nat /\ i <= Len(calls[n])
           /\ calls[n] \in Seq(CallRecord) /\ DOMAIN calls[n] = 1..Len(calls[n])
           /\ calls[n][i].to \in Node /\ calls[n][i].socket \in Socket
<1>1. calls[n] \in Seq(CallRecord)
  BY DEF Types
<1>2. Len(calls[n]) \in Nat /\ DOMAIN calls[n] = 1..Len(calls[n])
  BY <1>1, Domains
<1>3. calls[n][i] \in CallRecord
  BY <1>1, <1>2
<1> QED
  BY <1>1, <1>2, <1>3 DEF CallRecord

\* A call changes its state and nothing else.
Marked(n, i, x) == calls' = [calls EXCEPT ![n][i].state = x]

LEMMA StateChange ==
    ASSUME Types, NEW n \in Node, NEW i \in DOMAIN calls[n],
           NEW x \in {"connecting", "due", "written", "rejected"},
           Marked(n, i, x)
    PROVE  /\ calls' \in [Node -> Seq(CallRecord)]
           /\ \A m \in Node : /\ DOMAIN calls'[m] = DOMAIN calls[m] /\ Len(calls'[m]) = Len(calls[m])
                              /\ \A j \in DOMAIN calls[m] :
                                   /\ calls'[m][j].to = calls[m][j].to
                                   /\ calls'[m][j].socket = calls[m][j].socket
                                   /\ calls'[m][j].state = IF m = n /\ j = i THEN x ELSE calls[m][j].state
<1> DEFINE r == [calls[n][i] EXCEPT !.state = x]
           f == [calls[n] EXCEPT ![i] = r]
<1>1. calls[n][i] \in CallRecord /\ calls[n] \in Seq(CallRecord)
  BY CallTypes
<1>2. r \in CallRecord /\ r.to = calls[n][i].to /\ r.socket = calls[n][i].socket /\ r.state = x
  BY <1>1 DEF CallRecord
<1>3. calls' = [calls EXCEPT ![n] = f]
  BY DEF Marked
<1> HIDE DEF r
<1>4. f \in Seq(CallRecord) /\ DOMAIN f = DOMAIN calls[n] /\ Len(f) = Len(calls[n])
  BY <1>1, <1>2
<1>5. \A j \in DOMAIN calls[n] : f[j] = IF j = i THEN r ELSE calls[n][j]
  BY <1>1
<1> HIDE DEF f
<1>6. calls \in [Node -> Seq(CallRecord)]
  BY DEF Types
<1>7. calls'[n] = f /\ \A m \in Node : m # n => calls'[m] = calls[m]
  BY <1>3, <1>6
<1>8. calls' \in [Node -> Seq(CallRecord)]
  BY <1>3, <1>4, <1>6
<1>9. ASSUME NEW m \in Node, NEW j \in DOMAIN calls[m]
      PROVE  /\ calls'[m][j].to = calls[m][j].to
             /\ calls'[m][j].socket = calls[m][j].socket
             /\ calls'[m][j].state = IF m = n /\ j = i THEN x ELSE calls[m][j].state
  BY <1>2, <1>5, <1>7
<1> QED
  BY <1>4, <1>7, <1>8, <1>9

\* A call is added.
LEMMA CallAdded ==
    ASSUME Types, NEW n \in Node, NEW r \in CallRecord,
           calls' = [calls EXCEPT ![n] = Append(@, r)]
    PROVE  /\ calls' \in [Node -> Seq(CallRecord)]
           /\ DOMAIN calls'[n] = DOMAIN calls[n] \cup {Len(calls[n]) + 1}
           /\ Len(calls[n]) \in Nat /\ DOMAIN calls[n] = 1..Len(calls[n])
           /\ Len(calls'[n]) = Len(calls[n]) + 1
           /\ calls'[n][Len(calls[n]) + 1] = r
           /\ \A m \in Node : \A j \in DOMAIN calls[m] : j \in DOMAIN calls'[m] /\ calls'[m][j] = calls[m][j]
           /\ \A m \in Node \ {n} : calls'[m] = calls[m]
<1>1. calls \in [Node -> Seq(CallRecord)]
  BY DEF Types
<1>2. calls'[n] = Append(calls[n], r) /\ \A m \in Node \ {n} : calls'[m] = calls[m]
  BY <1>1
<1>3. /\ Append(calls[n], r) \in Seq(CallRecord) /\ Len(calls[n]) \in Nat
      /\ Len(Append(calls[n], r)) = Len(calls[n]) + 1
      /\ DOMAIN calls[n] = 1..Len(calls[n]) /\ DOMAIN Append(calls[n], r) = 1..(Len(calls[n]) + 1)
      /\ Append(calls[n], r)[Len(calls[n]) + 1] = r
      /\ \A k \in DOMAIN calls[n] : Append(calls[n], r)[k] = calls[n][k]
  BY <1>1, Appended
<1>4. calls' \in [Node -> Seq(CallRecord)]
  BY <1>1, <1>3
<1>5. DOMAIN calls'[n] = DOMAIN calls[n] \cup {Len(calls[n]) + 1}
  BY <1>2, <1>3
<1> QED
  BY <1>2, <1>3, <1>4, <1>5

----------------------------------------------------------------------------
(* Actions that do not concern a pair.                                     *)

\* Nothing is added to what flows or waits between n and m, and nothing that is
\* left there changes.
Gentle(n, m) ==
    /\ Waiting(n, m)' \subseteq Waiting(n, m)
    /\ \A s \in Mine(n, m)' : /\ s \in Mine(n, m) /\ near'[s] \in {near[s], "closed"}
                              /\ far'[s] = "open" => far[s] = "open" /\ pipe'[s] = pipe[s]
    /\ connections'[n][m] = connections[n][m] /\ (stop'[n] # "no" => stop[n] # "no")
    /\ handled'[m][n] = handled[m][n]
    /\ Len(calls[n]) \in Nat /\ Len(calls'[n]) \in Nat /\ Len(calls[n]) <= Len(calls'[n])

LEMMA GentleKept ==
    ASSUME NEW n \in Node, NEW m \in Node, Gentle(n, m), Kempt(n, m), Ordered(n, m), Types, Types'
    PROVE  Kempt(n, m)' /\ Ordered(n, m)'
<1>1. Flowing(n, m)' \subseteq Flowing(n, m)
  BY DEF Gentle, Flowing
<1>2. Kempt(n, m)'
  <2>1. \A s \in Mine(n, m)' : /\ near'[s] = "open" => connections'[n][m] = s
                               /\ near'[s] = "connecting" => connections'[n][m] = None
    BY DEF Gentle, Kempt
  <2>2. \A i, j \in Waiting(n, m)' : i = j
    BY DEF Gentle, Kempt
  <2>3. stop'[n] # "no" => Waiting(n, m)' = {} /\ connections'[n][m] = None
    BY DEF Gentle, Kempt
  <2>4. \A s, t \in Flowing(n, m)' : s = t
    BY <1>1 DEF Kempt
  <2> QED
    BY <2>1, <2>2, <2>3, <2>4 DEF Kempt
<1>3. \A f : Below(f, Len(calls[n]) + 1) => Below(f, Len(calls'[n]) + 1)
  BY BelowMore DEF Gentle
<1>4. \A s \in Flowing(n, m)' : pipe'[s] = pipe[s]
  BY DEF Gentle, Flowing
<1> QED
  BY <1>1, <1>2, <1>3, <1>4 DEF Gentle, Ordered

\* The sockets between two nodes, when calls keep where they are going.
LEMMA ToKept ==
    ASSUME Links, NEW s \in Socket, near[s] # "none",
           \A j \in DOMAIN calls[s[1]] : calls'[s[1]][j].to = calls[s[1]][j].to
    PROVE  To(s)' = To(s)
BY DEF Links, To, Call

----------------------------------------------------------------------------
(* send                                                                    *)

LEMMA SendTypes ==
    ASSUME Types, Links, NEW p \in Node, NEW q \in Node, send(p, q)
    PROVE  Types'
<1> DEFINE i == Len(calls[p]) + 1
           r == [to |-> q, socket |-> <<p, i>>, state |-> "connecting"]
           d == [to |-> q, socket |-> connections[p][q], state |-> "due"]
<1>1. Len(calls[p]) \in Nat /\ i \in 1..Budget[p]
  BY Domains, BudgetAssumption DEF Types, send
<1>2. <<p, i>> \in Socket
  BY <1>1, SocketParts
<1>3. r \in CallRecord
  BY <1>2 DEF CallRecord
<1>4. connections[p][q] # None => d \in CallRecord
  BY DEF CallRecord, Types, TypeOK
<1>5. PICK c \in CallRecord : calls' = [calls EXCEPT ![p] = Append(@, c)]
  BY <1>3, <1>4 DEF send
<1>6. calls' \in [Node -> Seq(CallRecord)]
  BY <1>5, CallAdded
<1>7. due' \in [Node -> Seq(Nat)]
  <2>1. i \in Nat /\ due[p] \in Seq(Nat)
    BY <1>1 DEF Types
  <2>2. Append(due[p], i) \in Seq(Nat)
    BY <2>1, Appended
  <2>3. due' = due \/ due' = [due EXCEPT ![p] = Append(@, i)]
    BY DEF send
  <2> QED
    BY <2>2, <2>3 DEF Types
<1>8. near' \in [Socket -> {"none", "connecting", "open", "ended", "closed"}]
  <2>1. near' = near \/ near' = [near EXCEPT ![<<p, i>>] = "connecting"]
    BY DEF send
  <2> QED
    BY <2>1 DEF Types, TypeOK
<1>9. overlapped' \subseteq Node \X Node
  BY DEF send, Types, TypeOK
<1> QED
  BY <1>6, <1>7, <1>8, <1>9 DEF Types, TypeOK, send

\* What a call of send() adds.
LEMMA SendEffect ==
    ASSUME Types, Links, NEW p \in Node, NEW q \in Node, send(p, q), NEW i, i = Len(calls[p]) + 1
    PROVE  /\ i \in Nat /\ DOMAIN calls[p] = 1..Len(calls[p]) /\ Len(calls'[p]) = i
           /\ DOMAIN calls'[p] = DOMAIN calls[p] \cup {i} /\ i \notin DOMAIN calls[p]
           /\ <<p, i>> \in Socket /\ near[<<p, i>>] = "none"
           /\ calls'[p][i].to = q
           /\ \A n \in Node : \A j \in DOMAIN calls[n] : j \in DOMAIN calls'[n] /\ calls'[n][j] = calls[n][j]
           /\ \A n \in Node \ {p} : calls'[n] = calls[n]
           /\ \/ /\ connections[p][q] # None /\ calls'[p][i].state = "due"
                 /\ calls'[p][i].socket = connections[p][q]
                 /\ due' = [due EXCEPT ![p] = Append(@, i)] /\ near' = near
              \/ /\ connections[p][q] = None /\ calls'[p][i].state = "connecting"
                 /\ near' = [near EXCEPT ![<<p, i>>] = "connecting"] /\ due' = due
<1> DEFINE r == [to |-> q, socket |-> <<p, i>>, state |-> "connecting"]
           d == [to |-> q, socket |-> connections[p][q], state |-> "due"]
<1>1. Len(calls[p]) \in Nat /\ i \in 1..Budget[p]
  BY Domains, BudgetAssumption DEF Types, send
<1>2. <<p, i>> \in Socket
  BY <1>1, SocketParts
<1>3. r \in CallRecord /\ r.to = q /\ r.state = "connecting"
  BY <1>2 DEF CallRecord
<1>4. connections[p][q] # None => d \in CallRecord /\ d.to = q /\ d.state = "due" /\ d.socket = connections[p][q]
  BY DEF CallRecord, Types, TypeOK
<1>5. \/ /\ connections[p][q] # None /\ calls' = [calls EXCEPT ![p] = Append(@, d)]
         /\ due' = [due EXCEPT ![p] = Append(@, i)] /\ near' = near
      \/ /\ connections[p][q] = None /\ calls' = [calls EXCEPT ![p] = Append(@, r)]
         /\ near' = [near EXCEPT ![<<p, i>>] = "connecting"] /\ due' = due
  BY DEF send
<1> HIDE DEF r, d
<1>6. PICK c \in CallRecord :
        /\ calls' = [calls EXCEPT ![p] = Append(@, c)] /\ c.to = q
        /\ \/ /\ connections[p][q] # None /\ c.state = "due" /\ c.socket = connections[p][q]
              /\ due' = [due EXCEPT ![p] = Append(@, i)] /\ near' = near
           \/ /\ connections[p][q] = None /\ c.state = "connecting"
              /\ near' = [near EXCEPT ![<<p, i>>] = "connecting"] /\ due' = due
  BY <1>3, <1>4, <1>5
<1>7. /\ DOMAIN calls'[p] = DOMAIN calls[p] \cup {Len(calls[p]) + 1}
      /\ Len(calls[p]) \in Nat /\ DOMAIN calls[p] = 1..Len(calls[p])
      /\ Len(calls'[p]) = Len(calls[p]) + 1
      /\ calls'[p][Len(calls[p]) + 1] = c
      /\ \A m \in Node : \A j \in DOMAIN calls[m] : j \in DOMAIN calls'[m] /\ calls'[m][j] = calls[m][j]
      /\ \A m \in Node \ {p} : calls'[m] = calls[m]
  BY <1>6, CallAdded
<1>8. i \notin DOMAIN calls[p]
  BY <1>7
<1>9. near[<<p, i>>] = "none"
  <2>1. <<p, i>>[1] = p /\ <<p, i>>[2] = i
    OBVIOUS
  <2> QED
    BY <1>2, <1>8, <2>1 DEF Links
<1> QED
  BY <1>2, <1>6, <1>7, <1>8, <1>9

LEMMA SendLinks ==
    ASSUME Types, Links, NEW p \in Node, NEW q \in Node, send(p, q)
    PROVE  Links'
<1> DEFINE i == Len(calls[p]) + 1
<1>1. /\ i \in Nat /\ DOMAIN calls[p] = 1..Len(calls[p]) /\ Len(calls'[p]) = i
      /\ DOMAIN calls'[p] = DOMAIN calls[p] \cup {i} /\ i \notin DOMAIN calls[p]
      /\ <<p, i>> \in Socket /\ near[<<p, i>>] = "none"
      /\ calls'[p][i].to = q
      /\ \A n \in Node : \A j \in DOMAIN calls[n] : j \in DOMAIN calls'[n] /\ calls'[n][j] = calls[n][j]
      /\ \A n \in Node \ {p} : calls'[n] = calls[n]
  BY SendEffect
<1>2. \/ /\ connections[p][q] # None /\ calls'[p][i].state = "due"
         /\ calls'[p][i].socket = connections[p][q]
         /\ due' = [due EXCEPT ![p] = Append(@, i)] /\ near' = near
      \/ /\ connections[p][q] = None /\ calls'[p][i].state = "connecting"
         /\ near' = [near EXCEPT ![<<p, i>>] = "connecting"] /\ due' = due
  BY SendEffect
<1> HIDE DEF i
<1>3. UNCHANGED <<up, stop, connections, far, accepted>>
  BY DEF send
<1>4. ASSUME NEW s \in Socket, near[s] # "none"
      PROVE  /\ near'[s] = near[s] /\ s[2] \in DOMAIN calls[s[1]] /\ s[2] \in DOMAIN calls'[s[1]]
             /\ calls'[s[1]][s[2]] = calls[s[1]][s[2]]
  <2>1. s # <<p, i>>
    BY <1>1, <1>4
  <2>2. s[1] \in Node /\ s[2] \in DOMAIN calls[s[1]]
    BY <1>4, SocketParts DEF Links
  <2>3. near'[s] = near[s]
    BY <1>2, <2>1 DEF Types, TypeOK
  <2> QED
    BY <1>1, <2>2, <2>3
<1>5. \A s \in Socket : near[s] = "none" => near'[s] = "none" \/ (s = <<p, i>> /\ near'[s] = "connecting")
  BY <1>1, <1>2 DEF Types, TypeOK
<1>6. ASSUME NEW s \in Socket
      PROVE  /\ near'[s] # "none" => s[2] \in DOMAIN calls'[s[1]]
             /\ near'[s] = "connecting" => calls'[s[1]][s[2]].state = "connecting"
             /\ near'[s] = "ended" => stop'[s[1]] # "no"
             /\ far'[s] = "open" => near'[s] \in {"open", "ended"} \/ (near'[s] = "closed" /\ ~up'[s[1]])
  <2>1. CASE near[s] # "none"
    BY <1>3, <1>4, <2>1 DEF Links, Call
  <2>2. CASE near'[s] = "none" /\ near[s] = "none"
    BY <1>3, <2>2 DEF Links
  <2>3. CASE s = <<p, i>> /\ near'[s] = "connecting" /\ near[s] = "none"
    <3>1. s[1] = p /\ s[2] = i
      BY <2>3
    <3>2. near' # near
      BY <2>3
    <3> QED
      BY <1>1, <1>2, <1>3, <2>3, <3>1, <3>2 DEF Links, Call
  <2> QED
    BY <1>5, <2>1, <2>2, <2>3
<1>7. ASSUME NEW n \in Node, NEW m \in Node, connections'[n][m] # None
      PROVE  connections'[n][m][1] = n /\ near'[connections'[n][m]] = "open" /\ To(connections[n][m])' = m
  <2>1. connections[n][m] \in Socket /\ connections[n][m] # None
    BY <1>3, <1>7 DEF Types, TypeOK
  <2> DEFINE s == connections[n][m]
  <2>2. s[1] = n /\ near[s] = "open" /\ calls[s[1]][s[2]].to = m
    BY <2>1 DEF Links, To, Call
  <2>3. near'[s] = near[s] /\ calls'[s[1]][s[2]] = calls[s[1]][s[2]]
    BY <1>4, <2>1, <2>2
  <2> QED
    BY <1>3, <2>2, <2>3 DEF To, Call
<1>8. ASSUME NEW n \in Node, NEW j \in DOMAIN calls'[n], calls'[n][j].state = "due"
      PROVE  /\ calls'[n][j].socket[1] = n /\ near'[calls'[n][j].socket] # "none"
             /\ To(calls[n][j].socket)' = calls'[n][j].to
  <2>1. CASE j \in DOMAIN calls[n]
    <3>1. calls[n][j].socket \in Socket
      BY <2>1, CallTypes
    <3>2. calls'[n][j] = calls[n][j]
      BY <1>1, <2>1
    <3> DEFINE s == calls[n][j].socket
    <3>3. s[1] = n /\ near[s] # "none" /\ calls[s[1]][s[2]].to = calls[n][j].to
      BY <1>8, <2>1, <3>2 DEF Links, To, Call
    <3>4. near'[s] = near[s] /\ calls'[s[1]][s[2]] = calls[s[1]][s[2]]
      BY <1>4, <3>1, <3>3
    <3> QED
      BY <3>2, <3>3, <3>4 DEF To, Call
  <2>2. CASE n = p /\ j = i
    <3>1. connections[p][q] # None /\ calls'[p][i].socket = connections[p][q]
      BY <1>2, <1>8, <2>2
    <3>2. connections[p][q] \in Socket
      BY <3>1 DEF Types, TypeOK
    <3> DEFINE s == connections[p][q]
    <3>3. s[1] = p /\ near[s] = "open" /\ calls[s[1]][s[2]].to = q
      BY <3>1 DEF Links, To, Call
    <3>4. near'[s] = near[s] /\ calls'[s[1]][s[2]] = calls[s[1]][s[2]]
      BY <1>4, <3>2, <3>3
    <3> QED
      BY <1>1, <2>2, <3>1, <3>3, <3>4 DEF To, Call
  <2> QED
    BY <1>1, <2>1, <2>2
<1>9. ASSUME NEW n \in Node, NEW k \in DOMAIN due'[n]
      PROVE  /\ due'[n][k] \in DOMAIN calls'[n] /\ calls'[n][due'[n][k]].state = "due"
             /\ \A j \in DOMAIN due'[n] : due'[n][j] = due'[n][k] => j = k
  <2>1. CASE due' = due \/ n # p
    <3>1. due'[n] = due[n]
      BY <1>2, <2>1 DEF Types
    <3> QED
      BY <1>1, <1>9, <3>1 DEF Links
  <2>2. CASE n = p /\ due' = [due EXCEPT ![p] = Append(@, i)]
    <3>1. due[p] \in Seq(Nat) /\ due'[p] = Append(due[p], i)
      BY <2>2 DEF Types
    <3>2. /\ Len(due[p]) \in Nat /\ DOMAIN due[p] = 1..Len(due[p]) /\ DOMAIN due'[p] = 1..(Len(due[p]) + 1)
          /\ due'[p][Len(due[p]) + 1] = i /\ \A h \in DOMAIN due[p] : due'[p][h] = due[p][h]
      BY <1>1, <3>1, Appended
    <3>3. \A h \in DOMAIN due[p] : due'[p][h] \in DOMAIN calls[p]
      BY <3>2 DEF Links
    <3>4. connections[p][q] # None /\ calls'[p][i].state = "due"
      BY <1>2, <2>2, <3>2
    <3>5. CASE k \in DOMAIN due[p]
      BY <1>1, <2>2, <3>2, <3>3, <3>5 DEF Links
    <3>6. CASE k = Len(due[p]) + 1
      BY <1>1, <2>2, <3>2, <3>3, <3>4, <3>6
    <3> QED
      BY <1>9, <2>2, <3>2, <3>5, <3>6
  <2> QED
    BY <1>2, <2>1, <2>2
<1> QED
  BY <1>6, <1>7, <1>8, <1>9 DEF Links, Call

LEMMA SendStep ==
    ASSUME TransportInv, NEW p \in Node, NEW q \in Node, send(p, q)
    PROVE  TransportInv'
<1> DEFINE i == Len(calls[p]) + 1
<1>0. Types /\ Links /\ PairsInv /\ Types' /\ Links'
  BY SendTypes, SendLinks DEF TransportInv
<1>1. /\ i \in Nat /\ DOMAIN calls[p] = 1..Len(calls[p]) /\ Len(calls'[p]) = i
      /\ DOMAIN calls'[p] = DOMAIN calls[p] \cup {i} /\ i \notin DOMAIN calls[p]
      /\ <<p, i>> \in Socket /\ near[<<p, i>>] = "none"
      /\ calls'[p][i].to = q
      /\ \A n \in Node : \A j \in DOMAIN calls[n] : j \in DOMAIN calls'[n] /\ calls'[n][j] = calls[n][j]
      /\ \A n \in Node \ {p} : calls'[n] = calls[n]
  BY <1>0, SendEffect
<1>2. \/ connections[p][q] # None /\ near' = near
      \/ connections[p][q] = None /\ near' = [near EXCEPT ![<<p, i>>] = "connecting"]
  BY <1>0, SendEffect
<1>3. Len(calls[p]) \in Nat /\ i = Len(calls[p]) + 1
  BY <1>0, Domains DEF Types
<1> HIDE DEF i
<1>4. UNCHANGED <<stop, connections, far, pipe, handled>>
  BY DEF send
<1>5. ASSUME NEW s \in Socket, near[s] # "none" PROVE near'[s] = near[s] /\ To(s)' = To(s)
  <2>1. s # <<p, i>>
    BY <1>1, <1>5
  <2>2. s[1] \in Node /\ s[2] \in DOMAIN calls[s[1]]
    BY <1>0, <1>5, SocketParts DEF Links
  <2>3. near'[s] = near[s]
    BY <1>0, <1>2, <2>1 DEF Types, TypeOK
  <2> QED
    BY <1>1, <2>2, <2>3 DEF To, Call
<1>6. \A s \in Socket : near[s] = "none" => near'[s] = "none" \/ (s = <<p, i>> /\ near'[s] = "connecting")
  BY <1>0, <1>1, <1>2 DEF Types, TypeOK
<1>7. ASSUME NEW n \in Node, NEW m \in Node, <<n, m>> \notin overlapped', <<n, m>> # <<p, q>>
      PROVE  Kempt(n, m)' /\ Ordered(n, m)'
  <2>1. Kempt(n, m) /\ Ordered(n, m)
    BY <1>0, <1>7 DEF PairsInv, send
  <2>2. Waiting(n, m)' \subseteq Waiting(n, m)
    BY <1>1, <1>7 DEF Waiting
  <2>3. \A s \in Mine(n, m)' : s \in Mine(n, m) /\ near'[s] = near[s]
    <3> SUFFICES ASSUME NEW s \in Mine(n, m)' PROVE s \in Mine(n, m) /\ near'[s] = near[s]
      OBVIOUS
    <3>1. s \in Socket /\ s[1] = n /\ near'[s] # "none" /\ To(s)' = m
      BY DEF Mine
    <3>2. s # <<p, i>>
      BY <1>1, <1>7, <3>1 DEF To, Call
    <3> QED
      BY <1>5, <1>6, <3>1, <3>2 DEF Mine
  <2>4. Len(calls[n]) \in Nat /\ Len(calls'[n]) \in Nat /\ Len(calls[n]) <= Len(calls'[n])
    <3>1. CASE n = p
      BY <1>1, <1>3, <3>1
    <3>2. CASE n # p
      BY <1>0, <1>1, <3>2, Domains DEF Types
    <3> QED
      BY <3>1, <3>2
  <2>5. Gentle(n, m)
    BY <1>4, <2>2, <2>3, <2>4 DEF Gentle
  <2> QED
    BY <1>0, <2>1, <2>5, GentleKept
<1>8. ASSUME <<p, q>> \notin overlapped'
      PROVE  Kempt(p, q)' /\ Ordered(p, q)'
  <2>1. <<p, q>> \notin overlapped /\ ~Unfinished(p, q) /\ stop[p] = "no"
    BY <1>8 DEF send
  <2>2. Kempt(p, q) /\ Ordered(p, q)
    BY <1>0, <2>1 DEF PairsInv
  <2>3. Waiting(p, q) = {}
    BY <2>1 DEF Unfinished, Waiting
  <2>4. Waiting(p, q)' \subseteq {i}
    <3> SUFFICES ASSUME NEW j \in Waiting(p, q)', j # i PROVE FALSE
      OBVIOUS
    <3>1. j \in DOMAIN calls[p] /\ calls'[p][j] = calls[p][j]
      BY <1>1 DEF Waiting
    <3> QED
      BY <2>3, <3>1 DEF Waiting
  <2>5. \A s \in Mine(p, q)' : (s \in Mine(p, q) /\ near'[s] = near[s]) \/ (near'[s] = "connecting" /\ connections[p][q] = None)
    <3> SUFFICES ASSUME NEW s \in Mine(p, q)'
                 PROVE  (s \in Mine(p, q) /\ near'[s] = near[s]) \/ (near'[s] = "connecting" /\ connections[p][q] = None)
      OBVIOUS
    <3>1. s \in Socket /\ s[1] = p /\ near'[s] # "none" /\ To(s)' = q
      BY DEF Mine
    <3>2. CASE near[s] # "none"
      BY <1>5, <3>1, <3>2 DEF Mine
    <3>3. CASE near[s] = "none"
      <4>1. near'[s] = "connecting" /\ near' # near
        BY <1>6, <3>1, <3>3
      <4> QED
        BY <1>2, <4>1
    <3> QED
      BY <3>2, <3>3
  <2>6. Flowing(p, q)' \subseteq Flowing(p, q)
    BY <1>0, <1>4, <2>5 DEF Flowing, Links, Mine
  <2>7. Kempt(p, q)'
    BY <1>4, <2>1, <2>2, <2>4, <2>5, <2>6 DEF Kempt
  <2>8. \A f : Below(f, Len(calls[p]) + 1) => Below(f, i) /\ Below(f, Len(calls'[p]) + 1)
    BY <1>1, <1>3, BelowMore
  <2>9. Ordered(p, q)'
    BY <1>4, <2>2, <2>4, <2>6, <2>8 DEF Ordered
  <2> QED
    BY <2>7, <2>9
<1>9. PairsInv'
  BY <1>7, <1>8 DEF PairsInv
<1> QED
  BY <1>0, <1>9 DEF TransportInv

----------------------------------------------------------------------------
(* What the other actions have in common: no call and no socket is new.    *)

Steady ==
    /\ \A n \in Node : /\ DOMAIN calls'[n] = DOMAIN calls[n] /\ Len(calls'[n]) = Len(calls[n])
                       /\ \A j \in DOMAIN calls[n] :
                            /\ calls'[n][j].to = calls[n][j].to
                            /\ calls'[n][j].socket = calls[n][j].socket
                            /\ \/ calls'[n][j].state = calls[n][j].state
                               \/ calls'[n][j].state \in {"written", "rejected"}
    /\ \A s \in Socket : near'[s] = "none" <=> near[s] = "none"

LEMMA SteadyFacts ==
    ASSUME Types, Links, Steady
    PROVE  /\ \A s \in Socket : near[s] # "none" =>
                /\ s[1] \in Node /\ s[2] \in DOMAIN calls[s[1]] /\ s[2] \in DOMAIN calls'[s[1]]
                /\ To(s)' = To(s) /\ To(s) = calls[s[1]][s[2]].to
           /\ \A n, m \in Node : Mine(n, m)' = Mine(n, m) /\ Waiting(n, m)' \subseteq Waiting(n, m)
           /\ \A n \in Node : Len(calls[n]) \in Nat /\ Len(calls'[n]) = Len(calls[n])
<1>1. ASSUME NEW s \in Socket, near[s] # "none"
      PROVE  /\ s[1] \in Node /\ s[2] \in DOMAIN calls[s[1]] /\ s[2] \in DOMAIN calls'[s[1]]
             /\ To(s)' = To(s) /\ To(s) = calls[s[1]][s[2]].to
  <2>1. s[1] \in Node /\ s[2] \in DOMAIN calls[s[1]]
    BY <1>1, SocketParts DEF Links
  <2> QED
    BY <2>1 DEF Steady, To, Call
<1>2. ASSUME NEW n \in Node, NEW m \in Node
      PROVE  Mine(n, m)' = Mine(n, m) /\ Waiting(n, m)' \subseteq Waiting(n, m)
  <2>1. \A s : s \in Mine(n, m)' <=> s \in Mine(n, m)
    BY <1>1 DEF Mine, Steady
  <2>2. ASSUME NEW j \in Waiting(n, m)' PROVE j \in Waiting(n, m)
    BY <2>2 DEF Waiting, Steady
  <2> QED
    BY <2>1, <2>2
<1>3. \A n \in Node : Len(calls[n]) \in Nat /\ Len(calls'[n]) = Len(calls[n])
  BY Domains DEF Types, Steady
<1> QED
  BY <1>1, <1>2, <1>3

\* A steady step leaves a pair alone that it does not touch.
LEMMA SteadyGentle ==
    ASSUME Types, Links, Steady, NEW n \in Node, NEW m \in Node,
           \A s \in Mine(n, m) : /\ near'[s] \in {near[s], "closed"}
                                 /\ far'[s] = "open" => far[s] = "open" /\ pipe'[s] = pipe[s],
           connections'[n][m] = connections[n][m], stop'[n] # "no" => stop[n] # "no",
           handled'[m][n] = handled[m][n]
    PROVE  Gentle(n, m)
<1>1. Mine(n, m)' = Mine(n, m) /\ Waiting(n, m)' \subseteq Waiting(n, m)
  BY SteadyFacts
<1>2. Len(calls[n]) \in Nat /\ Len(calls'[n]) = Len(calls[n])
  BY SteadyFacts
<1> QED
  BY <1>1, <1>2 DEF Gentle

\* A call that is in no state to wait is not waiting.
LEMMA Done ==
    ASSUME Types, Links, Steady, NEW n \in Node, NEW i \in DOMAIN calls[n], NEW m \in Node,
           calls[n][i].to = m, calls[n][i].state \in {"connecting", "due"},
           calls'[n][i].state \in {"written", "rejected"}, Kempt(n, m)
    PROVE  /\ i \in Waiting(n, m) /\ Waiting(n, m)' = {}
           /\ stop[n] = "no"
<1>1. i \in Waiting(n, m)
  BY DEF Waiting
<1>2. i \notin Waiting(n, m)'
  BY DEF Waiting
<1>3. Waiting(n, m)' \subseteq Waiting(n, m)
  BY SteadyFacts
<1> QED
  BY <1>1, <1>2, <1>3 DEF Kempt

\* A steady step keeps the links if it keeps the map, the ends of sockets and the
\* calls that are due in order.
LEMMA SteadyLinks ==
    ASSUME Types, Links, Steady,
           \A s \in Socket : near'[s] = "connecting" =>
              near[s] = "connecting" /\ calls'[s[1]][s[2]].state = calls[s[1]][s[2]].state,
           \A s \in Socket : near'[s] = "ended" => stop'[s[1]] # "no",
           \A s \in Socket : far'[s] = "open" =>
              near'[s] \in {"open", "ended"} \/ (near'[s] = "closed" /\ ~up'[s[1]]),
           \A n, m \in Node : connections'[n][m] # None =>
              /\ connections'[n][m] \in Socket /\ connections'[n][m][1] = n
              /\ near'[connections'[n][m]] = "open"
              /\ calls[n][connections'[n][m][2]].to = m,
           \A n \in Node : \A k \in DOMAIN due'[n] :
              /\ due'[n][k] \in DOMAIN calls[n] /\ calls'[n][due'[n][k]].state = "due"
              /\ \A j \in DOMAIN due'[n] : due'[n][j] = due'[n][k] => j = k
    PROVE  Links'
<1>1. \A s \in Socket : near'[s] # "none" => near[s] # "none"
  BY DEF Steady
<1>2. \A s \in Socket : near[s] # "none" =>
         /\ s[1] \in Node /\ s[2] \in DOMAIN calls[s[1]] /\ s[2] \in DOMAIN calls'[s[1]]
         /\ calls'[s[1]][s[2]].to = calls[s[1]][s[2]].to
  BY SteadyFacts DEF Steady
<1>3. \A s \in Socket :
         /\ near'[s] # "none" => s[2] \in DOMAIN calls'[s[1]]
         /\ near'[s] = "connecting" => calls'[s[1]][s[2]].state = "connecting"
         /\ near'[s] = "ended" => stop'[s[1]] # "no"
         /\ far'[s] = "open" => near'[s] \in {"open", "ended"} \/ (near'[s] = "closed" /\ ~up'[s[1]])
  <2>1. \A s \in Socket : near'[s] # "none" => s[2] \in DOMAIN calls'[s[1]]
    BY <1>1, <1>2
  <2>2. \A s \in Socket : near'[s] = "connecting" => calls'[s[1]][s[2]].state = "connecting"
    BY DEF Links, Call
  <2> QED
    BY <2>1, <2>2
<1>4. ASSUME NEW n \in Node, NEW m \in Node, connections'[n][m] # None
      PROVE  /\ connections'[n][m][1] = n /\ near'[connections'[n][m]] = "open"
             /\ calls'[connections'[n][m][1]][connections'[n][m][2]].to = m
  <2>1. connections'[n][m] \in Socket /\ near'[connections'[n][m]] # "none" /\ connections'[n][m][1] = n
    BY <1>4
  <2>2. calls'[n][connections'[n][m][2]].to = calls[n][connections'[n][m][2]].to
    BY <1>1, <1>2, <2>1
  <2> QED
    BY <1>4, <2>1, <2>2
<1>5. ASSUME NEW n \in Node, NEW j \in DOMAIN calls'[n], calls'[n][j].state = "due"
      PROVE  /\ calls'[n][j].socket[1] = n /\ near'[calls'[n][j].socket] # "none"
             /\ calls'[calls'[n][j].socket[1]][calls'[n][j].socket[2]].to = calls'[n][j].to
  <2>1. j \in DOMAIN calls[n] /\ calls[n][j].state = "due" /\ calls'[n][j].socket = calls[n][j].socket
        /\ calls'[n][j].to = calls[n][j].to
    BY <1>5 DEF Steady
  <2>2. calls[n][j].socket \in Socket
    BY <2>1, CallTypes
  <2>3. calls[n][j].socket[1] = n /\ near[calls[n][j].socket] # "none"
        /\ calls[calls[n][j].socket[1]][calls[n][j].socket[2]].to = calls[n][j].to
    BY <2>1 DEF Links, To, Call
  <2>4. near'[calls[n][j].socket] # "none"
    BY <2>2, <2>3 DEF Steady
  <2> QED
    BY <1>2, <2>1, <2>2, <2>3, <2>4
<1>6. \A n \in Node : DOMAIN calls'[n] = DOMAIN calls[n]
  BY DEF Steady
<1> QED
  BY <1>3, <1>4, <1>5, <1>6 DEF Links, To, Call

----------------------------------------------------------------------------
(* Write                                                                   *)

\* What a due call writes, and where.
LEMMA WriteEffect ==
    ASSUME Types, Links, NEW p \in Node, Write(p)
    PROVE  \E i \in DOMAIN calls[p], s \in Socket, q \in Node :
             /\ i \in Nat /\ calls[p][i].state = "due" /\ calls[p][i].to = q
             /\ s[1] = p /\ near[s] # "none" /\ To(s) = q
             /\ pipe' = pipe \/ (far[s] = "open" /\ pipe' = [pipe EXCEPT ![s] = Append(@, i)])
             /\ calls' \in [Node -> Seq(CallRecord)] /\ calls'[p][i].state = "written"
             /\ \A n \in Node : \A j \in DOMAIN calls[n] :
                  (n # p \/ j # i) => calls'[n][j].state = calls[n][j].state
             /\ Steady
             /\ i = Head(due[p])
<1> PICK i : i = Head(due[p])
  OBVIOUS
<1> PICK s : s = calls[p][i].socket
  OBVIOUS
<1>1. due[p] \in Seq(Nat) /\ due[p] # <<>> /\ 1 \in DOMAIN due[p] /\ due[p][1] = i /\ i \in Nat
  BY Tailed DEF Types, Write
<1>2. i \in DOMAIN calls[p] /\ calls[p][i].state = "due"
  BY <1>1 DEF Links
<1>3. s \in Socket /\ calls[p][i].to \in Node
  BY <1>2, CallTypes
<1>4. s[1] = p /\ near[s] # "none" /\ To(s) = calls[p][i].to
  BY <1>2 DEF Links
<1>5. /\ pipe' = pipe \/ (far[s] = "open" /\ pipe' = [pipe EXCEPT ![s] = Append(@, i)])
      /\ calls' = [calls EXCEPT ![p][i].state = "written"] /\ due' = [due EXCEPT ![p] = Tail(@)]
      /\ near' = near
  BY DEF Write, Written
<1>6. /\ calls' \in [Node -> Seq(CallRecord)]
      /\ \A m \in Node : /\ DOMAIN calls'[m] = DOMAIN calls[m] /\ Len(calls'[m]) = Len(calls[m])
                         /\ \A j \in DOMAIN calls[m] :
                              /\ calls'[m][j].to = calls[m][j].to
                              /\ calls'[m][j].socket = calls[m][j].socket
                              /\ calls'[m][j].state = IF m = p /\ j = i THEN "written" ELSE calls[m][j].state
  <2>1. "written" \in {"connecting", "due", "written", "rejected"}
    OBVIOUS
  <2>2. Marked(p, i, "written") /\ i \in DOMAIN calls[p]
    BY <1>2, <1>5 DEF Marked
  <2> QED
    BY <2>1, <2>2, StateChange
<1>7. Steady
  <2>1. \A m \in Node : \A j \in DOMAIN calls[m] :
           calls'[m][j].state = calls[m][j].state \/ calls'[m][j].state = "written"
    BY <1>6
  <2> QED
    BY <1>5, <1>6, <2>1 DEF Steady
<1>8. calls'[p][i].state = "written" /\ \A n \in Node : \A j \in DOMAIN calls[n] :
         (n # p \/ j # i) => calls'[n][j].state = calls[n][j].state
  BY <1>2, <1>6
<1> QED
  BY <1>1, <1>2, <1>3, <1>4, <1>5, <1>6, <1>7, <1>8

LEMMA WriteStep ==
    ASSUME TransportInv, NEW p \in Node, Write(p)
    PROVE  TransportInv'
<1>0. Types /\ Links /\ PairsInv
  BY DEF TransportInv
<1>1. PICK i \in DOMAIN calls[p], s \in Socket, q \in Node :
        /\ i \in Nat /\ calls[p][i].state = "due" /\ calls[p][i].to = q
        /\ s[1] = p /\ near[s] # "none" /\ To(s) = q
        /\ pipe' = pipe \/ (far[s] = "open" /\ pipe' = [pipe EXCEPT ![s] = Append(@, i)])
        /\ calls' \in [Node -> Seq(CallRecord)] /\ calls'[p][i].state = "written"
        /\ \A n \in Node : \A j \in DOMAIN calls[n] :
             (n # p \/ j # i) => calls'[n][j].state = calls[n][j].state
        /\ Steady
        /\ i = Head(due[p])
  BY <1>0, WriteEffect
<1>2. UNCHANGED <<up, stop, connections, near, far, accepted, handled, overlapped, crashes>>
      /\ due[p] # <<>> /\ due' = [due EXCEPT ![p] = Tail(@)]
  BY DEF Write
<1>3. i <= Len(calls[p]) /\ due[p] \in Seq(Nat)
  BY <1>0, CallTypes DEF Types
<1>4. due[p][1] = i /\ 1 \in DOMAIN due[p] /\ Tail(due[p]) \in Seq(Nat)
      /\ \A k \in DOMAIN Tail(due[p]) : k \in Nat \ {0} /\ k + 1 \in DOMAIN due[p] /\ Tail(due[p])[k] = due[p][k + 1]
  BY <1>1, <1>2, <1>3, Tailed
<1>5. pipe[s] \in Seq(Nat \cup {FIN}) /\ i \in Nat \cup {FIN}
  BY <1>0, <1>1 DEF Types
<1>6. Types'
  <2>1. Append(pipe[s], i) \in Seq(Nat \cup {FIN})
    BY <1>5, Appended
  <2>2. pipe' \in [Socket -> Seq(Nat \cup {FIN})]
    BY <1>0, <1>1, <2>1 DEF Types
  <2>3. due' \in [Node -> Seq(Nat)]
    BY <1>0, <1>2, <1>4 DEF Types
  <2> QED
    BY <1>0, <1>1, <1>2, <2>2, <2>3 DEF Types, TypeOK
<1>7. Links'
  <2>1. ASSUME NEW t \in Socket, near'[t] = "connecting"
        PROVE  near[t] = "connecting" /\ calls'[t[1]][t[2]].state = calls[t[1]][t[2]].state
    <3>1. near[t] = "connecting" /\ t[1] \in Node /\ t[2] \in DOMAIN calls[t[1]] /\ calls[t[1]][t[2]].state = "connecting"
      BY <1>0, <1>2, <2>1, SocketParts DEF Links, Call
    <3> QED
      BY <1>1, <3>1
  <2>2. ASSUME NEW n \in Node, NEW m \in Node, connections'[n][m] # None
        PROVE  /\ connections'[n][m] \in Socket /\ connections'[n][m][1] = n
               /\ near'[connections'[n][m]] = "open" /\ calls[n][connections'[n][m][2]].to = m
    <3>1. connections' = connections /\ near' = near
      BY <1>2
    <3>2. connections[n][m] \in Socket
      BY <1>0, <2>2, <3>1 DEF Types, TypeOK
    <3>3. connections[n][m][1] = n /\ near[connections[n][m]] = "open"
          /\ calls[connections[n][m][1]][connections[n][m][2]].to = m
      BY <1>0, <2>2, <3>1 DEF Links, To, Call
    <3> QED
      BY <3>1, <3>2, <3>3
  <2>3. ASSUME NEW n \in Node, NEW k \in DOMAIN due'[n]
        PROVE  /\ due'[n][k] \in DOMAIN calls[n] /\ calls'[n][due'[n][k]].state = "due"
               /\ \A j \in DOMAIN due'[n] : due'[n][j] = due'[n][k] => j = k
    <3>1. CASE n # p
      <4>1. due'[n] = due[n]
        BY <1>0, <1>2, <3>1 DEF Types
      <4>2. /\ due[n][k] \in DOMAIN calls[n] /\ calls[n][due[n][k]].state = "due"
            /\ \A j \in DOMAIN due[n] : due[n][j] = due[n][k] => j = k
        BY <1>0, <2>3, <4>1 DEF Links
      <4> QED
        BY <1>1, <3>1, <4>1, <4>2
    <3>2. CASE n = p
      <4>1. due'[p] = Tail(due[p])
        BY <1>0, <1>2 DEF Types
      <4>2. /\ k \in Nat \ {0} /\ k + 1 \in DOMAIN due[p] /\ due'[p][k] = due[p][k + 1]
            /\ \A j \in DOMAIN due'[p] : j \in Nat \ {0} /\ j + 1 \in DOMAIN due[p] /\ due'[p][j] = due[p][j + 1]
        BY <1>4, <2>3, <3>2, <4>1
      <4>3. due[p][k + 1] \in DOMAIN calls[p] /\ calls[p][due[p][k + 1]].state = "due" /\ due[p][k + 1] # i
        <5>1. k + 1 # 1
          BY <4>2
        <5> QED
          BY <1>0, <1>4, <4>2, <5>1 DEF Links
      <4>4. ASSUME NEW j \in DOMAIN due'[p], due'[p][j] = due'[p][k] PROVE j = k
        <5>1. j + 1 = k + 1 /\ j \in Nat
          BY <1>0, <4>2, <4>4 DEF Links
        <5> QED
          BY <4>2, <5>1
      <4> QED
        BY <1>1, <3>2, <4>2, <4>3, <4>4
    <3> QED
      BY <3>1, <3>2
  <2>4. \A t \in Socket : /\ near'[t] = "ended" => stop'[t[1]] # "no"
                          /\ far'[t] = "open" => near'[t] \in {"open", "ended"} \/ (near'[t] = "closed" /\ ~up'[t[1]])
    BY <1>0, <1>2 DEF Links
  <2> QED
    BY <1>0, <1>1, <2>1, <2>2, <2>3, <2>4, SteadyLinks
<1>8. ASSUME NEW n \in Node, NEW m \in Node, <<n, m>> \notin overlapped', <<n, m>> # <<p, q>>
      PROVE  Kempt(n, m)' /\ Ordered(n, m)'
  <2>1. Kempt(n, m) /\ Ordered(n, m)
    BY <1>0, <1>2, <1>8 DEF PairsInv
  <2>2. \A t \in Mine(n, m) : t # s /\ t \in Socket
    BY <1>1, <1>8 DEF Mine
  <2>3. \A t \in Mine(n, m) : pipe'[t] = pipe[t]
    BY <1>0, <1>1, <2>2 DEF Types
  <2>4. Gentle(n, m)
    BY <1>0, <1>1, <1>2, <2>3, SteadyGentle
  <2> QED
    BY <1>0, <1>6, <2>1, <2>4, GentleKept
<1>9. ASSUME <<p, q>> \notin overlapped'
      PROVE  Kempt(p, q)' /\ Ordered(p, q)'
  <2>1. Kempt(p, q) /\ Ordered(p, q)
    BY <1>0, <1>2, <1>3, <1>9 DEF PairsInv
  <2>2. i \in Waiting(p, q) /\ Waiting(p, q)' = {}
    BY <1>0, <1>1, <2>1, Done
  <2>3. Mine(p, q)' = Mine(p, q)
    BY <1>0, <1>1, <1>3, SteadyFacts
  <2>4. Flowing(p, q)' = Flowing(p, q)
    BY <1>2, <2>3 DEF Flowing
  <2>5. Kempt(p, q)'
    BY <1>2, <2>1, <2>2, <2>3, <2>4 DEF Kempt
  <2>6. Len(calls[p]) \in Nat /\ Len(calls'[p]) = Len(calls[p])
    BY <1>0, <1>1, SteadyFacts
  <2>7. ASSUME NEW t \in Flowing(p, q)'
        PROVE  /\ InOrder(pipe'[t]) /\ Below(pipe'[t], Len(calls'[p]) + 1)
               /\ \A k \in DOMAIN pipe'[t] : pipe'[t][k] \in Nat => Below(handled[q][p], pipe'[t][k])
    <3>1. /\ t \in Flowing(p, q) /\ t \in Socket /\ pipe[t] \in Seq(Nat \cup {FIN})
      BY <1>0, <2>4 DEF Types, Flowing, Mine
    <3>2. CASE pipe'[t] = pipe[t]
      BY <2>1, <2>6, <3>1, <3>2 DEF Ordered
    <3>3. CASE pipe'[t] = Append(pipe[t], i)
      <4>1. /\ InOrder(pipe[t]) /\ Below(pipe[t], i) /\ Below(pipe[t], Len(calls[p]) + 1)
            /\ Below(handled[q][p], i)
            /\ \A k \in DOMAIN pipe[t] : pipe[t][k] \in Nat => Below(handled[q][p], pipe[t][k])
        BY <2>1, <2>2, <3>1 DEF Ordered
      <4>2. InOrder(pipe'[t])
        BY <1>5, <3>1, <3>3, <4>1, OrderAppend
      <4>3. i < Len(calls[p]) + 1
        BY <1>1, <1>3, <2>6
      <4>4. Below(pipe'[t], Len(calls'[p]) + 1)
        BY <1>5, <2>6, <3>1, <3>3, <4>1, <4>3, BelowAppend
      <4>5. \A k \in DOMAIN pipe'[t] : pipe'[t][k] = i \/ (k \in DOMAIN pipe[t] /\ pipe'[t][k] = pipe[t][k])
        <5>1. /\ DOMAIN pipe[t] = 1..Len(pipe[t]) /\ DOMAIN Append(pipe[t], i) = 1..(Len(pipe[t]) + 1)
              /\ Len(pipe[t]) \in Nat
              /\ Append(pipe[t], i)[Len(pipe[t]) + 1] = i
              /\ \A k \in DOMAIN pipe[t] : Append(pipe[t], i)[k] = pipe[t][k]
          BY <1>5, <3>1, Appended
        <5> QED
          BY <3>3, <5>1
      <4> QED
        BY <4>1, <4>2, <4>4, <4>5
    <3> QED
      BY <1>0, <1>1, <3>1, <3>2, <3>3 DEF Types
  <2>8. Ordered(p, q)'
    BY <1>2, <2>1, <2>2, <2>6, <2>7 DEF Ordered
  <2> QED
    BY <2>5, <2>8
<1>10. PairsInv'
  BY <1>8, <1>9 DEF PairsInv
<1> QED
  BY <1>6, <1>7, <1>10 DEF TransportInv

----------------------------------------------------------------------------
(* Connected, Refused, Closed                                              *)

\* A connection attempt ends.
Ends(s, x, y) == Marked(s[1], s[2], x) /\ near' = [near EXCEPT ![s] = y]

LEMMA AttemptEnds ==
    ASSUME Types, Links, NEW s \in Socket, near[s] = "connecting",
           NEW x \in {"written", "rejected"}, NEW y \in {"open", "closed"},
           Ends(s, x, y)
    PROVE  /\ Steady /\ calls' \in [Node -> Seq(CallRecord)]
           /\ s[1] \in Node /\ s[2] \in DOMAIN calls[s[1]] /\ s[2] \in Nat /\ s[2] <= Len(calls[s[1]])
           /\ To(s) \in Node /\ calls[s[1]][s[2]].to = To(s)
           /\ calls[s[1]][s[2]].state = "connecting" /\ calls'[s[1]][s[2]].state = x
           /\ \A n \in Node : \A j \in DOMAIN calls[n] :
                (n # s[1] \/ j # s[2]) => calls'[n][j].state = calls[n][j].state
           /\ far[s] # "open"
           /\ near' \in [Socket -> {"none", "connecting", "open", "ended", "closed"}]
           /\ \A t \in Socket : near'[t] = IF t = s THEN y ELSE near[t]
<1> PICK p, i : p = s[1] /\ i = s[2]
  OBVIOUS
<1>1. p \in Node /\ i \in DOMAIN calls[p] /\ calls[p][i].state = "connecting" /\ far[s] # "open"
  BY SocketParts DEF Links, Call
<1>2. /\ calls' \in [Node -> Seq(CallRecord)]
      /\ \A m \in Node : /\ DOMAIN calls'[m] = DOMAIN calls[m] /\ Len(calls'[m]) = Len(calls[m])
                         /\ \A j \in DOMAIN calls[m] :
                              /\ calls'[m][j].to = calls[m][j].to
                              /\ calls'[m][j].socket = calls[m][j].socket
                              /\ calls'[m][j].state = IF m = p /\ j = i THEN x ELSE calls[m][j].state
  <2>1. Marked(p, i, x) /\ x \in {"connecting", "due", "written", "rejected"}
    BY DEF Ends
  <2> QED
    BY <1>1, <2>1, StateChange
<1>3. calls[p][i].to \in Node /\ i \in Nat /\ i <= Len(calls[p])
  BY <1>1, CallTypes
<1>4. To(s) = calls[p][i].to
  BY DEF To, Call
<1>5. /\ near' \in [Socket -> {"none", "connecting", "open", "ended", "closed"}]
      /\ \A t \in Socket : near'[t] = IF t = s THEN y ELSE near[t]
  BY DEF Types, TypeOK, Ends
<1>6. Steady
  <2>1. \A m \in Node : \A j \in DOMAIN calls[m] :
           calls'[m][j].state = calls[m][j].state \/ calls'[m][j].state = x
    BY <1>2
  <2>2. \A t \in Socket : near'[t] = "none" <=> near[t] = "none"
    BY <1>5
  <2> QED
    BY <1>2, <2>1, <2>2 DEF Steady
<1>7. calls'[p][i].state = x /\ \A n \in Node : \A j \in DOMAIN calls[n] :
         (n # p \/ j # i) => calls'[n][j].state = calls[n][j].state
  BY <1>1, <1>2
<1> QED
  BY <1>1, <1>2, <1>3, <1>4, <1>5, <1>6, <1>7

\* What such a step does to the links, whatever it does to the map.
LEMMA AttemptLinks ==
    ASSUME Types, Links, NEW s \in Socket, near[s] = "connecting",
           NEW x \in {"written", "rejected"}, NEW y \in {"open", "closed"},
           Ends(s, x, y),
           UNCHANGED <<up, stop, due>>,
           far' = far \/ (y = "open" /\ far' = [far EXCEPT ![s] = "open"]),
           connections' = connections \/ (y = "open" /\ connections' = [connections EXCEPT ![s[1]][To(s)] = s])
    PROVE  Links'
<1>1. /\ Steady
      /\ s[1] \in Node /\ s[2] \in DOMAIN calls[s[1]]
      /\ To(s) \in Node /\ calls[s[1]][s[2]].to = To(s)
      /\ calls[s[1]][s[2]].state = "connecting"
      /\ \A n \in Node : \A j \in DOMAIN calls[n] :
           (n # s[1] \/ j # s[2]) => calls'[n][j].state = calls[n][j].state
      /\ far[s] # "open"
      /\ \A t \in Socket : near'[t] = IF t = s THEN y ELSE near[t]
  BY AttemptEnds
<1>2. ASSUME NEW t \in Socket, near'[t] = "connecting"
      PROVE  near[t] = "connecting" /\ calls'[t[1]][t[2]].state = calls[t[1]][t[2]].state
  <2>1. t # s /\ near[t] = "connecting"
    BY <1>1, <1>2
  <2>2. t[1] \in Node /\ t[2] \in DOMAIN calls[t[1]]
    BY <2>1, SocketParts DEF Links
  <2>3. t[1] # s[1] \/ t[2] # s[2]
    BY <2>1, SocketParts
  <2> QED
    BY <1>1, <2>1, <2>2, <2>3
<1>3. \A t \in Socket : near'[t] = "ended" => stop'[t[1]] # "no"
  BY <1>1 DEF Links
<1>4. ASSUME NEW t \in Socket, far'[t] = "open"
      PROVE  near'[t] \in {"open", "ended"} \/ (near'[t] = "closed" /\ ~up'[t[1]])
  <2>1. CASE t = s
    <3>1. far'[s] = "open" => y = "open"
      BY <1>1 DEF Types, TypeOK
    <3> QED
      BY <1>1, <1>4, <2>1, <3>1
  <2>2. CASE t # s
    <3>1. far[t] = "open"
      BY <1>4, <2>2 DEF Types, TypeOK
    <3> QED
      BY <1>1, <2>2, <3>1 DEF Links
  <2> QED
    BY <2>1, <2>2
<1>5. ASSUME NEW n \in Node, NEW m \in Node, connections'[n][m] # None
      PROVE  /\ connections'[n][m] \in Socket /\ connections'[n][m][1] = n
             /\ near'[connections'[n][m]] = "open" /\ calls[n][connections'[n][m][2]].to = m
  <2>1. \/ connections'[n][m] = connections[n][m]
        \/ y = "open" /\ n = s[1] /\ m = To(s) /\ connections'[n][m] = s
    <3>1. CASE connections' = connections
      BY <3>1
    <3>2. CASE y = "open" /\ connections' = [connections EXCEPT ![s[1]][To(s)] = s]
      <4>1. connections \in [Node -> [Node -> Socket \cup {None}]]
        BY DEF Types, TypeOK
      <4> QED
        BY <1>1, <3>2, <4>1
    <3> QED
      BY <3>1, <3>2
  <2>2. CASE connections'[n][m] = connections[n][m]
    <3>1. connections[n][m] \in Socket
      BY <1>5, <2>2 DEF Types, TypeOK
    <3>2. connections[n][m][1] = n /\ near[connections[n][m]] = "open"
          /\ calls[connections[n][m][1]][connections[n][m][2]].to = m
      BY <1>5, <2>2 DEF Links, To, Call
    <3>3. near'[connections[n][m]] = "open"
      BY <1>1, <3>1, <3>2
    <3> QED
      BY <2>2, <3>1, <3>2, <3>3
  <2>3. CASE y = "open" /\ n = s[1] /\ m = To(s) /\ connections'[n][m] = s
    BY <1>1, <2>3
  <2> QED
    BY <2>1, <2>2, <2>3
<1>6. ASSUME NEW n \in Node, NEW k \in DOMAIN due'[n]
      PROVE  /\ due'[n][k] \in DOMAIN calls[n] /\ calls'[n][due'[n][k]].state = "due"
             /\ \A j \in DOMAIN due'[n] : due'[n][j] = due'[n][k] => j = k
  <2>1. /\ due[n][k] \in DOMAIN calls[n] /\ calls[n][due[n][k]].state = "due"
        /\ \A j \in DOMAIN due[n] : due[n][j] = due[n][k] => j = k
    BY <1>6 DEF Links
  <2>2. n # s[1] \/ due[n][k] # s[2]
    BY <1>1, <2>1
  <2> QED
    BY <1>1, <2>1, <2>2
<1> QED
  BY <1>1, <1>2, <1>3, <1>4, <1>5, <1>6, SteadyLinks

LEMMA ConnectedStep ==
    ASSUME TransportInv, NEW s \in Socket, Connected(s)
    PROVE  TransportInv'
<1> PICK p, q, i : p = s[1] /\ q = To(s) /\ i = s[2]
  OBVIOUS
<1>0. Types /\ Links /\ PairsInv
  BY DEF TransportInv
<1>1. /\ near[s] = "connecting" /\ up[p]
      /\ Ends(s, "written", "open")
      /\ far' = [far EXCEPT ![s] = "open"]
      /\ connections' = [connections EXCEPT ![p][q] = s]
      /\ pipe' = [pipe EXCEPT ![s] = <<i>>]
      /\ UNCHANGED <<up, stop, accepted, due, handled, overlapped, crashes>>
  BY DEF Connected, Idle, Ends, Marked
<1>2. /\ Steady /\ calls' \in [Node -> Seq(CallRecord)]
      /\ p \in Node /\ i \in DOMAIN calls[p] /\ i \in Nat /\ i <= Len(calls[p])
      /\ q \in Node /\ calls[p][i].to = q
      /\ calls[p][i].state = "connecting" /\ calls'[p][i].state = "written"
      /\ near' \in [Socket -> {"none", "connecting", "open", "ended", "closed"}]
      /\ \A t \in Socket : near'[t] = IF t = s THEN "open" ELSE near[t]
  BY <1>0, <1>1, AttemptEnds
<1>3. Links'
  <2>1. /\ UNCHANGED <<up, stop, due>>
        /\ far' = [far EXCEPT ![s] = "open"]
        /\ connections' = [connections EXCEPT ![s[1]][To(s)] = s]
    BY <1>1
  <2>2. "written" \in {"written", "rejected"} /\ "open" \in {"open", "closed"}
    OBVIOUS
  <2> QED
    BY <1>0, <1>1, <2>1, <2>2, AttemptLinks
<1>4. pipe' \in [Socket -> Seq(Nat \cup {FIN})] /\ pipe'[s] = <<i>> /\ \A t \in Socket \ {s} : pipe'[t] = pipe[t]
  <2>1. <<i>> \in Seq(Nat \cup {FIN})
    BY <1>2
  <2> QED
    BY <1>0, <1>1, <2>1 DEF Types
<1>5. /\ connections' \in [Node -> [Node -> Socket \cup {None}]] /\ connections'[p][q] = s
      /\ \A n, m \in Node : <<n, m>> # <<p, q>> => connections'[n][m] = connections[n][m]
  <2>1. connections \in [Node -> [Node -> Socket \cup {None}]]
    BY <1>0 DEF Types, TypeOK
  <2> QED
    BY <1>1, <1>2, <2>1
<1>6. /\ far' \in [Socket -> {"none", "open", "closed"}] /\ far'[s] = "open"
      /\ \A t \in Socket \ {s} : far'[t] = far[t]
  BY <1>0, <1>1 DEF Types, TypeOK
<1>7. Types'
  BY <1>0, <1>1, <1>2, <1>4, <1>5, <1>6 DEF Types, TypeOK
<1>8. ASSUME NEW n \in Node, NEW m \in Node, <<n, m>> \notin overlapped', <<n, m>> # <<p, q>>
      PROVE  Kempt(n, m)' /\ Ordered(n, m)'
  <2>1. Kempt(n, m) /\ Ordered(n, m)
    BY <1>0, <1>1, <1>8 DEF PairsInv
  <2>2. \A t \in Mine(n, m) : t # s /\ t \in Socket
    BY <1>8 DEF Mine
  <2>3. \A t \in Mine(n, m) : near'[t] = near[t] /\ far'[t] = far[t] /\ pipe'[t] = pipe[t]
    BY <1>2, <1>4, <1>6, <2>2
  <2>4. /\ connections'[n][m] = connections[n][m] /\ stop'[n] = stop[n] /\ handled'[m][n] = handled[m][n]
        /\ \A t \in Mine(n, m) : /\ near'[t] \in {near[t], "closed"}
                                 /\ far'[t] = "open" => far[t] = "open" /\ pipe'[t] = pipe[t]
    BY <1>1, <1>5, <1>8, <2>3
  <2>5. Gentle(n, m)
    BY <1>0, <1>2, <2>4, SteadyGentle
  <2> QED
    BY <1>0, <1>7, <2>1, <2>5, GentleKept
<1>9. ASSUME <<p, q>> \notin overlapped'
      PROVE  Kempt(p, q)' /\ Ordered(p, q)'
  <2>1. Kempt(p, q) /\ Ordered(p, q)
    BY <1>0, <1>1, <1>2, <1>9 DEF PairsInv
  <2>2. i \in Waiting(p, q) /\ Waiting(p, q)' = {} /\ stop[p] = "no"
    BY <1>0, <1>2, <2>1, Done
  <2>3. Mine(p, q)' = Mine(p, q) /\ s \in Mine(p, q) /\ Len(calls[p]) \in Nat /\ Len(calls'[p]) = Len(calls[p])
    BY <1>0, <1>1, <1>2, SteadyFacts DEF Mine
  \* Nothing else is open or on the way.
  <2>4. ASSUME NEW t \in Mine(p, q), t # s
        PROVE  near[t] \notin {"connecting", "open"} /\ far[t] # "open"
    <3>1. connections[p][q] = None
      BY <1>1, <2>1, <2>3 DEF Kempt
    <3>2. near[t] # "open"
      BY <2>1, <3>1, NoneAssumption DEF Kempt, Mine
    <3>3. t \in Socket /\ t[1] = p /\ t[2] \in DOMAIN calls[p] /\ calls[p][t[2]].to = q
      BY <1>0 DEF Links, Mine, To, Call
    <3>4. near[t] # "connecting"
      <4>1. SUFFICES ASSUME near[t] = "connecting" PROVE FALSE
        OBVIOUS
      <4>2. t[2] \in Waiting(p, q)
        BY <1>0, <3>3, <4>1 DEF Links, Call, Waiting
      <4>3. t[2] = i
        BY <2>1, <2>2, <4>2 DEF Kempt
      <4> QED
        BY <2>4, <3>3, <4>3, SocketParts
    <3>5. near[t] # "ended"
      BY <1>0, <2>2, <3>3 DEF Links
    <3>6. far[t] # "open"
      BY <1>0, <1>1, <3>2, <3>3, <3>5 DEF Links
    <3> QED
      BY <3>2, <3>4, <3>6
  <2>5. \A t \in Flowing(p, q)' : t = s
    <3> SUFFICES ASSUME NEW t \in Flowing(p, q)', t # s PROVE FALSE
      OBVIOUS
    <3>1. t \in Mine(p, q) /\ t \in Socket /\ far'[t] = "open"
      BY <2>3 DEF Flowing, Mine
    <3> QED
      BY <1>6, <2>4, <3>1
  <2>6. Kempt(p, q)'
    <3>1. \A t \in Mine(p, q)' : /\ near'[t] = "open" => connections'[p][q] = t
                                 /\ near'[t] # "connecting"
      <4> SUFFICES ASSUME NEW t \in Mine(p, q)'
                   PROVE  (near'[t] = "open" => connections'[p][q] = t) /\ near'[t] # "connecting"
        OBVIOUS
      <4>1. t \in Mine(p, q) /\ t \in Socket
        BY <2>3 DEF Mine
      <4> QED
        BY <1>2, <1>5, <2>4, <4>1
    <3>2. stop'[p] = "no"
      BY <1>1, <2>2
    <3> QED
      BY <2>2, <2>5, <3>1, <3>2 DEF Kempt
  <2>7. InOrder(<<i>>) /\ Below(<<i>>, Len(calls[p]) + 1)
    <3>1. DOMAIN <<i>> = {1} /\ <<i>>[1] = i
      OBVIOUS
    <3>2. i < Len(calls[p]) + 1
      BY <1>2, <2>3
    <3> QED
      BY <3>1, <3>2 DEF InOrder, Below
  <2>8. \A k \in DOMAIN <<i>> : <<i>>[k] = i
    OBVIOUS
  <2>9. Below(handled[q][p], i) /\ InOrder(handled[q][p]) /\ Below(handled[q][p], Len(calls[p]) + 1)
    BY <2>1, <2>2 DEF Ordered
  <2>10. handled' = handled
    BY <1>1
  <2>11. Ordered(p, q)'
    BY <1>4, <2>2, <2>3, <2>5, <2>7, <2>8, <2>9, <2>10 DEF Ordered
  <2> QED
    BY <2>6, <2>11
<1>10. PairsInv'
  BY <1>8, <1>9 DEF PairsInv
<1> QED
  BY <1>3, <1>7, <1>10 DEF TransportInv

LEMMA RefusedStep ==
    ASSUME TransportInv, NEW s \in Socket, Refused(s)
    PROVE  TransportInv'
<1>0. Types /\ Links /\ PairsInv
  BY DEF TransportInv
<1>1. /\ near[s] = "connecting"
      /\ Ends(s, "rejected", "closed")
      /\ UNCHANGED <<up, stop, connections, far, accepted, pipe, due, handled, overlapped, crashes>>
  BY DEF Refused, Ends, Marked
<1>2. /\ Steady /\ calls' \in [Node -> Seq(CallRecord)]
      /\ near' \in [Socket -> {"none", "connecting", "open", "ended", "closed"}]
      /\ \A t \in Socket : near'[t] = IF t = s THEN "closed" ELSE near[t]
  BY <1>0, <1>1, AttemptEnds
<1>3. Links'
  <2>1. UNCHANGED <<up, stop, due, far, connections>>
    BY <1>1
  <2> QED
    BY <1>0, <1>1, <2>1, AttemptLinks
<1>4. Types'
  BY <1>0, <1>1, <1>2 DEF Types, TypeOK
<1>5. ASSUME NEW n \in Node, NEW m \in Node, <<n, m>> \notin overlapped'
      PROVE  Kempt(n, m)' /\ Ordered(n, m)'
  <2>1. Kempt(n, m) /\ Ordered(n, m)
    BY <1>0, <1>1, <1>5 DEF PairsInv
  <2>2. \A t \in Mine(n, m) : near'[t] \in {near[t], "closed"} /\ far'[t] = far[t] /\ pipe'[t] = pipe[t]
    BY <1>1, <1>2 DEF Mine
  <2>3. Gentle(n, m)
    BY <1>0, <1>1, <1>2, <2>2, SteadyGentle
  <2> QED
    BY <1>0, <1>4, <2>1, <2>3, GentleKept
<1>6. PairsInv'
  BY <1>5 DEF PairsInv
<1> QED
  BY <1>3, <1>4, <1>6 DEF TransportInv

LEMMA ClosedStep ==
    ASSUME TransportInv, NEW s \in Socket, Closed(s)
    PROVE  TransportInv'
<1> PICK p, q : p = s[1] /\ q = To(s)
  OBVIOUS
<1>0. Types /\ Links /\ PairsInv
  BY DEF TransportInv
<1>1. /\ near[s] \in {"open", "ended"} /\ far[s] = "closed" /\ up[p]
      /\ near' = [near EXCEPT ![s] = "closed"]
      /\ connections' = [connections EXCEPT ![p][q] = None]
      /\ UNCHANGED <<up, stop, far, accepted, pipe, calls, due, handled, overlapped, crashes>>
  BY DEF Closed, Idle
<1>2. /\ near' \in [Socket -> {"none", "connecting", "open", "ended", "closed"}]
      /\ \A t \in Socket : near'[t] = IF t = s THEN "closed" ELSE near[t]
  BY <1>0, <1>1 DEF Types, TypeOK
<1>3. Steady
  BY <1>1, <1>2 DEF Steady
<1>4. p \in Node /\ q \in Node
  <2>1. p \in Node /\ s[2] \in DOMAIN calls[p] /\ q = calls[p][s[2]].to
    BY <1>0, <1>1, <1>3, SteadyFacts
  <2> QED
    BY <1>0, <2>1, CallTypes
<1>5. /\ connections' \in [Node -> [Node -> Socket \cup {None}]] /\ connections'[p][q] = None
      /\ \A n, m \in Node : <<n, m>> # <<p, q>> => connections'[n][m] = connections[n][m]
  <2>1. connections \in [Node -> [Node -> Socket \cup {None}]]
    BY <1>0 DEF Types, TypeOK
  <2> QED
    BY <1>1, <1>4, <2>1
<1>6. Types'
  BY <1>0, <1>1, <1>2, <1>5 DEF Types, TypeOK
<1>7. Links'
  <2>1. \A t \in Socket : near'[t] = "connecting" =>
           near[t] = "connecting" /\ calls'[t[1]][t[2]].state = calls[t[1]][t[2]].state
    BY <1>1, <1>2
  <2>2. \A t \in Socket : near'[t] = "ended" => stop'[t[1]] # "no"
    BY <1>0, <1>1, <1>2 DEF Links
  <2>3. \A t \in Socket : far'[t] = "open" =>
           near'[t] \in {"open", "ended"} \/ (near'[t] = "closed" /\ ~up'[t[1]])
    BY <1>0, <1>1, <1>2 DEF Links
  <2>4. ASSUME NEW n \in Node, NEW m \in Node, connections'[n][m] # None
        PROVE  /\ connections'[n][m] \in Socket /\ connections'[n][m][1] = n
               /\ near'[connections'[n][m]] = "open" /\ calls[n][connections'[n][m][2]].to = m
    <3>1. <<n, m>> # <<p, q>> /\ connections'[n][m] = connections[n][m] /\ connections[n][m] \in Socket
      <4>1. <<n, m>> # <<p, q>>
        BY <1>5, <2>4
      <4>2. connections'[n][m] = connections[n][m]
        BY <1>5, <4>1
      <4> QED
        BY <1>0, <2>4, <4>1, <4>2 DEF Types, TypeOK
    <3>2. connections[n][m][1] = n /\ near[connections[n][m]] = "open" /\ To(connections[n][m]) = m
          /\ calls[n][connections[n][m][2]].to = m
      BY <1>0, <2>4, <3>1 DEF Links, To, Call
    <3>3. connections[n][m] # s
      BY <3>1, <3>2
    <3> QED
      BY <1>2, <3>1, <3>2, <3>3
  <2>5. \A n \in Node : \A k \in DOMAIN due'[n] :
           /\ due'[n][k] \in DOMAIN calls[n] /\ calls'[n][due'[n][k]].state = "due"
           /\ \A j \in DOMAIN due'[n] : due'[n][j] = due'[n][k] => j = k
    BY <1>0, <1>1 DEF Links
  <2> QED
    BY <1>0, <1>3, <2>1, <2>2, <2>3, <2>4, <2>5, SteadyLinks
<1>8. ASSUME NEW n \in Node, NEW m \in Node, <<n, m>> \notin overlapped', <<n, m>> # <<p, q>>
      PROVE  Kempt(n, m)' /\ Ordered(n, m)'
  <2>1. Kempt(n, m) /\ Ordered(n, m)
    BY <1>0, <1>1, <1>8 DEF PairsInv
  <2>2. /\ connections'[n][m] = connections[n][m] /\ stop'[n] = stop[n] /\ handled'[m][n] = handled[m][n]
        /\ \A t \in Mine(n, m) : /\ near'[t] \in {near[t], "closed"}
                                 /\ far'[t] = "open" => far[t] = "open" /\ pipe'[t] = pipe[t]
    BY <1>1, <1>2, <1>5, <1>8 DEF Mine
  <2>3. Gentle(n, m)
    BY <1>0, <1>3, <2>2, SteadyGentle
  <2> QED
    BY <1>0, <1>6, <2>1, <2>3, GentleKept
<1>9. ASSUME <<p, q>> \notin overlapped'
      PROVE  Kempt(p, q)' /\ Ordered(p, q)'
  <2>1. Kempt(p, q) /\ Ordered(p, q)
    BY <1>0, <1>1, <1>4, <1>9 DEF PairsInv
  <2>2. Mine(p, q)' = Mine(p, q) /\ Waiting(p, q)' = Waiting(p, q) /\ s \in Mine(p, q)
    BY <1>0, <1>1, <1>3, <1>4, SteadyFacts DEF Mine, Waiting
  <2>3. Flowing(p, q)' = Flowing(p, q)
    BY <1>1, <2>2 DEF Flowing
  \* No other socket is open.
  <2>4. ASSUME NEW t \in Mine(p, q), near[t] = "open" PROVE t = s
    <3>1. connections[p][q] = t /\ t # None
      BY <2>1, <2>4, NoneAssumption DEF Kempt, Mine
    <3>2. near[s] = "open"
      BY <1>0, <1>1, <2>1, <3>1 DEF Kempt, Links
    <3> QED
      BY <2>1, <2>2, <3>1, <3>2 DEF Kempt
  <2>5. Kempt(p, q)'
    <3>1. \A t \in Mine(p, q)' : near'[t] # "open"
      BY <1>2, <2>2, <2>4 DEF Mine
    <3>2. stop' = stop
      BY <1>1
    <3> QED
      BY <1>5, <2>1, <2>2, <2>3, <3>1, <3>2 DEF Kempt
  <2>6. UNCHANGED <<calls, pipe, handled>>
    BY <1>1
  <2>7. Ordered(p, q)'
    BY <2>1, <2>2, <2>3, <2>6 DEF Ordered
  <2> QED
    BY <2>5, <2>7
<1>10. PairsInv'
  BY <1>8, <1>9 DEF PairsInv
<1> QED
  BY <1>6, <1>7, <1>10 DEF TransportInv

----------------------------------------------------------------------------
(* Receive and ReceiveEnd                                                  *)

LEMMA ReceiveStep ==
    ASSUME TransportInv, NEW s \in Socket, Receive(s)
    PROVE  TransportInv'
<1> PICK p, q, i : p = s[1] /\ q = To(s) /\ i = Head(pipe[s])
  OBVIOUS
<1>0. Types /\ Links /\ PairsInv
  BY DEF TransportInv
<1>1. /\ far[s] = "open" /\ pipe[s] # <<>> /\ i # FIN
      /\ handled' = [handled EXCEPT ![q][p] = Append(@, i)]
      /\ pipe' = [pipe EXCEPT ![s] = Tail(@)]
      /\ UNCHANGED <<up, stop, connections, near, far, accepted, calls, due, overlapped, crashes>>
  BY DEF Receive, push
<1>2. Steady
  BY <1>1 DEF Steady
<1>3. p \in Node /\ q \in Node /\ s \in Mine(p, q)
  <2>1. near[s] # "none"
    BY <1>0, <1>1 DEF Links
  <2>2. p \in Node /\ s[2] \in DOMAIN calls[p] /\ q = calls[p][s[2]].to
    BY <1>0, <1>2, <2>1, SteadyFacts
  <2>3. q \in Node
    BY <1>0, <2>2, CallTypes
  <2> QED
    BY <2>1, <2>2, <2>3 DEF Mine
<1>4. /\ pipe[s] \in Seq(Nat \cup {FIN}) /\ Tail(pipe[s]) \in Seq(Nat \cup {FIN}) /\ i \in Nat
      /\ 1 \in DOMAIN pipe[s] /\ pipe[s][1] = i
  <2>1. pipe[s] \in Seq(Nat \cup {FIN})
    BY <1>0 DEF Types
  <2> QED
    BY <1>1, <2>1, Tailed
<1>5. /\ pipe' \in [Socket -> Seq(Nat \cup {FIN})] /\ pipe'[s] = Tail(pipe[s])
      /\ \A t \in Socket \ {s} : pipe'[t] = pipe[t]
  BY <1>0, <1>1, <1>4 DEF Types
<1>6. /\ handled' \in [Node -> [Node -> Seq(Nat)]]
      /\ handled[q][p] \in Seq(Nat) /\ handled'[q][p] = Append(handled[q][p], i)
      /\ \A n, m \in Node : <<n, m>> # <<p, q>> => handled'[m][n] = handled[m][n]
  <2>1. handled \in [Node -> [Node -> Seq(Nat)]] /\ handled[q][p] \in Seq(Nat)
    BY <1>0, <1>3 DEF Types
  <2>2. Append(handled[q][p], i) \in Seq(Nat)
    BY <1>4, <2>1, Appended
  <2> QED
    BY <1>1, <1>3, <2>1, <2>2
<1>7. Types'
  BY <1>0, <1>1, <1>5, <1>6 DEF Types, TypeOK
<1>8. Links'
  <2>1. UNCHANGED <<up, stop, connections, near, far, calls, due>>
    BY <1>1
  <2> QED
    BY <1>0, <2>1 DEF Links, To, Call
<1>9. ASSUME NEW n \in Node, NEW m \in Node, <<n, m>> \notin overlapped', <<n, m>> # <<p, q>>
      PROVE  Kempt(n, m)' /\ Ordered(n, m)'
  <2>1. Kempt(n, m) /\ Ordered(n, m)
    BY <1>0, <1>1, <1>9 DEF PairsInv
  <2>2. \A t \in Mine(n, m) : t # s /\ t \in Socket
    BY <1>9 DEF Mine
  <2>3. /\ connections'[n][m] = connections[n][m] /\ stop'[n] = stop[n] /\ handled'[m][n] = handled[m][n]
        /\ \A t \in Mine(n, m) : /\ near'[t] \in {near[t], "closed"}
                                 /\ far'[t] = "open" => far[t] = "open" /\ pipe'[t] = pipe[t]
    BY <1>1, <1>5, <1>6, <1>9, <2>2
  <2>4. Gentle(n, m)
    BY <1>0, <1>2, <2>3, SteadyGentle
  <2> QED
    BY <1>0, <1>7, <2>1, <2>4, GentleKept
<1>10. ASSUME <<p, q>> \notin overlapped'
       PROVE  Kempt(p, q)' /\ Ordered(p, q)'
  <2>1. Kempt(p, q) /\ Ordered(p, q)
    BY <1>0, <1>1, <1>3, <1>10 DEF PairsInv
  <2>2. Mine(p, q)' = Mine(p, q) /\ Waiting(p, q)' = Waiting(p, q) /\ Flowing(p, q)' = Flowing(p, q)
    BY <1>1 DEF Mine, Waiting, Flowing, To, Call
  <2>3. Kempt(p, q)'
    BY <1>1, <2>1, <2>2 DEF Kempt
  <2>4. s \in Flowing(p, q) /\ \A t \in Flowing(p, q) : t = s
    BY <1>1, <1>3, <2>1 DEF Flowing, Kempt
  \* The first number is past what is handled and before all the rest.
  <2>5. /\ InOrder(pipe[s]) /\ Below(pipe[s], Len(calls[p]) + 1)
        /\ InOrder(handled[q][p]) /\ Below(handled[q][p], i) /\ Below(handled[q][p], Len(calls[p]) + 1)
        /\ \A j \in Waiting(p, q) : Below(pipe[s], j) /\ Below(handled[q][p], j)
        /\ \A k \in DOMAIN pipe[s] : pipe[s][k] \in Nat => Below(handled[q][p], pipe[s][k])
    BY <1>4, <2>1, <2>4 DEF Ordered
  <2>6. /\ i < Len(calls[p]) + 1
        /\ \A j \in Waiting(p, q) : i < j
    BY <1>4, <2>5 DEF Below
  <2>7. /\ InOrder(Tail(pipe[s])) /\ Below(Tail(pipe[s]), Len(calls[p]) + 1)
        /\ \A j \in Waiting(p, q) : Below(Tail(pipe[s]), j)
        /\ \A k \in DOMAIN Tail(pipe[s]) : Tail(pipe[s])[k] \in Nat => i < Tail(pipe[s])[k]
    BY <1>1, <1>4, <2>5, OrderTail
  <2>8. /\ InOrder(Append(handled[q][p], i))
        /\ \A x : Below(handled[q][p], x) /\ i < x => Below(Append(handled[q][p], i), x)
    BY <1>4, <1>6, <2>5, OrderAppend, BelowAppend
  <2>9. ASSUME NEW k \in DOMAIN Tail(pipe[s]), Tail(pipe[s])[k] \in Nat
        PROVE  Below(Append(handled[q][p], i), Tail(pipe[s])[k])
    <3>1. k + 1 \in DOMAIN pipe[s] /\ Tail(pipe[s])[k] = pipe[s][k + 1]
      BY <1>1, <1>4, Tailed
    <3> QED
      BY <2>5, <2>7, <2>8, <2>9, <3>1
  <2>10. calls' = calls
    BY <1>1
  <2>11. Ordered(p, q)'
    <3>1. /\ InOrder(handled'[q][p]) /\ Below(handled'[q][p], Len(calls'[p]) + 1)
          /\ \A j \in Waiting(p, q)' : Below(handled'[q][p], j)
      BY <1>6, <2>2, <2>5, <2>6, <2>8, <2>10
    <3>2. /\ InOrder(pipe'[s]) /\ Below(pipe'[s], Len(calls'[p]) + 1)
          /\ \A j \in Waiting(p, q)' : Below(pipe'[s], j)
          /\ \A k \in DOMAIN pipe'[s] : pipe'[s][k] \in Nat => Below(handled'[q][p], pipe'[s][k])
      BY <1>5, <1>6, <2>2, <2>7, <2>9, <2>10
    <3> QED
      BY <2>2, <2>4, <3>1, <3>2 DEF Ordered
  <2> QED
    BY <2>3, <2>11
<1>11. PairsInv'
  BY <1>9, <1>10 DEF PairsInv
<1> QED
  BY <1>7, <1>8, <1>11 DEF TransportInv

LEMMA AcceptStep ==
    ASSUME TransportInv, NEW s \in Socket, Accept(s)
    PROVE  TransportInv'
<1>0. Types /\ Links /\ PairsInv
  BY DEF TransportInv
<1>1. /\ accepted' = accepted \cup {s}
      /\ UNCHANGED <<up, stop, connections, near, far, pipe, calls, due, handled, overlapped, crashes>>
  BY DEF Accept
<1>2. Types'
  BY <1>0, <1>1 DEF Types, TypeOK
<1>3. Links'
  BY <1>0, <1>1 DEF Links, To, Call
<1>4. Steady
  BY <1>1 DEF Steady
<1>5. ASSUME NEW n \in Node, NEW m \in Node, <<n, m>> \notin overlapped'
      PROVE  Kempt(n, m)' /\ Ordered(n, m)'
  <2>1. Kempt(n, m) /\ Ordered(n, m)
    BY <1>0, <1>1, <1>5 DEF PairsInv
  <2>2. Gentle(n, m)
    BY <1>0, <1>1, <1>4, SteadyGentle
  <2> QED
    BY <1>0, <1>2, <2>1, <2>2, GentleKept
<1>6. PairsInv'
  BY <1>5 DEF PairsInv
<1> QED
  BY <1>2, <1>3, <1>6 DEF TransportInv

LEMMA ReceiveEndStep ==
    ASSUME TransportInv, NEW s \in Socket, ReceiveEnd(s)
    PROVE  TransportInv'
<1>0. Types /\ Links /\ PairsInv
  BY DEF TransportInv
<1>1. /\ far' = [far EXCEPT ![s] = "closed"]
      /\ pipe' = [pipe EXCEPT ![s] = <<>>]
      /\ UNCHANGED <<up, stop, connections, near, accepted, calls, due, handled, overlapped, crashes>>
  BY DEF ReceiveEnd
<1>2. Steady
  BY <1>1 DEF Steady
<1>3. /\ pipe' \in [Socket -> Seq(Nat \cup {FIN})] /\ far' \in [Socket -> {"none", "open", "closed"}]
      /\ \A t \in Socket : far'[t] = "open" => far[t] = "open" /\ pipe'[t] = pipe[t]
  BY <1>0, <1>1, EmptySeq DEF Types, TypeOK
<1>4. Types'
  BY <1>0, <1>1, <1>3 DEF Types, TypeOK
<1>5. Links'
  BY <1>0, <1>1, <1>3 DEF Links, To, Call
<1>6. ASSUME NEW n \in Node, NEW m \in Node, <<n, m>> \notin overlapped'
      PROVE  Kempt(n, m)' /\ Ordered(n, m)'
  <2>1. Kempt(n, m) /\ Ordered(n, m)
    BY <1>0, <1>1, <1>6 DEF PairsInv
  <2>2. /\ connections'[n][m] = connections[n][m] /\ stop'[n] = stop[n] /\ handled'[m][n] = handled[m][n]
        /\ \A t \in Mine(n, m) : /\ near'[t] \in {near[t], "closed"}
                                 /\ far'[t] = "open" => far[t] = "open" /\ pipe'[t] = pipe[t]
    BY <1>1, <1>3 DEF Mine
  <2>3. Gentle(n, m)
    BY <1>0, <1>2, <2>2, SteadyGentle
  <2> QED
    BY <1>0, <1>4, <2>1, <2>3, GentleKept
<1>7. PairsInv'
  BY <1>6 DEF PairsInv
<1> QED
  BY <1>4, <1>5, <1>7 DEF TransportInv

----------------------------------------------------------------------------
(* Stop and StopResolves                                                   *)

LEMMA StopStep ==
    ASSUME TransportInv, NEW p \in Node, Stop(p)
    PROVE  TransportInv'
<1>0. Types /\ Links /\ PairsInv
  BY DEF TransportInv
<1>1. /\ stop[p] = "no" /\ stop' = [stop EXCEPT ![p] = "waiting"]
      /\ overlapped' = overlapped \cup NotAwaited(p)
      /\ near' = [t \in Socket |-> IF t \in Kept(p) THEN "ended" ELSE near[t]]
      /\ far' = [t \in Socket |-> IF t \in Backlog(p) THEN "closed" ELSE far[t]]
      /\ pipe' = [t \in Socket |-> IF t \in Kept(p) THEN Append(pipe[t], FIN)
                                   ELSE IF t \in Backlog(p) THEN <<>> ELSE pipe[t]]
      /\ connections' = [connections EXCEPT ![p] = [m \in Node |-> None]]
      /\ UNCHANGED <<up, accepted, calls, due, handled, crashes>>
  BY DEF Stop
<1>2. \A t \in Kept(p) : t \in Socket /\ t[1] = p /\ near[t] = "open" /\ connections[p][To(t)] = t
  <2> SUFFICES ASSUME NEW t \in Kept(p)
               PROVE  t \in Socket /\ t[1] = p /\ near[t] = "open" /\ connections[p][To(t)] = t
    OBVIOUS
  <2>1. PICK m \in Node : t = connections[p][m] /\ t # None
    BY DEF Kept
  <2>2. t \in Socket
    BY <1>0, <2>1 DEF Types, TypeOK
  <2> QED
    BY <1>0, <2>1, <2>2 DEF Links
<1>3. \A n, m \in Node : connections[n][m] # None /\ n = p => connections[n][m] \in Kept(p)
  BY DEF Kept
<1>4. /\ stop' \in [Node -> {"no", "waiting", "done"}] /\ stop'[p] = "waiting"
      /\ \A n \in Node \ {p} : stop'[n] = stop[n]
  BY <1>0, <1>1 DEF Types, TypeOK
<1>5. /\ connections' \in [Node -> [Node -> Socket \cup {None}]]
      /\ \A m \in Node : connections'[p][m] = None
      /\ \A n \in Node \ {p} : \A m \in Node : connections'[n][m] = connections[n][m]
  <2>1. connections \in [Node -> [Node -> Socket \cup {None}]]
    BY <1>0 DEF Types, TypeOK
  <2> QED
    BY <1>1, <2>1
<1>6. /\ near' \in [Socket -> {"none", "connecting", "open", "ended", "closed"}]
      /\ \A t \in Socket : near'[t] = IF t \in Kept(p) THEN "ended" ELSE near[t]
  BY <1>0, <1>1 DEF Types, TypeOK
<1>7. /\ pipe' \in [Socket -> Seq(Nat \cup {FIN})]
      /\ \A t \in Socket : pipe[t] \in Seq(Nat \cup {FIN})
      /\ far' \in [Socket -> {"none", "open", "closed"}]
      /\ \A t \in Socket : far'[t] = "open" =>
           far[t] = "open" /\ pipe'[t] = IF t \in Kept(p) THEN Append(pipe[t], FIN) ELSE pipe[t]
  <2>1. \A t \in Socket : pipe[t] \in Seq(Nat \cup {FIN})
    BY <1>0 DEF Types
  <2>2. <<>> \in Seq(Nat \cup {FIN}) /\ \A t \in Socket : Append(pipe[t], FIN) \in Seq(Nat \cup {FIN})
    BY <2>1, Appended, EmptySeq
  <2>3. pipe' \in [Socket -> Seq(Nat \cup {FIN})]
    BY <1>1, <2>1, <2>2
  <2>4. far' \in [Socket -> {"none", "open", "closed"}]
    BY <1>0, <1>1 DEF Types, TypeOK
  <2>5. ASSUME NEW t \in Socket, far'[t] = "open"
        PROVE  far[t] = "open" /\ pipe'[t] = IF t \in Kept(p) THEN Append(pipe[t], FIN) ELSE pipe[t]
    <3>1. t \notin Backlog(p) /\ far[t] = "open"
      BY <1>1, <2>5
    <3> QED
      BY <1>1, <3>1
  <2> QED
    BY <2>1, <2>3, <2>4, <2>5
<1>8. Types'
  <2>1. overlapped' \subseteq Node \X Node
    BY <1>0, <1>1 DEF Types, TypeOK, NotAwaited
  <2> QED
    BY <1>0, <1>1, <1>4, <1>5, <1>6, <1>7, <2>1 DEF Types, TypeOK
<1>9. Steady
  <2>1. \A t \in Socket : near'[t] = "none" <=> near[t] = "none"
    BY <1>2, <1>6
  <2> QED
    BY <1>1, <2>1 DEF Steady
<1>10. Links'
  <2>1. \A t \in Socket : near'[t] = "connecting" =>
           near[t] = "connecting" /\ calls'[t[1]][t[2]].state = calls[t[1]][t[2]].state
    BY <1>1, <1>6
  <2>2. ASSUME NEW t \in Socket, near'[t] = "ended" PROVE stop'[t[1]] # "no"
    <3>1. CASE t[1] = p
      BY <1>4, <3>1
    <3>2. CASE t[1] # p
      <4>1. t[1] \in Node /\ near[t] = "ended"
        BY <1>2, <1>6, <2>2, <3>2, SocketParts
      <4> QED
        BY <1>0, <1>4, <3>2, <4>1 DEF Links
    <3> QED
      BY <3>1, <3>2
  <2>3. \A t \in Socket : far'[t] = "open" =>
           near'[t] \in {"open", "ended"} \/ (near'[t] = "closed" /\ ~up'[t[1]])
    BY <1>0, <1>1, <1>6, <1>7 DEF Links
  <2>4. ASSUME NEW n \in Node, NEW m \in Node, connections'[n][m] # None
        PROVE  /\ connections'[n][m] \in Socket /\ connections'[n][m][1] = n
               /\ near'[connections'[n][m]] = "open" /\ calls[n][connections'[n][m][2]].to = m
    <3>1. n # p
      BY <1>5, <2>4
    <3>2. connections'[n][m] = connections[n][m]
      BY <1>5, <3>1
    <3>3. connections[n][m] \in Socket
      BY <1>0, <2>4, <3>2 DEF Types, TypeOK
    <3>4. connections[n][m][1] = n /\ near[connections[n][m]] = "open"
          /\ calls[n][connections[n][m][2]].to = m
      BY <1>0, <2>4, <3>2 DEF Links, To, Call
    <3>5. near'[connections[n][m]] = "open"
      BY <1>2, <1>6, <3>1, <3>3, <3>4
    <3> QED
      BY <3>2, <3>3, <3>4, <3>5
  <2>5. \A n \in Node : \A k \in DOMAIN due'[n] :
           /\ due'[n][k] \in DOMAIN calls[n] /\ calls'[n][due'[n][k]].state = "due"
           /\ \A j \in DOMAIN due'[n] : due'[n][j] = due'[n][k] => j = k
    BY <1>0, <1>1 DEF Links
  <2> QED
    BY <1>0, <1>9, <2>1, <2>2, <2>3, <2>4, <2>5, SteadyLinks
<1>11. ASSUME NEW n \in Node, NEW m \in Node, <<n, m>> \notin overlapped', n # p
       PROVE  Kempt(n, m)' /\ Ordered(n, m)'
  <2>1. Kempt(n, m) /\ Ordered(n, m)
    BY <1>0, <1>1, <1>11 DEF PairsInv
  <2>2. \A t \in Mine(n, m) : t \notin Kept(p) /\ t \in Socket
    BY <1>2, <1>11 DEF Mine
  <2>3. /\ connections'[n][m] = connections[n][m] /\ stop'[n] = stop[n] /\ handled'[m][n] = handled[m][n]
        /\ \A t \in Mine(n, m) : /\ near'[t] \in {near[t], "closed"}
                                 /\ far'[t] = "open" => far[t] = "open" /\ pipe'[t] = pipe[t]
    BY <1>1, <1>4, <1>5, <1>6, <1>7, <1>11, <2>2
  <2>4. Gentle(n, m)
    BY <1>0, <1>9, <2>3, SteadyGentle
  <2> QED
    BY <1>0, <1>8, <2>1, <2>4, GentleKept
<1>12. ASSUME NEW m \in Node, <<p, m>> \notin overlapped'
       PROVE  Kempt(p, m)' /\ Ordered(p, m)'
  <2>1. Kempt(p, m) /\ Ordered(p, m)
    BY <1>0, <1>1, <1>12 DEF PairsInv
  <2>2. ~Unfinished(p, m)
    BY <1>1, <1>12 DEF NotAwaited
  <2>3. Waiting(p, m) = {}
    BY <2>2 DEF Unfinished, Waiting
  <2>4. Mine(p, m)' = Mine(p, m) /\ Waiting(p, m)' = {}
    BY <1>0, <1>9, <2>3, SteadyFacts
  <2>5. \A t \in Flowing(p, m)' : t \in Flowing(p, m) /\ far'[t] = "open"
    BY <1>7, <2>4 DEF Flowing, Mine
  <2>6. ASSUME NEW t \in Mine(p, m)' PROVE near'[t] # "open"
    <3>1. t \in Socket /\ t[1] = p /\ To(t) = m
      BY <2>4 DEF Mine
    <3>2. CASE near[t] = "open"
      <4>1. connections[p][m] = t
        BY <2>1, <2>4, <3>2 DEF Kempt
      <4>2. t \in Kept(p)
        BY <1>3, <3>1, <4>1, NoneAssumption
      <4> QED
        BY <1>6, <3>1, <4>2
    <3>3. CASE near[t] # "open"
      BY <1>6, <3>1, <3>3
    <3> QED
      BY <3>2, <3>3
  <2>7. Kempt(p, m)'
    BY <1>5, <2>1, <2>4, <2>5, <2>6 DEF Kempt
  <2>8. ASSUME NEW t \in Flowing(p, m), far'[t] = "open"
        PROVE  /\ InOrder(pipe'[t]) /\ Below(pipe'[t], Len(calls[p]) + 1)
               /\ \A k \in DOMAIN pipe'[t] : pipe'[t][k] \in Nat => Below(handled[m][p], pipe'[t][k])
    <3>1. t \in Socket /\ pipe[t] \in Seq(Nat \cup {FIN}) /\ FIN \in Nat \cup {FIN} /\ FIN \notin Nat
      BY <1>7, MarkAssumption DEF Flowing, Mine
    <3>2. /\ InOrder(pipe[t]) /\ Below(pipe[t], Len(calls[p]) + 1)
          /\ \A k \in DOMAIN pipe[t] : pipe[t][k] \in Nat => Below(handled[m][p], pipe[t][k])
      BY <2>1 DEF Ordered
    <3>3. CASE pipe'[t] = pipe[t]
      BY <3>2, <3>3
    <3>4. CASE pipe'[t] = Append(pipe[t], FIN)
      <4>1. InOrder(Append(pipe[t], FIN)) /\ Below(Append(pipe[t], FIN), Len(calls[p]) + 1)
        BY <3>1, <3>2, OrderAppend, BelowAppend
      <4>2. \A k \in DOMAIN Append(pipe[t], FIN) : Append(pipe[t], FIN)[k] \in Nat =>
               k \in DOMAIN pipe[t] /\ Append(pipe[t], FIN)[k] = pipe[t][k]
        <5>1. /\ DOMAIN pipe[t] = 1..Len(pipe[t]) /\ DOMAIN Append(pipe[t], FIN) = 1..(Len(pipe[t]) + 1)
              /\ Len(pipe[t]) \in Nat
              /\ Append(pipe[t], FIN)[Len(pipe[t]) + 1] = FIN
              /\ \A k \in DOMAIN pipe[t] : Append(pipe[t], FIN)[k] = pipe[t][k]
          BY <3>1, Appended
        <5> QED
          BY <3>1, <5>1
      <4> QED
        BY <3>2, <3>4, <4>1, <4>2
    <3> QED
      BY <1>7, <2>8, <3>1, <3>3, <3>4
  <2>9. UNCHANGED <<calls, handled>>
    BY <1>1
  <2>10. Ordered(p, m)'
    BY <2>1, <2>4, <2>5, <2>8, <2>9 DEF Ordered
  <2> QED
    BY <2>7, <2>10
<1>13. PairsInv'
  BY <1>11, <1>12 DEF PairsInv
<1> QED
  BY <1>8, <1>10, <1>13 DEF TransportInv

LEMMA StopResolvesStep ==
    ASSUME TransportInv, NEW p \in Node, StopResolves(p)
    PROVE  TransportInv'
<1>0. Types /\ Links /\ PairsInv
  BY DEF TransportInv
<1>1. /\ stop[p] = "waiting" /\ stop' = [stop EXCEPT ![p] = "done"]
      /\ UNCHANGED <<up, connections, near, far, accepted, pipe, calls, due, handled, overlapped, crashes>>
  BY DEF StopResolves, socketVars
<1>2. /\ stop' \in [Node -> {"no", "waiting", "done"}]
      /\ \A n \in Node : stop'[n] # "no" <=> stop[n] # "no"
  BY <1>0, <1>1 DEF Types, TypeOK
<1>3. Types'
  BY <1>0, <1>1, <1>2 DEF Types, TypeOK
<1>4. Links'
  BY <1>0, <1>1, <1>2, SocketParts DEF Links, To, Call
<1>5. Steady
  BY <1>1 DEF Steady
<1>6. ASSUME NEW n \in Node, NEW m \in Node, <<n, m>> \notin overlapped'
      PROVE  Kempt(n, m)' /\ Ordered(n, m)'
  <2>1. Kempt(n, m) /\ Ordered(n, m)
    BY <1>0, <1>1, <1>6 DEF PairsInv
  <2>2. Gentle(n, m)
    BY <1>0, <1>1, <1>2, <1>5, SteadyGentle
  <2> QED
    BY <1>0, <1>3, <2>1, <2>2, GentleKept
<1>7. PairsInv'
  BY <1>6 DEF PairsInv
<1> QED
  BY <1>3, <1>4, <1>7 DEF TransportInv

----------------------------------------------------------------------------
(* Crash                                                                   *)

LEMMA CrashStep ==
    ASSUME TransportInv, NEW p \in Node, Crash(p)
    PROVE  TransportInv'
<1> DEFINE mine == {t \in Opened(p) : far[t] = "open"}
<1>0. Types /\ Links /\ PairsInv
  BY DEF TransportInv
<1>1. /\ crashes < MaxCrashes /\ crashes' = crashes + 1
      /\ up' = [up EXCEPT ![p] = FALSE]
      /\ near' = [t \in Socket |-> IF t \in Opened(p) THEN "closed" ELSE near[t]]
      /\ far' = [t \in Socket |-> IF t \in Reaching(p) THEN "closed" ELSE far[t]]
      /\ connections' = [connections EXCEPT ![p] = [m \in Node |-> None]]
      /\ due' = [due EXCEPT ![p] = <<>>]
      /\ UNCHANGED <<stop, accepted, calls, handled, overlapped>>
  BY DEF Crash
<1>2. PICK arrive \in [mine -> 0..(Budget[p] + 1)] :
        /\ \A t \in mine : arrive[t] <= Len(pipe[t])
        /\ pipe' = [t \in Socket |->
                     IF t \in mine THEN Append(SubSeq(pipe[t], 1, arrive[t]), FIN)
                     ELSE IF t \in Reaching(p) THEN <<>> ELSE pipe[t]]
  BY DEF Crash
<1>3. \A t \in Socket : /\ t \in Opened(p) <=> t[1] = p /\ near[t] # "none"
                        /\ t \in Reaching(p) <=> far[t] = "open" /\ To(t) = p
                        /\ t \in mine <=> t \in Opened(p) /\ far[t] = "open"
  BY DEF Opened, Reaching
<1>4. mine \subseteq Socket
  BY DEF Opened
<1> HIDE DEF mine
<1>5. \A t \in mine : arrive[t] \in 0..Len(pipe[t]) /\ pipe[t] \in Seq(Nat \cup {FIN})
  <2> SUFFICES ASSUME NEW t \in mine
               PROVE  arrive[t] \in 0..Len(pipe[t]) /\ pipe[t] \in Seq(Nat \cup {FIN})
    OBVIOUS
  <2>1. pipe[t] \in Seq(Nat \cup {FIN})
    BY <1>0, <1>4 DEF Types
  <2>2. Len(pipe[t]) \in Nat /\ Budget[p] \in Nat
    BY <2>1, Domains, BudgetAssumption
  <2>3. arrive[t] \in 0..(Budget[p] + 1) /\ arrive[t] <= Len(pipe[t])
    BY <1>2
  <2> QED
    BY <2>1, <2>2, <2>3
<1>6. \A t \in mine : SubSeq(pipe[t], 1, arrive[t]) \in Seq(Nat \cup {FIN})
  BY <1>5, Cut
<1>7. /\ \A t \in mine : pipe'[t] = Append(SubSeq(pipe[t], 1, arrive[t]), FIN)
      /\ \A t \in Socket : t \notin mine /\ t \notin Reaching(p) => pipe'[t] = pipe[t]
      /\ pipe' \in [Socket -> Seq(Nat \cup {FIN})]
  <2>1. \A t \in mine : Append(SubSeq(pipe[t], 1, arrive[t]), FIN) \in Seq(Nat \cup {FIN})
    BY <1>6, Appended
  <2>2. <<>> \in Seq(Nat \cup {FIN}) /\ \A t \in Socket : pipe[t] \in Seq(Nat \cup {FIN})
    BY <1>0, EmptySeq DEF Types
  <2> QED
    BY <1>2, <1>4, <2>1, <2>2
<1>8. /\ near' \in [Socket -> {"none", "connecting", "open", "ended", "closed"}]
      /\ far' \in [Socket -> {"none", "open", "closed"}]
      /\ \A t \in Socket : /\ near'[t] = IF t \in Opened(p) THEN "closed" ELSE near[t]
                           /\ far'[t] = IF t \in Reaching(p) THEN "closed" ELSE far[t]
  BY <1>0, <1>1 DEF Types, TypeOK
<1>9. /\ connections' \in [Node -> [Node -> Socket \cup {None}]]
      /\ \A m \in Node : connections'[p][m] = None
      /\ \A n \in Node \ {p} : \A m \in Node : connections'[n][m] = connections[n][m]
  <2>1. connections \in [Node -> [Node -> Socket \cup {None}]]
    BY <1>0 DEF Types, TypeOK
  <2> QED
    BY <1>1, <2>1
<1>10. due' \in [Node -> Seq(Nat)] /\ due'[p] = <<>> /\ \A n \in Node \ {p} : due'[n] = due[n]
  BY <1>0, <1>1, EmptySeq DEF Types
<1>11. up' \in [Node -> BOOLEAN] /\ up'[p] = FALSE /\ \A n \in Node \ {p} : up'[n] = up[n]
  BY <1>0, <1>1 DEF Types, TypeOK
<1>12. Types'
  <2>1. crashes' \in 0..MaxCrashes
    BY <1>0, <1>1, BudgetAssumption DEF Types, TypeOK
  <2> QED
    BY <1>0, <1>1, <1>7, <1>8, <1>9, <1>10, <1>11, <2>1 DEF Types, TypeOK
<1>13. Steady
  <2>1. \A t \in Socket : near'[t] = "none" <=> near[t] = "none"
    BY <1>3, <1>8
  <2> QED
    BY <1>1, <2>1 DEF Steady
<1>14. Links'
  <2>1. \A t \in Socket : near'[t] = "connecting" =>
           near[t] = "connecting" /\ calls'[t[1]][t[2]].state = calls[t[1]][t[2]].state
    BY <1>1, <1>8
  <2>2. \A t \in Socket : near'[t] = "ended" => stop'[t[1]] # "no"
    BY <1>0, <1>1, <1>8 DEF Links
  <2>3. ASSUME NEW t \in Socket, far'[t] = "open"
        PROVE  near'[t] \in {"open", "ended"} \/ (near'[t] = "closed" /\ ~up'[t[1]])
    <3>1. near[t] \in {"open", "ended"} \/ (near[t] = "closed" /\ ~up[t[1]])
      BY <1>0, <1>8, <2>3 DEF Links
    <3>2. CASE t[1] = p
      BY <1>3, <1>8, <1>11, <3>1, <3>2
    <3>3. CASE t[1] # p
      BY <1>3, <1>8, <1>11, <3>1, <3>3, SocketParts
    <3> QED
      BY <3>2, <3>3
  <2>4. ASSUME NEW n \in Node, NEW m \in Node, connections'[n][m] # None
        PROVE  /\ connections'[n][m] \in Socket /\ connections'[n][m][1] = n
               /\ near'[connections'[n][m]] = "open" /\ calls[n][connections'[n][m][2]].to = m
    <3>1. n # p
      BY <1>9, <2>4
    <3>2. connections'[n][m] = connections[n][m]
      BY <1>9, <3>1
    <3>3. connections[n][m] \in Socket
      BY <1>0, <2>4, <3>2 DEF Types, TypeOK
    <3>4. connections[n][m][1] = n /\ near[connections[n][m]] = "open"
          /\ calls[n][connections[n][m][2]].to = m
      BY <1>0, <2>4, <3>2 DEF Links, To, Call
    <3>5. near'[connections[n][m]] = "open"
      BY <1>3, <1>8, <3>1, <3>3, <3>4
    <3> QED
      BY <3>2, <3>3, <3>4, <3>5
  <2>5. ASSUME NEW n \in Node, NEW k \in DOMAIN due'[n]
        PROVE  /\ due'[n][k] \in DOMAIN calls[n] /\ calls'[n][due'[n][k]].state = "due"
               /\ \A j \in DOMAIN due'[n] : due'[n][j] = due'[n][k] => j = k
    <3>1. n # p
      <4>1. DOMAIN <<>> = {}
        OBVIOUS
      <4> QED
        BY <1>10, <2>5, <4>1
    <3>2. due'[n] = due[n] /\ calls' = calls
      BY <1>1, <1>10, <3>1
    <3> QED
      BY <1>0, <2>5, <3>2 DEF Links
  <2> QED
    BY <1>0, <1>13, <2>1, <2>2, <2>3, <2>4, <2>5, SteadyLinks
<1>15. ASSUME NEW n \in Node, NEW m \in Node, <<n, m>> \notin overlapped', n # p
       PROVE  Kempt(n, m)' /\ Ordered(n, m)'
  <2>1. Kempt(n, m) /\ Ordered(n, m)
    BY <1>0, <1>1, <1>15 DEF PairsInv
  <2>2. \A t \in Mine(n, m) : t \in Socket /\ t \notin Opened(p) /\ t \notin mine
    BY <1>3, <1>15 DEF Mine
  <2>3. \A t \in Mine(n, m) : far'[t] = "open" => far[t] = "open" /\ pipe'[t] = pipe[t]
    BY <1>7, <1>8, <2>2
  <2>4. /\ connections'[n][m] = connections[n][m] /\ stop'[n] = stop[n] /\ handled'[m][n] = handled[m][n]
        /\ \A t \in Mine(n, m) : /\ near'[t] \in {near[t], "closed"}
                                 /\ far'[t] = "open" => far[t] = "open" /\ pipe'[t] = pipe[t]
    BY <1>1, <1>8, <1>9, <1>15, <2>2, <2>3
  <2>5. Gentle(n, m)
    BY <1>0, <1>13, <2>4, SteadyGentle
  <2> QED
    BY <1>0, <1>12, <2>1, <2>5, GentleKept
<1>16. ASSUME NEW m \in Node, <<p, m>> \notin overlapped'
       PROVE  Kempt(p, m)' /\ Ordered(p, m)'
  <2>1. Kempt(p, m) /\ Ordered(p, m)
    BY <1>0, <1>1, <1>16 DEF PairsInv
  <2>2. Mine(p, m)' = Mine(p, m) /\ Waiting(p, m)' \subseteq Waiting(p, m)
    BY <1>0, <1>13, SteadyFacts
  <2>3. \A t \in Mine(p, m)' : near'[t] = "closed"
    BY <1>3, <1>8, <2>2 DEF Mine
  <2>4. Flowing(p, m)' \subseteq Flowing(p, m)
    BY <1>8, <2>2 DEF Flowing, Mine
  <2>5. Kempt(p, m)'
    <3>1. stop' = stop
      BY <1>1
    <3> QED
      BY <1>9, <2>1, <2>2, <2>3, <2>4, <3>1 DEF Kempt
  <2>6. ASSUME NEW t \in Flowing(p, m)'
        PROVE  /\ InOrder(pipe'[t]) /\ Below(pipe'[t], Len(calls[p]) + 1)
               /\ \A j \in Waiting(p, m) : Below(pipe'[t], j)
               /\ \A k \in DOMAIN pipe'[t] : pipe'[t][k] \in Nat => Below(handled[m][p], pipe'[t][k])
    <3> DEFINE f == SubSeq(pipe[t], 1, arrive[t])
    <3>1. t \in Flowing(p, m) /\ t \in mine
      BY <1>3, <2>4 DEF Flowing, Mine
    <3>2. /\ InOrder(pipe[t]) /\ Below(pipe[t], Len(calls[p]) + 1)
          /\ \A j \in Waiting(p, m) : Below(pipe[t], j)
          /\ \A k \in DOMAIN pipe[t] : pipe[t][k] \in Nat => Below(handled[m][p], pipe[t][k])
      BY <2>1, <3>1 DEF Ordered
    <3>3. /\ f \in Seq(Nat \cup {FIN}) /\ InOrder(f)
          /\ \A x : Below(pipe[t], x) => Below(f, x)
          /\ \A k \in DOMAIN f : k \in DOMAIN pipe[t] /\ f[k] = pipe[t][k]
      BY <1>5, <1>6, <3>1, <3>2, OrderCut, Cut
    <3>4. pipe'[t] = Append(f, FIN)
      BY <1>7, <3>1
    <3> HIDE DEF f
    <3>5. FIN \in Nat \cup {FIN} /\ FIN \notin Nat
      BY MarkAssumption
    <3>6. InOrder(pipe'[t]) /\ \A x : Below(f, x) => Below(pipe'[t], x)
      BY <3>3, <3>4, <3>5, OrderAppend, BelowAppend
    <3>7. \A k \in DOMAIN pipe'[t] : pipe'[t][k] \in Nat => k \in DOMAIN f /\ pipe'[t][k] = f[k]
      <4>1. /\ DOMAIN f = 1..Len(f) /\ DOMAIN Append(f, FIN) = 1..(Len(f) + 1) /\ Len(f) \in Nat
            /\ Append(f, FIN)[Len(f) + 1] = FIN
            /\ \A k \in DOMAIN f : Append(f, FIN)[k] = f[k]
        BY <3>3, <3>5, Appended
      <4> QED
        BY <3>4, <3>5, <4>1
    <3> QED
      BY <3>2, <3>3, <3>6, <3>7
  <2>7. UNCHANGED <<calls, handled>>
    BY <1>1
  <2>8. Ordered(p, m)'
    BY <2>1, <2>2, <2>4, <2>6, <2>7 DEF Ordered
  <2> QED
    BY <2>5, <2>8
<1>17. PairsInv'
  BY <1>15, <1>16 DEF PairsInv
<1> QED
  BY <1>12, <1>14, <1>17 DEF TransportInv

----------------------------------------------------------------------------
(* The invariant                                                           *)

LEMMA InitOK == Init => TransportInv
<1> SUFFICES ASSUME Init PROVE TransportInv
  OBVIOUS
<1>1. /\ \A n \in Node : calls[n] = <<>> /\ due[n] = <<>>
      /\ \A n, m \in Node : connections[n][m] = None /\ handled[m][n] = <<>>
      /\ \A s \in Socket : near[s] = "none" /\ far[s] = "none"
  BY DEF Init
<1>2. DOMAIN <<>> = {}
  OBVIOUS
<1>3. Types
  BY BudgetAssumption, EmptySeq DEF Init, Types, TypeOK
<1>4. Links
  BY <1>1, <1>2 DEF Links
<1>5. ASSUME NEW n \in Node, NEW m \in Node PROVE Kempt(n, m) /\ Ordered(n, m)
  <2>1. Waiting(n, m) = {} /\ Mine(n, m) = {} /\ Flowing(n, m) = {}
    BY <1>1, <1>2 DEF Waiting, Mine, Flowing
  <2>2. InOrder(<<>>) /\ \A x : Below(<<>>, x)
    BY <1>2 DEF InOrder, Below
  <2>3. stop[n] = "no" /\ handled[m][n] = <<>>
    BY <1>1 DEF Init
  <2> QED
    BY <2>1, <2>2, <2>3 DEF Kempt, Ordered
<1> QED
  BY <1>3, <1>4, <1>5 DEF TransportInv, PairsInv

LEMMA StepOK == TransportInv /\ [Next]_vars => TransportInv'
<1> SUFFICES ASSUME TransportInv, [Next]_vars PROVE TransportInv'
  OBVIOUS
<1>1. ASSUME NEW n \in Node, NEW m \in Node \ {n}, send(n, m) PROVE TransportInv'
  BY <1>1, SendStep
<1>2. ASSUME NEW n \in Node, Write(n) PROVE TransportInv'
  BY <1>2, WriteStep
<1>3. ASSUME NEW n \in Node, Stop(n) PROVE TransportInv'
  BY <1>3, StopStep
<1>4. ASSUME NEW n \in Node, StopResolves(n) PROVE TransportInv'
  BY <1>4, StopResolvesStep
<1>5. ASSUME NEW n \in Node, Crash(n) PROVE TransportInv'
  BY <1>5, CrashStep
<1>6. ASSUME NEW s \in Socket, SocketStep(s) PROVE TransportInv'
  BY <1>6, ConnectedStep, RefusedStep, ClosedStep, AcceptStep, ReceiveStep, ReceiveEndStep DEF SocketStep
<1>7. CASE UNCHANGED vars
  <2>1. UNCHANGED <<up, stop, connections, near, far, accepted, pipe, calls, due, handled, overlapped, crashes>>
    BY <1>7 DEF vars, socketVars
  <2>2. Types'
    BY <2>1 DEF TransportInv, Types, TypeOK
  <2>3. Links'
    BY <2>1 DEF TransportInv, Links, To, Call
  <2>4. Steady
    BY <2>1 DEF Steady
  <2>5. ASSUME NEW n \in Node, NEW m \in Node, <<n, m>> \notin overlapped'
        PROVE  Kempt(n, m)' /\ Ordered(n, m)'
    <3>1. Kempt(n, m) /\ Ordered(n, m)
      BY <2>1, <2>5 DEF TransportInv, PairsInv
    <3>2. Gentle(n, m)
      BY <2>1, <2>4, SteadyGentle DEF TransportInv
    <3> QED
      BY <2>2, <3>1, <3>2, GentleKept DEF TransportInv
  <2> QED
    BY <2>2, <2>3, <2>5 DEF TransportInv, PairsInv
<1> QED
  BY <1>1, <1>2, <1>3, <1>4, <1>5, <1>6, <1>7 DEF Next

LEMMA InvariantHolds == Spec => []TransportInv
BY InitOK, StepOK, PTL DEF Spec

\* Nodes, sockets and maps keep their shape, whatever is sent, stopped or crashes.
THEOREM TypeCorrect == Spec => []TypeOK
<1>1. TransportInv => TypeOK
  BY DEF TransportInv, Types
<1> QED
  BY <1>1, InvariantHolds, PTL

\* A socket that a node has open to a peer is the one in its map, unless its sends
\* to that peer overlapped: getConnection leaks nothing that stop() would miss.
THEOREM LeaksCorrect == Spec => []NothingLeaks
<1>1. TransportInv => NothingLeaks
  <2> SUFFICES ASSUME TransportInv, NEW s \in Socket, near[s] = "open", <<s[1], To(s)>> \notin overlapped
               PROVE  connections[s[1]][To(s)] = s
    BY DEF NothingLeaks
  <2>1. s[1] \in Node /\ s[2] \in DOMAIN calls[s[1]]
    BY SocketParts DEF TransportInv, Links
  <2>2. To(s) \in Node
    BY <2>1, CallTypes DEF TransportInv, To, Call
  <2>3. Kempt(s[1], To(s)) /\ s \in Mine(s[1], To(s))
    BY <2>1, <2>2 DEF TransportInv, PairsInv, Mine
  <2> QED
    BY <2>3 DEF Kempt
<1> QED
  BY <1>1, InvariantHolds, PTL

\* What a node sends to a peer, each send awaited before the next, the peer handles
\* in the order it was sent in, through lost, closed and new connections.
THEOREM OrderCorrect == Spec => []HandledInOrder
<1>1. TransportInv => HandledInOrder
  <2> SUFFICES ASSUME TransportInv, NEW n \in Node, NEW m \in Node, <<n, m>> \notin overlapped,
                      NEW i \in DOMAIN handled[m][n], NEW j \in DOMAIN handled[m][n], i < j
               PROVE  handled[m][n][i] < handled[m][n][j]
    BY DEF HandledInOrder
  <2>1. InOrder(handled[m][n])
    BY DEF TransportInv, PairsInv, Ordered
  <2>2. handled[m][n] \in Seq(Nat)
    BY DEF TransportInv, Types
  <2>3. handled[m][n][i] \in Nat /\ handled[m][n][j] \in Nat
    BY <2>2
  <2> QED
    BY <2>1, <2>3 DEF InOrder
<1> QED
  BY <1>1, InvariantHolds, PTL
=============================================================================

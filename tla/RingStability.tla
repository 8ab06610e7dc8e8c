--------------------------- MODULE RingStability ---------------------------
(***************************************************************************)
(* One RingNode (packages/core/src/ring-node.ts): its awareness of the     *)
(* peers' heartbeats and the state machine that says when it may route.    *)
(* The other nodes, the daemon and the application are its environment:    *)
(* they change the ring, send heartbeats, fall silent and leave in any     *)
(* order.                                                                  *)
(*                                                                         *)
(* Of the times the node keeps, only comparisons count: whether a heartbeat *)
(* is younger than awarenessTimeout, and whether the later of the two last *)
(* changes (lastTopologyChangeTs, lastAwarenessChangeTs) is older than     *)
(* stabilityWindow.                                                        *)
(***************************************************************************)
EXTENDS RingRouting, FiniteSets

CONSTANTS self,                  \* the node, one of Id
          QuorumNum, QuorumDen   \* quorumRatio

ASSUME SelfAssumption == self \in Id
ASSUME IdAssumption == IsFiniteSet(Id)
ASSUME QuorumAssumption == QuorumNum \in Nat /\ QuorumDen \in Nat \ {0}

VARIABLES
    phase,      \* "starting", "joined", "left" (leaveRing), "destroyed" (shutdown)
    ringState,  \* "BOOTSTRAPPING", "UNSTABLE", "STABLE"
    members,    \* the entries the Yjs array holds
    states,     \* Awareness.states: "none" (no entry), "fresh", "expired"
    quiet       \* the last change is older than stabilityWindow

vars == <<phase, ringState, members, states, quiet>>

Peer == Id \ {self}
Hooked == phase # "destroyed"       \* the 'update' and 'change' handlers are on
Running == phase \in {"joined", "left"}

Present == {i \in Id : states[i] # "none"}
getOnlinePeers == {i \in Id : states[i] = "fresh"}
getOfflinePeers == {i \in Id : states[i] = "expired"}

quorumSize == (Cardinality(members) * QuorumNum + QuorumDen - 1) \div QuorumDen

hasQuorumConverged ==
    /\ members # {}
    /\ Cardinality(getOnlinePeers) >= quorumSize

----------------------------------------------------------------------------
(* The handlers of the document and of the awareness.                      *)

\* Fault: a change leaves the ring stable.
ChangeKeepsState(happened) ==
    /\ quiet' = (quiet /\ ~happened)
    /\ ringState' = ringState

\* onDocUpdate, and onAwarenessChange with someone added or removed.
TopologyChange(happened) ==
    /\ quiet' = (quiet /\ ~happened)
    /\ ringState' = IF happened /\ ringState = "STABLE" THEN "UNSTABLE" ELSE ringState

\* removeNodeFromRing: the last entry of node i only.  Where concurrent entries
\* stand in the array is for Yjs to say.
removeNodeFromRing(i, S) ==
    IF EntriesOf(S, i) = {} THEN {S} ELSE {S \ {e} : e \in EntriesOf(S, i)}

Init ==
    /\ phase = "starting"
    /\ ringState = "BOOTSTRAPPING"
    /\ members = {}
    /\ states = [i \in Id |-> "none"]
    /\ quiet = FALSE

\* joinRing.  The entry is pushed unless the ring has one of this node.
joinRing ==
    /\ phase = "starting"
    /\ phase' = "joined"
    /\ IF EntriesOf(members, self) # {}
       THEN UNCHANGED <<members, quiet>>
       ELSE /\ \E e \in Entry : IdOf[e] = self /\ members' = members \cup {e}
            /\ quiet' = FALSE
    /\ states' = [states EXCEPT ![self] = "fresh"]
    /\ ringState' = "UNSTABLE"

\* Fault: a heartbeat counts as a change.
HeartbeatDisturbs ==
    /\ phase = "joined"
    /\ states' = [states EXCEPT ![self] = "fresh"]
    /\ TopologyChange(TRUE)
    /\ UNCHANGED <<phase, members>>

\* The heartbeat timer: setLocalState reports an update, not an addition, even
\* when cleanup had removed the node itself.
Heartbeat ==
    /\ phase = "joined"
    /\ states' = [states EXCEPT ![self] = "fresh"]
    /\ UNCHANGED <<phase, ringState, members, quiet>>

\* setRemoteState with a heartbeat of node i, which bears the time of i's clock:
\* where that is behind, it has expired when it arrives.
RemoteOnline(i) ==
    /\ \E age \in {"fresh", "expired"} : states' = [states EXCEPT ![i] = age]
    /\ TopologyChange(Hooked /\ i \notin Present)
    /\ UNCHANGED <<phase, members>>

\* Fault: 'change' is not heeded when peers are removed.
OfflineUnheeded(i) ==
    /\ states' = [states EXCEPT ![i] = "none"]
    /\ UNCHANGED <<phase, ringState, members, quiet>>

\* setRemoteState with null: a leave announced by node i, or peer:leave.
RemoteOffline(i) ==
    /\ states' = [states EXCEPT ![i] = "none"]
    /\ TopologyChange(Hooked /\ i \in Present)
    /\ UNCHANGED <<phase, members>>

\* applyRemoteUpdate with something new, which leaves the entries S.
RemoteUpdate(S) ==
    /\ members' = S
    /\ TopologyChange(Hooked)
    /\ UNCHANGED <<phase, states>>

\* cleanupOfflineNodes, which only the application calls.
cleanupOfflineNodes ==
    /\ Running
    /\ getOfflinePeers # {}
    /\ states' = [i \in Id |-> IF i \in getOfflinePeers THEN "none" ELSE states[i]]
    /\ members' \in {S \in SUBSET members :
                       \A i \in Id : EntriesOf(S, i) \in
                          IF i \in getOfflinePeers THEN removeNodeFromRing(i, EntriesOf(members, i))
                          ELSE {EntriesOf(members, i)}}
    /\ TopologyChange(TRUE)
    /\ UNCHANGED phase

\* leaveRing, from the application or from shutdown(): the awareness reports the
\* node as removed whether it was there or not.
leaveRing ==
    /\ states' = [states EXCEPT ![self] = "none"]
    /\ members' \in removeNodeFromRing(self, members)
    /\ TopologyChange(TRUE)

Leave == Running /\ leaveRing /\ phase' = "left"

\* shutdown: leaveRing, the handlers off, the awareness cleared.
Shutdown ==
    /\ Running
    /\ phase' = "destroyed"
    /\ members' \in removeNodeFromRing(self, members)
    /\ states' = [i \in Id |-> "none"]
    /\ TopologyChange(TRUE)

----------------------------------------------------------------------------
(* Time.                                                                   *)

\* The heartbeat of node i is awarenessTimeout old.
HeartbeatExpires(i) ==
    /\ states[i] = "fresh"
    /\ states' = [states EXCEPT ![i] = "expired"]
    /\ UNCHANGED <<phase, ringState, members, quiet>>

\* Nothing has changed for stabilityWindow.
WindowPasses ==
    /\ ~quiet
    /\ quiet' = TRUE
    /\ UNCHANGED <<phase, ringState, members, states>>

\* The stability timer, stopped by leaveRing.
stabilityCheck ==
    /\ phase = "joined"
    /\ ringState # "STABLE"
    /\ quiet /\ hasQuorumConverged
    /\ ringState' = "STABLE"
    /\ UNCHANGED <<phase, members, states, quiet>>

----------------------------------------------------------------------------
\* What the peers and the application do to the topology.
Environment ==
    \/ \E i \in Peer : i \notin Present /\ RemoteOnline(i)
    \/ \E i \in Peer : i \in Present /\ RemoteOffline(i)
    \/ \E S \in SUBSET Entry : RemoteUpdate(S)
    \/ cleanupOfflineNodes

Next ==
    \/ joinRing
    \/ Heartbeat
    \/ \E i \in Peer : RemoteOnline(i)
    \/ \E i \in Peer : RemoteOffline(i)
    \/ \E S \in SUBSET Entry : RemoteUpdate(S)
    \/ cleanupOfflineNodes
    \/ Leave
    \/ Shutdown
    \/ \E i \in Id : HeartbeatExpires(i)
    \/ WindowPasses
    \/ stabilityCheck

Spec == Init /\ [][Next]_vars

\* The two timers go on firing, and time goes on passing.
Fairness == WF_vars(WindowPasses) /\ WF_vars(stabilityCheck)
FairSpec == Spec /\ Fairness

----------------------------------------------------------------------------
TypeOK ==
    /\ phase \in {"starting", "joined", "left", "destroyed"}
    /\ ringState \in {"BOOTSTRAPPING", "UNSTABLE", "STABLE"}
    /\ members \subseteq Entry
    /\ states \in [Id -> {"none", "fresh", "expired"}]
    /\ quiet \in BOOLEAN
    /\ ringState = "BOOTSTRAPPING" <=> phase = "starting"

\* A node that routes has joined and not left, and has been quiet for the whole
\* window; its lookups find members, and of the peers it counted as a quorum none
\* has left since, silent as they may be.  (The ring may have lost the node's own
\* entry: hasQuorumConverged does not look for it.)
RoutesOnlyWhenSettled ==
    ringState = "STABLE" =>
        /\ phase = "joined" /\ quiet
        /\ members # {} /\ Cardinality(Present) >= quorumSize

\* While a node stays STABLE it answers findSuccessor from the same members and
\* hears of the same peers: no step changes them and leaves it STABLE.
TopologyFrozen ==
    [][ringState = "STABLE" /\ ringState' = "STABLE"
          => members' = members /\ (Present \ {self})' = Present \ {self}]_vars

\* If the topology comes to rest and a quorum stays online, the node becomes and
\* stays STABLE, however many heartbeats go on arriving.
StableAgain ==
    /\ <>[](phase = "joined" /\ hasQuorumConverged)
    /\ <>[][~Environment]_vars
    => <>[](ringState = "STABLE")

\* On a ring where no node has two entries, neighbours agree: the predecessor of
\* a node's successor is that node.
NeighborsAgree ==
    OneEntryEach(members) =>
        \A e \in members :
            LET next == getNeighbors(members, IdOf[e]).successor
            IN  IF next = NoEntry THEN members = {e}
                ELSE next \in members /\ getNeighbors(members, IdOf[next]).predecessor = e

\* Consistent hashing: when a member goes, only the keys it was responsible for
\* get another member; a key belongs to the nearest token at or above its hash.
OnlyOwnKeysMove ==
    \A h \in 0..(Space - 1) : members # {} =>
        LET owner == findSuccessor(members, h)
        IN  /\ \A e \in members : Distance(h, owner) <= Distance(h, e)
            /\ \A e \in members \ {owner} : findSuccessor(members \ {e}, h) = owner
=============================================================================

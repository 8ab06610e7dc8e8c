---------------------------- MODULE MCPmdSession ----------------------------
(***************************************************************************)
(* Small instances of PmdSession for TLC.                                  *)
(***************************************************************************)
EXTENDS PmdSession, TLC

\* Two attempts for start(), two for a reconnection.
TwoTries == [f \in Task \cup {Start} |-> 2]
=============================================================================

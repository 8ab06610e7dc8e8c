------------------------- MODULE MCJsonCrdtPersist -------------------------
(***************************************************************************)
(* Small instances of JsonCrdtPersist for TLC, on the paths of MCJsonCrdt. *)
(***************************************************************************)
EXTENDS JsonCrdtPersist, MCJsonCrdt
=============================================================================

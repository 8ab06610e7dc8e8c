------------------------------ MODULE JsonDoc ------------------------------
(***************************************************************************)
(* The JSON document of JSONCrdt and the functions that edit it.           *)
(* A document is a function from paths to what is found there: Absent, a   *)
(* value, or Obj for an object.  Paths are opaque; Anc[p] is the set of    *)
(* the proper non-empty prefixes of p.  The code's string keys only:       *)
(* array indices and the empty path (the whole document) are left out, and *)
(* the root is always an object, as with the constructor's default `{}`.   *)
(***************************************************************************)
CONSTANTS Path,    \* the paths the application writes
          Anc,     \* Anc[p]: the paths that are proper prefixes of p
          Value,   \* the values it writes; may include Null and Obj
          Null,    \* JSON null
          Obj,     \* an object (as a value: the empty object)
          Absent   \* nothing at this path (JavaScript's undefined)

ASSUME PathAssumption ==
    /\ Anc \in [Path -> SUBSET Path]
    /\ \A p \in Path : p \notin Anc[p] /\ \A a \in Anc[p] : Anc[a] \subseteq Anc[p]

ASSUME ValueAssumption == Absent \notin Value \cup {Obj, Null} /\ Obj # Null

Document == [Path -> Value \cup {Absent, Obj}]

\* The document `{}`.
EmptyDoc == [p \in Path |-> Absent]

\* A value a string key cannot be set on.  Null is none of them: ensureContainer
\* replaces it by `{}`.
Scalar == Value \ {Null, Obj}

\* setAtPath(d, p, v) throws "Path expects object" or "Cannot set string key".
Blocked(d, p) == \E a \in Anc[p] : d[a] \in Scalar

\* The parents become objects where there was nothing or null, the value goes
\* to p, and what was below p is gone with the value it replaces.
setAtPath(d, p, v) ==
    [q \in Path |-> IF q = p THEN v
                    ELSE IF q \in Anc[p] THEN Obj
                    ELSE IF p \in Anc[q] THEN Absent
                    ELSE d[q]]

\* p disappears with everything below it.
delAtPath(d, p) ==
    [q \in Path |-> IF q = p \/ p \in Anc[q] THEN Absent ELSE d[q]]
=============================================================================

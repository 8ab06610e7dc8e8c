------------------------------ MODULE PathKey ------------------------------
(***************************************************************************)
(* Paths as sequences of string keys, and the map keys made from them.     *)
(***************************************************************************)
EXTENDS Sequences, SequencesExt

\* pathKey(path): every key behind a dot.  The code's comment says "escape /
\* delimiter safe", but a dot inside a key is written as it is.
pathKey(path) == FoldLeft(LAMBDA key, p : key \o "." \o p, "", path)

\* The containers on the way to a path.
ProperPrefixes(path) == {SubSeq(path, 1, i) : i \in 1 .. Len(path) - 1}
=============================================================================

----------------------------- MODULE MCJsonCrdt -----------------------------
(***************************************************************************)
(* Small instances of JsonCrdt for TLC: which paths the application writes *)
(* and what the code derives from them.                                    *)
(***************************************************************************)
EXTENDS JsonCrdt, PathKey, TLC

TwoReplicas == {1, 2}
ThreeReplicas == {1, 2, 3}

\* How many operations each replica makes.
OneEach == [r \in Replica |-> 1]
TwoEach == [r \in Replica |-> 2]
OneMore == [r \in Replica |-> IF r = 1 THEN 2 ELSE 1]

\* Values are alike.
ValueSymmetry == Permutations(Value)

AncOf(P) == [p \in P |-> ProperPrefixes(p) \cap P]
KeysOf(P) == [p \in P |-> pathKey(p)]
KeySet(P) == {pathKey(p) : p \in P}

\* One top-level key.
OnePath == {<<"a">>}
OnePathAnc == AncOf(OnePath)
OnePathKeyOf == KeysOf(OnePath)
OnePathKey == KeySet(OnePath)

\* Two top-level keys.
TwoPaths == {<<"a">>, <<"b">>}
TwoPathsAnc == AncOf(TwoPaths)
TwoPathsKeyOf == KeysOf(TwoPaths)
TwoPathsKey == KeySet(TwoPaths)

\* A key and a key below it.
NestedPaths == {<<"a">>, <<"a", "b">>}
NestedPathsAnc == AncOf(NestedPaths)
NestedPathsKeyOf == KeysOf(NestedPaths)
NestedPathsKey == KeySet(NestedPaths)
=============================================================================

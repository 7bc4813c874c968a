---------------------------- MODULE MCPartialMap ----------------------------
(***************************************************************************)
(* Instances of PartialMap: a and b part at the last of three directions,  *)
(* below a chain of internal nodes with an empty half; c leaves them at    *)
(* the root.  Two maps are enough for an owner and one who knows a part,   *)
(* and for two parts of one map.                                           *)
(***************************************************************************)
EXTENDS PartialMap

CONSTANTS a, b, c, v1, v2, bad

Digest == (a :> <<"L", "L", "L">>) @@ (b :> <<"L", "L", "R">>) @@ (c :> <<"R", "L", "L">>)

MCPath == [k \in Key |-> Digest[k]]

\* No action reads `last`, so states that differ in it alone go on alike.
WithoutLast == <<node, contents>>

Symmetry == Permutations(Maps) \cup Permutations({v1, v2})
=============================================================================

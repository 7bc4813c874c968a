------------------------------ MODULE MCTable ------------------------------
(***************************************************************************)
(* Instances of Table: transactions that write one key, that write the     *)
(* other and read the first, and that remove, so that two of them lead     *)
(* from different roots to the same root and back to the empty one.        *)
(***************************************************************************)
EXTENDS Table, TLC

CONSTANTS a, b, v

MCBatch ==
    { (a :> Set(v)) @@ (b :> Skip),
      (a :> Get) @@ (b :> Set(v)),
      (a :> Delete) @@ (b :> Delete) }

Symmetry == Permutations(Thread) \cup Permutations(Handle)
=============================================================================

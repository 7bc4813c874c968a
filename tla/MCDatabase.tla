----------------------------- MODULE MCDatabase -----------------------------
(***************************************************************************)
(* Instances of Database: two names to create and the unnamed one, two     *)
(* threads, batches that set, that set another value, and that remove.     *)
(***************************************************************************)
EXTENDS Database, TLC

CONSTANTS k, v, w

MCBatch == { k :> Set(v), k :> Set(w), k :> Get, k :> Delete }

Symmetry == Permutations(Object) \cup Permutations(Thread)
=============================================================================

------------------------------ MODULE MCApply ------------------------------
(***************************************************************************)
(* Instances of Apply and Queries.  The digests are three directions long: *)
(* a and b part at the last one, so their trees have chains of internal    *)
(* nodes with an empty half; c leaves them at the root, where the store is *)
(* split; d one level below, where it is split too if Depth is 2.          *)
(***************************************************************************)
EXTENDS Queries

CONSTANTS a, b, c, d, v2

Digest == (a :> <<"L", "L", "L">>) @@ (b :> <<"L", "L", "R">>)
          @@ (c :> <<"R", "L", "L">>) @@ (d :> <<"L", "R", "R">>)

MCPath == [k \in Key |-> Digest[k]]

\* One key with two values to overwrite and one key to read are enough for
\* trees that two handles share.
SharingBatch ==
    { f \in [Key -> Operation] :
        /\ \A k \in Key \ {a} : f[k] # Set(v2)
        /\ \A k \in Key \ {b} : f[k] # Get }

AnyBatch == [Key -> Operation]

Symmetry == Permutations(Handle)
=============================================================================

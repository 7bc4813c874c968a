--------------------------- MODULE MCTransaction ---------------------------
(***************************************************************************)
(* Instances of Transaction: digests of two bytes of three bits.  The keys *)
(* part within a byte, at the boundary of the bytes, and just before the   *)
(* last bit; their order by name is not their order by path.               *)
(***************************************************************************)
EXTENDS Transaction

CONSTANTS a, b, c, bad, v1

At2(high, low) == (0 :> high) @@ (1 :> low)

Three(da, db, dc) == (a :> da) @@ (b :> db) @@ (c :> dc)

MCDigests ==
    { Three(At2(5, 2), At2(5, 6), At2(1, 2)),    \* a and b part at the second byte
      Three(At2(2, 6), At2(2, 4), At2(2, 3)),    \* all share a byte; a and b part late
      Three(At2(7, 0), At2(6, 0), At2(4, 7)) }   \* each parts at another bit of a byte

EmptyOrFull == { [k \in Key |-> v] : v \in {Nothing, v1} }

Symmetry == Permutations(Transactions)
=============================================================================

------------------------------ MODULE MCVector ------------------------------
(***************************************************************************)
(* Instances of Vector: vectors of all lengths up to MaxLength, of items   *)
(* that differ, so that no leaf can stand for another.                     *)
(***************************************************************************)
EXTENDS Vector

CONSTANTS MaxLength, fresh, bad

Numbers == { [i \in 1..length |-> i] : length \in 1..MaxLength }

Items == (1..MaxLength) \cup {fresh, bad}

Settable == {1, fresh, bad}
=============================================================================

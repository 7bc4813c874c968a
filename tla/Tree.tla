------------------------------- MODULE Tree -------------------------------
(***************************************************************************)
(* The Merkle tree every table of zebra is stored as: directions, paths,   *)
(* prefixes, and the labels that name its nodes.                           *)
(*                                                                         *)
(* A label of the code pairs the id of the map a node is kept in with the  *)
(* hash of the node.  Hashes are taken to be collision free, so a label    *)
(* here holds what was hashed: two labels are equal exactly when the code  *)
(* gives two nodes the same map and the same hash.                         *)
(***************************************************************************)
EXTENDS Operations, Naturals, Sequences, FiniteSets, SequencesExt

CONSTANTS
    PathLength,   \* bits of a digest (256 in the code)
    Path,         \* the digest of each key, as the directions it spells
    Depth         \* DEPTH: the levels over which the store can be split

Direction == {"L", "R"}

ASSUME TreeAssumption ==
    /\ PathLength \in Nat \ {0}
    /\ Depth \in 0..PathLength
    /\ Path \in [Key -> [1..PathLength -> Direction]]
    /\ \A j, k \in Key : Path[j] = Path[k] => j = k

(***************************************************************************)
(* Prefixes: the location of a node is the sequence of directions that     *)
(* leads to it from the root.                                              *)
(***************************************************************************)
Root == <<>>
Left(prefix) == Append(prefix, "L")
Right(prefix) == Append(prefix, "R")

\* Prefix::contains, on the path of a key.
Holds(prefix, k) == IsPrefix(prefix, Path[k])

(***************************************************************************)
(* Map ids.  An internal node is kept in the map of the scope it was       *)
(* labelled in, the missing bits padded with `R` (0); a leaf in the map    *)
(* the first bits of its key's digest select.                              *)
(***************************************************************************)
InternalMap(scope) ==
    [i \in 1..Depth |-> IF i <= Len(scope) THEN scope[i] ELSE "R"]

\* Fault: the last bits of the digest instead of the first.
LeafMapFromEnd(k) == [i \in 1..Depth |-> Path[k][PathLength + 1 - i]]

LeafMap(k) == [i \in 1..Depth |-> Path[k][i]]

(***************************************************************************)
(* Labels and, since they are structural, the nodes they stand for.        *)
(***************************************************************************)
Empty == [kind |-> "empty"]

Leaf(k, v) == [kind |-> "leaf", map |-> LeafMap(k), key |-> k, value |-> v]

Internal(scope, left, right) ==
    [kind |-> "internal", map |-> InternalMap(scope),
     left |-> left, right |-> right]

IsLeaf(label) == label.kind = "leaf"
IsInternal(label) == label.kind = "internal"

(***************************************************************************)
(* What a tree holds, read along the path of a key.                        *)
(***************************************************************************)
Child(label, direction) ==
    CASE ~IsInternal(label) -> label
      [] IsInternal(label) /\ direction = "L" -> label.left
      [] IsInternal(label) /\ direction = "R" -> label.right

Descend(label, directions) ==
    LET node[n \in 0..Len(directions)] ==
            IF n = 0 THEN label ELSE Child(node[n - 1], directions[n])
    IN  node[Len(directions)]

Lookup(label, k) ==
    LET end == Descend(label, Path[k])
    IN  IF IsLeaf(end) /\ end.key = k THEN end.value ELSE Nothing

Contents(label) == [k \in Key |-> Lookup(label, k)]

Locations == UNION { Prefixes(Path[k]) : k \in Key }

\* The labels of the nodes of a tree, its root's included.
Nodes(label) == { Descend(label, p) : p \in Locations } \ {Empty}
=============================================================================

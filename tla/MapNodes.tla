------------------------------ MODULE MapNodes ------------------------------
(***************************************************************************)
(* The trees of maps that may know only part of what they commit to: a     *)
(* subtree that is not known is a stub, which keeps its hash.              *)
(*                                                                         *)
(* Hashes are taken to be collision free: the hash of a node is the node   *)
(* with the hashes of its children in place of the children.               *)
(***************************************************************************)
EXTENDS Operations, Naturals, Sequences, FiniteSets

CONSTANTS
    PathLength,   \* bits of a digest (256 in the code)
    Path,         \* the digest of each key, as the directions it spells
    Unknown       \* MapError::BranchUnknown

ASSUME PathAssumption ==
    /\ PathLength \in Nat \ {0}
    /\ Path \in [Key -> [1..PathLength -> {"L", "R"}]]
    /\ \A j, k \in Key : Path[j] = Path[k] => j = k
    /\ Unknown \notin Value \cup {Nothing}

-----------------------------------------------------------------------------
(***************************************************************************)
(* Nodes.  An internal node keeps the hash it was made with.               *)
(***************************************************************************)
Empty == [kind |-> "empty"]
Leaf(k, v) == [kind |-> "leaf", key |-> k, value |-> v]
Stub(hash) == [kind |-> "stub", hash |-> hash]
Raw(hash, left, right) ==
    [kind |-> "internal", hash |-> hash, left |-> left, right |-> right]

Is(node, kind) == node.kind = kind

\* hash::internal, hash::leaf and hash::empty: what is hashed tells them apart.
InternalHash(left, right) == [kind |-> "hash", left |-> left, right |-> right]

Hash(node) ==
    IF Is(node, "internal") \/ Is(node, "stub") THEN node.hash ELSE node

\* Internal::from_children.
Internal(left, right) == Raw(InternalHash(Hash(left), Hash(right)), left, right)

-----------------------------------------------------------------------------
(***************************************************************************)
(* A digest has PathLength directions, so no node is further down.  The    *)
(* nodes that may be at a depth, whatever their hashes say, are what the   *)
(* recursions over trees are defined for.                                  *)
(***************************************************************************)
Level == 0..PathLength

Leaves == [kind : {"leaf"}, key : Key, value : Value]

InternalHashes(below) == [kind : {"hash"}, left : below, right : below]

HashAt[depth \in Level] ==
    {Empty} \cup Leaves \cup
        IF depth = PathLength THEN {} ELSE InternalHashes(HashAt[depth + 1])

Internals(hashes, below) ==
    [kind : {"internal"}, hash : InternalHashes(hashes), left : below, right : below]

NodeAt[depth \in Level] ==
    {Empty} \cup Leaves \cup [kind : {"stub"}, hash : HashAt[depth]] \cup
        IF depth = PathLength THEN {} ELSE Internals(HashAt[depth + 1], NodeAt[depth + 1])

Location(depth) == [1..depth -> {"L", "R"}]

\* Fault: the leaf a path leads to is taken to be the one of its key.
ReachesAny(k, leaf) == TRUE

\* Path::reaches.
Reaches(k, leaf) == leaf.key = k

\* The two halves of an internal node, the one on the path of a key first.
Side(k, depth) == Path[k][depth + 1]

\* The keys that go to one side.
Split(keys, depth, d) == { k \in keys : Side(k, depth) = d }

Read(k) ==
    LET recur[depth \in Level] == [node \in NodeAt[depth] |->
            CASE Is(node, "empty") -> Nothing
              [] Is(node, "leaf") -> IF Reaches(k, node) THEN node.value ELSE Nothing
              [] Is(node, "stub") -> Unknown
              [] Is(node, "internal") ->
                    recur[depth + 1][IF Side(k, depth) = "L" THEN node.left ELSE node.right]]
    IN  recur

Answer(root, k) == Read(k)[0][root]

\* The pairs a tree shows, wherever its leaves are.
Records[depth \in Level] == [node \in NodeAt[depth] |->
    CASE Is(node, "leaf") -> {<<node.key, node.value>>}
      [] Is(node, "internal") ->
            Records[depth + 1][node.left] \cup Records[depth + 1][node.right]
      [] OTHER -> {}]

\* Set::contains.
Contains(root, k) == IF Answer(root, k) = Unknown THEN Unknown ELSE Answer(root, k) # Nothing

\* The tree of a complete map; at the last level two keys would have one digest.
Completed(map) ==
    LET whole[depth \in Level] == [keys \in SUBSET Key |->
            CASE keys = {} -> Empty
              [] \E k \in keys : keys = {k} ->
                    LET k == CHOOSE k \in keys : TRUE IN Leaf(k, map[k])
              [] OTHER ->
                    IF depth = PathLength THEN Empty
                    ELSE Internal(whole[depth + 1][Split(keys, depth, "L")],
                                  whole[depth + 1][Split(keys, depth, "R")])]
    IN  whole

Whole(map) == Completed(map)[0][{ k \in Key : map[k] # Nothing }]

-----------------------------------------------------------------------------
(***************************************************************************)
(* Updates.  An update is an operation on one key; its outcome is the new  *)
(* tree and the answer: the old value, or Unknown.                         *)
(***************************************************************************)
Outcome(node, answer) == [node |-> node, answer |-> answer]

\* Fault: a leaf that is left alone stays below its internal node.
NeverMerged(left, right) ==
    IF Is(left, "empty") /\ Is(right, "empty") THEN Empty ELSE Internal(left, right)

\* Fault: whatever is left alone is pulled up, a stub too.
MergedAlways(left, right) ==
    CASE Is(left, "empty") -> right
      [] ~Is(left, "empty") /\ Is(right, "empty") -> left
      [] OTHER -> Internal(left, right)

Merged(left, right) ==
    CASE Is(left, "empty") /\ Is(right, "empty") -> Empty
      [] Is(left, "leaf") /\ Is(right, "empty") -> left
      [] Is(left, "empty") /\ Is(right, "leaf") -> right
      [] OTHER -> Internal(left, right)

\* `recur` is the recursion one level down.
Branch(recur, left, right, depth, k) ==
    IF Side(k, depth) = "L"
    THEN LET below == recur[left]
         IN  Outcome(Merged(below.node, right), below.answer)
    ELSE LET below == recur[right]
         IN  Outcome(Merged(left, below.node), below.answer)

\* A leaf of another key is pushed down until the two part, which they do before
\* the digests end.
Recur(k, op) ==
    LET recur[depth \in Level] == [node \in NodeAt[depth] |->
            CASE Is(node, "empty") ->
                    Outcome(IF op.act = "set" THEN Leaf(k, op.value) ELSE Empty, Nothing)
              [] Is(node, "internal") ->
                    Branch(recur[depth + 1], node.left, node.right, depth, k)
              [] Is(node, "stub") -> Outcome(node, Unknown)
              [] Is(node, "leaf") /\ Reaches(k, node) ->
                    Outcome(IF op.act = "set" THEN Leaf(k, op.value) ELSE Empty, node.value)
              [] Is(node, "leaf") /\ ~Reaches(k, node) /\ op.act = "remove" ->
                    Outcome(node, Nothing)
              [] OTHER ->
                    IF depth = PathLength THEN Outcome(node, Unknown)
                    ELSE IF Side(node.key, depth) = "L"
                         THEN Branch(recur[depth + 1], node, Empty, depth, k)
                         ELSE Branch(recur[depth + 1], Empty, node, depth, k)]
    IN  recur

Applied(root, k, op) == Recur(k, op)[0][root]

-----------------------------------------------------------------------------
(***************************************************************************)
(* Exports and imports.                                                    *)
(***************************************************************************)

\* Fault: a leaf that no path ends on is left out of the export, though it
\* proves that the keys of those paths are not in the map.
ExportReached(node, keys) == Is(node, "leaf") /\ node.key \in keys

ExportsLeaf(node, keys) == Is(node, "leaf") /\ keys # {}

\* Fault: what no key asks for is left out without a trace.
PrunedAway(node) == Empty

\* A subtree that no key asks for leaves its hash; an empty one is cheaper whole.
Pruned(node) == IF Is(node, "empty") THEN Empty ELSE Stub(Hash(node))

Exporting[depth \in Level] == [keys \in SUBSET Key |-> [node \in NodeAt[depth] |->
    CASE Is(node, "internal") /\ keys # {} ->
            LET left == Exporting[depth + 1][Split(keys, depth, "L")][node.left]
                right == Exporting[depth + 1][Split(keys, depth, "R")][node.right]
            IN  IF Unknown \in {left, right} THEN Unknown ELSE Raw(node.hash, left, right)
      [] ExportsLeaf(node, keys) -> node
      [] Is(node, "stub") /\ keys # {} -> Unknown
      [] OTHER -> Pruned(node)]]

Exported(root, keys) == Exporting[0][keys][root]

\* Fault: only the root of the destination is filled in.
ImportedRoot(destination, source) == IF Is(destination, "stub") THEN source ELSE destination

\* Where the destination has a stub it takes what the source has.
Importing[depth \in Level] == [destination \in NodeAt[depth] |-> [source \in NodeAt[depth] |->
    CASE Is(destination, "stub") -> source
      [] Is(destination, "internal") /\ Is(source, "internal") ->
            Raw(destination.hash, Importing[depth + 1][destination.left][source.left],
                Importing[depth + 1][destination.right][source.right])
      [] OTHER -> destination]]

Imported(destination, source) == Importing[0][destination][source]

-----------------------------------------------------------------------------
(***************************************************************************)
(* Serialization: only fields and stubs travel, hashes are computed again, *)
(* and the topology is checked.                                            *)
(***************************************************************************)
CompactInternal(node) ==
    /\ ~(Is(node.left, "empty") /\ Is(node.right, "empty"))
    /\ ~(Is(node.left, "empty") /\ Is(node.right, "leaf"))
    /\ ~(Is(node.left, "leaf") /\ Is(node.right, "empty"))

OnPath(leaf, location) == location = SubSeq(Path[leaf.key], 1, Len(location))

Checking[depth \in Level] == [location \in Location(depth) |-> [node \in NodeAt[depth] |->
    CASE Is(node, "internal") ->
            /\ CompactInternal(node)
            /\ Checking[depth + 1][Append(location, "L")][node.left]
            /\ Checking[depth + 1][Append(location, "R")][node.right]
      [] Is(node, "leaf") -> OnPath(node, location)
      [] OTHER -> TRUE]]

Check(root) == Checking[0][<<>>][root]

Deserializing[depth \in Level] == [node \in NodeAt[depth] |->
    IF Is(node, "internal")
    THEN Internal(Deserializing[depth + 1][node.left], Deserializing[depth + 1][node.right])
    ELSE node]

Deserialized(root) == Deserializing[0][root]
=============================================================================

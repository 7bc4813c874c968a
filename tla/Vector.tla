------------------------------- MODULE Vector -------------------------------
(***************************************************************************)
(* A vector of items with a Merkle tree over them, packing items to a      *)
(* leaf.  The tree is kept in layers, leaves first; when the number of     *)
(* leaves is no power of two the leaves fill the first layer only in part, *)
(* and the others start in the second, after the parents of the first.     *)
(*                                                                         *)
(* Hashes are taken to be collision free: a hash is what was hashed.  An   *)
(* item may have no hash: hashing serializes, and that may fail.  Indices  *)
(* are those of the code, from 0; a sequence has index i at i + 1.         *)
(***************************************************************************)
EXTENDS Naturals, Sequences, SequencesExt

CONSTANTS
    Item,
    Unhashable,   \* the items that cannot be serialized
    Contents,     \* what vectors are made of
    Replacement,  \* the items a caller may set
    Packings,     \* the values of PACKING
    MaxSets,      \* bound: calls of `set`
    NoProof       \* no proof has been taken

ASSUME VectorAssumption ==
    /\ \A all \in Contents : all # <<>> /\ all \in Seq(Item \ Unhashable)
    /\ Replacement \subseteq Item
    /\ Packings \subseteq Nat \ {0}
    /\ MaxSets \in Nat

VARIABLES
    packing,  \* PACKING, the same for the life of a vector
    items,
    layers,
    held,     \* the last proof taken: with the index and item it is for
    sets      \* how many calls of `set` were made

vars == <<packing, items, layers, held, sets>>

-----------------------------------------------------------------------------
(***************************************************************************)
(* Leaves and layers.                                                      *)
(***************************************************************************)
ItemHash(chunk) == [items |-> chunk]
InternalHash(left, right) == [left |-> left, right |-> right]

Least(i, j) == IF i <= j THEN i ELSE j
Most(i, j) == IF i >= j THEN i ELSE j

\* The items from `first` on that share a leaf.
ChunkAt(all, first) == SubSeq(all, first + 1, Least(first + packing, Len(all)))

\* Fault: the item that is set is taken to be the first of its chunk.
FirstIsSet(index) == index

\* Where the chunk of an index starts.
First(index) == index - (index % packing)

Hashable(chunk) == \A i \in DOMAIN chunk : chunk[i] \notin Unhashable

Leaves(all) ==
    [n \in 1..((Len(all) + packing - 1) \div packing) |->
        ItemHash(ChunkAt(all, (n - 1) * packing))]

Pairs(layer) == [n \in 1..(Len(layer) \div 2) |-> InternalHash(layer[2 * n - 1], layer[2 * n])]

TwoTo[k \in Nat] == IF k = 0 THEN 1 ELSE 2 * TwoTo[k - 1]

NextPowerOfTwo(n) == CHOOSE p \in { TwoTo[k] : k \in 0..n } : p >= n /\ p < 2 * n

\* How many leaves the first layer takes, so that the second is complete.
LastLayer(n) == Most(1, 2 * (n - Most(1, NextPowerOfTwo(n) \div 2)))

\* The layers above a first one, each with the pairs of the one below, and the
\* second with the leaves that are not in the first.
Above(first, beside) ==
    LET layer[n \in Nat] ==
            CASE n = 0 -> first
              [] n = 1 -> Pairs(layer[0]) \o beside
              [] OTHER -> Pairs(layer[n - 1])
    IN  layer

\* Vector::with_packing: layers are made until one has a single node.
Layers(nodes) ==
    LET last == LastLayer(Len(nodes))
        layer == Above(SubSeq(nodes, 1, last), SubSeq(nodes, last + 1, Len(nodes)))
        top == CHOOSE n \in 0..Len(nodes) :
                    Len(layer[n]) = 1 /\ \A m \in 0..(n - 1) : Len(layer[m]) > 1
    IN  [n \in 1..(top + 1) |-> layer[n - 1]]

\* Vector::root.
TopOf(tree) == Last(tree)[1]

-----------------------------------------------------------------------------
(***************************************************************************)
(* A leaf's place, the changes above it, and proofs.                       *)
(***************************************************************************)

\* A leaf beyond the first layer starts in the second.
Place(node) ==
    IF node < Len(layers[1]) THEN [layer |-> 1, index |-> node]
    ELSE [layer |-> 2, index |-> node - Len(layers[1]) \div 2]

\* The indices in the layers above, of what has an index in one.
Ascent(index) ==
    LET above[n \in Nat] == IF n = 0 THEN index ELSE above[n - 1] \div 2
    IN  above

\* On which side of its parent an index is, and the hash on the other side.
Direction(index) == IF index % 2 = 0 THEN "L" ELSE "R"

Sibling(layer, index) == IF index % 2 = 0 THEN layer[index + 2] ELSE layer[index]

Parent(direction, hash, sibling) ==
    IF direction = "L" THEN InternalHash(hash, sibling) ELSE InternalHash(sibling, hash)

\* Fault: the new hash stops below the root.
RaisedBelow(tree, layer, index, hash) ==
    [tree EXCEPT ![Least(layer, Most(1, Len(tree) - 1))][index + 1] = hash]

\* The tree with a new hash at an index of a layer, and all hashes above it.
Raised(tree, layer, index, hash) ==
    LET at == Ascent(index)
        new[n \in Nat] ==
            IF n = 0 THEN hash
            ELSE Parent(Direction(at[n - 1]), new[n - 1], Sibling(tree[layer + n - 1], at[n - 1]))
    IN  [l \in DOMAIN tree |->
            IF l < layer THEN tree[l]
            ELSE [tree[l] EXCEPT ![at[l - layer] + 1] = new[l - layer]]]

\* Fault: a proof has the other items of its chunk, but not where its own goes.
InsertedFirst(siblings, position, item) == <<item>> \o siblings

Inserted(siblings, position, item) == InsertAt(siblings, position + 1, item)

Step(layer, index) ==
    [direction |-> Direction(index), sibling |-> Sibling(layers[layer], index)]

\* Vector::prove, of an index whose neighbours can be serialized.
Prove(index) ==
    LET place == Place(index \div packing)
    IN  [path |-> [n \in 1..(Len(layers) - place.layer) |->
                        Step(place.layer + n - 1, Ascent(place.index)[n - 1])],
         siblings |-> RemoveAt(ChunkAt(items, First(index)), (index % packing) + 1),
         position |-> index % packing]

\* `prove` serializes the other items of the chunk, and panics when it cannot.
Provable(index) ==
    \A i \in First(index)..(Least(First(index) + packing, Len(items)) - 1) :
        i # index => items[i + 1] \notin Unhashable

\* The hash at the top of a path, for what hash is below it.
Folded(path, hash) ==
    LET above[n \in Nat] ==
            IF n = 0 THEN hash ELSE Parent(path[n].direction, above[n - 1], path[n].sibling)
    IN  above[Len(path)]

\* Proof::verify.
Verify(proof, root, item) ==
    LET chunk == Inserted(proof.siblings, proof.position, item)
    IN  Hashable(chunk) /\ root = Folded(proof.path, ItemHash(chunk))

-----------------------------------------------------------------------------
(***************************************************************************)
(* Operations.                                                             *)
(***************************************************************************)
Index == 0..(Len(items) - 1)

\* Vector::new, of items that can be hashed.
Init ==
    /\ packing \in Packings
    /\ items \in Contents
    /\ layers = Layers(Leaves(items))
    /\ held = NoProof
    /\ sets = 0

\* The item is stored before its chunk is hashed: when that fails the item
\* stays, and the layers are what they were.
Set(index, item) ==
    LET place == Place(index \div packing)
        chunk == ChunkAt(items', First(index))
    IN  /\ sets < MaxSets
        /\ sets' = sets + 1
        /\ items' = [items EXCEPT ![index + 1] = item]
        /\ layers' = IF Hashable(chunk)
                     THEN Raised(layers, place.layer, place.index, ItemHash(chunk))
                     ELSE layers
        /\ UNCHANGED <<packing, held>>

\* A caller takes a proof and keeps it.
Take(index) ==
    /\ Provable(index)
    /\ held' = [index |-> index, item |-> items[index + 1], proof |-> Prove(index)]
    /\ UNCHANGED <<packing, items, layers, sets>>

\* A vector travels as its items, which the receiver hashes again.
Reload ==
    /\ Hashable(items)
    /\ layers' = Layers(Leaves(items))
    /\ UNCHANGED <<packing, items, held, sets>>

Next ==
    \/ \E index \in Index, item \in Replacement : Set(index, item)
    \/ \E index \in Index : Take(index)
    \/ Reload

Spec == Init /\ [][Next]_vars

-----------------------------------------------------------------------------
(***************************************************************************)
(* Properties.                                                             *)
(***************************************************************************)
Chunk(node) == ChunkAt(items, node * packing)

Nodes == 0..((Len(items) - 1) \div packing)

\* The hash the layers have for a leaf.
Kept(node) == layers[Place(node).layer][Place(node).index + 1]

\* Whatever was set in whatever order, also when hashing failed in between, the
\* layers are those of a new vector with these leaves, so that a vector that
\* travels as its items arrives with its root; and a leaf whose items can all be
\* hashed now is up to date: an item that could not be hashed spoils the leaf only
\* until it is replaced.
LayersFit ==
    /\ layers = Layers([n \in 1..((Len(items) + packing - 1) \div packing) |-> Kept(n - 1)])
    /\ \A node \in Nodes : Hashable(Chunk(node)) => Kept(node) = ItemHash(Chunk(node))

\* A proof taken now shows the item at its index, and no other item, to one who
\* has the root: whatever the number of leaves and the place in the chunk.
ProofsShow ==
    \A index \in Index : Hashable(ChunkAt(items, First(index))) =>
        \A item \in Item :
            Verify(Prove(index), TopOf(layers), item) <=> item = items[index + 1]

\* A proof that was kept over changes of the vector shows its item only while the
\* item is still there.
StaleRefused ==
    held # NoProof /\ Hashable(ChunkAt(items, First(held.index))) =>
        (Verify(held.proof, TopOf(layers), held.item) => items[held.index + 1] = held.item)
=============================================================================

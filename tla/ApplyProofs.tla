---------------------------- MODULE ApplyProofs ----------------------------
(***************************************************************************)
(* Proofs about Apply and the queries between its calls, for any keys,     *)
(* digests, handles and batches, and any split of the store: no call       *)
(* panics, references are counted exactly, the calls implement maps, the   *)
(* trees of the handles nobody works on stay whole at every step, and      *)
(* what a caller is told between the calls is what the tables hold.        *)
(*                                                                         *)
(* The first part is about trees: where a label may be placed, that an     *)
(* internal node has one place only, that the store of a branch covers     *)
(* what is placed below it.                                                *)
(*                                                                         *)
(* The counts are proved in layers.  The first is about counts and a set   *)
(* of edges alone; the second about the operations of the store; the third *)
(* finds, for every action, the edges it adds and removes.                 *)
(***************************************************************************)
EXTENDS Queries, PlaceProofs

-----------------------------------------------------------------------------
(***************************************************************************)
(* Labels and where they may be placed.                                    *)
(***************************************************************************)
LeafAt(label, p) ==
    \E k \in Key, v \in Value : Holds(p, k) /\ label = Leaf(k, v)

\* An internal node has two subtrees, or one that is not a leaf.
NodeAt(label, p) ==
    /\ IsInternal(label)
    /\ Len(p) < PathLength
    /\ label = Merged(Scope(p), label.left, label.right)

\* A relation between labels and places that goes down whole trees.
Sound(P) ==
    \A label, p : <<label, p>> \in P =>
        /\ p \in Places
        /\ \/ label = Empty
           \/ LeafAt(label, p)
           \/ /\ NodeAt(label, p)
              /\ <<label.left, Left(p)>> \in P
              /\ <<label.right, Right(p)>> \in P

\* The label roots a tree as the code makes it at that place.
Placed(label, p) == \E P : Sound(P) /\ <<label, p>> \in P

\* The parts of a label, and what tells its kind.
LEMMA Labels ==
    /\ ~IsLeaf(Empty) /\ ~IsInternal(Empty) /\ Empty # NoLabel /\ ~IsInternal(NoLabel)
    /\ \A k, v : /\ IsLeaf(Leaf(k, v)) /\ ~IsInternal(Leaf(k, v))
                 /\ Leaf(k, v) # Empty /\ Leaf(k, v) # NoLabel
                 /\ Leaf(k, v).key = k /\ Leaf(k, v).value = v
                 /\ Leaf(k, v).map = LeafMap(k)
    /\ \A s, l, r : /\ IsInternal(Internal(s, l, r)) /\ ~IsLeaf(Internal(s, l, r))
                    /\ Internal(s, l, r) # Empty /\ Internal(s, l, r) # NoLabel
                    /\ Internal(s, l, r).left = l /\ Internal(s, l, r).right = r
                    /\ Internal(s, l, r).map = InternalMap(s)
  BY DEF Empty, NoLabel, Leaf, Internal, IsLeaf, IsInternal

\* What is internal is not empty, nor a leaf.
LEMMA InternalNot ==
    ASSUME NEW label, IsInternal(label)
    PROVE  label # Empty /\ ~IsLeaf(label) /\ label # NoLabel
  BY DEF Empty, NoLabel, IsLeaf, IsInternal

\* What a branch makes of its halves.
LEMMA MergedIs ==
    ASSUME NEW s, NEW l, NEW r
    PROVE  \/ l = Empty /\ r = Empty /\ Merged(s, l, r) = Empty
           \/ IsLeaf(l) /\ r = Empty /\ Merged(s, l, r) = l
           \/ IsLeaf(r) /\ l = Empty /\ Merged(s, l, r) = r
           \/ Merged(s, l, r) = Internal(s, l, r)
  BY DEF Merged

\* Placed one level at a time.
LEMMA PlacedUnfold ==
    ASSUME NEW label, NEW p
    PROVE  Placed(label, p) <=>
             /\ p \in Places
             /\ \/ label = Empty
                \/ LeafAt(label, p)
                \/ /\ NodeAt(label, p)
                   /\ Placed(label.left, Left(p))
                   /\ Placed(label.right, Right(p))
<1>1. ASSUME Placed(label, p)
      PROVE  /\ p \in Places
             /\ \/ label = Empty
                \/ LeafAt(label, p)
                \/ /\ NodeAt(label, p)
                   /\ Placed(label.left, Left(p))
                   /\ Placed(label.right, Right(p))
  <2>1. PICK P : Sound(P) /\ <<label, p>> \in P
    BY <1>1 DEF Placed
  <2>2. /\ p \in Places
        /\ \/ label = Empty
           \/ LeafAt(label, p)
           \/ /\ NodeAt(label, p)
              /\ <<label.left, Left(p)>> \in P
              /\ <<label.right, Right(p)>> \in P
    BY <2>1 DEF Sound
  <2>. QED
    BY <2>1, <2>2 DEF Placed
<1>2. ASSUME p \in Places, label = Empty \/ LeafAt(label, p)
      PROVE  Placed(label, p)
  <2>1. Sound({<<label, p>>})
    BY <1>2 DEF Sound
  <2>. QED
    BY <2>1 DEF Placed
<1>3. ASSUME p \in Places, NodeAt(label, p), Placed(label.left, Left(p)),
             Placed(label.right, Right(p))
      PROVE  Placed(label, p)
  <2>1. PICK P : Sound(P) /\ <<label.left, Left(p)>> \in P
    BY <1>3 DEF Placed
  <2>2. PICK Q : Sound(Q) /\ <<label.right, Right(p)>> \in Q
    BY <1>3 DEF Placed
  <2> DEFINE W == (P \cup Q) \cup {<<label, p>>}
  <2>3. ASSUME NEW l, NEW q, <<l, q>> \in W
        PROVE  /\ q \in Places
               /\ \/ l = Empty
                  \/ LeafAt(l, q)
                  \/ /\ NodeAt(l, q)
                     /\ <<l.left, Left(q)>> \in W
                     /\ <<l.right, Right(q)>> \in W
    <3>1. CASE <<l, q>> \in P
      BY <2>1, <3>1 DEF Sound
    <3>2. CASE <<l, q>> \in Q
      BY <2>2, <3>2 DEF Sound
    <3>3. CASE <<l, q>> = <<label, p>>
      BY <1>3, <2>1, <2>2, <3>3
    <3>. QED
      BY <2>3, <3>1, <3>2, <3>3
  <2>4. Sound(W)
    BY <2>3 DEF Sound
  <2>. QED
    BY <2>4 DEF Placed
<1>. QED
  BY <1>1, <1>2, <1>3

\* What is placed is of one of three kinds.
LEMMA PlacedKinds ==
    ASSUME NEW label, NEW p, Placed(label, p)
    PROVE  /\ p \in Places
           /\ label # NoLabel
           /\ \/ label = Empty
              \/ IsLeaf(label) /\ LeafAt(label, p)
              \/ IsInternal(label) /\ NodeAt(label, p)
           /\ IsLeaf(label) => /\ LeafAt(label, p)
                               /\ label.key \in Key /\ label.value \in Value
                               /\ Holds(p, label.key)
                               /\ label = Leaf(label.key, label.value)
           /\ IsInternal(label) =>
                 /\ Len(p) < PathLength
                 /\ label = Internal(Scope(p), label.left, label.right)
                 /\ label = Merged(Scope(p), label.left, label.right)
                 /\ Placed(label.left, Left(p)) /\ Placed(label.right, Right(p))
<1>1. /\ p \in Places
      /\ \/ label = Empty
         \/ LeafAt(label, p)
         \/ /\ NodeAt(label, p)
            /\ Placed(label.left, Left(p))
            /\ Placed(label.right, Right(p))
  BY PlacedUnfold
<1>2. CASE label = Empty
  BY <1>1, <1>2, Labels
<1>3. CASE LeafAt(label, p)
  BY <1>1, <1>3, Labels DEF LeafAt
<1>4. CASE NodeAt(label, p) /\ Placed(label.left, Left(p)) /\ Placed(label.right, Right(p))
  <2>1. IsInternal(label) /\ label # Empty /\ ~IsLeaf(label) /\ label # NoLabel
    BY <1>4, InternalNot DEF NodeAt
  <2>2. label = Merged(Scope(p), label.left, label.right) /\ Len(p) < PathLength
    BY <1>4 DEF NodeAt
  <2>3. label = Internal(Scope(p), label.left, label.right)
    <3>1. Merged(Scope(p), label.left, label.right) # label.left
          \/ ~IsLeaf(label.left)
      BY <2>1, <2>2
    <3>. QED
      BY <2>1, <2>2, MergedIs
  <2>. QED
    BY <1>1, <1>4, <2>1, <2>2, <2>3
<1>. QED
  BY <1>1, <1>2, <1>3, <1>4

\* The empty tree may be anywhere.
LEMMA PlacedEmpty ==
    ASSUME NEW p \in Places
    PROVE  Placed(Empty, p)
  BY PlacedUnfold

\* A leaf may be where its key is.
LEMMA PlacedLeaf ==
    ASSUME NEW p \in Places, NEW k \in Key, NEW v \in Value, Holds(p, k)
    PROVE  Placed(Leaf(k, v), p)
  BY PlacedUnfold DEF LeafAt

\* A leaf may be pushed down along the digest of its key, and pulled up.
LEMMA LeafMoves ==
    ASSUME NEW label, NEW p \in Places, NEW d \in Direction, IsLeaf(label), Len(p) < PathLength
    PROVE  /\ Placed(label, p) /\ Path[label.key][Len(p) + 1] = d => Placed(label, Append(p, d))
           /\ Placed(label, Append(p, d)) => Placed(label, p)
<1>1. Append(p, d) \in Places
  BY Deeper
<1>2. ASSUME Placed(label, p), Path[label.key][Len(p) + 1] = d
      PROVE  Placed(label, Append(p, d))
  <2>1. /\ label.key \in Key /\ label.value \in Value /\ Holds(p, label.key)
        /\ label = Leaf(label.key, label.value)
    BY <1>2, PlacedKinds
  <2>2. Holds(Append(p, d), label.key)
    BY <1>2, <2>1, HoldsDeeper
  <2>. QED
    BY <1>1, <2>1, <2>2, PlacedLeaf
<1>3. ASSUME Placed(label, Append(p, d))
      PROVE  Placed(label, p)
  <2>1. /\ label.key \in Key /\ label.value \in Value /\ Holds(Append(p, d), label.key)
        /\ label = Leaf(label.key, label.value)
    BY <1>3, PlacedKinds
  <2>2. Holds(p, label.key)
    BY <2>1, HoldsDeeper
  <2>. QED
    BY <2>1, <2>2, PlacedLeaf
<1>. QED
  BY <1>2, <1>3

\* What two halves make is placed where they meet.
LEMMA MergedPlaced ==
    ASSUME NEW l, NEW r, NEW p \in Places, Len(p) < PathLength,
           Placed(l, Left(p)), Placed(r, Right(p))
    PROVE  Placed(Merged(Scope(p), l, r), p)
<1>1. CASE Merged(Scope(p), l, r) = Empty
  BY <1>1, PlacedEmpty
<1>2. CASE IsLeaf(l) /\ Merged(Scope(p), l, r) = l
  BY <1>2, LeafMoves, Halves
<1>3. CASE IsLeaf(r) /\ Merged(Scope(p), l, r) = r
  BY <1>3, LeafMoves, Halves
<1>4. CASE Merged(Scope(p), l, r) = Internal(Scope(p), l, r)
  <2> DEFINE new == Merged(Scope(p), l, r)
  <2>1. IsInternal(new) /\ new.left = l /\ new.right = r
    BY <1>4, Labels
  <2>2. NodeAt(new, p)
    BY <2>1 DEF NodeAt
  <2>. QED
    BY <2>1, <2>2, PlacedUnfold
<1>. QED
  BY <1>1, <1>2, <1>3, <1>4, MergedIs

\* A node with two leaves has one place: the one where their digests part.
LEMMA LeavesPart ==
    ASSUME NEW label, NEW p, NEW q, Placed(label, p), Placed(label, q), IsInternal(label),
           IsLeaf(label.left), IsLeaf(label.right), Len(p) < Len(q)
    PROVE  FALSE
<1> DEFINE j == label.left.key
           k == label.right.key
<1>1. /\ p \in Places /\ q \in Places /\ Len(p) < PathLength /\ Len(q) < PathLength
      /\ Len(p) \in Nat /\ Len(q) \in Nat
      /\ Placed(label.left, Left(p)) /\ Placed(label.right, Right(p))
      /\ Placed(label.left, Left(q)) /\ Placed(label.right, Right(q))
  BY PlacedKinds, PlaceSeq
<1>2. /\ j \in Key /\ k \in Key
      /\ Holds(Left(p), j) /\ Holds(Left(q), j) /\ Holds(Right(p), k) /\ Holds(Right(q), k)
  BY <1>1, PlacedKinds
<1>3. /\ Path[j][Len(p) + 1] = "L" /\ Path[k][Len(p) + 1] = "R"
      /\ Holds(q, j) /\ Holds(q, k)
  BY <1>1, <1>2, HoldsHalves
<1>4. Above(q, Path[j]) /\ Above(q, Path[k])
  BY <1>1, <1>2, <1>3, HoldsAbove
<1>5. Len(p) + 1 \in 1..Len(q)
  BY <1>1
<1>. QED
  BY <1>3, <1>4, <1>5 DEF Above

\* An internal node has one place.
LEMMA OnePlace ==
    ASSUME NEW label, NEW p, NEW q, Placed(label, p), Placed(label, q), IsInternal(label)
    PROVE  p = q
<1> DEFINE S == { n \in Nat : \A l, a, b :
                    /\ Placed(l, a) /\ Placed(l, b) /\ IsInternal(l)
                    /\ Len(a) + n >= PathLength
                    => a = b }
<1>1. 0 \in S
  <2>1. ASSUME NEW l, NEW a, NEW b, Placed(l, a), IsInternal(l), Len(a) + 0 >= PathLength
        PROVE  FALSE
    BY <2>1, PlacedKinds, PlaceSeq
  <2>. QED
    BY <2>1
<1>2. ASSUME NEW n \in Nat, n \in S
      PROVE  n + 1 \in S
  <2>1. ASSUME NEW l, NEW a, NEW b, Placed(l, a), Placed(l, b), IsInternal(l),
               Len(a) + (n + 1) >= PathLength
        PROVE  a = b
    <3>1. /\ a \in Places /\ b \in Places /\ Len(a) \in Nat /\ Len(b) \in Nat /\ PathLength \in Nat
          /\ Len(a) < PathLength /\ Len(b) < PathLength
          /\ Placed(l.left, Left(a)) /\ Placed(l.right, Right(a))
          /\ Placed(l.left, Left(b)) /\ Placed(l.right, Right(b))
          /\ l = Internal(Scope(a), l.left, l.right)
          /\ l = Merged(Scope(a), l.left, l.right)
      BY <2>1, PlacedKinds, PlaceSeq
    <3>2. Len(Left(a)) = Len(a) + 1 /\ Len(Right(a)) = Len(a) + 1
      BY <3>1, Halves, Deeper
    <3>3. /\ Left(a) = Left(b) => a = b
          /\ Right(a) = Right(b) => a = b
      BY <3>1, HoldsHalves
    <3>4. CASE IsInternal(l.left)
      <4>1. Left(a) = Left(b)
        BY <1>2, <2>1, <3>1, <3>2, <3>4
      <4>. QED
        BY <3>3, <4>1
    <3>5. CASE IsInternal(l.right)
      <4>1. Right(a) = Right(b)
        BY <1>2, <2>1, <3>1, <3>2, <3>5
      <4>. QED
        BY <3>3, <4>1
    <3>6. CASE ~IsInternal(l.left) /\ ~IsInternal(l.right)
      <4>1. /\ l.left = Empty \/ IsLeaf(l.left)
            /\ l.right = Empty \/ IsLeaf(l.right)
        BY <3>1, <3>6, PlacedKinds
      <4>2. IsLeaf(l.left) /\ IsLeaf(l.right)
        <5>1. ~(l.left = Empty /\ l.right = Empty)
          BY <2>1, <3>1, Labels DEF Merged
        <5>2. ~(l.left = Empty /\ IsLeaf(l.right))
          BY <2>1, <3>1, <5>1, Labels, InternalNot DEF Merged
        <5>3. ~(IsLeaf(l.left) /\ l.right = Empty)
          BY <2>1, <3>1, Labels, InternalNot DEF Merged
        <5>. QED
          BY <4>1, <5>1, <5>2, <5>3
      <4>3. ~(Len(a) < Len(b)) /\ ~(Len(b) < Len(a))
        BY <2>1, <4>2, LeavesPart
      <4>4. Len(a) = Len(b)
        BY <3>1, <4>3
      <4>5. Above(a, b) \/ Above(b, a)
        <5>1. l.left.key \in Key /\ Holds(Left(a), l.left.key) /\ Holds(Left(b), l.left.key)
          BY <3>1, <4>2, PlacedKinds
        <5>2. Holds(a, l.left.key) /\ Holds(b, l.left.key)
          BY <3>1, <5>1, HoldsHalves
        <5>. QED
          BY <3>1, <5>1, <5>2, HoldsBoth
      <4>. QED
        BY <3>1, <4>4, <4>5, AboveFacts
    <3>. QED
      BY <3>4, <3>5, <3>6
  <2>. QED
    BY <2>1
<1>3. Nat \subseteq S
  <2> HIDE DEF S
  <2>. QED
    BY <1>1, <1>2, SetInduction
<1>4. Len(p) + PathLength >= PathLength /\ PathLength \in Nat
  BY PlacedKinds, PlaceSeq
<1>. QED
  BY <1>3, <1>4

\* What is placed at two places, is so at places one above the other.
LEMMA Apart ==
    ASSUME NEW label, NEW p, NEW q, Placed(label, p), Placed(label, q), label # Empty
    PROVE  Above(p, q) \/ Above(q, p)
<1>1. p \in Places /\ q \in Places
  BY PlacedKinds
<1>2. CASE IsInternal(label)
  BY <1>1, <1>2, OnePlace, AboveFacts
<1>3. CASE IsLeaf(label)
  BY <1>1, <1>3, PlacedKinds, HoldsBoth
<1>. QED
  BY <1>2, <1>3, PlacedKinds

\* The two halves of a place have no label in common.
LEMMA HalvesApart ==
    ASSUME NEW label, NEW p \in Places, Placed(label, Left(p)), Placed(label, Right(p))
    PROVE  label = Empty
<1>1. Left(p) \in Places /\ Right(p) \in Places /\ Left(p) # Right(p)
  BY PlacedKinds, Halves
<1>2. Len(Left(p)) = Len(Right(p))
  BY Halves, Deeper
<1>. QED
  BY <1>1, <1>2, Apart, AboveFacts, PlaceSeq

-----------------------------------------------------------------------------
(***************************************************************************)
(* The parts of the store.                                                 *)
(***************************************************************************)

\* The part of the store a branch has, is a place above it.
LEMMA ScopeIs ==
    ASSUME NEW p \in Places
    PROVE  /\ Scope(p) \in Seq(Direction)
           /\ Len(Scope(p)) = IF Len(p) < Depth THEN Len(p) ELSE Depth
           /\ \A i \in 1..Len(Scope(p)) : Scope(p)[i] = p[i]
<1>1. /\ p \in Seq(Direction) /\ Len(p) \in Nat /\ Depth \in Nat
      /\ \A i \in 1..Len(p) : p[i] \in Direction
  BY PlaceSeq
<1> DEFINE m == IF Len(p) < Depth THEN Len(p) ELSE Depth
<1>2. m \in Int /\ 1 \in Int /\ m >= 0 /\ m <= Len(p)
  BY <1>1
<1>3. \A i \in 1..m : p[i] \in Direction
  BY <1>1, <1>2
<1> HIDE DEF m
<1>4. /\ SubSeq(p, 1, m) \in Seq(Direction)
      /\ Len(SubSeq(p, 1, m)) = IF 1 <= m THEN m - 1 + 1 ELSE 0
      /\ \A i \in 1 .. m - 1 + 1 : SubSeq(p, 1, m)[i] = p[1 + i - 1]
  BY <1>2, <1>3, SubSeqProperties
<1>5. Scope(p) = SubSeq(p, 1, m)
  BY DEF Scope, m
<1>6. Len(Scope(p)) = m
  BY <1>2, <1>4, <1>5
<1>. QED
  BY <1>2, <1>4, <1>5, <1>6 DEF m

\* A map id with the directions of a scope is in its range.
LEMMA RangeIs ==
    ASSUME NEW p \in Places, NEW label, NEW m \in [1..Depth -> Direction], label.map = m,
           \A i \in 1..Len(Scope(p)) : m[i] = p[i]
    PROVE  InRange(Scope(p), label)
<1>1. /\ Scope(p) \in Seq(Direction) /\ Len(Scope(p)) \in Nat /\ Len(Scope(p)) <= Depth
      /\ Depth \in Nat
      /\ \A i \in 1..Len(Scope(p)) : Scope(p)[i] = p[i]
  BY ScopeIs, PlaceSeq
<1>2. m \in Seq(Direction) /\ Len(m) = Depth
  BY <1>1
<1>3. SubSeq(Scope(p), 1, Len(Scope(p))) = Scope(p)
  BY <1>1, SubSeqFull
<1> DEFINE n == Len(Scope(p))
<1>4. \A i \in 1..n : m[i] \in Direction
  BY <1>1
<1>5. n \in Int /\ 1 \in Int /\ n >= 0
  BY <1>1
<1>6. /\ SubSeq(m, 1, n) \in Seq(Direction)
      /\ Len(SubSeq(m, 1, n)) = IF 1 <= n THEN n - 1 + 1 ELSE 0
      /\ \A i \in 1 .. n - 1 + 1 : SubSeq(m, 1, n)[i] = m[1 + i - 1]
  <2> HIDE DEF n
  <2>. QED
    BY <1>4, <1>5, SubSeqProperties
<1>7. Len(SubSeq(m, 1, n)) = n /\ \A i \in 1..n : SubSeq(m, 1, n)[i] = m[i]
  BY <1>5, <1>6
<1>8. SubSeq(m, 1, n) = Scope(p)
  BY <1>1, <1>6, <1>7, SeqEqual
<1>. QED
  BY <1>1, <1>2, <1>3, <1>8 DEF InRange, IsPrefix

\* A branch's part of the store covers what is placed below the branch.
LEMMA Covered ==
    ASSUME NEW label, NEW p \in Places, NEW q, Placed(label, q), Above(p, q), label # Empty
    PROVE  InRange(Scope(p), label)
<1>1. /\ q \in Places /\ Len(p) \in Nat /\ Len(q) \in Nat /\ Depth \in Nat /\ PathLength \in Nat
      /\ Depth <= PathLength /\ Len(p) <= Len(q)
      /\ \A i \in 1..Len(p) : p[i] = q[i]
      /\ \A i \in 1..Len(q) : q[i] \in Direction
  BY PlacedKinds, PlaceSeq DEF Above
<1>2. Len(Scope(p)) = IF Len(p) < Depth THEN Len(p) ELSE Depth
  BY ScopeIs
<1>3. CASE IsLeaf(label)
  <2>1. /\ label.key \in Key /\ label.map = LeafMap(label.key) /\ Above(q, Path[label.key])
    BY <1>1, <1>3, PlacedKinds, Labels, HoldsAbove
  <2>2. /\ Path[label.key] \in [1..PathLength -> Direction]
        /\ \A i \in 1..Len(q) : q[i] = Path[label.key][i]
    BY <2>1, TreeAssumption DEF Above
  <2>3. LeafMap(label.key) \in [1..Depth -> Direction]
    BY <1>1, <2>2 DEF LeafMap
  <2>4. \A i \in 1..Len(Scope(p)) : LeafMap(label.key)[i] = p[i]
    BY <1>1, <1>2, <2>2 DEF LeafMap
  <2>. QED
    BY <2>1, <2>3, <2>4, RangeIs
<1>4. CASE IsInternal(label)
  <2>1. label.map = InternalMap(Scope(q))
    BY <1>4, PlacedKinds, Labels
  <2>2. /\ Len(Scope(q)) = IF Len(q) < Depth THEN Len(q) ELSE Depth
        /\ \A i \in 1..Len(Scope(q)) : Scope(q)[i] = q[i]
    BY <1>1, ScopeIs
  <2>3. InternalMap(Scope(q)) \in [1..Depth -> Direction]
    <3>1. \A i \in 1..Depth : i <= Len(Scope(q)) => i \in 1..Len(Scope(q)) /\ i \in 1..Len(q)
      BY <1>1, <2>2
    <3>2. \A i \in 1..Depth : i <= Len(Scope(q)) => Scope(q)[i] \in Direction
      BY <1>1, <2>2, <3>1
    <3>. QED
      BY <3>2 DEF InternalMap, Direction
  <2>4. ASSUME NEW i \in 1..Len(Scope(p)) PROVE InternalMap(Scope(q))[i] = p[i]
    <3>1. i \in 1..Depth /\ i \in 1..Len(Scope(q)) /\ i \in 1..Len(p) /\ i <= Len(Scope(q))
      BY <1>1, <1>2, <2>2
    <3>. QED
      BY <1>1, <2>2, <3>1 DEF InternalMap
  <2>. QED
    BY <2>1, <2>3, <2>4, RangeIs
<1>. QED
  BY <1>3, <1>4, PlacedKinds

-----------------------------------------------------------------------------
(***************************************************************************)
(* What a tree says of a key.                                              *)
(***************************************************************************)

\* The labels met from a label at a place down the digest of a key.
Way(f, label, p, k) ==
    f[Len(p)] = label /\ \A i \in (Len(p) + 1)..PathLength : f[i] = Child(f[i - 1], Path[k][i])

\* From that place the digest of the key leads to its leaf, with that value.
Finds(label, p, k, v) ==
    \E f : /\ Way(f, label, p, k)
           /\ IsLeaf(f[PathLength]) /\ f[PathLength].key = k /\ f[PathLength].value = v

\* From what is not internal one gets no further.
LEMMA WayEnds ==
    ASSUME NEW p \in Places, NEW k \in Key, NEW label, ~IsInternal(label),
           NEW f, Way(f, label, p, k)
    PROVE  f[PathLength] = label
<1> DEFINE S == { n \in Nat : Len(p) + n <= PathLength => f[Len(p) + n] = label }
<1>1. Len(p) \in Nat /\ PathLength \in Nat /\ Len(p) <= PathLength
  BY PlaceSeq
<1>2. 0 \in S
  BY <1>1 DEF Way
<1>3. ASSUME NEW n \in Nat, n \in S
      PROVE  n + 1 \in S
  <2>1. SUFFICES ASSUME Len(p) + (n + 1) <= PathLength
                 PROVE  f[Len(p) + (n + 1)] = label
    OBVIOUS
  <2> DEFINE i == Len(p) + (n + 1)
  <2>2. i \in (Len(p) + 1)..PathLength /\ i - 1 = Len(p) + n /\ f[Len(p) + n] = label
    BY <1>1, <1>3, <2>1
  <2>3. f[i] = Child(f[i - 1], Path[k][i])
    BY <2>2 DEF Way
  <2>. QED
    BY <2>2, <2>3 DEF Child
<1>4. PathLength - Len(p) \in S
  <2>1. PathLength - Len(p) \in Nat
    BY <1>1
  <2> HIDE DEF S
  <2>. QED
    BY <1>2, <1>3, <2>1, SetInduction
<1>5. Len(p) + (PathLength - Len(p)) = PathLength
  BY <1>1
<1>. QED
  BY <1>1, <1>4, <1>5

\* There is a way down to the end of a digest.
LEMMA WayThere ==
    ASSUME NEW p \in Places, NEW k \in Key, NEW label
    PROVE  \E f : Way(f, label, p, k)
<1>1. Len(p) \in Nat /\ PathLength \in Nat /\ Len(p) <= PathLength
  BY PlaceSeq
<1> DEFINE m == Len(p)
           s == [i \in 1..PathLength |-> IF i + m <= PathLength THEN Path[k][i + m] ELSE "L"]
<1>2. PICK g : Walk(g, label, s, PathLength)
  <2> HIDE DEF s
  <2>. QED
    BY <1>1, WalkAny
<1> DEFINE f == [i \in m..PathLength |-> g[i - m]]
<1>3. f[m] = label
  <2>1. m \in m..PathLength /\ m - m = 0 /\ 0 \in 0..PathLength
    BY <1>1
  <2>. QED
    BY <1>2, <2>1 DEF Walk
<1>4. ASSUME NEW i \in (m + 1)..PathLength
      PROVE  f[i] = Child(f[i - 1], Path[k][i])
  <2>1. /\ i \in m..PathLength /\ i - 1 \in m..PathLength /\ i - m \in 1..PathLength
        /\ (i - m) + m = i /\ (i - 1) - m = (i - m) - 1 /\ i - m # 0 /\ i - m \in 0..PathLength
    BY <1>1
  <2>2. f[i] = g[i - m] /\ f[i - 1] = g[(i - m) - 1] /\ s[i - m] = Path[k][i]
    BY <1>1, <2>1
  <2>3. g[i - m] = Child(g[(i - m) - 1], s[i - m])
    BY <1>2, <2>1 DEF Walk
  <2>. QED
    BY <2>2, <2>3
<1>. QED
  BY <1>3, <1>4 DEF Way

\* What is not internal says what it is.
LEMMA FindsHere ==
    ASSUME NEW p \in Places, NEW k \in Key, NEW v, NEW label, ~IsInternal(label)
    PROVE  Finds(label, p, k, v) <=> IsLeaf(label) /\ label.key = k /\ label.value = v
  BY WayEnds, WayThere DEF Finds

\* A child says of its keys what its parent does.
LEMMA FindsBelow ==
    ASSUME NEW p \in Places, Len(p) < PathLength, NEW d \in Direction, NEW k \in Key,
           Holds(Append(p, d), k), NEW v, NEW label
    PROVE  Finds(label, p, k, v) <=> Finds(Child(label, d), Append(p, d), k, v)
<1> DEFINE q == Append(p, d)
           child == Child(label, d)
<1>1. /\ Len(p) \in Nat /\ PathLength \in Nat /\ Len(q) = Len(p) + 1
      /\ Path[k][Len(p) + 1] = d
  BY PlaceSeq, Deeper, HoldsDeeper
<1> HIDE DEF q
<1>2. ASSUME NEW f, Way(f, label, p, k)
      PROVE  Way(f, child, q, k)
  <2>1. Len(p) + 1 \in (Len(p) + 1)..PathLength /\ (Len(p) + 1) - 1 = Len(p)
    BY <1>1
  <2>2. f[Len(q)] = child
    BY <1>1, <1>2, <2>1 DEF Way
  <2>3. \A i \in (Len(q) + 1)..PathLength : i \in (Len(p) + 1)..PathLength
    BY <1>1
  <2>. QED
    BY <1>2, <2>2, <2>3 DEF Way
<1>3. ASSUME NEW f, Way(f, child, q, k)
      PROVE  \E g : Way(g, label, p, k) /\ g[PathLength] = f[PathLength]
  <2> DEFINE g == [i \in Len(p)..PathLength |-> IF i = Len(p) THEN label ELSE f[i]]
  <2>1. g[Len(p)] = label /\ g[PathLength] = f[PathLength]
    BY <1>1
  <2>2. ASSUME NEW i \in (Len(p) + 1)..PathLength
        PROVE  g[i] = Child(g[i - 1], Path[k][i])
    <3>1. CASE i = Len(p) + 1
      <4>1. g[i] = f[Len(q)] /\ g[i - 1] = label
        BY <1>1, <3>1
      <4>. QED
        BY <1>1, <1>3, <3>1, <4>1 DEF Way
    <3>2. CASE i # Len(p) + 1
      <4>1. i \in (Len(q) + 1)..PathLength
        BY <1>1, <3>2
      <4>2. g[i] = f[i] /\ g[i - 1] = f[i - 1]
        BY <1>1, <3>2
      <4>. QED
        BY <1>3, <4>1, <4>2 DEF Way
    <3>. QED
      BY <3>1, <3>2
  <2>. QED
    BY <2>1, <2>2 DEF Way
<1>. QED
  BY <1>2, <1>3 DEF Finds, q

\* An internal node says of a key what the half does that has it.
LEMMA FindsHalf ==
    ASSUME NEW p \in Places, Len(p) < PathLength, NEW k \in Key, NEW v, NEW label,
           IsInternal(label)
    PROVE  /\ Holds(Left(p), k) => (Finds(label, p, k, v) <=> Finds(label.left, Left(p), k, v))
           /\ Holds(Right(p), k) => (Finds(label, p, k, v) <=> Finds(label.right, Right(p), k, v))
<1>1. "L" \in Direction /\ "R" \in Direction /\ Child(label, "L") = label.left
      /\ Child(label, "R") = label.right
  BY DEF Direction, Child
<1>2. Left(p) = Append(p, "L") /\ Right(p) = Append(p, "R")
  BY Halves
<1>3. Holds(Append(p, "L"), k) =>
         (Finds(label, p, k, v) <=> Finds(Child(label, "L"), Append(p, "L"), k, v))
  BY <1>1, FindsBelow
<1>4. Holds(Append(p, "R"), k) =>
         (Finds(label, p, k, v) <=> Finds(Child(label, "R"), Append(p, "R"), k, v))
  BY <1>1, FindsBelow
<1>. QED
  BY <1>1, <1>2, <1>3, <1>4

\* Every key of a place above the end of the digests is in one of its halves.
LEMMA HalvesHold ==
    ASSUME NEW p \in Places, Len(p) < PathLength, NEW k \in Key, Holds(p, k)
    PROVE  /\ Holds(Left(p), k) \/ Holds(Right(p), k)
           /\ ~(Holds(Left(p), k) /\ Holds(Right(p), k))
<1>1. Len(p) + 1 \in 1..PathLength
  BY PlaceSeq
<1>2. Path[k][Len(p) + 1] \in Direction
  BY <1>1, TreeAssumption
<1>. QED
  BY <1>2, HoldsHalves DEF Direction

\* What two halves make says of a key what the half does that has it.
LEMMA FindsMerged ==
    ASSUME NEW p \in Places, Len(p) < PathLength, NEW l, NEW r,
           Placed(l, Left(p)), Placed(r, Right(p)), NEW k \in Key, Holds(p, k), NEW v
    PROVE  /\ Holds(Left(p), k) =>
                 (Finds(Merged(Scope(p), l, r), p, k, v) <=> Finds(l, Left(p), k, v))
           /\ Holds(Right(p), k) =>
                 (Finds(Merged(Scope(p), l, r), p, k, v) <=> Finds(r, Right(p), k, v))
<1> DEFINE new == Merged(Scope(p), l, r)
<1>1. /\ Left(p) \in Places /\ Right(p) \in Places
      /\ ~IsLeaf(Empty) /\ ~IsInternal(Empty)
      /\ ~(Holds(Left(p), k) /\ Holds(Right(p), k))
  BY HalfFacts, Labels, HalvesHold
<1>2. CASE l = Empty /\ r = Empty /\ new = Empty
  BY <1>1, <1>2, FindsHere
<1>3. CASE IsLeaf(l) /\ r = Empty /\ new = l
  <2>1. ~IsInternal(l) /\ Holds(Left(p), l.key)
    BY <1>3, PlacedKinds, InternalNot
  <2>2. Finds(l, p, k, v) <=> IsLeaf(l) /\ l.key = k /\ l.value = v
    BY <2>1, FindsHere
  <2>3. Finds(l, Left(p), k, v) <=> IsLeaf(l) /\ l.key = k /\ l.value = v
    BY <1>1, <2>1, FindsHere
  <2>4. ~Finds(r, Right(p), k, v)
    BY <1>1, <1>3, FindsHere
  <2>. QED
    BY <1>1, <1>3, <2>1, <2>2, <2>3, <2>4
<1>4. CASE IsLeaf(r) /\ l = Empty /\ new = r
  <2>1. ~IsInternal(r) /\ Holds(Right(p), r.key)
    BY <1>4, PlacedKinds, InternalNot
  <2>2. Finds(r, p, k, v) <=> IsLeaf(r) /\ r.key = k /\ r.value = v
    BY <2>1, FindsHere
  <2>3. Finds(r, Right(p), k, v) <=> IsLeaf(r) /\ r.key = k /\ r.value = v
    BY <1>1, <2>1, FindsHere
  <2>4. ~Finds(l, Left(p), k, v)
    BY <1>1, <1>4, FindsHere
  <2>. QED
    BY <1>1, <1>4, <2>1, <2>2, <2>3, <2>4
<1>5. CASE new = Internal(Scope(p), l, r)
  <2>1. IsInternal(new) /\ new.left = l /\ new.right = r
    BY <1>5, Labels
  <2>. QED
    BY <2>1, FindsHalf
<1>. QED
  BY <1>2, <1>3, <1>4, <1>5, MergedIs

\* A tree maps a key to a value, or to nothing.
LEMMA FindsOne ==
    ASSUME NEW p \in Places, NEW k \in Key, NEW label, NEW v, NEW w,
           Finds(label, p, k, v), Finds(label, p, k, w)
    PROVE  v = w
<1>1. PICK f : Way(f, label, p, k) /\ f[PathLength].value = v
  BY DEF Finds
<1>2. PICK g : Way(g, label, p, k) /\ g[PathLength].value = w
  BY DEF Finds
<1> DEFINE S == { n \in Nat : Len(p) + n <= PathLength => f[Len(p) + n] = g[Len(p) + n] }
<1>3. Len(p) \in Nat /\ PathLength \in Nat /\ Len(p) <= PathLength
  BY PlaceSeq
<1>4. 0 \in S
  BY <1>1, <1>2, <1>3 DEF Way
<1>5. ASSUME NEW n \in Nat, n \in S
      PROVE  n + 1 \in S
  <2>1. SUFFICES ASSUME Len(p) + (n + 1) <= PathLength
                 PROVE  f[Len(p) + (n + 1)] = g[Len(p) + (n + 1)]
    OBVIOUS
  <2> DEFINE i == Len(p) + (n + 1)
  <2>2. i \in (Len(p) + 1)..PathLength /\ i - 1 = Len(p) + n /\ f[Len(p) + n] = g[Len(p) + n]
    BY <1>3, <1>5, <2>1
  <2>3. f[i] = Child(f[i - 1], Path[k][i]) /\ g[i] = Child(g[i - 1], Path[k][i])
    BY <1>1, <1>2, <2>2 DEF Way
  <2>. QED
    BY <2>2, <2>3
<1>6. PathLength - Len(p) \in S
  <2>1. PathLength - Len(p) \in Nat
    BY <1>3
  <2> HIDE DEF S
  <2>. QED
    BY <1>4, <1>5, <2>1, SetInduction
<1>7. Len(p) + (PathLength - Len(p)) = PathLength
  BY <1>3
<1>. QED
  BY <1>1, <1>2, <1>3, <1>6, <1>7

\* What is met on the way down: a leaf is one of the table, and a node that is
\* internal is where it belongs.
Met(label, p) ==
    /\ IsInternal(label) => Placed(label, p)
    /\ IsLeaf(label) => /\ label.key \in Key /\ label.value \in Value
                        /\ label = Leaf(label.key, label.value)

\* One step down.
LEMMA MetStep ==
    ASSUME NEW p \in Places, NEW d \in Direction, NEW label, Met(label, p)
    PROVE  Met(Child(label, d), Append(p, d))
<1>1. CASE ~IsInternal(label)
  BY <1>1 DEF Met, Child
<1>2. CASE IsInternal(label)
  <2>1. Placed(label, p)
    BY <1>2 DEF Met
  <2>2. Placed(label.left, Left(p)) /\ Placed(label.right, Right(p))
    BY <1>2, <2>1, PlacedKinds
  <2>3. \/ Child(label, d) = label.left /\ Append(p, d) = Left(p)
        \/ Child(label, d) = label.right /\ Append(p, d) = Right(p)
    <3>1. CASE d = "L"
      BY <1>2, <3>1 DEF Child, Left
    <3>2. CASE d = "R"
      BY <1>2, <3>2 DEF Child, Right
    <3>. QED
      BY <3>1, <3>2 DEF Direction
  <2>4. Placed(Child(label, d), Append(p, d))
    BY <2>2, <2>3
  <2>. QED
    BY <2>4, PlacedKinds DEF Met
<1>. QED
  BY <1>1, <1>2

\* Down a tree from its root.
LEMMA Meets ==
    ASSUME NEW label, Placed(label, Root), NEW p \in Places
    PROVE  /\ Met(Descend(label, p), p)
           /\ \A k \in Key : \A v : Holds(p, k) =>
                 (Finds(label, Root, k, v) <=> Finds(Descend(label, p), p, k, v))
<1> DEFINE Good(q) == /\ Met(Descend(label, q), q)
                      /\ \A k \in Key : \A v : Holds(q, k) =>
                            (Finds(label, Root, k, v) <=> Finds(Descend(label, q), q, k, v))
           S == { n \in Nat : \A q \in Places : Len(q) = n => Good(q) }
<1>1. 0 \in S
  <2>1. \A q \in Places : Len(q) = 0 => q = Root
    BY Higher, PlaceSeq
  <2>2. Descend(label, Root) = label /\ Met(label, Root)
    BY DescendStep, PlacedKinds DEF Met
  <2>3. Good(Root)
    BY <2>2
  <2> HIDE DEF Good
  <2>. QED
    BY <2>1, <2>3
<1>2. ASSUME NEW n \in Nat, n \in S
      PROVE  n + 1 \in S
  <2>1. ASSUME NEW q \in Places, Len(q) = n + 1
        PROVE  Good(q)
    <3>1. q # Root
      BY <2>1, RootPlace
    <3>2. PICK r \in Places, d \in Direction :
             q = Append(r, d) /\ Len(r) = n /\ Len(r) < PathLength
      BY <2>1, <3>1, Higher
    <3>3. Good(r)
      BY <1>2, <3>2
    <3> DEFINE here == Descend(label, r)
    <3>4. Descend(label, Append(r, d)) = Child(here, d)
      BY <3>2, DescendStep
    <3>5. Met(Child(here, d), Append(r, d))
      BY <3>3, MetStep
    <3>6. ASSUME NEW k \in Key, NEW v, Holds(Append(r, d), k)
          PROVE  Finds(label, Root, k, v) <=> Finds(Child(here, d), Append(r, d), k, v)
      <4>1. Holds(r, k)
        BY <3>2, <3>6, HoldsDeeper
      <4>2. Finds(label, Root, k, v) <=> Finds(here, r, k, v)
        BY <3>3, <4>1
      <4>3. Finds(here, r, k, v) <=> Finds(Child(here, d), Append(r, d), k, v)
        BY <3>2, <3>6, FindsBelow
      <4>. QED
        BY <4>2, <4>3
    <3> HIDE DEF here
    <3>. QED
      BY <3>2, <3>4, <3>5, <3>6
  <2> HIDE DEF Good
  <2>. QED
    BY <2>1
<1> HIDE DEF S
<1>3. Len(p) \in S
  BY <1>1, <1>2, PlaceSeq, SetInduction
<1>. QED
  BY <1>3 DEF S

\* Reading a tree along a digest is what the tree says of the key.
LEMMA LookupFinds ==
    ASSUME NEW label, Placed(label, Root), NEW k \in Key
    PROVE  /\ Lookup(label, k) \in Value \cup {Nothing}
           /\ \A v \in Value : Lookup(label, k) = v <=> Finds(label, Root, k, v)
<1> DEFINE end == Descend(label, Path[k])
<1>1. Path[k] \in Places /\ Len(Path[k]) = PathLength /\ PathLength \in Nat /\ Holds(Path[k], k)
  BY PathPlace, PlaceSeq, HoldsAbove, AboveFacts
<1>2. Met(end, Path[k]) /\ \A v : Finds(label, Root, k, v) <=> Finds(end, Path[k], k, v)
  BY <1>1, Meets
<1>3. ~IsInternal(end)
  BY <1>1, <1>2, PlacedKinds DEF Met
<1>4. \A v : Finds(end, Path[k], k, v) <=> IsLeaf(end) /\ end.key = k /\ end.value = v
  BY <1>1, <1>3, FindsHere
<1>5. Lookup(label, k) = IF IsLeaf(end) /\ end.key = k THEN end.value ELSE Nothing
  BY DEF Lookup
<1>6. IsLeaf(end) => end.value \in Value
  BY <1>2 DEF Met
<1> HIDE DEF end
<1>. QED
  BY <1>2, <1>4, <1>5, <1>6, NothingAssumption

\* A subtree that is not empty has a key; an internal one has two.
LEMMA Bears ==
    ASSUME NEW label, NEW p, Placed(label, p), label # Empty
    PROVE  /\ \E k \in Key, v \in Value : Holds(p, k) /\ Finds(label, p, k, v)
           /\ IsInternal(label) =>
                 \E j, k \in Key, v, w \in Value :
                    /\ j # k /\ Holds(p, j) /\ Holds(p, k)
                    /\ Finds(label, p, j, v) /\ Finds(label, p, k, w)
<1> DEFINE One(l, q) == \E k \in Key, v \in Value : Holds(q, k) /\ Finds(l, q, k, v)
           Two(l, q) == \E j, k \in Key, v, w \in Value :
                           /\ j # k /\ Holds(q, j) /\ Holds(q, k)
                           /\ Finds(l, q, j, v) /\ Finds(l, q, k, w)
           S == { n \in Nat : \A l, q : Placed(l, q) /\ IsInternal(l) /\ Len(q) + n >= PathLength
                                           => Two(l, q) }
<1>1. ASSUME NEW l, NEW q, Placed(l, q), IsLeaf(l)
      PROVE  One(l, q)
  <2>1. /\ q \in Places /\ l.key \in Key /\ l.value \in Value /\ Holds(q, l.key)
        /\ ~IsInternal(l)
    BY <1>1, PlacedKinds, InternalNot
  <2>2. Finds(l, q, l.key, l.value)
    BY <1>1, <2>1, FindsHere
  <2>. QED
    BY <2>1, <2>2
<1>2. \A l, q : Two(l, q) => One(l, q)
  OBVIOUS
<1>3. ASSUME NEW l, NEW q, Placed(l, q), IsInternal(l),
             IsInternal(l.left) => Two(l.left, Left(q)),
             IsInternal(l.right) => Two(l.right, Right(q))
      PROVE  Two(l, q)
  <2>1. /\ q \in Places /\ Len(q) < PathLength
        /\ l = Merged(Scope(q), l.left, l.right)
        /\ Placed(l.left, Left(q)) /\ Placed(l.right, Right(q))
    BY <1>3, PlacedKinds
  <2>2. \A k \in Key : /\ Holds(Left(q), k) \/ Holds(Right(q), k) => Holds(q, k)
                       /\ ~(Holds(Left(q), k) /\ Holds(Right(q), k))
    BY <2>1, HoldsHalves
  <2>3. /\ \A k \in Key : \A v : Holds(Left(q), k) /\ Finds(l.left, Left(q), k, v) => Finds(l, q, k, v)
        /\ \A k \in Key : \A v : Holds(Right(q), k) /\ Finds(l.right, Right(q), k, v) => Finds(l, q, k, v)
    BY <1>3, <2>1, FindsHalf
  <2>4. CASE Two(l.left, Left(q)) \/ Two(l.right, Right(q))
    BY <2>2, <2>3, <2>4
  <2>5. CASE One(l.left, Left(q)) /\ One(l.right, Right(q))
    <3>1. PICK j \in Key, v \in Value : Holds(Left(q), j) /\ Finds(l.left, Left(q), j, v)
      BY <2>5
    <3>2. PICK k \in Key, w \in Value : Holds(Right(q), k) /\ Finds(l.right, Right(q), k, w)
      BY <2>5
    <3>3. j # k /\ Holds(q, j) /\ Holds(q, k) /\ Finds(l, q, j, v) /\ Finds(l, q, k, w)
      BY <2>2, <2>3, <3>1, <3>2
    <3>. QED
      BY <3>3
  <2>6. CASE ~IsInternal(l.left) /\ ~IsInternal(l.right)
    <3>1. /\ l.left = Empty \/ IsLeaf(l.left)
          /\ l.right = Empty \/ IsLeaf(l.right)
      BY <2>1, <2>6, PlacedKinds
    <3>2. IsLeaf(l.left) /\ IsLeaf(l.right)
      <4>1. ~(l.left = Empty /\ l.right = Empty)
        BY <1>3, <2>1, Labels DEF Merged
      <4>2. ~(l.left = Empty /\ IsLeaf(l.right))
        BY <1>3, <2>1, <4>1, Labels, InternalNot DEF Merged
      <4>3. ~(IsLeaf(l.left) /\ l.right = Empty)
        BY <1>3, <2>1, Labels, InternalNot DEF Merged
      <4>. QED
        BY <3>1, <4>1, <4>2, <4>3
    <3> HIDE DEF One, Two
    <3>3. One(l.left, Left(q)) /\ One(l.right, Right(q))
      BY <1>1, <2>1, <3>2
    <3>. QED
      BY <2>5, <3>3
  <2> HIDE DEF One, Two
  <2>. QED
    BY <1>3, <2>4, <2>6
<1>4. 0 \in S
  <2>1. \A l, q : Placed(l, q) /\ IsInternal(l) => ~(Len(q) + 0 >= PathLength)
    BY PlacedKinds, PlaceSeq
  <2> HIDE DEF Two
  <2>. QED
    BY <2>1
<1> HIDE DEF One, Two
<1>5. ASSUME NEW n \in Nat, n \in S
      PROVE  n + 1 \in S
  <2>1. ASSUME NEW l, NEW q, Placed(l, q), IsInternal(l), Len(q) + (n + 1) >= PathLength
        PROVE  Two(l, q)
    <3>1. /\ q \in Places /\ Len(q) \in Nat /\ PathLength \in Nat
          /\ Placed(l.left, Left(q)) /\ Placed(l.right, Right(q))
      BY <2>1, PlacedKinds, PlaceSeq
    <3>2. Len(Left(q)) = Len(q) + 1 /\ Len(Right(q)) = Len(q) + 1
      BY <3>1, HalfFacts
    <3>3. Len(Left(q)) + n >= PathLength /\ Len(Right(q)) + n >= PathLength
      BY <2>1, <3>1, <3>2
    <3>. QED
      BY <1>3, <1>5, <2>1, <3>1, <3>3
  <2>. QED
    BY <2>1
<1>6. IsInternal(label) => Two(label, p)
  <2>1. Len(p) + PathLength >= PathLength /\ PathLength \in Nat
    BY PlacedKinds, PlaceSeq
  <2>2. PathLength \in S
    <3> HIDE DEF S
    <3>. QED
      BY <1>4, <1>5, <2>1, SetInduction
  <2>. QED
    BY <2>1, <2>2
<1>7. One(label, p)
  BY <1>1, <1>2, <1>6, PlacedKinds
<1>. QED
  BY <1>6, <1>7 DEF One, Two

-----------------------------------------------------------------------------
(***************************************************************************)
(* The tree of a map is the only one there is for it.                      *)
(***************************************************************************)

\* The keys of a tree below a place.
LEMMA KeysFound ==
    ASSUME NEW label, Placed(label, Root), NEW p \in Places, NEW k
    PROVE  k \in KeysBelow(Contents(label), p) <=>
              /\ k \in Key /\ Holds(p, k)
              /\ \E v \in Value : Finds(Descend(label, p), p, k, v) /\ Contents(label)[k] = v
<1>1. SUFFICES ASSUME k \in Key, Holds(p, k)
               PROVE  Contents(label)[k] # Nothing <=>
                         \E v \in Value : Finds(Descend(label, p), p, k, v) /\ Contents(label)[k] = v
  BY DEF KeysBelow
<1>2. Contents(label)[k] = Lookup(label, k)
  BY <1>1 DEF Contents
<1>3. \A v \in Value : Lookup(label, k) = v <=> Finds(Descend(label, p), p, k, v)
  BY <1>1, LookupFinds, Meets
<1>. QED
  BY <1>1, <1>2, <1>3, LookupFinds, NothingAssumption

\* What is met at a place when some key is below it.
MetNode(label, p) ==
    IF KeysBelow(Contents(label), p) = {} THEN Empty ELSE Descend(label, p)

\* It is the node the map has there.
LEMMA MetNodeIs ==
    ASSUME NEW label, Placed(label, Root), NEW p \in Places
    PROVE  MetNode(label, p) =
              NodeOf(Contents(label), p, MetNode(label, Left(p)), MetNode(label, Right(p)))
<1> DEFINE map == Contents(label)
           keys == KeysBelow(map, p)
           here == Descend(label, p)
<1>1. Met(here, p)
  BY Meets
<1>2. \A k \in keys : /\ k \in Key /\ Holds(p, k)
                      /\ map[k] \in Value /\ Finds(here, p, k, map[k])
  BY KeysFound
<1>3. ~IsInternal(here) => \A k \in keys : IsLeaf(here) /\ here.key = k /\ here.value = map[k]
  BY <1>2, FindsHere
<1>4. CASE keys = {}
  BY <1>4 DEF MetNode, NodeOf
<1>5. CASE \E k \in keys : keys = {k}
  <2>1. PICK k \in keys : keys = {k}
    BY <1>5
  <2>2. ~IsInternal(here)
    <3>1. SUFFICES ASSUME IsInternal(here) PROVE FALSE
      OBVIOUS
    <3>2. Placed(here, p) /\ here # Empty
      BY <1>1, <3>1, InternalNot DEF Met
    <3>3. PICK i, j \in Key, v, w \in Value :
             /\ i # j /\ Holds(p, i) /\ Holds(p, j)
             /\ Finds(here, p, i, v) /\ Finds(here, p, j, w)
      BY <3>1, <3>2, Bears
    <3>4. ASSUME NEW x \in Key, NEW u \in Value, Holds(p, x), Finds(here, p, x, u)
          PROVE  x \in keys
      <4>1. Lookup(label, x) = u
        BY <3>4, LookupFinds, Meets
      <4>. QED
        BY <3>4, <4>1, KeysFound DEF Contents
    <3>. QED
      BY <2>1, <3>3, <3>4
  <2>3. here = Leaf(k, map[k])
    BY <1>1, <1>3, <2>1, <2>2 DEF Met
  <2>4. (CHOOSE x \in keys : TRUE) = k
    BY <2>1
  <2>5. NodeOf(map, p, MetNode(label, Left(p)), MetNode(label, Right(p))) = Leaf(k, map[k])
    BY <2>1, <2>4 DEF NodeOf
  <2>. QED
    BY <2>1, <2>3, <2>5 DEF MetNode
<1>6. CASE keys # {} /\ ~\E k \in keys : keys = {k}
  <2>1. IsInternal(here)
    <3>1. PICK j \in keys, k \in keys : j # k
      BY <1>6
    <3>. QED
      BY <1>3, <3>1
  <2>2. /\ Len(p) < PathLength /\ here = Internal(Scope(p), here.left, here.right)
        /\ Placed(here.left, Left(p)) /\ Placed(here.right, Right(p))
    BY <1>1, <2>1, PlacedKinds DEF Met
  <2>3. /\ Left(p) \in Places /\ Right(p) \in Places
        /\ Descend(label, Left(p)) = here.left /\ Descend(label, Right(p)) = here.right
    <3>1. Left(p) \in Places /\ Right(p) \in Places
      BY <2>2, HalfFacts
    <3>2. /\ Left(p) = Append(p, "L") /\ Right(p) = Append(p, "R")
          /\ "L" \in Direction /\ "R" \in Direction
      BY Halves DEF Direction
    <3>3. /\ Descend(label, Append(p, "L")) = Child(here, "L")
          /\ Descend(label, Append(p, "R")) = Child(here, "R")
      BY <3>2, DescendStep
    <3>4. Child(here, "L") = here.left /\ Child(here, "R") = here.right
      BY <2>1 DEF Child
    <3> HIDE DEF here
    <3>. QED
      BY <3>1, <3>2, <3>3, <3>4
  <2>4. ASSUME NEW half \in {Left(p), Right(p)}
        PROVE  MetNode(label, half) = Descend(label, half)
    <3>1. SUFFICES ASSUME KeysBelow(map, half) = {}
                   PROVE  Descend(label, half) = Empty
      BY DEF MetNode
    <3>2. Placed(Descend(label, half), half) /\ half \in Places
      BY <2>2, <2>3
    <3>3. ASSUME NEW k \in Key, NEW v \in Value, Holds(half, k), Finds(Descend(label, half), half, k, v)
          PROVE  k \in KeysBelow(map, half)
      <4>1. Lookup(label, k) = v
        BY <3>2, <3>3, LookupFinds, Meets
      <4>. QED
        BY <3>2, <3>3, <4>1, KeysFound DEF Contents
    <3>. QED
      BY <3>1, <3>2, <3>3, Bears
  <2>5. NodeOf(map, p, MetNode(label, Left(p)), MetNode(label, Right(p)))
           = Internal(Scope(p), MetNode(label, Left(p)), MetNode(label, Right(p)))
    BY <1>6 DEF NodeOf
  <2>6. MetNode(label, p) = here
    BY <1>6 DEF MetNode
  <2>. QED
    BY <2>2, <2>3, <2>4, <2>5, <2>6
<1>. QED
  BY <1>4, <1>5, <1>6

\* A function that builds a map's nodes from their halves.
Builds(f, map) ==
    \A p \in {Root} \cup Locations :
        f[p] = NodeOf(map, p,
                      IF KeysBelow(map, Left(p)) = {} THEN Empty ELSE f[Left(p)],
                      IF KeysBelow(map, Right(p)) = {} THEN Empty ELSE f[Right(p)])

\* It builds what is met in a tree of the map.
LEMMA BuildsMet ==
    ASSUME NEW label, Placed(label, Root), NEW f, Builds(f, Contents(label))
    PROVE  f[Root] = MetNode(label, Root)
<1> DEFINE map == Contents(label)
           S == { n \in Nat : \A p \in {Root} \cup Locations :
                     Len(p) + n >= PathLength + 1 => f[p] = MetNode(label, p) }
<1>1. {Root} \cup Locations \subseteq Places
  BY LocationsPlaces, RootPlace
<1>2. 0 \in S
  <2>1. \A p \in Places : ~(Len(p) + 0 >= PathLength + 1)
    BY PlaceSeq
  <2>. QED
    BY <1>1, <2>1
<1>3. ASSUME NEW n \in Nat, n \in S
      PROVE  n + 1 \in S
  <2>1. ASSUME NEW p \in {Root} \cup Locations, Len(p) + (n + 1) >= PathLength + 1
        PROVE  f[p] = MetNode(label, p)
    <3>1. p \in Places /\ Len(p) \in Nat /\ PathLength \in Nat /\ Len(p) <= PathLength
      BY <1>1, PlaceSeq
    <3>2. ASSUME NEW half \in {Left(p), Right(p)}
          PROVE  (IF KeysBelow(map, half) = {} THEN Empty ELSE f[half]) = MetNode(label, half)
      <4>1. SUFFICES ASSUME KeysBelow(map, half) # {}
                     PROVE  f[half] = MetNode(label, half)
        BY DEF MetNode
      <4>2. PICK k \in Key : Holds(half, k)
        BY <4>1 DEF KeysBelow
      <4>3. Len(half) = Len(p) + 1
        BY <3>1, HalfFacts
      <4>4. Len(p) < PathLength
        BY <3>1, <4>2, HoldsShort
      <4>5. half \in Locations
        BY <3>1, <4>2, <4>4, HalfFacts, LocationsPlaces
      <4>6. Len(half) + n >= PathLength + 1
        BY <2>1, <3>1, <4>3
      <4>. QED
        BY <1>3, <4>5, <4>6
    <3>3. f[p] = NodeOf(map, p, MetNode(label, Left(p)), MetNode(label, Right(p)))
      <4> HIDE DEF map
      <4>. QED
        BY <3>2 DEF Builds, map
    <3>. QED
      BY <3>1, <3>3, MetNodeIs
  <2>. QED
    BY <2>1
<1> HIDE DEF S
<1>4. PathLength + 1 \in S
  BY <1>2, <1>3, RootPlace, PlaceSeq, SetInduction
<1>. QED
  BY <1>4, RootPlace DEF S

\* The root of a tree is that of the tree of its contents.
LEMMA TreeIsOne ==
    ASSUME NEW label, Placed(label, Root)
    PROVE  label = Tree(Contents(label))
<1> DEFINE map == Contents(label)
           Step(f, p) ==
              NodeOf(map, p,
                     IF KeysBelow(map, Left(p)) = {} THEN Empty ELSE f[Left(p)],
                     IF KeysBelow(map, Right(p)) = {} THEN Empty ELSE f[Right(p)])
           tree == CHOOSE f : f = [p \in {Root} \cup Locations |-> Step(f, p)]
           g == [p \in {Root} \cup Locations |-> MetNode(label, p)]
<1>1. Tree(map) = tree[Root]
  BY DEF Tree
<1>2. ASSUME NEW p \in {Root} \cup Locations
      PROVE  g[p] = Step(g, p)
  <2>1. p \in Places
    BY LocationsPlaces, RootPlace
  <2>2. ASSUME NEW half \in {Left(p), Right(p)}
        PROVE  (IF KeysBelow(map, half) = {} THEN Empty ELSE g[half]) = MetNode(label, half)
    <3>1. SUFFICES ASSUME KeysBelow(map, half) # {}
                   PROVE  g[half] = MetNode(label, half)
      BY DEF MetNode
    <3>2. PICK k \in Key : Holds(half, k)
      BY <3>1 DEF KeysBelow
    <3>3. half \in Locations
      BY <2>1, <3>2, HoldsShort, HalfFacts, LocationsPlaces
    <3>. QED
      BY <3>3
  <2>3. g[p] = MetNode(label, p)
    OBVIOUS
  <2> HIDE DEF g, map
  <2>. QED
    BY <2>1, <2>2, <2>3, MetNodeIs DEF map
<1>3. g = [p \in {Root} \cup Locations |-> Step(g, p)]
  <2> HIDE DEF Step
  <2>. QED
    BY <1>2
<1>4. tree = [p \in {Root} \cup Locations |-> Step(tree, p)]
  <2> HIDE DEF Step, g
  <2>. QED
    BY <1>3
<1>5. Builds(tree, map)
  <2> HIDE DEF tree, map
  <2>. QED
    BY <1>4 DEF Builds
<1>6. tree[Root] = MetNode(label, Root)
  <2> HIDE DEF tree
  <2>. QED
    BY <1>5, BuildsMet
<1>7. MetNode(label, Root) = label
  <2>1. Descend(label, Root) = label
    BY DescendStep
  <2>2. ASSUME label # Empty
        PROVE  KeysBelow(map, Root) # {}
    <3>1. PICK k \in Key, v \in Value : Holds(Root, k) /\ Finds(label, Root, k, v)
      BY <2>2, Bears
    <3>2. Lookup(label, k) = v
      BY <3>1, LookupFinds
    <3>. QED
      BY <3>1, <3>2, NothingAssumption DEF KeysBelow, Contents
  <2>. QED
    BY <2>1, <2>2 DEF MetNode
<1>. QED
  BY <1>1, <1>6, <1>7

-----------------------------------------------------------------------------
(***************************************************************************)
(* Counts and edges.  A count may be zero: that of a node which has been   *)
(* made, and that no parent and no handle has adopted yet.                 *)
(***************************************************************************)
Into(edges, label) == { edge \in edges : edge.to = label }

\* The counts in `counts` are those of the edges in `edges`; the empty subtree
\* is not counted.
Exact(counts, edges) ==
    /\ Empty \notin DOMAIN counts
    /\ \A edge \in edges : edge.to = Empty \/ edge.to \in DOMAIN counts
    /\ \A label \in DOMAIN counts :
          /\ counts[label] \in Nat
          /\ IsFiniteSet(Into(edges, label))
          /\ counts[label] = Cardinality(Into(edges, label))

\* What `Populate` makes of the counts.
Plus(counts, label) ==
    [l \in DOMAIN counts \cup {label} |-> IF l = label THEN 0 ELSE counts[l]]

\* A label that is new has no edge and no count.
LEMMA NewLabel ==
    ASSUME NEW counts, NEW edges, NEW label, Exact(counts, edges),
           label \notin DOMAIN counts, label # Empty
    PROVE  Exact(Plus(counts, label), edges)
<1> DEFINE new == Plus(counts, label)
<1>1. Into(edges, label) = {}
  BY DEF Exact, Into
<1>2. DOMAIN new = DOMAIN counts \cup {label}
  BY DEF Plus
<1>3. ASSUME NEW l \in DOMAIN new
      PROVE  /\ new[l] \in Nat
             /\ IsFiniteSet(Into(edges, l))
             /\ new[l] = Cardinality(Into(edges, l))
  <2>1. CASE l = label
    BY <2>1, <1>1, FS_EmptySet DEF Plus
  <2>2. CASE l # label
    BY <2>2, <1>2 DEF Exact, Plus
  <2>. QED
    BY <2>1, <2>2
<1>. QED
  BY <1>2, <1>3 DEF Exact

\* An edge more.
LEMMA MoreEdge ==
    ASSUME NEW counts, NEW edges, NEW edge, Exact(counts, edges),
           edge.to \in DOMAIN counts, edge \notin edges
    PROVE  Exact([counts EXCEPT ![edge.to] = @ + 1], edges \cup {edge})
<1> DEFINE new == [counts EXCEPT ![edge.to] = @ + 1]
<1>1. Into(edges \cup {edge}, edge.to) = Into(edges, edge.to) \cup {edge}
  BY DEF Into
<1>2. ASSUME NEW label, label # edge.to
      PROVE  Into(edges \cup {edge}, label) = Into(edges, label)
  BY <1>2 DEF Into
<1>3. ASSUME NEW label \in DOMAIN new
      PROVE  /\ new[label] \in Nat
             /\ IsFiniteSet(Into(edges \cup {edge}, label))
             /\ new[label] = Cardinality(Into(edges \cup {edge}, label))
  <2>1. CASE label = edge.to
    <3>1. edge \notin Into(edges, edge.to)
      BY DEF Into
    <3>2. /\ IsFiniteSet(Into(edges, edge.to) \cup {edge})
          /\ Cardinality(Into(edges, edge.to) \cup {edge}) = counts[edge.to] + 1
      BY <3>1, FS_AddElement DEF Exact
    <3>3. new[label] = counts[edge.to] + 1 /\ counts[edge.to] \in Nat
      BY <2>1 DEF Exact
    <3>4. new[label] \in Nat
      BY <3>3
    <3>. QED
      BY <2>1, <1>1, <3>2, <3>3, <3>4
  <2>2. CASE label # edge.to
    BY <2>2, <1>2 DEF Exact
  <2>. QED
    BY <2>1, <2>2
<1>. QED
  BY <1>3 DEF Exact

\* A label an edge leads to counts one at least, and two if there are two.
LEMMA EdgeCounts ==
    ASSUME NEW counts, NEW edges, NEW edge \in edges, Exact(counts, edges), edge.to # Empty
    PROVE  /\ edge.to \in DOMAIN counts /\ counts[edge.to] \in Nat /\ counts[edge.to] > 0
           /\ \A other \in edges : other.to = edge.to /\ other # edge => counts[edge.to] > 1
<1> DEFINE into == Into(edges, edge.to)
<1>1. edge.to \in DOMAIN counts /\ counts[edge.to] \in Nat /\ counts[edge.to] = Cardinality(into)
      /\ IsFiniteSet(into) /\ edge \in into
  BY DEF Exact, Into
<1>2. /\ IsFiniteSet(into \ {edge})
      /\ Cardinality(into \ {edge}) = counts[edge.to] - 1
      /\ Cardinality(into \ {edge}) \in Nat
  <2> HIDE DEF into
  <2>. QED
    BY <1>1, FS_RemoveElement, FS_CardinalityType
<1>3. ASSUME NEW other \in edges, other.to = edge.to, other # edge
      PROVE  counts[edge.to] > 1
  <2>1. other \in into \ {edge}
    BY <1>3 DEF Into
  <2>2. Cardinality(into \ {edge}) # 0
    <3> HIDE DEF into
    <3>. QED
      BY <1>2, <2>1, FS_EmptySet
  <2>. QED
    BY <1>1, <1>2, <2>2
<1>. QED
  BY <1>1, <1>2, <1>3

\* An edge less.
LEMMA LessEdge ==
    ASSUME NEW counts, NEW edges, NEW edge \in edges, Exact(counts, edges), edge.to # Empty
    PROVE  Exact([counts EXCEPT ![edge.to] = @ - 1], edges \ {edge})
<1> DEFINE new == [counts EXCEPT ![edge.to] = @ - 1]
<1>1. Into(edges \ {edge}, edge.to) = Into(edges, edge.to) \ {edge}
  BY DEF Into
<1>2. ASSUME NEW label, label # edge.to
      PROVE  Into(edges \ {edge}, label) = Into(edges, label)
  BY <1>2 DEF Into
<1>3. ASSUME NEW label \in DOMAIN new
      PROVE  /\ new[label] \in Nat
             /\ IsFiniteSet(Into(edges \ {edge}, label))
             /\ new[label] = Cardinality(Into(edges \ {edge}, label))
  <2>1. CASE label = edge.to
    <3>1. edge \in Into(edges, edge.to)
      BY DEF Into
    <3>2. /\ IsFiniteSet(Into(edges, edge.to) \ {edge})
          /\ Cardinality(Into(edges, edge.to) \ {edge}) = counts[edge.to] - 1
      BY <2>1, <3>1, FS_RemoveElement DEF Exact
    <3>3. new[label] = counts[edge.to] - 1 /\ counts[edge.to] \in Nat /\ counts[edge.to] > 0
      BY <2>1, EdgeCounts DEF Exact
    <3>. QED
      BY <2>1, <1>1, <3>2, <3>3
  <2>2. CASE label # edge.to
    BY <2>2, <1>2 DEF Exact
  <2>. QED
    BY <2>1, <2>2
<1>. QED
  BY <1>3 DEF Exact

\* The last edge into a label goes with the label.
LEMMA LastEdge ==
    ASSUME NEW counts, NEW edges, NEW edge \in edges, Exact(counts, edges),
           edge.to # Empty, counts[edge.to] = 1
    PROVE  Exact(Restrict(counts, DOMAIN counts \ {edge.to}), edges \ {edge})
<1> DEFINE new == Restrict(counts, DOMAIN counts \ {edge.to})
<1>1. \A other \in edges : other.to = edge.to => other = edge
  BY EdgeCounts
<1>2. ASSUME NEW label, label # edge.to
      PROVE  Into(edges \ {edge}, label) = Into(edges, label)
  BY <1>2 DEF Into
<1>3. DOMAIN new = DOMAIN counts \ {edge.to} /\ \A label \in DOMAIN new : new[label] = counts[label]
  BY DEF Restrict
<1>4. ASSUME NEW label \in DOMAIN new
      PROVE  /\ new[label] \in Nat
             /\ IsFiniteSet(Into(edges \ {edge}, label))
             /\ new[label] = Cardinality(Into(edges \ {edge}, label))
  BY <1>2, <1>3 DEF Exact
<1>. QED
  BY <1>1, <1>3, <1>4 DEF Exact

\* An edge into the empty subtree, more or less, is the same to the counts.
LEMMA EmptyEdge ==
    ASSUME NEW counts, NEW edges, NEW edge, Exact(counts, edges), edge.to = Empty
    PROVE  Exact(counts, edges \cup {edge}) /\ Exact(counts, edges \ {edge})
<1>1. \A label \in DOMAIN counts :
         /\ Into(edges \cup {edge}, label) = Into(edges, label)
         /\ Into(edges \ {edge}, label) = Into(edges, label)
  BY DEF Exact, Into
<1>. QED
  BY <1>1 DEF Exact

\* An edge may be replaced by another one into the same label.
LEMMA OtherEdge ==
    ASSUME NEW counts, NEW edges, NEW old \in edges, NEW edge, Exact(counts, edges),
           edge \notin edges, edge.to = old.to
    PROVE  Exact(counts, (edges \ {old}) \cup {edge})
<1>1. CASE edge.to = Empty
  <2>1. Exact(counts, edges \ {old})
    BY <1>1, EmptyEdge
  <2>. QED
    BY <1>1, <2>1, EmptyEdge
<1>2. CASE edge.to # Empty
  <2> DEFINE less == [counts EXCEPT ![old.to] = @ - 1]
             same == [less EXCEPT ![edge.to] = @ + 1]
  <2>1. counts[old.to] \in Nat /\ counts[old.to] > 0 /\ old.to \in DOMAIN counts
    BY <1>2, EdgeCounts
  <2>2. Exact(less, edges \ {old})
    BY <1>2, LessEdge
  <2>3. Exact(same, (edges \ {old}) \cup {edge})
    <3>1. edge.to \in DOMAIN less /\ edge \notin edges \ {old}
      BY <2>1
    <3> HIDE DEF less
    <3>. QED
      BY <2>2, <3>1, MoreEdge
  <2>4. DOMAIN same = DOMAIN counts /\ \A label \in DOMAIN counts : same[label] = counts[label]
    BY <2>1
  <2> HIDE DEF same
  <2>. QED
    BY <2>3, <2>4 DEF Exact
<1>. QED
  BY <1>1, <1>2

-----------------------------------------------------------------------------
(***************************************************************************)
(* The operations of the store.                                            *)
(***************************************************************************)

\* A set with an element, and without it.
With(set, element) == set \cup {element}
Without(set, element) == set \ {element}

\* A store that did not panic, and whose counts are those of some edges.
Counted(s, edges) ==
    /\ s = [refs |-> s.refs, panicked |-> FALSE]
    /\ s.refs = [label \in DOMAIN s.refs |-> s.refs[label]]
    /\ Exact(s.refs, edges)

\* A store with other counts.
LEMMA StoreWith ==
    ASSUME NEW s, NEW counts, s = [refs |-> s.refs, panicked |-> FALSE]
    PROVE  [s EXCEPT !.refs = counts] = [refs |-> counts, panicked |-> FALSE]
<1> DEFINE old == s.refs
           a == [s EXCEPT !.refs = counts]
           b == [refs |-> counts, panicked |-> FALSE]
<1>1. s = [refs |-> old, panicked |-> FALSE]
  BY Zenon
<1> HIDE DEF old
<1>2. DOMAIN a = {"refs", "panicked"} /\ DOMAIN b = {"refs", "panicked"}
  BY ONLY <1>1
<1>3. a["refs"] = b["refs"] /\ a["panicked"] = b["panicked"]
  BY ONLY <1>1
<1>4. a = [x \in DOMAIN a |-> a[x]] /\ b = [x \in DOMAIN b |-> b[x]]
  BY ONLY <1>1
<1> HIDE DEF a, b
<1>5. a = b
  BY ONLY <1>2, <1>3, <1>4
<1>. QED
  BY <1>5, Zenon DEF a, b

\* The store has the label, and the rest is as it was.
Stocks(t, s, label) ==
    /\ DOMAIN t.refs = DOMAIN s.refs \cup ({label} \ {Empty})
    /\ \A l \in DOMAIN s.refs : t.refs[l] = s.refs[l]
    /\ label # Empty /\ label \notin DOMAIN s.refs => t.refs[label] = 0
    /\ label = Empty \/ label \in DOMAIN s.refs => t = s

\* Populate keeps the counts, and the store has the label then.
LEMMA PopulateKeeps ==
    ASSUME NEW s, NEW edges, NEW scope, NEW label, Counted(s, edges),
           NEW t, t = Populate(s, scope, label),
           label = Empty \/ InRange(scope, label)
    PROVE  Counted(t, edges) /\ Stocks(t, s, label)
<1>1. CASE label = Empty \/ label \in DOMAIN s.refs
  <2>1. t = s
    BY <1>1 DEF Populate, Occupied
  <2>2. label \in DOMAIN s.refs => label # Empty
    BY DEF Counted, Exact
  <2>. QED
    BY <1>1, <2>1, <2>2 DEF Stocks
<1>2. CASE label # Empty /\ label \notin DOMAIN s.refs
  <2>1. t = [s EXCEPT !.refs = Plus(s.refs, label)]
    BY <1>2 DEF Populate, Occupied, Plus
  <2>2. t = [refs |-> Plus(s.refs, label), panicked |-> FALSE]
    BY <2>1, StoreWith DEF Counted
  <2>3. Exact(Plus(s.refs, label), edges)
    BY <1>2, NewLabel DEF Counted
  <2>4. /\ DOMAIN Plus(s.refs, label) = DOMAIN s.refs \cup {label}
        /\ \A l \in DOMAIN s.refs : Plus(s.refs, label)[l] = s.refs[l]
        /\ Plus(s.refs, label)[label] = 0
        /\ Plus(s.refs, label) = [l \in DOMAIN Plus(s.refs, label) |-> Plus(s.refs, label)[l]]
    BY <1>2 DEF Plus
  <2>5. t.refs = Plus(s.refs, label) /\ t = [refs |-> t.refs, panicked |-> FALSE]
    BY <2>2
  <2>. QED
    BY <1>2, <2>3, <2>4, <2>5 DEF Counted, Stocks
<1>. QED
  BY <1>1, <1>2

\* Incref goes with an edge more.
LEMMA IncrefKeeps ==
    ASSUME NEW s, NEW edges, NEW scope, NEW label, NEW edge, Counted(s, edges),
           NEW t, t = Incref(s, scope, label),
           edge \notin edges, edge.to = label,
           label = Empty \/ (InRange(scope, label) /\ label \in DOMAIN s.refs)
    PROVE  /\ Counted(t, With(edges, edge))
           /\ \A l : l \in DOMAIN t.refs <=> l \in DOMAIN s.refs
<1>1. CASE label = Empty
  <2>1. t = s
    BY <1>1 DEF Incref
  <2>. QED
    BY <1>1, <2>1, EmptyEdge DEF Counted, With
<1>2. CASE label # Empty
  <2> DEFINE new == [s.refs EXCEPT ![label] = @ + 1]
  <2>1. t = [s EXCEPT !.refs = new]
    BY <1>2 DEF Incref, Occupied
  <2>2. t = [refs |-> new, panicked |-> FALSE]
    <3> HIDE DEF new
    <3>. QED
      BY <2>1, StoreWith DEF Counted
  <2>3. Exact(new, edges \cup {edge})
    BY <1>2, MoreEdge DEF Counted
  <2>4. /\ DOMAIN new = DOMAIN s.refs
        /\ \A l \in DOMAIN s.refs : l # label => new[l] = s.refs[l]
        /\ new = [l \in DOMAIN new |-> new[l]]
    OBVIOUS
  <2>5. t.refs = new /\ t = [refs |-> t.refs, panicked |-> FALSE]
    BY <2>2
  <2> HIDE DEF new
  <2>. QED
    BY <2>3, <2>4, <2>5 DEF Counted, With
<1>. QED
  BY <1>1, <1>2

\* Incref changes no other count.
LEMMA IncrefLeaves ==
    ASSUME NEW s, NEW edges, NEW scope, NEW label, Counted(s, edges),
           NEW t, t = Incref(s, scope, label),
           label = Empty \/ (InRange(scope, label) /\ label \in DOMAIN s.refs)
    PROVE  \A l \in DOMAIN s.refs : l # label => t.refs[l] = s.refs[l]
<1>1. CASE label = Empty
  BY <1>1 DEF Incref
<1>2. CASE label # Empty
  <2> DEFINE new == [s.refs EXCEPT ![label] = @ + 1]
  <2>1. t = [s EXCEPT !.refs = new]
    BY <1>2 DEF Incref, Occupied
  <2>2. t = [refs |-> new, panicked |-> FALSE]
    <3> HIDE DEF new
    <3>. QED
      BY <2>1, StoreWith DEF Counted
  <2>. QED
    BY <2>2
<1>. QED
  BY <1>1, <1>2

\* Decref goes with an edge less; the label goes with its last edge, unless it
\* is to be preserved.
LEMMA DecrefKeeps ==
    ASSUME NEW s, NEW edges, NEW scope, NEW label, NEW preserve \in BOOLEAN,
           NEW edge \in edges, Counted(s, edges), edge.to = label,
           NEW t, t = Decref(s, scope, label, preserve),
           label = Empty \/ InRange(scope, label)
    PROVE  /\ Counted(t, Without(edges, edge))
           /\ \A l : l \in DOMAIN t.refs <=>
                 l \in DOMAIN s.refs /\ ~(l = label /\ s.refs[l] = 1 /\ ~preserve)
           /\ \A l \in DOMAIN t.refs :
                 l # label => t.refs[l] = s.refs[l]
           /\ label # Empty /\ (preserve \/ s.refs[label] # 1) =>
                 t.refs[label] = s.refs[label] - 1
<1>1. CASE label = Empty
  <2>1. t = s
    BY <1>1 DEF Decref
  <2>2. Empty \notin DOMAIN s.refs
    BY DEF Counted, Exact
  <2>. QED
    BY <1>1, <2>1, <2>2, EmptyEdge DEF Counted, Without
<1>2. CASE label # Empty
  <2>1. label \in DOMAIN s.refs /\ s.refs[label] \in Nat /\ s.refs[label] > 0
    BY <1>2, EdgeCounts DEF Counted
  <2>2. CASE s.refs[label] = 1 /\ ~preserve
    <3> DEFINE new == Restrict(s.refs, DOMAIN s.refs \ {label})
    <3>1. t = [s EXCEPT !.refs = new]
      BY <1>2, <2>1, <2>2 DEF Decref, Occupied
    <3>2. t = [refs |-> new, panicked |-> FALSE]
      <4> HIDE DEF new
      <4>. QED
        BY <3>1, StoreWith DEF Counted
    <3>3. Exact(new, edges \ {edge})
      BY <1>2, <2>2, LastEdge DEF Counted
    <3>4. /\ DOMAIN new = DOMAIN s.refs \ {label}
          /\ \A l \in DOMAIN new : new[l] = s.refs[l]
          /\ new = [l \in DOMAIN new |-> new[l]]
      BY DEF Restrict
    <3>5. t.refs = new /\ t = [refs |-> t.refs, panicked |-> FALSE]
      BY <3>2
    <3> HIDE DEF new
    <3>. QED
      BY <1>2, <2>2, <3>3, <3>4, <3>5 DEF Counted, Without
  <2>3. CASE s.refs[label] # 1 \/ preserve
    <3> DEFINE new == [s.refs EXCEPT ![label] = @ - 1]
    <3>1. t = [s EXCEPT !.refs = new]
      BY <1>2, <2>1, <2>3 DEF Decref, Occupied
    <3>2. t = [refs |-> new, panicked |-> FALSE]
      <4> HIDE DEF new
      <4>. QED
        BY <3>1, StoreWith DEF Counted
    <3>3. Exact(new, edges \ {edge})
      BY <1>2, LessEdge DEF Counted
    <3>4. /\ DOMAIN new = DOMAIN s.refs
          /\ \A l \in DOMAIN new : l # label => new[l] = s.refs[l]
          /\ new[label] = s.refs[label] - 1
          /\ new = [l \in DOMAIN new |-> new[l]]
      BY <2>1
    <3>5. t.refs = new /\ t = [refs |-> t.refs, panicked |-> FALSE]
      BY <3>2
    <3> HIDE DEF new
    <3>. QED
      BY <1>2, <2>3, <3>3, <3>4, <3>5 DEF Counted, Without
  <2>. QED
    BY <2>2, <2>3
<1>. QED
  BY <1>1, <1>2

-----------------------------------------------------------------------------
(***************************************************************************)
(* The edges there are.                                                    *)
(***************************************************************************)
LeftEdge(label) == [by |-> "left", of |-> label, to |-> label.left]
RightEdge(label) == [by |-> "right", of |-> label, to |-> label.right]
HandleEdge(h, label) == [by |-> "handle", of |-> h, to |-> label]
DoomedEdge(i, label) == [by |-> "doomed", of |-> i, to |-> label]

Edges(nodes, roots, drops) ==
    { LeftEdge(label) : label \in nodes } \cup { RightEdge(label) : label \in nodes }
    \cup { HandleEdge(h, roots[h]) : h \in { g \in Handle : roots[g] # NoLabel } }
    \cup { DoomedEdge(i, drops[Len(drops) + 1 - i]) : i \in 1..Len(drops) }

\* What is an edge.
LEMMA EdgeIn ==
    ASSUME NEW nodes, NEW roots, NEW drops, NEW x, NEW y
    PROVE  /\ LeftEdge(x) \in Edges(nodes, roots, drops) <=> x \in nodes
           /\ RightEdge(x) \in Edges(nodes, roots, drops) <=> x \in nodes
           /\ HandleEdge(x, y) \in Edges(nodes, roots, drops) <=>
                 x \in Handle /\ roots[x] # NoLabel /\ y = roots[x]
           /\ DoomedEdge(x, y) \in Edges(nodes, roots, drops) <=>
                 x \in 1..Len(drops) /\ y = drops[Len(drops) + 1 - x]
  BY DEF Edges, LeftEdge, RightEdge, HandleEdge, DoomedEdge

\* Edges are of four kinds, and lead to a child, or to what is held.
LEMMA EdgeKinds ==
    ASSUME NEW x, NEW y, NEW u, NEW v
    PROVE  /\ LeftEdge(x) # RightEdge(y) /\ LeftEdge(x) # HandleEdge(y, v)
           /\ LeftEdge(x) # DoomedEdge(y, v) /\ RightEdge(x) # HandleEdge(y, v)
           /\ RightEdge(x) # DoomedEdge(y, v) /\ HandleEdge(x, u) # DoomedEdge(y, v)
           /\ LeftEdge(x) = LeftEdge(y) => x = y
           /\ RightEdge(x) = RightEdge(y) => x = y
           /\ HandleEdge(x, u) = HandleEdge(y, v) <=> x = y /\ u = v
           /\ DoomedEdge(x, u) = DoomedEdge(y, v) <=> x = y /\ u = v
           /\ LeftEdge(x).to = x.left /\ RightEdge(x).to = x.right
           /\ HandleEdge(x, u).to = u /\ DoomedEdge(x, u).to = u
  BY DEF LeftEdge, RightEdge, HandleEdge, DoomedEdge

\* A node more, or less, comes with the edges to its two children.
LEMMA NodeEdges ==
    ASSUME NEW nodes, NEW roots, NEW drops, NEW node
    PROVE  /\ Edges(With(nodes, node), roots, drops)
                 = With(With(Edges(nodes, roots, drops), LeftEdge(node)), RightEdge(node))
           /\ Edges(Without(nodes, node), roots, drops)
                 = Without(Without(Edges(nodes, roots, drops), LeftEdge(node)), RightEdge(node))
<1> DEFINE handles == { HandleEdge(h, roots[h]) : h \in { g \in Handle : roots[g] # NoLabel } }
           dooms == { DoomedEdge(i, drops[Len(drops) + 1 - i]) : i \in 1..Len(drops) }
           lefts(ns) == { LeftEdge(label) : label \in ns }
           rights(ns) == { RightEdge(label) : label \in ns }
<1>1. \A ns : Edges(ns, roots, drops) = lefts(ns) \cup rights(ns) \cup handles \cup dooms
  BY DEF Edges
<1>2. /\ lefts(nodes \cup {node}) = lefts(nodes) \cup {LeftEdge(node)}
      /\ rights(nodes \cup {node}) = rights(nodes) \cup {RightEdge(node)}
      /\ lefts(nodes \ {node}) = lefts(nodes) \ {LeftEdge(node)}
      /\ rights(nodes \ {node}) = rights(nodes) \ {RightEdge(node)}
  BY EdgeKinds
<1>3. /\ LeftEdge(node) \notin rights(nodes) \cup handles \cup dooms
      /\ RightEdge(node) \notin lefts(nodes) \cup handles \cup dooms
      /\ LeftEdge(node) # RightEdge(node)
  BY DEF LeftEdge, RightEdge, HandleEdge, DoomedEdge
<1>4. /\ Edges(nodes, roots, drops) = lefts(nodes) \cup rights(nodes) \cup handles \cup dooms
      /\ Edges(nodes \cup {node}, roots, drops)
            = lefts(nodes \cup {node}) \cup rights(nodes \cup {node}) \cup handles \cup dooms
      /\ Edges(nodes \ {node}, roots, drops)
            = lefts(nodes \ {node}) \cup rights(nodes \ {node}) \cup handles \cup dooms
  BY <1>1
<1> HIDE DEF handles, dooms, lefts, rights
<1>. QED
  BY <1>2, <1>3, <1>4 DEF With, Without

-----------------------------------------------------------------------------
(***************************************************************************)
(* The invariant.                                                          *)
(***************************************************************************)
\* A frame that works on a node of the tree the transaction began with.
HasOrigin(location) == location = Root \/ frames[Front(location)].original

\* The label of that node.
Origin(location) ==
    IF location = Root THEN root[caller]
    ELSE Child(frames[Front(location)].label, Last(location))

\* Something above the frame keeps its node's children from being released.
Shielded(location) ==
    location # Root /\ PreserveBranches(frames[Front(location)], frames[Front(location)].original)

\* A node that has let its children go, and waits for its parent to let it go.
IsHollow(label) ==
    \E location \in DOMAIN frames :
        /\ frames[location].stage = "done" /\ HasOrigin(location)
        /\ label = Origin(location) /\ IsInternal(label) /\ frames[location].label # label
        /\ ~Shielded(location) /\ label \in DOMAIN store.refs /\ store.refs[label] = 1

\* The nodes that refer to their children.
Kept == { label \in DOMAIN store.refs : IsInternal(label) /\ ~IsHollow(label) }

CountsInv == Counted(store, Edges(Kept, root, doomed))

IsFrame(frame) ==
    /\ frame.stage \in {"recur", "branch", "done"}
    /\ frame.references \in Nat /\ frame.preserve \in BOOLEAN /\ frame.original \in BOOLEAN

FramesInv ==
    \A location \in DOMAIN frames :
        /\ location \in Places
        /\ IsFrame(frames[location])
        /\ location # Root => /\ Front(location) \in DOMAIN frames
                              /\ frames[Front(location)].stage = "branch"
        /\ frames[location].stage = "branch" =>
              /\ Len(location) < PathLength
              /\ Left(location) \in DOMAIN frames /\ Right(location) \in DOMAIN frames

CallInv ==
    /\ mode \in {"idle", "apply", "reply", "drop"}
    /\ mode = "apply" => caller \in Live /\ Root \in DOMAIN frames
    /\ mode # "apply" => caller = Absent /\ frames = <<>>
    /\ batch \in Batch \cup {NoBatch}
    /\ reply \in [Key -> Value \cup {Nothing}]
    /\ mode # "drop" => doomed = <<>>
    /\ mode = "drop" => Len(doomed) > 0
    /\ doomed \in Seq({ doomed[i] : i \in 1..Len(doomed) })
    /\ DOMAIN root = Handle

PlacesInv ==
    /\ \A label \in DOMAIN store.refs : \E place \in Places : Placed(label, place)
    /\ \A h \in Live : Placed(root[h], Root)
    /\ \A location \in DOMAIN frames : Placed(frames[location].label, location)
    /\ \A i \in 1..Len(doomed) : \E place \in Places : Placed(doomed[i], place)

StagesInv ==
    \A location \in DOMAIN frames :
        LET frame == frames[location]
        IN  /\ frame.stage # "done" =>
                  /\ IF HasOrigin(location) THEN frame.label = Origin(location)
                                            ELSE ~IsInternal(frame.label)
                  /\ (frame.preserve <=> Shielded(location))
                  /\ IsInternal(frame.label) =>
                        /\ frame.label \in DOMAIN store.refs
                        /\ frame.references = store.refs[frame.label] /\ frame.references > 0
            /\ frame.stage = "branch" => (frame.original <=> IsInternal(frame.label))
            /\ frame.stage = "recur" =>
                  \/ frame.label = Empty
                  \/ frame.label \in DOMAIN store.refs /\ store.refs[frame.label] > 0
            /\ frame.stage = "done" => frame.label \in DOMAIN store.refs \cup {Empty}

ZeroInv ==
    \A label \in DOMAIN store.refs : store.refs[label] = 0 =>
        \E location \in DOMAIN frames :
            frames[location].stage = "done" /\ frames[location].label = label

IInv ==
    /\ CountsInv
    /\ FramesInv
    /\ CallInv
    /\ PlacesInv
    /\ StagesInv
    /\ ZeroInv

-----------------------------------------------------------------------------
(***************************************************************************)
(* The tree of frames.                                                     *)
(***************************************************************************)

\* What is above a frame is a branch.
LEMMA Ancestors ==
    ASSUME FramesInv, NEW location \in DOMAIN frames, NEW place \in Places,
           Above(place, location), place # location
    PROVE  place \in DOMAIN frames /\ frames[place].stage = "branch"
<1> DEFINE S == { n \in Nat : \A p \in DOMAIN frames :
                    Len(p) = Len(place) + n /\ Above(place, p) /\ place # p =>
                       place \in DOMAIN frames /\ frames[place].stage = "branch" }
<1>1. 0 \in S
  <2>1. \A p \in DOMAIN frames : p \in Places
    BY DEF FramesInv
  <2>2. \A p \in DOMAIN frames : Len(p) = Len(place) + 0 /\ Above(place, p) => place = p
    BY <2>1, AboveFacts, PlaceSeq
  <2>. QED
    BY <2>2
<1>2. ASSUME NEW n \in Nat, n \in S
      PROVE  n + 1 \in S
  <2>1. ASSUME NEW p \in DOMAIN frames, Len(p) = Len(place) + (n + 1), Above(place, p), place # p
        PROVE  place \in DOMAIN frames /\ frames[place].stage = "branch"
    <3>1. p \in Places /\ Len(p) \in Nat /\ Len(place) \in Nat
      BY PlaceSeq DEF FramesInv
    <3>2. p # Root
      BY <2>1, <3>1, RootPlace
    <3>3. /\ Front(p) \in Places /\ Last(p) \in Direction /\ p = Append(Front(p), Last(p))
          /\ Len(Front(p)) = Len(p) - 1
      BY <3>1, <3>2, Higher
    <3>4. Front(p) \in DOMAIN frames /\ frames[Front(p)].stage = "branch"
      BY <3>2 DEF FramesInv
    <3>5. Above(Front(p), p)
      <4>1. Above(Front(p), Append(Front(p), Last(p)))
        BY <3>3, AboveFacts
      <4>. QED
        BY <3>3, <4>1
    <3>6. Above(place, Front(p)) \/ Above(Front(p), place)
      BY <2>1, <3>1, <3>3, <3>5, AboveAbove
    <3>7. Len(Front(p)) = Len(place) + n /\ Len(Front(p)) \in Nat
      BY <2>1, <3>1, <3>3
    <3>8. Above(place, Front(p))
      BY <3>1, <3>3, <3>6, <3>7, AboveFacts DEF Above
    <3>. QED
      BY <1>2, <3>4, <3>7, <3>8
  <2>. QED
    BY <2>1
<1> HIDE DEF S
<1>3. Nat \subseteq S
  BY <1>1, <1>2, SetInduction
<1>4. Len(location) - Len(place) \in Nat
  BY PlaceSeq, AboveFacts DEF FramesInv
<1>5. Len(location) = Len(place) + (Len(location) - Len(place))
  BY PlaceSeq DEF FramesInv
<1>. QED
  BY <1>3, <1>4, <1>5 DEF S

\* A label has one frame, but for those that push it down.
LEMMA FrameApart ==
    ASSUME FramesInv, NEW label, NEW here \in DOMAIN frames, NEW there \in DOMAIN frames,
           Placed(label, here), Placed(label, there), label # Empty, here # there
    PROVE  /\ ~IsInternal(label)
           /\ frames[here].stage = "branch" \/ frames[there].stage = "branch"
           /\ frames[here].stage # "branch" => Above(there, here)
<1>1. here \in Places /\ there \in Places
  BY DEF FramesInv
<1>2. Above(here, there) \/ Above(there, here)
  BY Apart
<1>3. Above(here, there) => frames[here].stage = "branch"
  BY <1>1, Ancestors
<1>4. Above(there, here) => frames[there].stage = "branch"
  BY <1>1, Ancestors
<1>. QED
  BY <1>2, <1>3, <1>4, OnePlace

\* A branch whose halves have returned.
Joinable(location) ==
    /\ location \in DOMAIN frames
    /\ frames[location].stage = "branch"
    /\ IsDone(Left(location)) /\ IsDone(Right(location))

\* Where a branch is joined.
Joins(location) == {location, Left(location), Right(location)}

\* No other frame that waits or is done has a label placed where two are joined.
LEMMA JoinApart ==
    ASSUME FramesInv, NEW location, Joinable(location), NEW place \in Joins(location),
           NEW label, label # Empty, Placed(label, place),
           NEW other \in DOMAIN frames \ Joins(location), Placed(label, other)
    PROVE  frames[other].stage = "branch" /\ ~IsInternal(label)
<1>1. /\ location \in Places /\ other \in Places /\ place \in DOMAIN frames /\ place \in Places
      /\ place # other /\ Left(location) \in Places /\ Right(location) \in Places
  BY DEF FramesInv, Joinable, IsDone, Joins
<1>2. ~IsInternal(label) /\ (frames[other].stage # "branch" => Above(place, other))
  BY <1>1, FrameApart
<1>3. ASSUME Above(location, other)
      PROVE  FALSE
  <2>1. Above(Left(location), other) \/ Above(Right(location), other)
    BY <1>1, <1>3, AboveHalf DEF Joins
  <2>. QED
    BY <1>1, <2>1, Ancestors DEF Joinable, IsDone, Joins
<1>4. ASSUME Above(place, other), place # location
      PROVE  FALSE
  BY <1>1, <1>4, Ancestors DEF Joinable, IsDone, Joins
<1>. QED
  BY <1>2, <1>3, <1>4

-----------------------------------------------------------------------------
(***************************************************************************)
(* Frames and the tree they work on.                                       *)
(***************************************************************************)

\* The halves of a branch work on the children of its node.
LEMMA Sides ==
    ASSUME NEW location \in Places
    PROVE  \A half \in {Left(location), Right(location)} :
              /\ half # Root /\ Front(half) = location
              /\ HasOrigin(half) <=> frames[location].original
              /\ Shielded(half) <=> PreserveBranches(frames[location], frames[location].original)
              /\ IsInternal(frames[location].label) =>
                    /\ half = Left(location) => Origin(half) = frames[location].label.left
                    /\ half = Right(location) => Origin(half) = frames[location].label.right
<1>1. /\ Left(location) # Root /\ Front(Left(location)) = location /\ Last(Left(location)) = "L"
      /\ Right(location) # Root /\ Front(Right(location)) = location /\ Last(Right(location)) = "R"
      /\ Left(location) # Right(location)
  BY HalfFacts
<1>. QED
  BY <1>1 DEF HasOrigin, Shielded, Origin, Child

\* A location other than the root is a half of a branch.
LEMMA HalfOf ==
    ASSUME FramesInv, NEW location \in DOMAIN frames, location # Root
    PROVE  /\ Front(location) \in DOMAIN frames /\ frames[Front(location)].stage = "branch"
           /\ Front(location) \in Places /\ Front(location) # location
           /\ location \in {Left(Front(location)), Right(Front(location))}
<1>1. location \in Places
  BY DEF FramesInv
<1>2. /\ Front(location) \in Places /\ Last(location) \in Direction
      /\ location = Append(Front(location), Last(location))
      /\ Len(Front(location)) = Len(location) - 1 /\ Len(location) > 0
  BY <1>1, Higher
<1>3. Front(location) # location
  BY <1>1, <1>2, PlaceSeq
<1>. QED
  BY <1>2, <1>3, Halves DEF FramesInv, Direction

\* What a frame works on is placed where the frame is.
LEMMA OriginPlaced ==
    ASSUME IInv, mode = "apply", NEW location \in DOMAIN frames, HasOrigin(location)
    PROVE  Placed(Origin(location), location)
<1>1. CASE location = Root
  BY <1>1 DEF IInv, CallInv, PlacesInv, Origin
<1>2. CASE location # Root
  <2> DEFINE p == Front(location)
             label == frames[p].label
  <2>1. /\ p \in DOMAIN frames /\ frames[p].stage = "branch" /\ p \in Places
        /\ location \in {Left(p), Right(p)}
    BY <1>2, HalfOf DEF IInv
  <2>2. frames[p].original
    BY <2>1, Sides
  <2>3. IsInternal(label) /\ Placed(label, p)
    BY <2>1, <2>2 DEF IInv, StagesInv, PlacesInv
  <2>4. Placed(label.left, Left(p)) /\ Placed(label.right, Right(p))
    BY <2>3, PlacedKinds
  <2> HIDE DEF p
  <2>5. /\ location = Left(p) => Origin(location) = label.left
        /\ location = Right(p) => Origin(location) = label.right
    BY <2>1, <2>3, Sides
  <2>. QED
    BY <2>1, <2>4, <2>5
<1>. QED
  BY <1>1, <1>2

\* A frame's view of the tree is what its branch has captured.
LEMMA SameView ==
    ASSUME NEW location, UNCHANGED <<root, caller>>,
           location # Root => frames'[Front(location)] = frames[Front(location)]
    PROVE  /\ HasOrigin(location)' <=> HasOrigin(location)
           /\ Origin(location)' = Origin(location)
           /\ Shielded(location)' <=> Shielded(location)
  BY DEF HasOrigin, Origin, Shielded, PreserveBranches

\* A node some frame still works on is not hollow.
LEMMA NotHollow ==
    ASSUME IInv, mode = "apply", NEW location \in DOMAIN frames,
           frames[location].stage # "done", NEW label, IsInternal(label), Placed(label, location)
    PROVE  ~IsHollow(label)
<1>1. SUFFICES ASSUME IsHollow(label)
               PROVE  FALSE
  OBVIOUS
<1>2. PICK other \in DOMAIN frames : /\ frames[other].stage = "done" /\ HasOrigin(other)
                                     /\ label = Origin(other)
  BY <1>1 DEF IsHollow
<1>3. Placed(label, other)
  BY <1>2, OriginPlaced
<1>. QED
  BY <1>2, <1>3, FrameApart, InternalNot DEF IInv

\* The children of a node that is kept are stored and counted.
LEMMA KeptChildren ==
    ASSUME IInv, NEW label \in Kept
    PROVE  \A child \in {label.left, label.right} \ {Empty} :
              child \in DOMAIN store.refs /\ store.refs[child] \in Nat /\ store.refs[child] > 0
<1> DEFINE E == Edges(Kept, root, doomed)
<1>1. Exact(store.refs, E) /\ LeftEdge(label) \in E /\ RightEdge(label) \in E
  BY EdgeIn DEF IInv, CountsInv, Counted
<1> HIDE DEF E
<1>. QED
  BY <1>1, EdgeCounts, EdgeKinds

-----------------------------------------------------------------------------
(***************************************************************************)
(* The arms of recur, and the two calls of branch, keep the invariant.     *)
(***************************************************************************)

\* An activation that returns what it has stored, or what it was given.
LEMMA FinishKeeps ==
    ASSUME IInv, mode = "apply", NEW location \in DOMAIN frames,
           frames[location].stage = "recur", NEW new, Placed(new, location),
           frames' = [frames EXCEPT ![location] = Done(new)],
           store' = Populate(store, Scope(location), new),
           new # frames[location].label => ~IsInternal(frames[location].label) /\ ~IsInternal(new),
           reply' \in [Key -> Value \cup {Nothing}],
           UNCHANGED <<root, mode, caller, batch, doomed>>
    PROVE  IInv'
<1>1. /\ DOMAIN frames' = DOMAIN frames
      /\ \A other \in DOMAIN frames : other # location => frames'[other] = frames[other]
      /\ frames'[location] = Done(new)
  OBVIOUS
<1>2. Done(new).stage = "done" /\ Done(new).label = new /\ IsFrame(Done(new))
  BY DEF Done, IsFrame, NotApplicable
<1>3. location \in Places
  BY DEF IInv, FramesInv
<1>4. \A other \in DOMAIN frames :
         /\ HasOrigin(other)' <=> HasOrigin(other)
         /\ Origin(other)' = Origin(other)
         /\ Shielded(other)' <=> Shielded(other)
  <2>1. ASSUME NEW other \in DOMAIN frames, other # Root
        PROVE  frames'[Front(other)] = frames[Front(other)]
    BY <1>1, <2>1 DEF IInv, FramesInv
  <2>. QED
    BY <2>1, SameView
<1> DEFINE E == Edges(Kept, root, doomed)
<1>5. /\ Counted(store', E)
      /\ DOMAIN store'.refs = DOMAIN store.refs \cup ({new} \ {Empty})
      /\ \A l \in DOMAIN store.refs : store'.refs[l] = store.refs[l]
      /\ new # Empty /\ new \notin DOMAIN store.refs => store'.refs[new] = 0
  <2>1. new = Empty \/ InRange(Scope(location), new)
    BY <1>3, Covered, AboveFacts
  <2>2. Counted(store, E)
    BY DEF IInv, CountsInv
  <2>3. store' = Populate(store, Scope(location), new)
    OBVIOUS
  <2> HIDE DEF E
  <2>4. Counted(store', E) /\ Stocks(store', store, new)
    BY ONLY <2>1, <2>2, <2>3, PopulateKeeps
  <2>. QED
    BY ONLY <2>4 DEF Stocks
<1>6. IsInternal(new) => new \in DOMAIN store.refs
  BY DEF IInv, StagesInv
<1>7. ASSUME NEW label
      PROVE  IsHollow(label)' <=> IsHollow(label)
  <2>1. ASSUME IsHollow(label)
        PROVE  IsHollow(label)'
    BY <1>1, <1>4, <1>5, <2>1 DEF IsHollow
  <2>2. ASSUME IsHollow(label)'
        PROVE  IsHollow(label)
    <3>1. PICK other \in DOMAIN frames :
             /\ frames'[other].stage = "done" /\ HasOrigin(other) /\ ~Shielded(other)
             /\ label = Origin(other) /\ IsInternal(label) /\ frames'[other].label # label
             /\ label \in DOMAIN store'.refs /\ store'.refs[label] = 1
      BY <1>1, <1>4, <2>2 DEF IsHollow
    <3>2. label \in DOMAIN store.refs /\ store.refs[label] = 1
      BY <1>5, <3>1
    <3>3. other # location
      BY <1>1, <1>2, <3>1 DEF IInv, StagesInv
    <3>. QED
      BY <1>1, <3>1, <3>2, <3>3 DEF IsHollow
  <2>. QED
    BY <2>1, <2>2
<1>8. Kept' = Kept
  BY <1>5, <1>6, <1>7 DEF Kept
<1>9. CountsInv'
  BY <1>5, <1>8 DEF CountsInv
<1>10. FramesInv'
  BY <1>1, <1>2 DEF IInv, FramesInv
<1>11. CallInv'
  BY <1>1 DEF IInv, CallInv, Live
<1>12. PlacesInv'
  BY <1>1, <1>2, <1>3, <1>5 DEF IInv, PlacesInv, Live
<1>13. StagesInv'
  <2>1. ASSUME NEW other \in DOMAIN frames, other # location
        PROVE  LET frame == frames'[other]
               IN  /\ frame.stage # "done" =>
                         /\ IF HasOrigin(other) THEN frame.label = Origin(other)
                                                ELSE ~IsInternal(frame.label)
                         /\ (frame.preserve <=> Shielded(other))
                         /\ IsInternal(frame.label) =>
                               /\ frame.label \in DOMAIN store'.refs
                               /\ frame.references = store'.refs[frame.label]
                               /\ frame.references > 0
                   /\ frame.stage = "branch" => (frame.original <=> IsInternal(frame.label))
                   /\ frame.stage = "recur" =>
                         \/ frame.label = Empty
                         \/ frame.label \in DOMAIN store'.refs /\ store'.refs[frame.label] > 0
                   /\ frame.stage = "done" => frame.label \in DOMAIN store'.refs \cup {Empty}
    BY <1>1, <1>5, <2>1 DEF IInv, StagesInv
  <2>2. new \in DOMAIN store'.refs \cup {Empty}
    BY <1>5
  <2>. QED
    BY <1>1, <1>2, <1>4, <2>1, <2>2 DEF StagesInv
<1>14. ZeroInv'
  <2>1. ASSUME NEW label \in DOMAIN store'.refs, store'.refs[label] = 0, label # new
        PROVE  \E other \in DOMAIN frames : other # location /\ frames[other].stage = "done"
                                            /\ frames[other].label = label
    BY <1>5, <2>1 DEF IInv, ZeroInv
  <2>. QED
    BY <1>1, <1>2, <2>1 DEF ZeroInv
<1>. QED
  BY <1>9, <1>10, <1>11, <1>12, <1>13, <1>14 DEF IInv

\* What is stored already is not stored again.
LEMMA StoredSame ==
    ASSUME IInv, NEW location \in DOMAIN frames, NEW label, Placed(label, location),
           label \in DOMAIN store.refs \cup {Empty}
    PROVE  store = Populate(store, Scope(location), label)
<1>1. location \in Places
  BY DEF IInv, FramesInv
<1>2. label = Empty \/ (InRange(Scope(location), label) /\ label \in DOMAIN store.refs)
  BY <1>1, Covered, AboveFacts
<1>. QED
  BY <1>2 DEF Populate, Occupied

\* The operations of a running batch.
LEMMA Operations ==
    ASSUME IInv, NEW location, NEW k \in Task(location)
    PROVE  /\ k \in Key /\ Holds(location, k)
           /\ batch[k].act \in {"set", "remove", "get"}
           /\ batch[k].act = "set" => batch[k].value \in Value
<1>1. k \in Key /\ batch[k] # Skip /\ Holds(location, k)
  BY DEF Task
<1>2. batch \in [Key -> Operation]
  <2>1. NoBatch \in [Key -> Operation]
    BY DEF NoBatch, Operation
  <2>. QED
    BY <2>1, ApplyAssumption DEF IInv, CallInv
<1>. QED
  BY <1>1, <1>2 DEF Operation, Skip, Get, Delete, Set

\* No operation concerns the subtree.
LEMMA PassKeeps ==
    ASSUME IInv, NEW location, Pass(location)
    PROVE  IInv'
<1> DEFINE label == frames[location].label
<1>1. /\ mode = "apply" /\ location \in DOMAIN frames /\ frames[location].stage = "recur"
      /\ frames' = [frames EXCEPT ![location] = Done(label)]
      /\ UNCHANGED <<root, mode, caller, batch, doomed>> /\ store' = store /\ reply' = reply
  BY DEF Pass, Ready, Finish, Elsewhere
<1>2. /\ label \in DOMAIN store.refs \cup {Empty} /\ Placed(label, location)
      /\ reply \in [Key -> Value \cup {Nothing}]
  BY <1>1 DEF IInv, StagesInv, PlacesInv, CallInv
<1>3. store' = Populate(store, Scope(location), label)
  BY <1>1, <1>2, StoredSame
<1>. QED
  BY <1>1, <1>2, <1>3, FinishKeeps

\* A Get that ends on another leaf.
LEMMA MissKeeps ==
    ASSUME IInv, NEW location, MissLeaf(location)
    PROVE  IInv'
<1> DEFINE label == frames[location].label
<1>1. /\ mode = "apply" /\ location \in DOMAIN frames /\ frames[location].stage = "recur"
      /\ frames' = [frames EXCEPT ![location] = Done(label)]
      /\ UNCHANGED <<root, mode, caller, batch, doomed>> /\ store' = store /\ reply' = reply
  BY DEF MissLeaf, Ready, Finish, Elsewhere
<1>2. /\ label \in DOMAIN store.refs \cup {Empty} /\ Placed(label, location)
      /\ reply \in [Key -> Value \cup {Nothing}]
  BY <1>1 DEF IInv, StagesInv, PlacesInv, CallInv
<1>3. store' = Populate(store, Scope(location), label)
  BY <1>1, <1>2, StoredSame
<1>. QED
  BY <1>1, <1>2, <1>3, FinishKeeps

\* One operation on an empty subtree.
LEMMA EmptyKeeps ==
    ASSUME IInv, NEW location, DoOnEmpty(location)
    PROVE  IInv'
<1>1. PICK k \in Key :
         /\ Task(location) = {k}
         /\ LET label == IF batch[k].act = "set" THEN Leaf(k, batch[k].value) ELSE Empty
            IN  /\ store' = Populate(store, Scope(location), label)
                /\ Finish(location, label)
  BY DEF DoOnEmpty
<1> DEFINE new == IF batch[k].act = "set" THEN Leaf(k, batch[k].value) ELSE Empty
<1>2. /\ mode = "apply" /\ location \in DOMAIN frames /\ frames[location].stage = "recur"
      /\ frames[location].label = Empty
      /\ frames' = [frames EXCEPT ![location] = Done(new)]
      /\ store' = Populate(store, Scope(location), new)
      /\ UNCHANGED <<root, mode, caller, batch, doomed>> /\ reply' = reply
  BY <1>1 DEF DoOnEmpty, Ready, Finish, Elsewhere
<1>3. location \in Places /\ reply \in [Key -> Value \cup {Nothing}]
  BY <1>2 DEF IInv, FramesInv, CallInv
<1>4. Holds(location, k) /\ (batch[k].act = "set" => batch[k].value \in Value)
  BY <1>1, Operations
<1>5. Placed(new, location) /\ ~IsInternal(new) /\ ~IsInternal(Empty)
  BY <1>3, <1>4, PlacedEmpty, PlacedLeaf, Labels
<1> HIDE DEF new
<1>. QED
  BY <1>2, <1>3, <1>5, FinishKeeps

\* One operation on a leaf.
LEMMA LeafKeeps ==
    ASSUME IInv, NEW location, DoOnLeaf(location)
    PROVE  IInv'
<1> DEFINE label == frames[location].label
           op == batch[label.key]
           new == CASE op.act = "set" -> Leaf(label.key, op.value)
                    [] op.act = "remove" -> Empty
                    [] op.act = "get" -> label
<1>1. /\ mode = "apply" /\ location \in DOMAIN frames /\ frames[location].stage = "recur"
      /\ IsLeaf(label) /\ Task(location) = {label.key}
      /\ frames' = [frames EXCEPT ![location] = Done(new)]
      /\ store' = IF new = label THEN store ELSE Populate(store, Scope(location), new)
      /\ reply' = IF op.act = "get" THEN [reply EXCEPT ![label.key] = Answer(label)] ELSE reply
      /\ UNCHANGED <<root, mode, caller, batch, doomed>>
  BY DEF DoOnLeaf, Ready, Finish, Elsewhere
<1>2. /\ location \in Places /\ reply \in [Key -> Value \cup {Nothing}]
      /\ label \in DOMAIN store.refs \cup {Empty} /\ Placed(label, location)
  BY <1>1 DEF IInv, FramesInv, CallInv, StagesInv, PlacesInv
<1>3. /\ label.key \in Key /\ Holds(location, label.key)
      /\ op.act \in {"set", "remove", "get"} /\ (op.act = "set" => op.value \in Value)
  BY <1>1, Operations
<1>4. label.value \in Value /\ ~IsInternal(label)
  BY <1>1, <1>2, PlacedKinds, InternalNot
<1>5. Placed(new, location) /\ (new # label => ~IsInternal(new))
  BY <1>2, <1>3, PlacedEmpty, PlacedLeaf, Labels
<1>6. reply' \in [Key -> Value \cup {Nothing}]
  BY <1>1, <1>2, <1>3, <1>4 DEF Answer
<1>7. store' = Populate(store, Scope(location), new)
  <2> HIDE DEF new
  <2>. QED
    BY <1>1, <1>2, StoredSame
<1> HIDE DEF new
<1>. QED
  BY <1>1, <1>2, <1>4, <1>5, <1>6, <1>7, FinishKeeps

\* A branch calls recur on the two halves.
LEMMA BranchKeeps ==
    ASSUME IInv, mode = "apply", NEW location \in DOMAIN frames,
           frames[location].stage = "recur", Len(location) < PathLength,
           NEW original \in BOOLEAN, NEW left, NEW leftReferences \in Nat,
           NEW right, NEW rightReferences \in Nat,
           Branch(location, original, left, leftReferences, right, rightReferences),
           original <=> IsInternal(frames[location].label),
           original => left = frames[location].label.left /\ right = frames[location].label.right,
           ~original => ~IsInternal(left) /\ ~IsInternal(right),
           Placed(left, Left(location)), Placed(right, Right(location)),
           left # Empty => /\ left \in DOMAIN store.refs /\ store.refs[left] > 0
                           /\ IsInternal(left) => leftReferences = store.refs[left],
           right # Empty => /\ right \in DOMAIN store.refs /\ store.refs[right] > 0
                            /\ IsInternal(right) => rightReferences = store.refs[right],
           UNCHANGED <<store, root, mode, caller, batch, reply, doomed>>
    PROVE  IInv'
<1> DEFINE L == Left(location)
           R == Right(location)
           old == frames[location]
           preserve == PreserveBranches(old, original)
<1>1. /\ location \in Places /\ L \in Places /\ R \in Places /\ L # R
      /\ L # location /\ R # location
  <2>1. location \in Places
    BY DEF IInv, FramesInv
  <2>. QED
    BY <2>1, HalfFacts
<1>2. L \notin DOMAIN frames /\ R \notin DOMAIN frames
  <2>1. Above(location, L) /\ Above(location, R)
    BY <1>1, HalfFacts
  <2>. QED
    BY <1>1, <2>1, Ancestors DEF IInv
<1>3. preserve \in BOOLEAN
  BY DEF IInv, FramesInv, IsFrame, PreserveBranches
<1>4. /\ DOMAIN frames' = DOMAIN frames \cup {L, R}
      /\ \A other \in DOMAIN frames : other # location => frames'[other] = frames[other]
      /\ frames'[L] = Frame(left, leftReferences, preserve)
      /\ frames'[R] = Frame(right, rightReferences, preserve)
      /\ frames'[location] = Branching(old, original)
  <2>1. frames' = Calls(location, original, Frame(left, leftReferences, preserve),
                        Frame(right, rightReferences, preserve))
    BY DEF Branch
  <2>. QED
    BY <1>1, <1>2, <2>1 DEF Calls
<1>5. /\ Branching(old, original).stage = "branch" /\ Branching(old, original).label = old.label
      /\ Branching(old, original).references = old.references
      /\ Branching(old, original).preserve = old.preserve
      /\ Branching(old, original).original = original
  BY DEF Branching
<1>6. \A label, references : 
         /\ Frame(label, references, preserve).stage = "recur"
         /\ Frame(label, references, preserve).label = label
         /\ Frame(label, references, preserve).references = references
         /\ Frame(label, references, preserve).preserve = preserve
         /\ Frame(label, references, preserve).original = FALSE
         /\ references \in Nat => IsFrame(Frame(label, references, preserve))
  <2> HIDE DEF preserve
  <2>. QED
    BY <1>3 DEF Frame, IsFrame
<1> HIDE DEF preserve
<1>7. \A other \in DOMAIN frames :
         /\ HasOrigin(other)' <=> HasOrigin(other)
         /\ Origin(other)' = Origin(other)
         /\ Shielded(other)' <=> Shielded(other)
  <2>1. ASSUME NEW other \in DOMAIN frames, other # Root
        PROVE  frames'[Front(other)] = frames[Front(other)]
    BY <1>4, <2>1 DEF IInv, FramesInv
  <2>. QED
    BY <2>1, SameView
<1>8. \A half \in {L, R} :
         /\ half # Root /\ Front(half) = location
         /\ HasOrigin(half)' <=> original
         /\ Shielded(half)' <=> preserve
         /\ original => /\ half = L => Origin(half)' = left
                        /\ half = R => Origin(half)' = right
  <2>1. \A half \in {L, R} :
           /\ half # Root /\ Front(half) = location
           /\ HasOrigin(half)' <=> frames'[location].original
           /\ Shielded(half)' <=> PreserveBranches(frames'[location], frames'[location].original)
           /\ IsInternal(frames'[location].label) =>
                 /\ half = L => Origin(half)' = frames'[location].label.left
                 /\ half = R => Origin(half)' = frames'[location].label.right
    <3>1. /\ L # Root /\ Front(L) = location /\ Last(L) = "L"
          /\ R # Root /\ Front(R) = location /\ Last(R) = "R"
      BY <1>1, HalfFacts
    <3> HIDE DEF L, R
    <3>. QED
      BY <1>1, <3>1 DEF HasOrigin, Shielded, Origin, Child
  <2>2. PreserveBranches(frames'[location], original) <=> preserve
    BY <1>4, <1>5 DEF PreserveBranches, preserve
  <2>. QED
    BY <1>4, <1>5, <2>1, <2>2
<1>9. ASSUME NEW label
      PROVE  IsHollow(label)' <=> IsHollow(label)
  <2>1. \A other \in DOMAIN frames' : frames'[other].stage = "done" <=>
           other \in DOMAIN frames /\ frames[other].stage = "done"
    BY <1>4, <1>5, <1>6
  <2>2. \A other \in DOMAIN frames : frames[other].stage = "done" => frames'[other] = frames[other]
    BY <1>4
  <2>. QED
    BY <1>4, <1>7, <2>1, <2>2 DEF IsHollow
<1>10. Kept' = Kept
  BY <1>9 DEF Kept
<1>11. CountsInv'
  BY <1>10 DEF IInv, CountsInv
<1>12. FramesInv'
  <2>1. ASSUME NEW other \in DOMAIN frames'
        PROVE  IsFrame(frames'[other])
    <3>1. CASE other \in DOMAIN frames \ {location}
      BY <1>4, <3>1 DEF IInv, FramesInv
    <3>2. CASE other = location
      <4>1. IsFrame(old)
        BY DEF IInv, FramesInv
      <4>. QED
        BY <1>4, <1>5, <3>2, <4>1 DEF IsFrame
    <3>3. CASE other = L
      BY <1>4, <1>6, <3>3
    <3>4. CASE other = R
      BY <1>4, <1>6, <3>4
    <3>. QED
      BY <1>4, <3>1, <3>2, <3>3, <3>4
  <2>2. ASSUME NEW other \in DOMAIN frames', other # Root
        PROVE  Front(other) \in DOMAIN frames' /\ frames'[Front(other)].stage = "branch"
    <3>1. CASE other \in {L, R}
      BY <1>4, <1>5, <1>8, <3>1
    <3>2. CASE other \in DOMAIN frames
      <4>1. Front(other) \in DOMAIN frames /\ frames[Front(other)].stage = "branch"
        BY <2>2, <3>2 DEF IInv, FramesInv
      <4>. QED
        BY <1>4, <4>1
    <3>. QED
      BY <1>4, <3>1, <3>2
  <2>3. ASSUME NEW other \in DOMAIN frames'
        PROVE  /\ other \in Places
               /\ frames'[other].stage = "branch" =>
                     /\ Len(other) < PathLength
                     /\ Left(other) \in DOMAIN frames' /\ Right(other) \in DOMAIN frames'
    BY <1>1, <1>4, <1>5, <1>6 DEF IInv, FramesInv
  <2>. QED
    BY <2>1, <2>2, <2>3 DEF FramesInv
<1>13. CallInv'
  BY <1>4 DEF IInv, CallInv, Live
<1>14. PlacesInv'
  BY <1>1, <1>4, <1>5, <1>6 DEF IInv, PlacesInv, Live
<1>15. StagesInv'
  <2> DEFINE Part(other) ==
        LET frame == frames'[other]
        IN  /\ frame.stage # "done" =>
                  /\ IF HasOrigin(other)' THEN frame.label = Origin(other)'
                                          ELSE ~IsInternal(frame.label)
                  /\ (frame.preserve <=> Shielded(other)')
                  /\ IsInternal(frame.label) =>
                        /\ frame.label \in DOMAIN store.refs
                        /\ frame.references = store.refs[frame.label] /\ frame.references > 0
            /\ frame.stage = "branch" => (frame.original <=> IsInternal(frame.label))
            /\ frame.stage = "recur" =>
                  \/ frame.label = Empty
                  \/ frame.label \in DOMAIN store.refs /\ store.refs[frame.label] > 0
            /\ frame.stage = "done" => frame.label \in DOMAIN store.refs \cup {Empty}
  <2>1. ASSUME NEW other \in DOMAIN frames, other # location
        PROVE  Part(other)
    BY <1>4, <1>7, <2>1 DEF IInv, StagesInv
  <2>2. Part(location)
    BY <1>4, <1>5, <1>7 DEF IInv, StagesInv
  <2>3. Part(L)
    BY <1>1, <1>4, <1>6, <1>8, InternalNot
  <2>4. Part(R)
    BY <1>1, <1>4, <1>6, <1>8, InternalNot
  <2>5. \A other \in DOMAIN frames' : Part(other)
    <3> HIDE DEF Part
    <3>. QED
      BY <1>4, <2>1, <2>2, <2>3, <2>4
  <2>. QED
    BY <2>5 DEF StagesInv
<1>16. ZeroInv'
  <2>1. \A other \in DOMAIN frames : frames[other].stage = "done" =>
           other \in DOMAIN frames' /\ frames'[other] = frames[other]
    BY <1>4
  <2>. QED
    BY <2>1 DEF IInv, ZeroInv
<1>. QED
  BY <1>11, <1>12, <1>13, <1>14, <1>15, <1>16 DEF IInv

\* Several operations on an empty subtree.
LEMMA SplitEmptyKeeps ==
    ASSUME IInv, NEW location, SplitEmpty(location)
    PROVE  IInv'
<1>1. /\ mode = "apply" /\ location \in DOMAIN frames /\ frames[location].stage = "recur"
      /\ frames[location].label = Empty
      /\ Branch(location, FALSE, Empty, 0, Empty, 0)
      /\ UNCHANGED <<store, root, mode, caller, batch, reply, doomed>>
  BY DEF SplitEmpty, Ready, Elsewhere, NotApplicable
<1>2. PICK j \in Task(location), k \in Task(location) : j # k
  BY DEF SplitEmpty
<1>3. location \in Places
  BY <1>1 DEF IInv, FramesInv
<1>4. Len(location) < PathLength
  BY <1>2, <1>3, Operations, KeysPart
<1>5. Placed(Empty, Left(location)) /\ Placed(Empty, Right(location))
  BY <1>3, <1>4, HalfFacts, PlacedEmpty
<1>. QED
  BY <1>1, <1>4, <1>5, Labels, BranchKeeps

\* Any other work on a leaf.
LEMMA SplitLeafKeeps ==
    ASSUME IInv, NEW location, SplitLeaf(location)
    PROVE  IInv'
<1> DEFINE label == frames[location].label
           references == frames[location].references
<1>1. /\ mode = "apply" /\ location \in DOMAIN frames /\ frames[location].stage = "recur"
      /\ IsLeaf(label) /\ Task(location) \notin {{}, {label.key}}
      /\ IF Path[label.key][Len(location) + 1] = "L"
         THEN Branch(location, FALSE, label, references, Empty, 0)
         ELSE Branch(location, FALSE, Empty, 0, label, references)
      /\ UNCHANGED <<store, root, mode, caller, batch, reply, doomed>>
  BY DEF SplitLeaf, Ready, Elsewhere, NotApplicable
<1>2. /\ location \in Places /\ Placed(label, location) /\ references \in Nat
      /\ ~IsInternal(label) /\ label # Empty
      /\ label \in DOMAIN store.refs /\ store.refs[label] > 0
  <2>1. ~IsInternal(label) /\ label # Empty
    BY <1>1, Labels, InternalNot
  <2>. QED
    BY <1>1, <2>1 DEF IInv, FramesInv, IsFrame, PlacesInv, StagesInv
<1>3. label.key \in Key /\ Holds(location, label.key)
  BY <1>1, <1>2, PlacedKinds
<1>4. PICK k \in Task(location) : k # label.key
  BY <1>1
<1>5. Len(location) < PathLength
  BY <1>2, <1>3, <1>4, Operations, KeysPart
<1>6. Placed(Empty, Left(location)) /\ Placed(Empty, Right(location))
  BY <1>2, <1>5, HalfFacts, PlacedEmpty
<1>7. Path[label.key][Len(location) + 1] \in {"L", "R"}
  <2>1. Path[label.key] \in [1..PathLength -> Direction]
    BY <1>3, TreeAssumption
  <2>2. Len(location) + 1 \in 1..PathLength
    BY <1>2, <1>5, PlaceSeq
  <2>. QED
    BY <2>1, <2>2 DEF Direction
<1> HIDE DEF label, references
<1>8. CASE Path[label.key][Len(location) + 1] = "L"
  <2>1. Placed(label, Left(location))
    <3>1. "L" \in Direction
      BY DEF Direction
    <3>2. Placed(label, Append(location, "L"))
      BY <1>1, <1>2, <1>5, <1>8, <3>1, LeafMoves
    <3>. QED
      BY <1>2, <3>2, Halves
  <2>. QED
    BY <1>1, <1>2, <1>5, <1>6, <1>8, <2>1, Labels, BranchKeeps DEF label
<1>9. CASE Path[label.key][Len(location) + 1] = "R"
  <2>1. Placed(label, Right(location))
    <3>1. "R" \in Direction
      BY DEF Direction
    <3>2. Placed(label, Append(location, "R"))
      BY <1>1, <1>2, <1>5, <1>9, <3>1, LeafMoves
    <3>. QED
      BY <1>2, <3>2, Halves
  <2>. QED
    BY <1>1, <1>2, <1>5, <1>6, <1>9, <2>1, Labels, BranchKeeps DEF label
<1>. QED
  BY <1>7, <1>8, <1>9

\* A node some frame still works on, and its children, are there for it.
LEMMA ChildrenThere ==
    ASSUME IInv, mode = "apply", NEW location \in DOMAIN frames,
           frames[location].stage # "done", IsInternal(frames[location].label)
    PROVE  LET label == frames[location].label
           IN  /\ label \in Kept /\ Len(location) < PathLength
               /\ Placed(label.left, Left(location)) /\ Placed(label.right, Right(location))
               /\ \A child \in {label.left, label.right} \ {Empty} :
                     /\ child \in DOMAIN store.refs /\ store.refs[child] \in Nat
                     /\ store.refs[child] > 0 /\ InRange(Scope(location), child)
<1> DEFINE label == frames[location].label
<1>1. /\ label \in DOMAIN store.refs /\ Placed(label, location) /\ location \in Places
  BY DEF IInv, StagesInv, PlacesInv, FramesInv
<1>2. label \in Kept
  BY <1>1, NotHollow DEF Kept
<1>3. /\ Len(location) < PathLength
      /\ Placed(label.left, Left(location)) /\ Placed(label.right, Right(location))
  BY <1>1, PlacedKinds
<1> HIDE DEF label
<1>4. ASSUME NEW child \in {label.left, label.right} \ {Empty}
      PROVE  /\ child \in DOMAIN store.refs /\ store.refs[child] \in Nat
             /\ store.refs[child] > 0 /\ InRange(Scope(location), child)
  <2>1. InRange(Scope(location), child)
    BY <1>1, <1>3, HalfFacts, Covered
  <2>. QED
    BY <1>2, <1>4, <2>1, KeptChildren
<1>. QED
  BY <1>2, <1>3, <1>4 DEF label

\* Work on an internal node, whose children are in the store.
LEMMA SplitInternalKeeps ==
    ASSUME IInv, NEW location, SplitInternal(location)
    PROVE  IInv'
<1> DEFINE label == frames[location].label
<1>1. /\ mode = "apply" /\ location \in DOMAIN frames /\ frames[location].stage = "recur"
      /\ IsInternal(label)
      /\ UNCHANGED <<root, mode, caller, batch, reply, doomed>>
  BY DEF SplitInternal, Ready, Elsewhere
<1>2. /\ Len(location) < PathLength
      /\ Placed(label.left, Left(location)) /\ Placed(label.right, Right(location))
      /\ \A child \in {label.left, label.right} \ {Empty} :
            /\ child \in DOMAIN store.refs /\ store.refs[child] \in Nat
            /\ store.refs[child] > 0 /\ InRange(Scope(location), child)
  BY <1>1, ChildrenThere
<1>3. /\ Branch(location, TRUE, label.left, References(store, label.left),
                                label.right, References(store, label.right))
      /\ UNCHANGED store
  BY <1>1, <1>2 DEF SplitInternal, Occupied
<1>4. /\ References(store, label.left) \in Nat /\ References(store, label.right) \in Nat
      /\ label.left # Empty => References(store, label.left) = store.refs[label.left]
      /\ label.right # Empty => References(store, label.right) = store.refs[label.right]
  BY <1>2 DEF References, NotApplicable
<1>5. /\ label.left # Empty => label.left \in DOMAIN store.refs /\ store.refs[label.left] > 0
      /\ label.right # Empty => label.right \in DOMAIN store.refs /\ store.refs[label.right] > 0
  BY <1>2
<1>. QED
  BY <1>1, <1>2, <1>3, <1>4, <1>5, BranchKeeps

-----------------------------------------------------------------------------
(***************************************************************************)
(* The epilogue of branch.                                                 *)
(***************************************************************************)

\* Only what has two halves that are not one leaf is a node of its own.
LEMMA MergedInternal ==
    ASSUME NEW scope, NEW left, NEW right, NEW new, new = Merged(scope, left, right)
    PROVE  /\ IsInternal(new) => new = Internal(scope, left, right) /\ new.left = left
                                 /\ new.right = right
           /\ ~IsInternal(new) => \/ new = Empty /\ left = Empty /\ right = Empty
                                  \/ new = left /\ right = Empty
                                  \/ new = right /\ left = Empty
<1>1. IsInternal(Internal(scope, left, right)) /\ ~IsInternal(Empty)
  BY Labels
<1>2. /\ Internal(scope, left, right).left = left /\ Internal(scope, left, right).right = right
  BY Labels
<1>3. /\ IsLeaf(left) => ~IsInternal(left)
      /\ IsLeaf(right) => ~IsInternal(right)
  BY InternalNot
<1>. QED
  BY <1>1, <1>2, <1>3, MergedIs

\* A new node comes with an edge to each of its children, if it was not there.
LEMMA AdoptKeeps ==
    ASSUME NEW s, NEW nodes, NEW roots, NEW drops, NEW scope, NEW frame, NEW left, NEW right,
           NEW new, new = Merged(scope, left, right),
           NEW t, t = Adopt(s, scope, frame, left, right),
           Counted(s, Edges(nodes, roots, drops)), nodes \subseteq DOMAIN s.refs,
           IsInternal(new) => InRange(scope, new),
           IsInternal(new) /\ ~Changed(frame, new) => new \in DOMAIN s.refs,
           IsInternal(new) /\ new \in DOMAIN s.refs => new \in nodes,
           left # Empty => left \in DOMAIN s.refs /\ InRange(scope, left),
           right # Empty => right \in DOMAIN s.refs /\ InRange(scope, right)
    PROVE  /\ Counted(t, Edges(IF IsInternal(new) THEN With(nodes, new) ELSE nodes, roots, drops))
           /\ \A l : l \in DOMAIN t.refs <=> l \in DOMAIN s.refs \/ (IsInternal(new) /\ l = new)
           /\ \A l \in DOMAIN s.refs : l \notin {left, right} => t.refs[l] = s.refs[l]
<1> DEFINE E == Edges(nodes, roots, drops)
           stored == IF IsInternal(new) THEN Populate(s, scope, new) ELSE s
<1>1. CASE ~IsInternal(new)
  <2>1. t = s
    BY <1>1 DEF Adopt
  <2>. QED
    BY <1>1, <2>1
<1>2. CASE IsInternal(new) /\ new \in DOMAIN s.refs
  <2>1. t = s
    <3>1. t = stored
      BY <1>2 DEF Adopt, Adopts, Occupied
    <3>2. stored = s
      BY <1>2, InternalNot DEF Populate, Occupied
    <3>. QED
      BY <3>1, <3>2
  <2>2. With(nodes, new) = nodes /\ DOMAIN s.refs \cup {new} = DOMAIN s.refs
    BY <1>2 DEF With
  <2>. QED
    BY <1>2, <2>1, <2>2
<1>3. CASE IsInternal(new) /\ new \notin DOMAIN s.refs
  <2> DEFINE once == Incref(stored, scope, left)
             twice == Incref(once, scope, right)
  <2>1. new # Empty /\ Changed(frame, new) /\ new.left = left /\ new.right = right
    BY <1>3, InternalNot, MergedInternal
  <2>2. t = twice
    BY <1>3, <2>1 DEF Adopt, Adopts, Occupied
  <2>3. stored = Populate(s, scope, new)
    BY <1>3
  <2>4. /\ Counted(stored, E)
        /\ DOMAIN stored.refs = DOMAIN s.refs \cup {new}
        /\ \A l \in DOMAIN s.refs : stored.refs[l] = s.refs[l]
    <3>1. Counted(s, E) /\ (new = Empty \/ InRange(scope, new))
      BY <1>3 DEF E
    <3> HIDE DEF E, stored
    <3>2. Counted(stored, E) /\ Stocks(stored, s, new)
      BY ONLY <2>3, <3>1, PopulateKeeps
    <3>. QED
      BY ONLY <1>3, <2>1, <3>2 DEF Stocks
  <2>5. /\ LeftEdge(new) \notin E /\ RightEdge(new) \notin With(E, LeftEdge(new))
        /\ LeftEdge(new).to = left /\ RightEdge(new).to = right
    <3>1. new \notin nodes
      BY <1>3
    <3>. QED
      BY <3>1, <2>1, EdgeIn, EdgeKinds DEF With
  <2>6. /\ Counted(once, With(E, LeftEdge(new)))
        /\ \A l : l \in DOMAIN once.refs <=> l \in DOMAIN stored.refs
        /\ \A l \in DOMAIN stored.refs : l # left => once.refs[l] = stored.refs[l]
    <3>1. left = Empty \/ (InRange(scope, left) /\ left \in DOMAIN stored.refs)
      BY <2>4
    <3>2. once = Incref(stored, scope, left)
      OBVIOUS
    <3> HIDE DEF E, stored, once
    <3>3. /\ Counted(once, With(E, LeftEdge(new)))
          /\ \A l : l \in DOMAIN once.refs <=> l \in DOMAIN stored.refs
      BY <2>4, <2>5, <3>1, <3>2, IncrefKeeps
    <3>4. \A l \in DOMAIN stored.refs : l # left => once.refs[l] = stored.refs[l]
      BY <2>4, <3>1, <3>2, IncrefLeaves
    <3>. QED
      BY <3>3, <3>4
  <2>7. /\ Counted(twice, With(With(E, LeftEdge(new)), RightEdge(new)))
        /\ \A l : l \in DOMAIN twice.refs <=> l \in DOMAIN once.refs
        /\ \A l \in DOMAIN once.refs : l # right => twice.refs[l] = once.refs[l]
    <3>1. right = Empty \/ (InRange(scope, right) /\ right \in DOMAIN once.refs)
      BY <2>4, <2>6
    <3>2. twice = Incref(once, scope, right)
      OBVIOUS
    <3> DEFINE F == With(E, LeftEdge(new))
    <3>3. /\ Counted(once, F) /\ RightEdge(new) \notin F /\ RightEdge(new).to = right
      BY <2>5, <2>6
    <3> HIDE DEF F, once, twice
    <3>4. /\ Counted(twice, With(F, RightEdge(new)))
          /\ \A l : l \in DOMAIN twice.refs <=> l \in DOMAIN once.refs
      BY <3>1, <3>2, <3>3, IncrefKeeps
    <3>5. \A l \in DOMAIN once.refs : l # right => twice.refs[l] = once.refs[l]
      BY <3>1, <3>2, <3>3, IncrefLeaves
    <3>. QED
      BY <3>4, <3>5 DEF F
  <2>8. Edges(With(nodes, new), roots, drops) = With(With(E, LeftEdge(new)), RightEdge(new))
    BY NodeEdges
  <2> HIDE DEF E, stored, once, twice
  <2>9. /\ Counted(t, Edges(With(nodes, new), roots, drops))
        /\ \A l : l \in DOMAIN t.refs <=> l \in DOMAIN s.refs \/ l = new
        /\ \A l \in DOMAIN s.refs : l \notin {left, right} => t.refs[l] = s.refs[l]
    BY <2>2, <2>4, <2>6, <2>7, <2>8
  <2>. QED
    BY <1>3, <2>9
<1>. QED
  BY <1>1, <1>2, <1>3

\* A node that lets its children go takes its two edges with it.
LEMMA ReleaseKeeps ==
    ASSUME NEW s, NEW nodes, NEW roots, NEW drops, NEW scope, NEW frame, NEW new,
           NEW t, t = Release(s, scope, frame, new), NEW old \in nodes, old = frame.label,
           Changed(frame, new), frame.original, ~frame.preserve, frame.references = 1,
           Counted(s, Edges(nodes, roots, drops)),
           old.left # Empty => InRange(scope, old.left),
           old.right # Empty => InRange(scope, old.right),
           old.left = old.right => old.left = Empty
    PROVE  /\ Counted(t, Edges(Without(nodes, old), roots, drops))
           /\ \A l : l \in DOMAIN t.refs <=>
                 /\ l \in DOMAIN s.refs
                 /\ ~(l \in {old.left, old.right} /\ s.refs[l] = 1 /\ l # new)
           /\ \A l \in DOMAIN t.refs :
                 t.refs[l] = IF l \in {old.left, old.right} THEN s.refs[l] - 1 ELSE s.refs[l]
<1> DEFINE E == Edges(nodes, roots, drops)
           once == Decref(s, scope, old.left, new = old.left)
           left == old.left
           right == old.right
<1>0. t = Decref(once, scope, right, new = right)
  BY DEF Release
<1>1. /\ LeftEdge(old) \in E /\ RightEdge(old) \in Without(E, LeftEdge(old))
      /\ LeftEdge(old).to = left /\ RightEdge(old).to = right
  BY EdgeIn, EdgeKinds DEF Without
<1>2. Empty \notin DOMAIN s.refs
  BY DEF Counted, Exact
<1>3. /\ Counted(once, Without(E, LeftEdge(old)))
      /\ \A l : l \in DOMAIN once.refs <=>
            l \in DOMAIN s.refs /\ ~(l = left /\ s.refs[l] = 1 /\ new # left)
      /\ \A l \in DOMAIN once.refs : l # left => once.refs[l] = s.refs[l]
      /\ left # Empty /\ (new = left \/ s.refs[left] # 1) => once.refs[left] = s.refs[left] - 1
  <2> DEFINE keep == new = old.left
  <2>1. /\ once = Decref(s, scope, left, keep) /\ keep \in BOOLEAN
        /\ Counted(s, E) /\ (left = Empty \/ InRange(scope, left))
    OBVIOUS
  <2> HIDE DEF E, once, keep, left
  <2>2. /\ Counted(once, Without(E, LeftEdge(old)))
        /\ \A l : l \in DOMAIN once.refs <=>
              l \in DOMAIN s.refs /\ ~(l = left /\ s.refs[l] = 1 /\ ~keep)
        /\ \A l \in DOMAIN once.refs : l # left => once.refs[l] = s.refs[l]
        /\ left # Empty /\ (keep \/ s.refs[left] # 1) => once.refs[left] = s.refs[left] - 1
    BY <1>1, <2>1, DecrefKeeps
  <2>. QED
    BY <2>2 DEF keep, left
<1>4. /\ Counted(t, Without(Without(E, LeftEdge(old)), RightEdge(old)))
      /\ \A l : l \in DOMAIN t.refs <=>
            l \in DOMAIN once.refs /\ ~(l = right /\ once.refs[l] = 1 /\ new # right)
      /\ \A l \in DOMAIN t.refs : l # right => t.refs[l] = once.refs[l]
      /\ right # Empty /\ (new = right \/ once.refs[right] # 1) =>
            t.refs[right] = once.refs[right] - 1
  <2> DEFINE keep == new = old.right
             F == Without(E, LeftEdge(old))
  <2>1. /\ t = Decref(once, scope, right, keep) /\ keep \in BOOLEAN
        /\ RightEdge(old) \in F /\ RightEdge(old).to = right
        /\ Counted(once, F) /\ (right = Empty \/ InRange(scope, right))
    BY <1>0, <1>1, <1>3
  <2> HIDE DEF F, once, keep, right
  <2>2. /\ Counted(t, Without(F, RightEdge(old)))
        /\ \A l : l \in DOMAIN t.refs <=>
              l \in DOMAIN once.refs /\ ~(l = right /\ once.refs[l] = 1 /\ ~keep)
        /\ \A l \in DOMAIN t.refs : l # right => t.refs[l] = once.refs[l]
        /\ right # Empty /\ (keep \/ once.refs[right] # 1) => t.refs[right] = once.refs[right] - 1
    BY <2>1, DecrefKeeps
  <2>. QED
    BY <2>2 DEF keep, right, F
<1>5. Edges(Without(nodes, old), roots, drops) = Without(Without(E, LeftEdge(old)), RightEdge(old))
  BY NodeEdges
<1>6. /\ right # Empty => right \in DOMAIN once.refs /\ right \in DOMAIN s.refs
      /\ left # Empty => left \in DOMAIN s.refs
  <2>1. /\ Exact(s.refs, E) /\ LeftEdge(old) \in E /\ LeftEdge(old).to = left
        /\ RightEdge(old) \in E /\ RightEdge(old).to = right
    BY <1>1 DEF Counted, Without
  <2>2. left # Empty => left \in DOMAIN s.refs
    <3> HIDE DEF E, left
    <3>. QED
      BY <2>1, EdgeCounts
  <2>3. right # Empty => right \in DOMAIN s.refs
    <3> HIDE DEF E, right
    <3>. QED
      BY <2>1, EdgeCounts
  <2>4. right # Empty => right # left
    OBVIOUS
  <2> HIDE DEF once, left, right
  <2>. QED
    BY <1>3, <2>2, <2>3, <2>4
<1>7. right # Empty => once.refs[right] = s.refs[right] /\ right # left
  BY <1>3, <1>6
<1> HIDE DEF E, once, left, right
<1>8. ASSUME NEW l
      PROVE  l \in DOMAIN t.refs <=> /\ l \in DOMAIN s.refs
                                     /\ ~(l \in {left, right} /\ s.refs[l] = 1 /\ l # new)
  BY <1>2, <1>3, <1>4, <1>6, <1>7
<1>9. ASSUME NEW l \in DOMAIN t.refs
      PROVE  t.refs[l] = IF l \in {left, right} THEN s.refs[l] - 1 ELSE s.refs[l]
  BY <1>2, <1>3, <1>4, <1>6, <1>7, <1>8
<1>. QED
  BY <1>4, <1>5, <1>8, <1>9 DEF left, right

\* What a branch joins, what it makes of it, and the store once it has adopted.
JoinLeft(location) == frames[Left(location)].label
JoinRight(location) == frames[Right(location)].label
JoinNew(location) == Merged(Scope(location), JoinLeft(location), JoinRight(location))
Adopted(location) ==
    Adopt(store, Scope(location), frames[location], JoinLeft(location), JoinRight(location))

\* A branch whose original lets its children go.
Releases(location) ==
    /\ Changed(frames[location], JoinNew(location)) /\ frames[location].original
    /\ ~frames[location].preserve /\ frames[location].references = 1

\* What is joined is where it belongs, and in the store.
LEMMA JoinPlaces ==
    ASSUME IInv, mode = "apply", NEW location, Joinable(location),
           NEW left, NEW right, NEW new, NEW old,
           left = JoinLeft(location), right = JoinRight(location), new = JoinNew(location),
           old = frames[location].label
    PROVE  /\ location \in Places /\ Len(location) < PathLength
           /\ Placed(left, Left(location)) /\ Placed(right, Right(location))
           /\ Placed(new, location) /\ Placed(old, location)
           /\ left # Empty => left \in DOMAIN store.refs /\ InRange(Scope(location), left)
           /\ right # Empty => right \in DOMAIN store.refs /\ InRange(Scope(location), right)
           /\ new # Empty => InRange(Scope(location), new)
           /\ IsInternal(new) /\ new \in DOMAIN store.refs => new \in Kept
<1>1. /\ location \in DOMAIN frames /\ Left(location) \in DOMAIN frames
      /\ Right(location) \in DOMAIN frames /\ frames[location].stage = "branch"
      /\ frames[Left(location)].stage = "done" /\ frames[Right(location)].stage = "done"
  BY DEF Joinable, IsDone
<1>2. location \in Places /\ Len(location) < PathLength
  BY <1>1 DEF IInv, FramesInv
<1>3. /\ Placed(left, Left(location)) /\ Placed(right, Right(location)) /\ Placed(old, location)
      /\ left \in DOMAIN store.refs \cup {Empty} /\ right \in DOMAIN store.refs \cup {Empty}
  BY <1>1 DEF IInv, PlacesInv, StagesInv, JoinLeft, JoinRight
<1>4. Placed(new, location)
  BY <1>2, <1>3, MergedPlaced DEF JoinNew
<1>5. Above(location, Left(location)) /\ Above(location, Right(location)) /\ Above(location, location)
  BY <1>2, HalfFacts, AboveFacts
<1>6. /\ left # Empty => InRange(Scope(location), left)
      /\ right # Empty => InRange(Scope(location), right)
      /\ new # Empty => InRange(Scope(location), new)
  BY <1>2, <1>3, <1>4, <1>5, Covered
<1>7. IsInternal(new) /\ new \in DOMAIN store.refs => new \in Kept
  BY <1>1, <1>4, NotHollow DEF Kept
<1>. QED
  BY <1>2, <1>3, <1>4, <1>6, <1>7

\* An original, its children, and when they are released.
LEMMA JoinOriginal ==
    ASSUME IInv, mode = "apply", NEW location, Joinable(location),
           NEW old, NEW new, old = frames[location].label, new = JoinNew(location)
    PROVE  /\ frames[location].original <=> IsInternal(old)
           /\ frames[location].preserve <=> Shielded(location)
           /\ ~Changed(frames[location], new) => IsInternal(old) /\ new = old
           /\ Releases(location) <=> /\ IsInternal(old) /\ new # old /\ ~Shielded(location)
                                     /\ store.refs[old] = 1
           /\ IsInternal(old) =>
                 /\ HasOrigin(location) /\ old = Origin(location)
                 /\ old \in DOMAIN store.refs /\ old \in Kept
                 /\ Placed(old.left, Left(location)) /\ Placed(old.right, Right(location))
                 /\ old.left # Empty => InRange(Scope(location), old.left)
                 /\ old.right # Empty => InRange(Scope(location), old.right)
           /\ HasOrigin(location) => old = Origin(location)
<1> DEFINE frame == frames[location]
<1>1. /\ location \in DOMAIN frames /\ frame.stage = "branch"
  BY DEF Joinable
<1>2. /\ frame.original <=> IsInternal(old)
      /\ frame.preserve <=> Shielded(location)
      /\ IsInternal(old) => HasOrigin(location) /\ old \in DOMAIN store.refs
                            /\ frame.references = store.refs[old]
      /\ HasOrigin(location) => old = Origin(location)
  BY <1>1 DEF IInv, StagesInv
<1>3. ASSUME IsInternal(old)
      PROVE  /\ old \in Kept
             /\ Placed(old.left, Left(location)) /\ Placed(old.right, Right(location))
             /\ old.left # Empty => InRange(Scope(location), old.left)
             /\ old.right # Empty => InRange(Scope(location), old.right)
  BY <1>1, <1>3, ChildrenThere
<1>4. frame.original \in BOOLEAN /\ frame.preserve \in BOOLEAN
  BY <1>1 DEF IInv, FramesInv, IsFrame
<1>5. ~Changed(frame, new) => IsInternal(old) /\ new = old
  BY <1>2, <1>4 DEF Changed
<1>6. Releases(location) <=> /\ IsInternal(old) /\ new # old /\ ~Shielded(location)
                             /\ store.refs[old] = 1
  BY <1>2, <1>4 DEF Releases, Changed
<1>. QED
  BY <1>2, <1>3, <1>5, <1>6

\* The store after a branch has adopted.
LEMMA JoinAdopts ==
    ASSUME IInv, mode = "apply", NEW location, Joinable(location),
           NEW left, NEW right, NEW new, NEW s,
           left = JoinLeft(location), right = JoinRight(location), new = JoinNew(location),
           s = Adopted(location)
    PROVE  /\ Counted(s, Edges(IF IsInternal(new) THEN With(Kept, new) ELSE Kept, root, doomed))
           /\ \A l : l \in DOMAIN s.refs <=>
                 l \in DOMAIN store.refs \/ (IsInternal(new) /\ l = new)
           /\ \A l \in DOMAIN store.refs : l \notin {left, right} => s.refs[l] = store.refs[l]
<1> DEFINE frame == frames[location]
           scope == Scope(location)
           nodes == Kept
           old == frame.label
<1>1. /\ left # Empty => left \in DOMAIN store.refs /\ InRange(scope, left)
      /\ right # Empty => right \in DOMAIN store.refs /\ InRange(scope, right)
      /\ new # Empty => InRange(scope, new)
      /\ IsInternal(new) /\ new \in DOMAIN store.refs => new \in nodes
  BY JoinPlaces
<1>2. ~Changed(frame, new) => IsInternal(old) /\ new = old
  BY JoinOriginal
<1>3. IsInternal(old) => old \in DOMAIN store.refs
  BY JoinOriginal
<1>4. /\ new = Merged(scope, left, right) /\ s = Adopt(store, scope, frame, left, right)
      /\ Counted(store, Edges(nodes, root, doomed)) /\ nodes \subseteq DOMAIN store.refs
  BY DEF JoinNew, Adopted, IInv, CountsInv, Kept
<1>5. /\ IsInternal(new) => InRange(scope, new)
      /\ IsInternal(new) /\ ~Changed(frame, new) => new \in DOMAIN store.refs
  BY <1>1, <1>2, <1>3, InternalNot
<1> HIDE DEF frame, scope, nodes
<1>. QED
  BY <1>1, <1>4, <1>5, AdoptKeeps DEF nodes

\* The store after a branch has adopted and released.
LEMMA JoinReleases ==
    ASSUME IInv, mode = "apply", NEW location, Joinable(location),
           NEW new, NEW old, NEW s, NEW t, NEW nodes,
           new = JoinNew(location), old = frames[location].label, s = Adopted(location),
           t = Release(s, Scope(location), frames[location], new),
           nodes = IF IsInternal(new) THEN With(Kept, new) ELSE Kept
    PROVE  /\ Counted(t, Edges(IF Releases(location) THEN Without(nodes, old) ELSE nodes,
                               root, doomed))
           /\ \A l : l \in DOMAIN t.refs <=>
                 /\ l \in DOMAIN s.refs
                 /\ ~(Releases(location) /\ l \in {old.left, old.right} /\ s.refs[l] = 1 /\ l # new)
           /\ \A l \in DOMAIN t.refs :
                 t.refs[l] = IF Releases(location) /\ l \in {old.left, old.right}
                             THEN s.refs[l] - 1 ELSE s.refs[l]
<1> DEFINE scope == Scope(location)
<1>1. Counted(s, Edges(nodes, root, doomed))
  BY JoinAdopts
<1>2. CASE ~Releases(location)
  <2>1. t = s
    BY <1>2 DEF Release, Releases
  <2>. QED
    BY <1>1, <1>2, <2>1
<1>3. CASE Releases(location)
  <2> DEFINE frame == frames[location]
  <2>1. /\ t = Release(s, scope, frame, new) /\ old = frame.label /\ Changed(frame, new)
        /\ frame.original /\ ~frame.preserve /\ frame.references = 1
    BY <1>3 DEF Releases
  <2>2. /\ IsInternal(old) /\ old \in Kept
        /\ Placed(old.left, Left(location)) /\ Placed(old.right, Right(location))
        /\ old.left # Empty => InRange(scope, old.left)
        /\ old.right # Empty => InRange(scope, old.right)
    BY <1>3, JoinOriginal
  <2>3. location \in Places
    BY JoinPlaces
  <2>4. old.left = old.right => old.left = Empty
    BY <2>2, <2>3, HalvesApart
  <2>5. old \in nodes
    BY <2>2 DEF With
  <2> HIDE DEF scope, frame
  <2>6. /\ Counted(t, Edges(Without(nodes, old), root, doomed))
        /\ \A l : l \in DOMAIN t.refs <=>
              /\ l \in DOMAIN s.refs
              /\ ~(l \in {old.left, old.right} /\ s.refs[l] = 1 /\ l # new)
        /\ \A l \in DOMAIN t.refs :
              t.refs[l] = IF l \in {old.left, old.right} THEN s.refs[l] - 1 ELSE s.refs[l]
    BY <1>1, <2>1, <2>2, <2>4, <2>5, ReleaseKeeps
  <2>. QED
    BY <1>3, <2>6
<1>. QED
  BY <1>2, <1>3

\* The labels of the frames that are not joined are none of those a join is about.
LEMMA JoinOthers ==
    ASSUME IInv, mode = "apply", NEW location, Joinable(location),
           NEW left, NEW right, NEW new, NEW old,
           left = JoinLeft(location), right = JoinRight(location), new = JoinNew(location),
           old = frames[location].label,
           NEW other \in DOMAIN frames \ Joins(location), NEW label, label # Empty,
           Placed(label, other), frames[other].stage # "branch" \/ IsInternal(label)
    PROVE  /\ label \notin {left, right, new}
           /\ IsInternal(old) => label \notin {old, old.left, old.right}
<1>1. \A place \in Joins(location) : ~Placed(label, place)
  BY JoinApart DEF IInv
<1>2. /\ Placed(left, Left(location)) /\ Placed(right, Right(location))
      /\ Placed(new, location) /\ Placed(old, location)
  BY JoinPlaces
<1>3. IsInternal(old) => Placed(old.left, Left(location)) /\ Placed(old.right, Right(location))
  BY JoinOriginal
<1>. QED
  BY <1>1, <1>2, <1>3 DEF Joins

\* What no join is about stays as it is.
LEMMA JoinSpares ==
    ASSUME IInv, mode = "apply", NEW location, Joinable(location),
           NEW left, NEW right, NEW new, NEW old, NEW t, NEW label,
           left = JoinLeft(location), right = JoinRight(location), new = JoinNew(location),
           old = frames[location].label,
           t = Release(Adopted(location), Scope(location), frames[location], new),
           label \notin {left, right, new},
           IsInternal(old) => label \notin {old.left, old.right}
    PROVE  /\ label \in DOMAIN t.refs <=> label \in DOMAIN store.refs
           /\ label \in DOMAIN store.refs => t.refs[label] = store.refs[label]
<1> DEFINE s == Adopted(location)
           nodes == IF IsInternal(new) THEN With(Kept, new) ELSE Kept
<1>1. s = Adopted(location) /\ nodes = IF IsInternal(new) THEN With(Kept, new) ELSE Kept
  OBVIOUS
<1> HIDE DEF s, nodes
<1>2. /\ \A l : l \in DOMAIN s.refs <=>
            l \in DOMAIN store.refs \/ (IsInternal(new) /\ l = new)
      /\ \A l \in DOMAIN store.refs : l \notin {left, right} => s.refs[l] = store.refs[l]
  BY <1>1, JoinAdopts
<1>3. /\ \A l : l \in DOMAIN t.refs <=>
            /\ l \in DOMAIN s.refs
            /\ ~(Releases(location) /\ l \in {old.left, old.right} /\ s.refs[l] = 1 /\ l # new)
      /\ \A l \in DOMAIN t.refs :
            t.refs[l] = IF Releases(location) /\ l \in {old.left, old.right}
                        THEN s.refs[l] - 1 ELSE s.refs[l]
  BY <1>1, JoinReleases
<1>4. Releases(location) => IsInternal(old)
  BY JoinOriginal
<1>. QED
  BY <1>2, <1>3, <1>4

\* What becomes of the frames.
LEMMA JoinFrames ==
    ASSUME IInv, NEW location, Joinable(location), NEW new, UNCHANGED <<root, caller>>,
           frames' = Restrict([frames EXCEPT ![location] = Done(new)],
                              DOMAIN frames \ {Left(location), Right(location)})
    PROVE  /\ DOMAIN frames' = DOMAIN frames \ {Left(location), Right(location)}
           /\ location \in DOMAIN frames'
           /\ frames'[location].stage = "done" /\ frames'[location].label = new
           /\ IsFrame(frames'[location])
           /\ \A other \in DOMAIN frames \ Joins(location) : frames'[other] = frames[other]
           /\ \A other \in DOMAIN frames' : other # Root =>
                 /\ Front(other) \in DOMAIN frames' /\ Front(other) # location
                 /\ frames'[Front(other)] = frames[Front(other)]
           /\ \A other \in DOMAIN frames' :
                 /\ HasOrigin(other)' <=> HasOrigin(other)
                 /\ Origin(other)' = Origin(other)
                 /\ Shielded(other)' <=> Shielded(other)
<1> DEFINE L == Left(location)
           R == Right(location)
<1>1. /\ location \in DOMAIN frames /\ location \in Places /\ frames[location].stage = "branch"
      /\ L \in DOMAIN frames /\ frames[L].stage = "done"
      /\ R \in DOMAIN frames /\ frames[R].stage = "done"
  BY DEF Joinable, IsDone, IInv, FramesInv
<1>2. location # L /\ location # R
  BY <1>1
<1>3. /\ DOMAIN frames' = DOMAIN frames \ {L, R}
      /\ frames'[location] = Done(new)
      /\ \A other \in DOMAIN frames \ {L, R, location} : frames'[other] = frames[other]
  <2> HIDE DEF L, R
  <2>. QED
    BY <1>1, <1>2 DEF Restrict, L, R
<1>4. Done(new).stage = "done" /\ Done(new).label = new /\ IsFrame(Done(new))
  BY DEF Done, IsFrame, NotApplicable
<1>5. ASSUME NEW other \in DOMAIN frames', other # Root
      PROVE  /\ Front(other) \in DOMAIN frames' /\ Front(other) # location
             /\ frames'[Front(other)] = frames[Front(other)]
  <2>1. /\ Front(other) \in DOMAIN frames /\ frames[Front(other)].stage = "branch"
        /\ other \in {Left(Front(other)), Right(Front(other))}
    BY <1>3, <1>5, HalfOf DEF IInv
  <2>2. Front(other) # L /\ Front(other) # R
    BY <1>1, <2>1
  <2>3. Front(other) # location
    BY <1>3, <2>1
  <2>. QED
    BY <1>3, <2>1, <2>2, <2>3
<1>6. \A other \in DOMAIN frames' :
         /\ HasOrigin(other)' <=> HasOrigin(other)
         /\ Origin(other)' = Origin(other)
         /\ Shielded(other)' <=> Shielded(other)
  BY <1>5, SameView
<1>. QED
  BY <1>1, <1>2, <1>3, <1>4, <1>5, <1>6 DEF Joins

\* What a join is about, in one place: JoinParts names it for the lemmas below.
JoinParts(location, left, right, new, old, s, t) ==
    /\ left = JoinLeft(location) /\ right = JoinRight(location) /\ new = JoinNew(location)
    /\ old = frames[location].label /\ s = Adopted(location)
    /\ t = Release(s, Scope(location), frames[location], new)

\* A child of the original that some node has besides it is not removed.
LEMMA JoinShared ==
    ASSUME IInv, mode = "apply", NEW location, Joinable(location),
           NEW left, NEW right, NEW new, NEW old, NEW s, NEW t,
           JoinParts(location, left, right, new, old, s, t), Releases(location),
           NEW label, IsInternal(label), label # new,
           \/ label = old.left /\ label = left
           \/ label = old.right /\ label = right
    PROVE  s.refs[label] > 1
<1> DEFINE nodes == IF IsInternal(new) THEN With(Kept, new) ELSE Kept
           E == Edges(nodes, root, doomed)
<1>1. new = Merged(Scope(location), left, right)
  BY DEF JoinParts, JoinNew
<1>2. IsInternal(new) /\ new.left = left /\ new.right = right
  <2>1. label # Empty
    BY InternalNot
  <2>. QED
    BY <1>1, <2>1, MergedInternal
<1>3. IsInternal(old) /\ new # old /\ old \in Kept
  BY JoinOriginal DEF JoinParts
<1>4. Exact(s.refs, E)
  <2>1. Counted(s, E)
    BY JoinAdopts DEF JoinParts
  <2>. QED
    BY <2>1 DEF Counted
<1>5. old \in nodes /\ new \in nodes
  BY <1>2, <1>3 DEF With
<1> HIDE DEF nodes
<1>6. /\ LeftEdge(old) \in E /\ LeftEdge(new) \in E /\ LeftEdge(old) # LeftEdge(new)
      /\ RightEdge(old) \in E /\ RightEdge(new) \in E /\ RightEdge(old) # RightEdge(new)
      /\ LeftEdge(old).to = old.left /\ LeftEdge(new).to = left
      /\ RightEdge(old).to = old.right /\ RightEdge(new).to = right
  BY <1>2, <1>3, <1>5, EdgeIn, EdgeKinds
<1>7. label # Empty
  BY InternalNot
<1> HIDE DEF E
<1>8. CASE label = old.left /\ label = left
  BY <1>4, <1>6, <1>7, <1>8, EdgeCounts
<1>9. CASE label = old.right /\ label = right
  BY <1>4, <1>6, <1>7, <1>9, EdgeCounts
<1>. QED
  BY <1>8, <1>9

\* A child the recursion has replaced has let its own children go, if it could.
LEMMA JoinHollow ==
    ASSUME IInv, mode = "apply", NEW location, Joinable(location),
           NEW left, NEW right, NEW new, NEW old, NEW s, NEW t,
           JoinParts(location, left, right, new, old, s, t), Releases(location),
           NEW label, IsInternal(label), label \in DOMAIN store.refs, store.refs[label] = 1,
           \/ label = old.left /\ label # left
           \/ label = old.right /\ label # right
    PROVE  IsHollow(label)
<1> DEFINE frame == frames[location]
<1>1. /\ location \in Places
      /\ frames[Left(location)].stage = "done" /\ Left(location) \in DOMAIN frames
      /\ frames[Right(location)].stage = "done" /\ Right(location) \in DOMAIN frames
  BY JoinPlaces DEF Joinable, IsDone
<1>2. /\ IsInternal(old) /\ frame.original /\ ~PreserveBranches(frame, frame.original)
  BY JoinOriginal DEF JoinParts, Releases, PreserveBranches
<1>3. /\ HasOrigin(Left(location)) /\ HasOrigin(Right(location))
      /\ ~Shielded(Left(location)) /\ ~Shielded(Right(location))
      /\ Origin(Left(location)) = old.left /\ Origin(Right(location)) = old.right
  BY <1>1, <1>2, Sides DEF JoinParts
<1>4. left = frames[Left(location)].label /\ right = frames[Right(location)].label
  BY DEF JoinParts, JoinLeft, JoinRight
<1>. QED
  BY <1>1, <1>3, <1>4 DEF IsHollow

\* Conversely, what a half has left hollow goes with the join.
LEMMA JoinEmpties ==
    ASSUME IInv, mode = "apply", NEW location, Joinable(location),
           NEW left, NEW right, NEW new, NEW old, NEW s, NEW t,
           JoinParts(location, left, right, new, old, s, t),
           NEW half \in {Left(location), Right(location)}, NEW label,
           HasOrigin(half), label = Origin(half), IsInternal(label),
           frames[half].label # label, ~Shielded(half),
           label \in DOMAIN store.refs, store.refs[label] = 1
    PROVE  label \notin DOMAIN t.refs
<1> DEFINE frame == frames[location]
<1>1. location \in Places /\ frame.stage = "branch" /\ location \in DOMAIN frames
  BY JoinPlaces DEF Joinable
<1>2. frame.original /\ ~PreserveBranches(frame, frame.original)
  BY <1>1, Sides
<1>3. IsInternal(old) /\ (frame.preserve <=> Shielded(location))
  BY <1>2, JoinOriginal DEF JoinParts
<1>4. /\ half = Left(location) => label = old.left /\ label # left
      /\ half = Right(location) => label = old.right /\ label # right
  BY <1>1, <1>3, Sides DEF JoinParts, JoinLeft, JoinRight
<1>5. frame.references = store.refs[old] /\ frame.references \in Nat /\ frame.references > 0
  BY <1>1, <1>3 DEF JoinParts, IInv, StagesInv, FramesInv, IsFrame
<1>6. new = Merged(Scope(location), left, right)
  BY DEF JoinParts, JoinNew
<1>7. new # old
  BY <1>3, <1>4, <1>6, MergedInternal
<1>8. Releases(location)
  <2>1. ~frame.preserve /\ frame.references = 1
    BY <1>2, <1>5 DEF PreserveBranches
  <2>. QED
    BY <1>2, <1>7, <2>1 DEF Releases, Changed, JoinParts
<1>9. /\ Placed(left, Left(location)) /\ Placed(right, Right(location)) /\ Placed(new, location)
  BY JoinPlaces DEF JoinParts
<1>10. Placed(old.left, Left(location)) /\ Placed(old.right, Right(location))
  BY <1>3, JoinOriginal DEF JoinParts
<1>11. label \notin {left, right}
  BY <1>1, <1>4, <1>9, <1>10, HalvesApart, InternalNot
<1>12. label # new
  <2>1. Left(location) # location /\ Right(location) # location
    BY <1>1, HalfFacts
  <2>. QED
    BY <1>4, <1>9, <1>10, <2>1, OnePlace
<1>13. s.refs[label] = 1
  BY <1>11, JoinAdopts DEF JoinParts
<1>14. label \in {old.left, old.right}
  BY <1>4
<1> DEFINE nodes == IF IsInternal(new) THEN With(Kept, new) ELSE Kept
<1>15. \A l : l \in DOMAIN t.refs <=>
          /\ l \in DOMAIN s.refs
          /\ ~(Releases(location) /\ l \in {old.left, old.right} /\ s.refs[l] = 1 /\ l # new)
  <2>1. nodes = IF IsInternal(new) THEN With(Kept, new) ELSE Kept
    OBVIOUS
  <2> HIDE DEF nodes
  <2>. QED
    BY <2>1, JoinReleases DEF JoinParts
<1>. QED
  BY <1>8, <1>12, <1>13, <1>14, <1>15

\* A join, in the words of these lemmas.
Joined(location, left, right, new, old, s) ==
    /\ Joinable(location)
    /\ JoinParts(location, left, right, new, old, s, store')
    /\ frames' = Restrict([frames EXCEPT ![location] = Done(new)],
                          DOMAIN frames \ {Left(location), Right(location)})
    /\ UNCHANGED <<root, mode, caller, batch, reply, doomed>>

\* Joins make only their own original hollow, and do if they release it.
LEMMA JoinHollows ==
    ASSUME IInv, mode = "apply", NEW location, NEW left, NEW right, NEW new, NEW old, NEW s,
           Joined(location, left, right, new, old, s), NEW label
    PROVE  /\ IsHollow(label)' => \/ label = old /\ Releases(location)
                                  \/ IsHollow(label) /\ label # new
           /\ label = old /\ Releases(location) => IsHollow(label)'
           /\ IsHollow(label) /\ label \in DOMAIN store'.refs => IsHollow(label)'
<1>1. /\ DOMAIN frames' = DOMAIN frames \ {Left(location), Right(location)}
      /\ location \in DOMAIN frames'
      /\ frames'[location].stage = "done" /\ frames'[location].label = new
      /\ \A other \in DOMAIN frames \ Joins(location) : frames'[other] = frames[other]
      /\ \A other \in DOMAIN frames' :
            /\ HasOrigin(other)' <=> HasOrigin(other)
            /\ Origin(other)' = Origin(other)
            /\ Shielded(other)' <=> Shielded(other)
  BY JoinFrames DEF Joined
<1>2. location \in Places /\ Joinable(location) /\ location \in DOMAIN frames
      /\ frames[location].stage = "branch"
  BY JoinPlaces DEF Joined, JoinParts, Joinable
<1>3. /\ Releases(location) <=> /\ IsInternal(old) /\ new # old /\ ~Shielded(location)
                                /\ store.refs[old] = 1
      /\ IsInternal(old) =>
            /\ HasOrigin(location) /\ old = Origin(location) /\ old \in DOMAIN store.refs
            /\ Placed(old.left, Left(location)) /\ Placed(old.right, Right(location))
      /\ HasOrigin(location) => old = Origin(location)
  BY JoinOriginal DEF Joined, JoinParts
<1>4. /\ Placed(left, Left(location)) /\ Placed(right, Right(location))
      /\ Placed(new, location) /\ Placed(old, location)
  BY JoinPlaces DEF Joined, JoinParts
<1>5. Left(location) # location /\ Right(location) # location
  BY <1>2, HalfFacts
<1>6. ASSUME NEW l, l \notin {left, right, new}, IsInternal(old) => l \notin {old.left, old.right}
      PROVE  /\ l \in DOMAIN store'.refs <=> l \in DOMAIN store.refs
             /\ l \in DOMAIN store.refs => store'.refs[l] = store.refs[l]
  BY <1>6, JoinSpares DEF Joined, JoinParts
\* The original itself.
<1>7. IsInternal(old) /\ new # old =>
         /\ old \in DOMAIN store'.refs /\ store'.refs[old] = store.refs[old]
  <2>1. SUFFICES ASSUME IsInternal(old), new # old
                 PROVE  old \in DOMAIN store'.refs /\ store'.refs[old] = store.refs[old]
    OBVIOUS
  <2>2. old \notin {left, right, old.left, old.right}
    BY <1>3, <1>4, <1>5, <2>1, OnePlace
  <2>. QED
    BY <1>3, <1>6, <2>1, <2>2
\* The frames that are not joined.
<1>8. ASSUME NEW other \in DOMAIN frames \ Joins(location), frames[other].stage = "done",
             HasOrigin(other), IsInternal(Origin(other))
      PROVE  /\ Origin(other) \notin {new}
             /\ Origin(other) \in DOMAIN store'.refs <=> Origin(other) \in DOMAIN store.refs
             /\ Origin(other) \in DOMAIN store.refs =>
                   store'.refs[Origin(other)] = store.refs[Origin(other)]
  <2>1. Placed(Origin(other), other) /\ Origin(other) # Empty
    BY <1>8, OriginPlaced, InternalNot
  <2>2. /\ Origin(other) \notin {left, right, new}
        /\ IsInternal(old) => Origin(other) \notin {old, old.left, old.right}
    BY <1>2, <1>8, <2>1, JoinOthers DEF Joined, JoinParts
  <2>. QED
    BY <1>6, <2>2
<1>9. ASSUME IsHollow(label)'
      PROVE  \/ label = old /\ Releases(location)
             \/ IsHollow(label) /\ label # new
  <2>1. PICK other \in DOMAIN frames' :
           /\ frames'[other].stage = "done" /\ HasOrigin(other)
           /\ label = Origin(other) /\ IsInternal(label) /\ frames'[other].label # label
           /\ ~Shielded(other) /\ label \in DOMAIN store'.refs /\ store'.refs[label] = 1
    BY <1>1, <1>9 DEF IsHollow
  <2>2. CASE other = location
    BY <1>1, <1>3, <1>7, <2>1, <2>2
  <2>3. CASE other # location
    <3>1. other \in DOMAIN frames \ Joins(location) /\ frames'[other] = frames[other]
      BY <1>1, <2>3 DEF Joins
    <3>2. label # new /\ label \in DOMAIN store.refs /\ store.refs[label] = 1
      BY <1>8, <2>1, <3>1
    <3>. QED
      BY <2>1, <3>1, <3>2 DEF IsHollow
  <2>. QED
    BY <2>2, <2>3
<1>10. ASSUME label = old, Releases(location)
       PROVE  IsHollow(label)'
  BY <1>1, <1>3, <1>7, <1>10 DEF IsHollow
<1>11. ASSUME IsHollow(label), label \in DOMAIN store'.refs
       PROVE  IsHollow(label)'
  <2>1. PICK other \in DOMAIN frames :
           /\ frames[other].stage = "done" /\ HasOrigin(other)
           /\ label = Origin(other) /\ IsInternal(label) /\ frames[other].label # label
           /\ ~Shielded(other) /\ label \in DOMAIN store.refs /\ store.refs[label] = 1
    BY <1>11 DEF IsHollow
  <2>2. CASE other \in {Left(location), Right(location)}
    BY <1>2, <1>11, <2>1, <2>2, JoinEmpties DEF Joined
  <2>3. CASE other \notin {Left(location), Right(location)}
    <3>1. other \in DOMAIN frames \ Joins(location) /\ frames'[other] = frames[other]
          /\ other \in DOMAIN frames'
      BY <1>1, <1>2, <2>1, <2>3 DEF Joins
    <3>2. label \in DOMAIN store'.refs /\ store'.refs[label] = 1
      BY <1>8, <2>1, <3>1
    <3>. QED
      BY <1>1, <2>1, <3>1, <3>2 DEF IsHollow
  <2>. QED
    BY <2>2, <2>3
<1>. QED
  BY <1>9, <1>10, <1>11

\* The nodes that refer to their children: the new one more, the released one less.
LEMMA JoinKept ==
    ASSUME IInv, mode = "apply", NEW location, NEW left, NEW right, NEW new, NEW old, NEW s,
           Joined(location, left, right, new, old, s), NEW nodes,
           nodes = IF IsInternal(new) THEN With(Kept, new) ELSE Kept
    PROVE  Kept' = IF Releases(location) THEN Without(nodes, old) ELSE nodes
<1> DEFINE t == store'
           rest == IF Releases(location) THEN Without(nodes, old) ELSE nodes
<1>1. Joinable(location) /\ JoinParts(location, left, right, new, old, s, t)
  BY DEF Joined
<1>2. /\ \A l : l \in DOMAIN s.refs <=>
            l \in DOMAIN store.refs \/ (IsInternal(new) /\ l = new)
      /\ \A l \in DOMAIN store.refs : l \notin {left, right} => s.refs[l] = store.refs[l]
  BY <1>1, JoinAdopts DEF JoinParts
<1>3. \A l : l \in DOMAIN t.refs <=>
         /\ l \in DOMAIN s.refs
         /\ ~(Releases(location) /\ l \in {old.left, old.right} /\ s.refs[l] = 1 /\ l # new)
  BY <1>1, JoinReleases DEF JoinParts
<1>4. \A l : /\ IsHollow(l)' => \/ l = old /\ Releases(location)
                                \/ IsHollow(l) /\ l # new
             /\ l = old /\ Releases(location) => IsHollow(l)'
             /\ IsHollow(l) /\ l \in DOMAIN t.refs => IsHollow(l)'
  BY JoinHollows
<1>5. ASSUME NEW l \in Kept'
      PROVE  l \in rest
  <2>1. l \in DOMAIN t.refs /\ IsInternal(l) /\ ~IsHollow(l)'
    BY <1>5 DEF Kept
  <2>2. Releases(location) => l # old
    BY <1>4, <2>1
  <2>3. l # new => l \in Kept
    BY <1>2, <1>3, <1>4, <2>1 DEF Kept
  <2>. QED
    BY <2>1, <2>2, <2>3 DEF With, Without
<1>6. ASSUME NEW l \in rest
      PROVE  l \in Kept'
  <2>1. /\ Releases(location) => l # old
        /\ (IsInternal(new) /\ l = new) \/ l \in Kept
    BY <1>6 DEF With, Without
  <2>2. IsInternal(l)
    BY <2>1 DEF Kept
  <2>3. ~IsHollow(l)'
    BY <1>4, <2>1 DEF Kept
  <2>4. l \in DOMAIN s.refs
    BY <1>2, <2>1 DEF Kept
  <2>5. ASSUME Releases(location), l \in {old.left, old.right}, s.refs[l] = 1, l # new
        PROVE  FALSE
    <3>1. l \in Kept /\ l \in DOMAIN store.refs /\ ~IsHollow(l)
      BY <2>1, <2>5 DEF Kept
    <3>2. \/ l = old.left /\ l # left
          \/ l = old.right /\ l # right
      BY <1>1, <2>2, <2>5, JoinShared
    <3>3. /\ Placed(left, Left(location)) /\ Placed(right, Right(location)) /\ location \in Places
      BY <1>1, JoinPlaces DEF JoinParts
    <3>4. Placed(old.left, Left(location)) /\ Placed(old.right, Right(location))
      BY <1>1, <2>5, JoinOriginal DEF JoinParts
    <3>5. l \notin {left, right}
      BY <2>2, <3>2, <3>3, <3>4, HalvesApart, InternalNot
    <3>6. store.refs[l] = 1
      BY <1>2, <2>5, <3>1, <3>5
    <3>. QED
      BY <1>1, <2>2, <2>5, <3>1, <3>2, <3>6, JoinHollow
  <2>6. l \in DOMAIN t.refs
    BY <1>3, <2>4, <2>5
  <2>. QED
    BY <2>2, <2>3, <2>6 DEF Kept
<1>. QED
  BY <1>5, <1>6

\* The epilogue of branch.
LEMMA JoinKeeps ==
    ASSUME IInv, NEW location, Join(location)
    PROVE  IInv'
<1> DEFINE left == JoinLeft(location)
           right == JoinRight(location)
           new == JoinNew(location)
           old == frames[location].label
           s == Adopted(location)
           t == store'
           nodes == IF IsInternal(new) THEN With(Kept, new) ELSE Kept
<1>1. mode = "apply"
  BY DEF Join
<1>2. Joined(location, left, right, new, old, s)
  BY DEF Joined, Join, Joinable, JoinParts, Adopted, JoinLeft, JoinRight, JoinNew, Elsewhere
<1>3. Joinable(location) /\ JoinParts(location, left, right, new, old, s, t)
  BY <1>2 DEF Joined
<1>4. new = Merged(Scope(location), left, right)
  BY DEF JoinNew
<1>5. nodes = IF IsInternal(new) THEN With(Kept, new) ELSE Kept
  OBVIOUS
<1> HIDE DEF left, right, new, old, s, t, nodes
<1>6. /\ DOMAIN frames' = DOMAIN frames \ {Left(location), Right(location)}
      /\ location \in DOMAIN frames'
      /\ frames'[location].stage = "done" /\ frames'[location].label = new
      /\ IsFrame(frames'[location])
      /\ \A other \in DOMAIN frames \ Joins(location) : frames'[other] = frames[other]
      /\ \A other \in DOMAIN frames' : other # Root =>
            /\ Front(other) \in DOMAIN frames' /\ Front(other) # location
            /\ frames'[Front(other)] = frames[Front(other)]
      /\ \A other \in DOMAIN frames' :
            /\ HasOrigin(other)' <=> HasOrigin(other)
            /\ Origin(other)' = Origin(other)
            /\ Shielded(other)' <=> Shielded(other)
  BY <1>2, JoinFrames DEF Joined
<1>7. /\ location \in Places /\ location \in DOMAIN frames
      /\ Placed(left, Left(location)) /\ Placed(right, Right(location))
      /\ Placed(new, location) /\ Placed(old, location)
      /\ left # Empty => left \in DOMAIN store.refs
      /\ right # Empty => right \in DOMAIN store.refs
  BY <1>1, <1>3, JoinPlaces DEF JoinParts, Joinable
<1>8. /\ Counted(s, Edges(nodes, root, doomed))
      /\ \A l : l \in DOMAIN s.refs <=>
            l \in DOMAIN store.refs \/ (IsInternal(new) /\ l = new)
      /\ \A l \in DOMAIN store.refs : l \notin {left, right} => s.refs[l] = store.refs[l]
  BY <1>1, <1>3, <1>5, JoinAdopts DEF JoinParts
<1>9. /\ Counted(t, Edges(IF Releases(location) THEN Without(nodes, old) ELSE nodes, root, doomed))
      /\ \A l : l \in DOMAIN t.refs <=>
            /\ l \in DOMAIN s.refs
            /\ ~(Releases(location) /\ l \in {old.left, old.right} /\ s.refs[l] = 1 /\ l # new)
      /\ \A l \in DOMAIN t.refs :
            t.refs[l] = IF Releases(location) /\ l \in {old.left, old.right}
                        THEN s.refs[l] - 1 ELSE s.refs[l]
  BY <1>1, <1>3, <1>5, JoinReleases DEF JoinParts
<1>10. CountsInv'
  <2>1. Kept' = IF Releases(location) THEN Without(nodes, old) ELSE nodes
    BY <1>1, <1>2, <1>5, JoinKept
  <2>2. root' = root /\ doomed' = doomed
    BY <1>2 DEF Joined
  <2>. QED
    BY <1>9, <2>1, <2>2 DEF CountsInv, t
<1>11. ASSUME NEW other \in DOMAIN frames \ Joins(location), NEW label, label # Empty,
              Placed(label, other), frames[other].stage # "branch" \/ IsInternal(label)
       PROVE  /\ label \notin {left, right, new}
              /\ label \in DOMAIN t.refs <=> label \in DOMAIN store.refs
              /\ label \in DOMAIN store.refs => t.refs[label] = store.refs[label]
  <2>1. /\ label \notin {left, right, new}
        /\ IsInternal(old) => label \notin {old, old.left, old.right}
    BY <1>1, <1>3, <1>11, JoinOthers DEF JoinParts
  <2>. QED
    BY <1>1, <1>3, <2>1, JoinSpares DEF JoinParts
<1>12. FramesInv'
  <2>1. ASSUME NEW other \in DOMAIN frames'
        PROVE  other \in Places /\ IsFrame(frames'[other])
    BY <1>6, <1>7 DEF IInv, FramesInv, Joins
  <2>2. ASSUME NEW other \in DOMAIN frames', other # Root
        PROVE  Front(other) \in DOMAIN frames' /\ frames'[Front(other)].stage = "branch"
    BY <1>6, <2>2 DEF IInv, FramesInv
  <2>3. ASSUME NEW other \in DOMAIN frames', frames'[other].stage = "branch"
        PROVE  /\ Len(other) < PathLength
               /\ Left(other) \in DOMAIN frames' /\ Right(other) \in DOMAIN frames'
    <3>1. other # location /\ other \in DOMAIN frames \ Joins(location) /\ frames'[other] = frames[other]
      BY <1>6, <2>3 DEF Joins
    <3>2. /\ other \in Places /\ Len(other) < PathLength
          /\ Left(other) \in DOMAIN frames /\ Right(other) \in DOMAIN frames
      BY <2>3, <3>1 DEF IInv, FramesInv
    <3>3. {Left(other), Right(other)} \cap {Left(location), Right(location)} = {}
      BY <1>7, <3>1, <3>2, HoldsHalves
    <3>. QED
      BY <1>6, <3>2, <3>3
  <2>. QED
    BY <2>1, <2>2, <2>3 DEF FramesInv
<1>13. CallInv'
  <2>1. Root \in DOMAIN frames'
    <3>1. Root \in DOMAIN frames
      BY <1>1 DEF IInv, CallInv
    <3>2. Root # Left(location) /\ Root # Right(location)
      BY <1>7, HalfFacts
    <3>. QED
      BY <1>6, <3>1, <3>2
  <2>. QED
    BY <1>1, <1>2, <2>1 DEF IInv, CallInv, Live, Joined
<1>14. PlacesInv'
  <2>1. \A label \in DOMAIN t.refs : \E place \in Places : Placed(label, place)
    BY <1>7, <1>8, <1>9 DEF IInv, PlacesInv
  <2>2. \A other \in DOMAIN frames' : Placed(frames'[other].label, other)
    BY <1>6, <1>7 DEF IInv, PlacesInv, Joins
  <2>. QED
    BY <1>2, <2>1, <2>2 DEF IInv, PlacesInv, Live, Joined, t
<1>15. new = Empty \/ new \in DOMAIN t.refs
  <2>1. IsInternal(new) \/ new = Empty \/ new \in DOMAIN store.refs
    BY <1>4, <1>7, MergedInternal
  <2>. QED
    BY <1>8, <1>9, <2>1
<1>16. StagesInv'
  <2> DEFINE Part(other) ==
        LET frame == frames'[other]
        IN  /\ frame.stage # "done" =>
                  /\ IF HasOrigin(other)' THEN frame.label = Origin(other)'
                                          ELSE ~IsInternal(frame.label)
                  /\ (frame.preserve <=> Shielded(other)')
                  /\ IsInternal(frame.label) =>
                        /\ frame.label \in DOMAIN t.refs
                        /\ frame.references = t.refs[frame.label] /\ frame.references > 0
            /\ frame.stage = "branch" => (frame.original <=> IsInternal(frame.label))
            /\ frame.stage = "recur" =>
                  \/ frame.label = Empty
                  \/ frame.label \in DOMAIN t.refs /\ t.refs[frame.label] > 0
            /\ frame.stage = "done" => frame.label \in DOMAIN t.refs \cup {Empty}
  <2>1. ASSUME NEW other \in DOMAIN frames \ Joins(location)
        PROVE  Part(other)
    <3> DEFINE label == frames[other].label
    <3>1. frames'[other] = frames[other] /\ other \in DOMAIN frames'
      BY <1>6 DEF Joins
    <3>2. Placed(label, other)
      BY DEF IInv, PlacesInv
    <3>3. ASSUME label # Empty, frames[other].stage # "branch" \/ IsInternal(label)
          PROVE  /\ label \in DOMAIN t.refs <=> label \in DOMAIN store.refs
                 /\ label \in DOMAIN store.refs => t.refs[label] = store.refs[label]
      BY <1>11, <3>2, <3>3
    <3>4. IsInternal(label) => label # Empty
      BY InternalNot
    <3>. QED
      BY <1>6, <3>1, <3>3, <3>4 DEF IInv, StagesInv
  <2>2. Part(location)
    BY <1>6, <1>15
  <2>3. \A other \in DOMAIN frames' : Part(other)
    <3>1. \A other \in DOMAIN frames' : other = location \/ other \in DOMAIN frames \ Joins(location)
      BY <1>6 DEF Joins
    <3> HIDE DEF Part
    <3>. QED
      BY <2>1, <2>2, <3>1
  <2>. QED
    BY <2>3 DEF StagesInv, t
<1>17. ZeroInv'
  <2>1. ASSUME NEW label \in DOMAIN t.refs, t.refs[label] = 0, label # new
        PROVE  \E other \in DOMAIN frames' : frames'[other].stage = "done" /\ frames'[other].label = label
    <3> DEFINE rest == IF Releases(location) THEN Without(nodes, old) ELSE nodes
               E == Edges(rest, root, doomed)
    <3>1. Exact(t.refs, E) /\ label # Empty
      BY <1>9 DEF Counted, Exact
    <3>2. label \notin {left, right}
      <4>1. SUFFICES ASSUME label \in {left, right}
                     PROVE  FALSE
        OBVIOUS
      <4>2. IsInternal(new) /\ new.left = left /\ new.right = right
        BY <1>4, <2>1, <3>1, <4>1, MergedInternal
      <4>3. new \in rest
        BY <1>1, <1>3, <1>5, <4>2, JoinOriginal DEF With, Without, JoinParts
      <4> HIDE DEF rest
      <4>4. /\ LeftEdge(new) \in E /\ RightEdge(new) \in E
            /\ LeftEdge(new).to = left /\ RightEdge(new).to = right
        BY <4>2, <4>3, EdgeIn, EdgeKinds
      <4> HIDE DEF E
      <4>. QED
        BY <2>1, <3>1, <4>1, <4>4, EdgeCounts
    <3>3. ~(Releases(location) /\ label \in {old.left, old.right})
      <4>1. s.refs[label] \in Nat
        BY <1>8, <1>9 DEF Counted, Exact
      <4>. QED
        BY <1>9, <2>1, <4>1
    <3>4. label \in DOMAIN store.refs /\ store.refs[label] = 0
      BY <1>8, <1>9, <2>1, <3>2, <3>3
    <3>5. PICK other \in DOMAIN frames :
             frames[other].stage = "done" /\ frames[other].label = label
      BY <3>4 DEF IInv, ZeroInv
    <3>6. other \notin Joins(location)
      BY <1>3, <3>2, <3>5 DEF Joins, Joinable, JoinParts, JoinLeft, JoinRight
    <3>7. other \in DOMAIN frames' /\ frames'[other] = frames[other]
      BY <1>6, <3>6 DEF Joins
    <3>. QED
      BY <3>5, <3>7
  <2>2. \A label \in DOMAIN t.refs : t.refs[label] = 0 =>
           \E other \in DOMAIN frames' :
              frames'[other].stage = "done" /\ frames'[other].label = label
    BY <1>6, <2>1
  <2>. QED
    BY <2>2 DEF ZeroInv, t
<1>. QED
  BY <1>10, <1>12, <1>13, <1>14, <1>16, <1>17 DEF IInv

-----------------------------------------------------------------------------
(***************************************************************************)
(* The edges of handles and of the labels that are to be dropped.          *)
(***************************************************************************)

\* The edges after the root of a handle has changed.
LEMMA RootEdges ==
    ASSUME NEW nodes, NEW drops, NEW h \in Handle,
           \A g \in Handle : g # h => root'[g] = root[g]
    PROVE  \A e : e \in Edges(nodes, root', drops) <=>
              \/ root'[h] # NoLabel /\ e = HandleEdge(h, root'[h])
              \/ e \in Edges(nodes, root, drops) /\ e # HandleEdge(h, root[h])
<1> DEFINE label == root'[h]
           E == Edges(nodes, root, drops)
           F == Edges(nodes, root', drops)
           others == { LeftEdge(l) : l \in nodes } \cup { RightEdge(l) : l \in nodes }
                     \cup { DoomedEdge(i, drops[Len(drops) + 1 - i]) : i \in 1..Len(drops) }
           before == { HandleEdge(g, root[g]) : g \in { x \in Handle : root[x] # NoLabel } }
           now == { HandleEdge(g, root'[g]) : g \in { x \in Handle : root'[x] # NoLabel } }
<1>1. E = others \cup before /\ F = others \cup now
  BY DEF Edges
<1>2. \A g, l : HandleEdge(g, l) \notin others
  BY DEF LeftEdge, RightEdge, HandleEdge, DoomedEdge
<1>3. \A g, l : HandleEdge(g, l) \in before <=> g \in Handle /\ root[g] # NoLabel /\ l = root[g]
  BY EdgeKinds
<1>5. /\ \A e : e \in before <=> \E g \in Handle : root[g] # NoLabel /\ e = HandleEdge(g, root[g])
      /\ \A e : e \in now <=> \E g \in Handle : root'[g] # NoLabel /\ e = HandleEdge(g, root'[g])
  OBVIOUS
<1> HIDE DEF before, now
<1>6. ASSUME NEW e
      PROVE  e \in now <=> \/ label # NoLabel /\ e = HandleEdge(h, label)
                           \/ e \in before /\ e # HandleEdge(h, root[h])
  <2>1. ASSUME e \in now
        PROVE  \/ label # NoLabel /\ e = HandleEdge(h, label)
               \/ e \in before /\ e # HandleEdge(h, root[h])
    <3>1. PICK g \in Handle : root'[g] # NoLabel /\ e = HandleEdge(g, root'[g])
      BY <1>5, <2>1
    <3>2. CASE g = h
      BY <3>1, <3>2
    <3>3. CASE g # h
      <4>1. root[g] # NoLabel /\ e = HandleEdge(g, root[g])
        BY <3>1, <3>3
      <4>. QED
        BY <1>5, <3>3, <4>1, EdgeKinds
    <3>. QED
      BY <3>2, <3>3
  <2>2. ASSUME label # NoLabel, e = HandleEdge(h, label)
        PROVE  e \in now
    BY <1>5, <2>2
  <2>3. ASSUME e \in before, e # HandleEdge(h, root[h])
        PROVE  e \in now
    <3>1. PICK g \in Handle : root[g] # NoLabel /\ e = HandleEdge(g, root[g])
      BY <1>5, <2>3
    <3>2. g # h
      BY <2>3, <3>1
    <3>. QED
      BY <1>5, <3>1, <3>2
  <2>. QED
    BY <2>1, <2>2, <2>3
<1> HIDE DEF others
<1>. QED
  BY <1>1, <1>2, <1>6

\* A handle that gets a root.
LEMMA RootMore ==
    ASSUME NEW nodes, NEW drops, NEW h \in Handle,
           \A g \in Handle : g # h => root'[g] = root[g],
           root[h] = NoLabel, root'[h] # NoLabel
    PROVE  /\ Edges(nodes, root', drops) = With(Edges(nodes, root, drops), HandleEdge(h, root'[h]))
           /\ HandleEdge(h, root'[h]) \notin Edges(nodes, root, drops)
<1> DEFINE E == Edges(nodes, root, drops)
           F == Edges(nodes, root', drops)
<1>1. \A e : e \in F <=> e = HandleEdge(h, root'[h]) \/ (e \in E /\ e # HandleEdge(h, root[h]))
  BY RootEdges
<1>2. \A l : HandleEdge(h, l) \notin E
  BY EdgeIn
<1> HIDE DEF E, F
<1>3. F = With(E, HandleEdge(h, root'[h])) /\ HandleEdge(h, root'[h]) \notin E
  BY <1>1, <1>2 DEF With
<1>. QED
  BY <1>3 DEF E, F

\* A handle that gets another root.
LEMMA RootOther ==
    ASSUME NEW nodes, NEW drops, NEW h \in Handle,
           \A g \in Handle : g # h => root'[g] = root[g],
           root[h] # NoLabel, root'[h] # NoLabel, root'[h] # root[h]
    PROVE  /\ Edges(nodes, root', drops) =
                 Without(With(Edges(nodes, root, drops), HandleEdge(h, root'[h])),
                         HandleEdge(h, root[h]))
           /\ HandleEdge(h, root'[h]) \notin Edges(nodes, root, drops)
           /\ HandleEdge(h, root[h]) \in Edges(nodes, root, drops)
<1> DEFINE E == Edges(nodes, root, drops)
           F == Edges(nodes, root', drops)
<1>1. \A e : e \in F <=> e = HandleEdge(h, root'[h]) \/ (e \in E /\ e # HandleEdge(h, root[h]))
  BY RootEdges
<1>2. HandleEdge(h, root'[h]) \notin E /\ HandleEdge(h, root[h]) \in E
  BY EdgeIn
<1> HIDE DEF E, F
<1>3. F = Without(With(E, HandleEdge(h, root'[h])), HandleEdge(h, root[h]))
  BY <1>1, <1>2 DEF With, Without
<1>. QED
  BY <1>2, <1>3 DEF E, F

\* Handles that keep their roots.
LEMMA RootSame ==
    ASSUME NEW nodes, NEW drops, \A g \in Handle : root'[g] = root[g]
    PROVE  Edges(nodes, root', drops) = Edges(nodes, root, drops)
  BY DEF Edges

\* A handle that goes.
LEMMA RootLess ==
    ASSUME NEW nodes, NEW drops, NEW h \in Handle,
           \A g \in Handle : g # h => root'[g] = root[g],
           root[h] # NoLabel, root'[h] = NoLabel
    PROVE  /\ Edges(nodes, root', drops) = Without(Edges(nodes, root, drops), HandleEdge(h, root[h]))
           /\ HandleEdge(h, root[h]) \in Edges(nodes, root, drops)
<1> DEFINE E == Edges(nodes, root, drops)
           F == Edges(nodes, root', drops)
<1>1. \A e : e \in F <=> e \in E /\ e # HandleEdge(h, root[h])
  BY RootEdges
<1>2. HandleEdge(h, root[h]) \in E
  BY EdgeIn
<1> HIDE DEF E, F
<1>3. F = Without(E, HandleEdge(h, root[h]))
  BY <1>1 DEF Without
<1>. QED
  BY <1>2, <1>3 DEF E, F

\* The edge of a label that is to be dropped before the others.
LEMMA PushEdge ==
    ASSUME NEW nodes, NEW roots, NEW S, NEW rest \in Seq(S), NEW label \in S,
           NEW E, E = Edges(nodes, roots, rest), NEW edge, edge = DoomedEdge(Len(rest) + 1, label)
    PROVE  Edges(nodes, roots, <<label>> \o rest) = With(E, edge) /\ edge \notin E
<1> DEFINE drops == <<label>> \o rest
           others == { LeftEdge(l) : l \in nodes } \cup { RightEdge(l) : l \in nodes }
                     \cup { HandleEdge(h, roots[h]) : h \in { g \in Handle : roots[g] # NoLabel } }
           before == { DoomedEdge(i, rest[Len(rest) + 1 - i]) : i \in 1..Len(rest) }
           now == { DoomedEdge(i, drops[Len(drops) + 1 - i]) : i \in 1..Len(drops) }
<1>1. E = others \cup before /\ Edges(nodes, roots, drops) = others \cup now
  BY DEF Edges
<1>2. /\ Len(rest) \in Nat /\ Len(drops) = Len(rest) + 1 /\ drops[1] = label
      /\ \A i \in 1..Len(rest) : drops[i + 1] = rest[i]
  OBVIOUS
<1>3. ASSUME NEW i \in 1..Len(rest)
      PROVE  drops[Len(drops) + 1 - i] = rest[Len(rest) + 1 - i]
  <2> DEFINE j == Len(rest) + 1 - i
  <2>1. j \in 1..Len(rest) /\ Len(drops) + 1 - i = j + 1
    BY <1>2
  <2>2. drops[j + 1] = rest[j]
    BY <1>2, <2>1
  <2>. QED
    BY <2>1, <2>2
<1>4. drops[Len(drops) + 1 - Len(drops)] = label
  <2>1. Len(drops) + 1 - Len(drops) = 1
    BY <1>2
  <2>. QED
    BY <1>2, <2>1
<1>5. ASSUME NEW e
      PROVE  e \in now <=> e \in before \/ e = edge
  <2>1. \A i : i \in 1..Len(drops) <=> i \in 1..Len(rest) \/ i = Len(drops)
    BY <1>2
  <2> HIDE DEF drops
  <2>. QED
    BY <1>2, <1>3, <1>4, <2>1
<1>6. edge \notin others
  BY DEF LeftEdge, RightEdge, HandleEdge, DoomedEdge
<1>7. edge \notin before
  <2>1. \A i \in 1..Len(rest) : i # Len(rest) + 1
    BY <1>2
  <2> HIDE DEF drops
  <2>. QED
    BY <2>1 DEF DoomedEdge
<1> HIDE DEF before, now, others, drops
<1>8. Edges(nodes, roots, drops) = With(E, edge) /\ edge \notin E
  BY <1>1, <1>5, <1>6, <1>7 DEF With
<1>. QED
  BY <1>8 DEF drops

-----------------------------------------------------------------------------
(***************************************************************************)
(* Between transactions nothing is hollow and nothing is at zero.          *)
(***************************************************************************)
Internals(s) == { label \in DOMAIN s.refs : IsInternal(label) }

\* What the invariant says while there is no frame.
LEMMA StillFacts ==
    ASSUME IInv, frames = <<>>
    PROVE  /\ Counted(store, Edges(Internals(store), root, doomed))
           /\ \A label \in DOMAIN store.refs : store.refs[label] \in Nat /\ store.refs[label] > 0
           /\ \A label \in DOMAIN store.refs : \E place \in Places : Placed(label, place)
<1>1. DOMAIN frames = {}
  OBVIOUS
<1>2. Kept = Internals(store)
  BY <1>1 DEF Kept, Internals, IsHollow
<1>3. Counted(store, Edges(Internals(store), root, doomed))
  BY <1>2 DEF IInv, CountsInv
<1>4. \A label \in DOMAIN store.refs : store.refs[label] \in Nat
  BY <1>3 DEF Counted, Exact
<1>. QED
  BY <1>1, <1>3, <1>4 DEF IInv, ZeroInv, PlacesInv

\* What there is to show when there is no frame afterwards.
LEMMA StillKeeps ==
    ASSUME frames' = <<>>, CallInv',
           Counted(store', Edges(Internals(store'), root', doomed')),
           \A label \in DOMAIN store'.refs : store'.refs[label] # 0,
           \A label \in DOMAIN store'.refs : \E place \in Places : Placed(label, place),
           \A h \in Handle : root'[h] # NoLabel => Placed(root'[h], Root),
           \A i \in 1..Len(doomed') : \E place \in Places : Placed(doomed'[i], place)
    PROVE  IInv'
<1>1. DOMAIN frames' = {}
  OBVIOUS
<1>2. Kept' = Internals(store')
  BY <1>1 DEF Kept, Internals, IsHollow
<1>3. CountsInv'
  BY <1>2 DEF CountsInv
<1>4. FramesInv' /\ StagesInv'
  BY <1>1 DEF FramesInv, StagesInv
<1>5. PlacesInv'
  BY <1>1 DEF PlacesInv, Live
<1>6. ZeroInv'
  BY <1>1 DEF ZeroInv
<1>. QED
  BY <1>3, <1>4, <1>5, <1>6 DEF IInv

\* Initially.
LEMMA InitKeeps == Init => IInv
<1>1. SUFFICES ASSUME Init
               PROVE  IInv
  OBVIOUS
<1>2. /\ DOMAIN frames = {} /\ DOMAIN store.refs = {} /\ store = [refs |-> store.refs, panicked |-> FALSE]
      /\ store.refs = [label \in DOMAIN store.refs |-> store.refs[label]]
      /\ Live = {} /\ Len(doomed) = 0
  BY <1>1 DEF Init, EmptyStore, Live
<1>3. CountsInv
  <2>1. Kept = {}
    BY <1>2 DEF Kept
  <2>2. Edges(Kept, root, doomed) = {}
    BY <1>2, <2>1 DEF Edges, Live
  <2>. QED
    BY <1>2, <2>2 DEF CountsInv, Counted, Exact
<1>4. CallInv
  BY <1>1, <1>2 DEF Init, CallInv, NoReply
<1>. QED
  BY <1>1, <1>2, <1>3, <1>4 DEF IInv, FramesInv, PlacesInv, StagesInv, ZeroInv

\* What a handle roots, or a drop is to release, is stored and counted.
LEMMA Rooted ==
    ASSUME IInv
    PROVE  /\ \A h \in Live : root[h] # Empty =>
                 /\ root[h] \in DOMAIN store.refs /\ store.refs[root[h]] \in Nat
                 /\ store.refs[root[h]] > 0 /\ InRange(Root, root[h])
           /\ \A i \in 1..Len(doomed) : doomed[i] # Empty =>
                 /\ doomed[i] \in DOMAIN store.refs /\ store.refs[doomed[i]] \in Nat
                 /\ store.refs[doomed[i]] > 0 /\ InRange(Root, doomed[i])
<1> DEFINE E == Edges(Kept, root, doomed)
<1>1. Exact(store.refs, E)
  BY DEF IInv, CountsInv, Counted
<1>2. \A place \in Places : Above(Root, place)
  <2>1. Len(Root) = 0 /\ \A place \in Places : Len(place) \in Nat
    BY RootPlace, PlaceSeq
  <2>. QED
    BY <2>1 DEF Above
<1>3. ASSUME NEW h \in Live, root[h] # Empty
      PROVE  /\ root[h] \in DOMAIN store.refs /\ store.refs[root[h]] \in Nat
             /\ store.refs[root[h]] > 0 /\ InRange(Root, root[h])
  <2>1. HandleEdge(h, root[h]) \in E /\ HandleEdge(h, root[h]).to = root[h]
    BY EdgeIn, EdgeKinds DEF Live
  <2>2. Scope(Root) = Root
    BY ScopeIs, RootPlace, PlaceSeq, EmptySeq DEF Root
  <2>3. InRange(Root, root[h])
    BY <1>3, <1>2, <2>2, RootPlace, Covered DEF IInv, PlacesInv
  <2> HIDE DEF E
  <2>. QED
    BY <1>1, <1>3, <2>1, <2>3, EdgeCounts
<1>4. ASSUME NEW i \in 1..Len(doomed), doomed[i] # Empty
      PROVE  /\ doomed[i] \in DOMAIN store.refs /\ store.refs[doomed[i]] \in Nat
             /\ store.refs[doomed[i]] > 0 /\ InRange(Root, doomed[i])
  <2> DEFINE j == Len(doomed) + 1 - i
  <2>1. j \in 1..Len(doomed) /\ doomed[i] = doomed[Len(doomed) + 1 - j]
    <3>1. j \in 1..Len(doomed) /\ Len(doomed) + 1 - j = i
      BY DEF IInv, CallInv
    <3>. QED
      BY <3>1
  <2>2. DoomedEdge(j, doomed[i]) \in E /\ DoomedEdge(j, doomed[i]).to = doomed[i]
    <3> HIDE DEF j
    <3>. QED
      BY <2>1, EdgeIn, EdgeKinds
  <2>3. Scope(Root) = Root
    BY ScopeIs, RootPlace, PlaceSeq, EmptySeq DEF Root
  <2>4. InRange(Root, doomed[i])
    <3>1. PICK place \in Places : Placed(doomed[i], place)
      BY DEF IInv, PlacesInv
    <3>. QED
      BY <1>2, <1>4, <2>3, <3>1, RootPlace, Covered
  <2> HIDE DEF E, j
  <2>. QED
    BY <1>1, <1>4, <2>2, <2>4, EdgeCounts
<1>. QED
  BY <1>3, <1>4

-----------------------------------------------------------------------------
(***************************************************************************)
(* The calls keep the invariant.                                           *)
(***************************************************************************)

\* A transaction gets its root, which is there.
LEMMA BeginKeeps ==
    ASSUME IInv, NEW h \in Handle, NEW b \in Batch, Begin(h, b)
    PROVE  IInv'
<1> DEFINE frame == Frame(root[h], References(store, root[h]), FALSE)
<1>1. /\ mode = "idle" /\ h \in Live /\ frames = <<>>
      /\ mode' = "apply" /\ caller' = h /\ batch' = b
      /\ UNCHANGED <<root, reply, doomed>>
  BY DEF Begin, Idle, IInv, CallInv
<1>2. root[h] # Empty => /\ root[h] \in DOMAIN store.refs /\ store.refs[root[h]] \in Nat
                         /\ store.refs[root[h]] > 0
  BY <1>1, Rooted
<1>3. frames' = [place \in {Root} |-> frame] /\ store' = store
  BY <1>1, <1>2 DEF Begin, Occupied
<1>4. /\ frame.stage = "recur" /\ frame.label = root[h] /\ frame.preserve = FALSE
      /\ frame.references = References(store, root[h]) /\ frame.original = FALSE
  BY DEF Frame
<1>5. References(store, root[h]) \in Nat /\ (root[h] # Empty => References(store, root[h]) = store.refs[root[h]])
  BY <1>2 DEF References, NotApplicable
<1> HIDE DEF frame
<1>6. DOMAIN frames' = {Root} /\ frames'[Root] = frame /\ DOMAIN frames = {}
  BY <1>1, <1>3
<1>7. Kept' = Kept
  BY <1>3, <1>4, <1>6 DEF Kept, IsHollow
<1>8. CountsInv'
  BY <1>1, <1>3, <1>7 DEF IInv, CountsInv
<1>9. FramesInv'
  BY <1>4, <1>5, <1>6, RootPlace DEF FramesInv, IsFrame
<1>10. CallInv'
  BY <1>1, <1>6 DEF IInv, CallInv, Live
<1>11. PlacesInv'
  BY <1>1, <1>3, <1>4, <1>6 DEF IInv, PlacesInv, Live
<1>12. StagesInv'
  <2>1. HasOrigin(Root)' /\ Origin(Root)' = root[h] /\ ~Shielded(Root)'
    BY <1>1 DEF HasOrigin, Origin, Shielded
  <2>. QED
    BY <1>2, <1>3, <1>4, <1>5, <1>6, <2>1, InternalNot DEF StagesInv
<1>13. ZeroInv'
  BY <1>3, <1>6 DEF IInv, ZeroInv
<1>. QED
  BY <1>8, <1>9, <1>10, <1>11, <1>12, <1>13 DEF IInv

\* The answers are handed to the caller.
LEMMA ReturnKeeps ==
    ASSUME IInv, Return
    PROVE  IInv'
<1>1. /\ mode = "reply" /\ mode' = "idle" /\ frames = <<>> /\ frames' = <<>>
      /\ UNCHANGED <<store, root, caller, batch, doomed>> /\ reply' = NoReply
  BY DEF Return, IInv, CallInv
<1>2. CallInv'
  BY <1>1 DEF IInv, CallInv, Live, NoReply
<1>3. \A h \in Handle : root[h] # NoLabel => Placed(root[h], Root)
  BY DEF IInv, PlacesInv, Live
<1>4. \A i \in 1..Len(doomed) : \E place \in Places : Placed(doomed[i], place)
  BY DEF IInv, PlacesInv
<1>. QED
  BY <1>1, <1>2, <1>3, <1>4, StillFacts, StillKeeps

\* A table that is opened has the empty root.
LEMMA OpenKeeps ==
    ASSUME IInv, NEW h \in Handle, Open(h)
    PROVE  IInv'
<1>1. /\ mode = "idle" /\ frames = <<>> /\ frames' = <<>> /\ root[h] = NoLabel
      /\ root' = [root EXCEPT ![h] = Empty]
      /\ UNCHANGED <<store, mode, caller, batch, reply, doomed>>
  BY DEF Open, Idle, IInv, CallInv, Live
<1>2. DOMAIN root = Handle /\ doomed = <<>> /\ caller = Absent
  BY <1>1 DEF IInv, CallInv
<1>3. CallInv'
  BY <1>1, <1>2 DEF IInv, CallInv
<1> DEFINE E == Edges(Internals(store), root, doomed)
           F == Edges(Internals(store), root', doomed)
<1>4. F = With(E, HandleEdge(h, Empty)) /\ HandleEdge(h, Empty).to = Empty
  <2>1. E = Edges(Internals(store), root, doomed) /\ F = Edges(Internals(store), root', doomed)
    OBVIOUS
  <2>2. /\ root'[h] = Empty /\ \A g \in Handle : g # h => root'[g] = root[g]
        /\ root[h] = NoLabel /\ Empty # NoLabel
    BY <1>1, <1>2, Labels
  <2> HIDE DEF E, F
  <2>3. F = With(E, HandleEdge(h, Empty))
    BY <2>1, <2>2, RootMore
  <2>. QED
    BY <2>3, EdgeKinds
<1>5. Counted(store, E)
  BY <1>1, StillFacts
<1> HIDE DEF E, F
<1>6. Counted(store, F)
  BY <1>4, <1>5, EmptyEdge DEF Counted, With
<1>7. \A g \in Handle : root'[g] # NoLabel => Placed(root'[g], Root)
  BY <1>1, <1>2, RootPlace, PlacedEmpty DEF IInv, PlacesInv, Live
<1>8. \A i \in 1..Len(doomed) : \E place \in Places : Placed(doomed[i], place)
  BY DEF IInv, PlacesInv
<1>9. \A label \in DOMAIN store.refs :
         store.refs[label] # 0 /\ \E place \in Places : Placed(label, place)
  BY <1>1, StillFacts
<1>. QED
  BY <1>1, <1>3, <1>6, <1>7, <1>8, <1>9, StillKeeps DEF F

\* A clone is a handle more of the same root.
LEMMA CloneKeeps ==
    ASSUME IInv, NEW h \in Handle, NEW copy \in Handle, Clone(h, copy)
    PROVE  IInv'
<1> DEFINE label == root[h]
<1>1. /\ mode = "idle" /\ frames = <<>> /\ frames' = <<>> /\ h \in Live /\ root[copy] = NoLabel
      /\ label # NoLabel /\ store' = Incref(store, Root, label)
      /\ root' = [root EXCEPT ![copy] = label]
      /\ UNCHANGED <<mode, caller, batch, reply, doomed>>
  BY DEF Clone, Idle, IInv, CallInv, Live
<1>2. DOMAIN root = Handle /\ doomed = <<>> /\ caller = Absent
  BY <1>1 DEF IInv, CallInv
<1>3. CallInv'
  BY <1>1, <1>2 DEF IInv, CallInv
<1>4. label = Empty \/ (InRange(Root, label) /\ label \in DOMAIN store.refs)
  BY <1>1, Rooted
<1> DEFINE nodes == Internals(store)
           E == Edges(nodes, root, doomed)
           F == Edges(nodes, root', doomed)
           edge == HandleEdge(copy, label)
<1>5. F = With(E, edge) /\ edge \notin E /\ edge.to = label
  <2>1. E = Edges(nodes, root, doomed) /\ F = Edges(nodes, root', doomed)
    OBVIOUS
  <2>2. /\ root'[copy] = label /\ \A g \in Handle : g # copy => root'[g] = root[g]
        /\ root[copy] = NoLabel /\ label # NoLabel
    BY <1>1, <1>2
  <2> HIDE DEF E, F, label, nodes
  <2>3. F = With(E, edge) /\ edge \notin E
    BY <2>1, <2>2, RootMore
  <2>. QED
    BY <2>3, EdgeKinds
<1>6. Counted(store, E)
  BY <1>1, StillFacts
<1>7. \A l \in DOMAIN store.refs :
         store.refs[l] \in Nat /\ store.refs[l] > 0 /\ \E place \in Places : Placed(l, place)
  BY <1>1, StillFacts
<1> HIDE DEF E, F, edge, label, nodes
<1>8. /\ Counted(store', With(E, edge))
      /\ \A l : l \in DOMAIN store'.refs <=> l \in DOMAIN store.refs
  BY <1>1, <1>4, <1>5, <1>6, IncrefKeeps
<1>9. \A l \in DOMAIN store.refs : l # label => store'.refs[l] = store.refs[l]
  BY <1>1, <1>4, <1>6, IncrefLeaves
<1>10. \A l \in DOMAIN store'.refs : store'.refs[l] # 0
  <2>1. label # Empty => label \in DOMAIN store'.refs /\ store'.refs[label] > 0
    <3>1. edge \in With(E, edge) /\ Exact(store'.refs, With(E, edge))
      BY <1>8 DEF With, Counted
    <3>. QED
      BY <1>5, <3>1, EdgeCounts
  <2>2. Empty \notin DOMAIN store'.refs
    BY <1>8 DEF Counted, Exact
  <2>. QED
    BY <1>7, <1>8, <1>9, <2>1, <2>2
<1>11. Internals(store') = nodes
  BY <1>8 DEF Internals, nodes
<1>12. Counted(store', Edges(Internals(store'), root', doomed'))
  BY <1>1, <1>5, <1>8, <1>11 DEF F
<1>13. \A g \in Handle : root'[g] # NoLabel => Placed(root'[g], Root)
  BY <1>1, <1>2 DEF IInv, PlacesInv, Live, label
<1>14. \A i \in 1..Len(doomed') : \E place \in Places : Placed(doomed'[i], place)
  BY <1>1 DEF IInv, PlacesInv
<1>. QED
  BY <1>1, <1>3, <1>7, <1>8, <1>10, <1>12, <1>13, <1>14, StillKeeps

\* When the root is done there is no other frame.
LEMMA RootAlone ==
    ASSUME IInv, IsDone(Root)
    PROVE  DOMAIN frames = {Root}
<1>1. ASSUME NEW location \in DOMAIN frames, location # Root
      PROVE  FALSE
  <2>1. location \in Places /\ Root \in Places
    BY RootPlace DEF IInv, FramesInv
  <2>2. Above(Root, location)
    BY <2>1, RootPlace, PlaceSeq DEF Above
  <2>. QED
    BY <1>1, <2>1, <2>2, Ancestors DEF IInv, IsDone
<1>. QED
  BY <1>1 DEF IsDone

\* A commit moves the handle's reference from the old root to the new one.
LEMMA CommitKeeps ==
    ASSUME IInv, Commit
    PROVE  IInv'
<1> DEFINE new == frames[Root].label
           old == root[caller]
           once == Incref(store, Root, new)
           nodes == Kept
           E == Edges(nodes, root, doomed)
           gets == HandleEdge(caller, new)
           had == HandleEdge(caller, old)
<1>1. /\ mode = "apply" /\ IsDone(Root) /\ frames' = <<>> /\ mode' = "reply"
      /\ caller' = Absent /\ batch' = NoBatch /\ UNCHANGED <<reply, doomed>>
      /\ store' = IF new = old THEN store ELSE Decref(once, Root, old, FALSE)
      /\ root' = [root EXCEPT ![caller] = new]
  BY DEF Commit
<1>2. /\ caller \in Handle /\ old # NoLabel /\ DOMAIN root = Handle /\ doomed = <<>>
      /\ caller \in Live
  BY <1>1 DEF IInv, CallInv, Live
<1>3. DOMAIN frames = {Root} /\ frames[Root].stage = "done"
  BY <1>1, RootAlone DEF IsDone
<1>4. /\ new = Empty \/ new \in DOMAIN store.refs
      /\ Placed(new, Root) /\ new # NoLabel
  <2>1. Placed(new, Root)
    BY <1>3 DEF IInv, PlacesInv
  <2>. QED
    BY <1>3, <2>1, PlacedKinds DEF IInv, StagesInv
<1>5. old = Empty \/ (old \in DOMAIN store.refs /\ store.refs[old] \in Nat
                      /\ store.refs[old] > 0 /\ InRange(Root, old))
  BY <1>2, Rooted
<1>6. new = Empty \/ InRange(Root, new)
  <2>1. Above(Root, Root) /\ Scope(Root) = Root
    BY RootPlace, AboveFacts, ScopeIs, PlaceSeq, EmptySeq DEF Root
  <2>. QED
    BY <1>4, <2>1, RootPlace, Covered
<1>7. /\ Counted(store, E) /\ Exact(store.refs, E)
      /\ \A l \in DOMAIN store.refs : store.refs[l] \in Nat
  BY DEF IInv, CountsInv, Counted, Exact
<1>8. /\ root'[caller] = new
      /\ \A h \in Handle : h # caller => root'[h] = root[h]
  BY <1>1, <1>2
<1>9. \A l \in DOMAIN store.refs : store.refs[l] = 0 => l = new
  BY <1>3 DEF IInv, ZeroInv
<1>10. \A l : IsHollow(l) <=> /\ l = old /\ IsInternal(old) /\ new # old
                              /\ old \in DOMAIN store.refs /\ store.refs[old] = 1
  BY <1>3 DEF IsHollow, HasOrigin, Origin, Shielded
<1> HIDE DEF new, old
<1>11. CallInv'
  BY <1>1, <1>2 DEF IInv, CallInv
<1>12. /\ \A h \in Handle : root'[h] # NoLabel => Placed(root'[h], Root)
       /\ \A i \in 1..Len(doomed') : \E place \in Places : Placed(doomed'[i], place)
  BY <1>1, <1>4, <1>8 DEF IInv, PlacesInv, Live
<1>13. CASE new = old
  <2>1. store' = store
    BY <1>1, <1>13
  <2>2. \A h \in Handle : root'[h] = root[h]
    BY <1>8, <1>13 DEF old
  <2>3. Internals(store') = nodes
    BY <1>10, <1>13, <2>1 DEF Internals, Kept
  <2>4. Edges(nodes, root', doomed) = E
    BY <2>2, RootSame
  <2>5. Counted(store', Edges(Internals(store'), root', doomed'))
    BY <1>1, <1>7, <2>1, <2>3, <2>4
  <2>6. \A l \in DOMAIN store'.refs : store'.refs[l] # 0
    BY <1>5, <1>7, <1>9, <1>13, <2>1 DEF Exact
  <2>. QED
    BY <1>1, <1>11, <1>12, <2>1, <2>5, <2>6, StillKeeps DEF IInv, PlacesInv
<1>14. CASE new # old
  <2>1. /\ Edges(nodes, root', doomed) = Without(With(E, gets), had)
        /\ gets \notin E /\ had \in E /\ gets.to = new /\ had.to = old /\ gets # had
    <3>1. /\ Edges(nodes, root', doomed) = Without(With(E, gets), had)
          /\ gets \notin E /\ had \in E
      BY <1>2, <1>4, <1>8, <1>14, RootOther DEF old
    <3>. QED
      BY <1>14, <3>1, EdgeKinds
  <2> DEFINE F == With(E, gets)
  <2> HIDE DEF E, gets, had, nodes, once
  <2>2. once = Incref(store, Root, new)
    BY DEF once
  <2>3. /\ Counted(once, F)
        /\ \A l : l \in DOMAIN once.refs <=> l \in DOMAIN store.refs
    BY <1>4, <1>6, <1>7, <2>1, <2>2, IncrefKeeps
  <2>4. \A l \in DOMAIN store.refs : l # new => once.refs[l] = store.refs[l]
    BY <1>4, <1>6, <1>7, <2>2, IncrefLeaves
  <2> DEFINE keep == FALSE
  <2>5. /\ store' = Decref(once, Root, old, keep) /\ keep \in BOOLEAN /\ had \in F
        /\ old = Empty \/ InRange(Root, old)
    BY <1>1, <1>5, <1>14, <2>1 DEF With, once
  <2> HIDE DEF F, keep
  <2>14. /\ Counted(store', Without(F, had))
         /\ \A l : l \in DOMAIN store'.refs <=>
               l \in DOMAIN once.refs /\ ~(l = old /\ once.refs[l] = 1 /\ ~keep)
         /\ \A l \in DOMAIN store'.refs : l # old => store'.refs[l] = once.refs[l]
         /\ old # Empty /\ (keep \/ once.refs[old] # 1) => store'.refs[old] = once.refs[old] - 1
    BY <2>1, <2>3, <2>5, DecrefKeeps
  <2>6. /\ Counted(store', Without(F, had))
        /\ \A l : l \in DOMAIN store'.refs <=>
              l \in DOMAIN once.refs /\ ~(l = old /\ once.refs[l] = 1)
        /\ \A l \in DOMAIN store'.refs : l # old => store'.refs[l] = once.refs[l]
        /\ old # Empty /\ once.refs[old] # 1 => store'.refs[old] = once.refs[old] - 1
    BY <2>14 DEF keep
  <2>7. old # Empty => once.refs[old] = store.refs[old]
    BY <1>5, <1>14, <2>4
  <2>8. Empty \notin DOMAIN store.refs
    BY <1>7 DEF Exact
  <2>9. \A l : l \in DOMAIN store'.refs <=>
           l \in DOMAIN store.refs /\ ~(l = old /\ store.refs[l] = 1)
    BY <2>3, <2>6, <2>7, <2>8
  <2>10. Internals(store') = nodes
    BY <1>10, <1>14, <2>9 DEF Internals, Kept, nodes
  <2>11. Counted(store', Edges(Internals(store'), root', doomed'))
    BY <1>1, <2>1, <2>6, <2>10 DEF F
  <2>12. ASSUME NEW l \in DOMAIN store'.refs
         PROVE  store'.refs[l] # 0
    <3>1. CASE l = new
      <4>1. gets \in Without(F, had) /\ Exact(store'.refs, Without(F, had)) /\ l # Empty
        BY <2>1, <2>6, <2>8, <2>9 DEF F, With, Without, Counted
      <4>. QED
        BY <2>1, <3>1, <4>1, EdgeCounts
    <3>2. CASE l = old
      <4>1. store.refs[l] # 1 /\ l # Empty /\ l \in DOMAIN store.refs
        BY <2>8, <2>9, <3>2
      <4>. QED
        BY <1>5, <2>6, <2>7, <3>2, <4>1
    <3>3. CASE l # new /\ l # old
      BY <1>9, <2>4, <2>6, <2>9, <3>3
    <3>. QED
      BY <3>1, <3>2, <3>3
  <2>13. \A l \in DOMAIN store'.refs : \E place \in Places : Placed(l, place)
    BY <2>9 DEF IInv, PlacesInv
  <2>. QED
    BY <1>1, <1>11, <1>12, <2>11, <2>12, <2>13, StillKeeps
<1>. QED
  BY <1>13, <1>14

\* A drop takes the root from its handle.
LEMMA DropKeeps ==
    ASSUME IInv, NEW h \in Handle, Drop(h)
    PROVE  IInv'
<1> DEFINE label == root[h]
           nodes == Internals(store)
           E == Edges(nodes, root, <<>>)
           had == HandleEdge(h, label)
           gets == DoomedEdge(1, label)
<1>1. /\ mode = "idle" /\ frames = <<>> /\ frames' = <<>> /\ h \in Live /\ label # NoLabel
      /\ mode' = "drop" /\ doomed' = <<label>> /\ root' = [root EXCEPT ![h] = NoLabel]
      /\ UNCHANGED <<store, caller, batch, reply>>
  BY DEF Drop, Idle, IInv, CallInv, Live
<1>2. DOMAIN root = Handle /\ doomed = <<>> /\ caller = Absent
  BY <1>1 DEF IInv, CallInv
<1>3. CallInv'
  BY <1>1, <1>2 DEF IInv, CallInv
<1>4. root'[h] = NoLabel /\ \A g \in Handle : g # h => root'[g] = root[g]
  BY <1>1, <1>2
<1>5. Edges(nodes, root', <<>>) = Without(E, had) /\ had \in E
  BY <1>1, <1>4, RootLess
<1>6. /\ Edges(nodes, root', <<label>>) = With(Without(E, had), gets) /\ gets \notin Without(E, had)
  <2> DEFINE none == <<>>
             S == {label}
             F == Edges(nodes, root', none)
  <2>1. none \in Seq(S) /\ label \in S /\ Len(none) + 1 = 1 /\ <<label>> \o none = <<label>>
    OBVIOUS
  <2>2. F = Edges(nodes, root', none) /\ gets = DoomedEdge(Len(none) + 1, label)
    BY <2>1
  <2>3. F = Without(E, had)
    BY <1>5
  <2> HIDE DEF F, gets, nodes, label, none, S, E, had
  <2>4. Edges(nodes, root', <<label>> \o none) = With(F, gets) /\ gets \notin F
    BY <2>1, <2>2, PushEdge
  <2>. QED
    BY <2>1, <2>3, <2>4
<1>7. gets \notin E /\ gets.to = had.to
  <2>1. gets \notin E
    <3>1. 1 \notin 1..Len(<<>>)
      OBVIOUS
    <3>. QED
      BY <3>1, EdgeIn
  <2> HIDE DEF E
  <2>. QED
    BY <2>1, EdgeKinds
<1>8. Counted(store, E)
  BY <1>1, <1>2, StillFacts
<1> HIDE DEF E, had, gets, nodes
<1>9. Counted(store, With(Without(E, had), gets))
  BY <1>5, <1>7, <1>8, OtherEdge DEF Counted, With, Without
<1>10. Counted(store', Edges(Internals(store'), root', doomed'))
  BY <1>1, <1>6, <1>9 DEF nodes
<1>11. /\ \A g \in Handle : root'[g] # NoLabel => Placed(root'[g], Root)
       /\ \A i \in 1..Len(doomed') : \E place \in Places : Placed(doomed'[i], place)
  <2>1. Placed(label, Root)
    BY <1>1 DEF IInv, PlacesInv
  <2>2. \A i \in 1..Len(doomed') : doomed'[i] = label
    BY <1>1
  <2>. QED
    BY <1>4, <2>1, <2>2, RootPlace DEF IInv, PlacesInv, Live
<1>. QED
  BY <1>1, <1>3, <1>10, <1>11, StillFacts, StillKeeps

\* What is left of a sequence after its first element.
LEMMA HeadTail ==
    ASSUME NEW S, NEW s \in Seq(S), Len(s) > 0
    PROVE  /\ s = <<Head(s)>> \o Tail(s) /\ Head(s) = s[1] /\ Head(s) \in S /\ Tail(s) \in Seq(S)
           /\ \A i \in 1..Len(Tail(s)) : i + 1 \in 1..Len(s) /\ Tail(s)[i] = s[i + 1]
  OBVIOUS

\* A sequence over some set is one over its own elements.
LEMMA OwnRange ==
    ASSUME NEW S, NEW s \in Seq(S)
    PROVE  s \in Seq({ s[i] : i \in 1..Len(s) }) /\ (s # <<>> => Len(s) > 0)
  OBVIOUS

\* A node that is removed hands its two edges to the labels that are to be dropped.
LEMMA OpenNode ==
    ASSUME NEW nodes, NEW S, NEW rest \in Seq(S), NEW label \in nodes, NEW counts,
           label.left \in S, label.right \in S,
           Exact(counts, Edges(nodes, root, rest))
    PROVE  Exact(counts, Edges(Without(nodes, label), root, <<label.left, label.right>> \o rest))
<1> DEFINE E == Edges(nodes, root, rest)
           more == <<label.right>> \o rest
           all == <<label.left>> \o more
           F == Edges(nodes, root, more)
           right == DoomedEdge(Len(rest) + 1, label.right)
           left == DoomedEdge(Len(more) + 1, label.left)
<1>1. /\ more \in Seq(S) /\ all = <<label.left, label.right>> \o rest
  OBVIOUS
<1>2. F = With(E, right) /\ right \notin E
  BY PushEdge
<1>3. Edges(nodes, root, all) = With(F, left) /\ left \notin F
  <2>1. F = Edges(nodes, root, more) /\ left = DoomedEdge(Len(more) + 1, label.left)
    OBVIOUS
  <2> HIDE DEF F, left, more
  <2>. QED
    BY <1>1, <2>1, PushEdge
<1>4. Edges(Without(nodes, label), root, all)
         = Without(Without(Edges(nodes, root, all), LeftEdge(label)), RightEdge(label))
  BY NodeEdges
<1>5. LeftEdge(label) \in E /\ RightEdge(label) \in E
  BY EdgeIn
<1>6. /\ LeftEdge(label) # RightEdge(label) /\ LeftEdge(label) # right /\ RightEdge(label) # right
      /\ LeftEdge(label) # left /\ RightEdge(label) # left
      /\ left.to = LeftEdge(label).to /\ right.to = RightEdge(label).to
  BY DEF LeftEdge, RightEdge, DoomedEdge
<1> HIDE DEF E, F, left, right, all, more
<1> DEFINE G == (E \ {RightEdge(label)}) \cup {right}
<1>7. Exact(counts, G)
  BY <1>2, <1>5, <1>6, OtherEdge DEF E
<1>8. LeftEdge(label) \in G /\ left \notin G
  BY <1>2, <1>3, <1>5, <1>6 DEF With
<1> HIDE DEF G
<1>9. Exact(counts, (G \ {LeftEdge(label)}) \cup {left})
  BY <1>6, <1>7, <1>8, OtherEdge
<1>10. Edges(Without(nodes, label), root, all) = (G \ {LeftEdge(label)}) \cup {left}
  BY <1>2, <1>3, <1>4, <1>6 DEF G, With, Without
<1>. QED
  BY <1>1, <1>9, <1>10

\* One call of drop.
LEMMA DropNodeKeeps ==
    ASSUME IInv, DropNode
    PROVE  IInv'
<1> DEFINE label == Head(doomed)
           rest == Tail(doomed)
           after == store'
           opens == IsInternal(label) /\ label \notin DOMAIN after.refs
           children == IF opens THEN <<label.left, label.right>> ELSE <<>>
           nodes == Internals(store)
           E == Edges(nodes, root, rest)
           edge == DoomedEdge(Len(rest) + 1, label)
           S == { doomed[i] : i \in 1..Len(doomed) }
<1>1. /\ mode = "drop" /\ frames = <<>> /\ frames' = <<>> /\ Len(doomed) > 0 /\ doomed \in Seq(S)
      /\ after = Decref(store, Root, label, FALSE)
      /\ doomed' = children \o rest
      /\ mode' = IF doomed' = <<>> THEN "idle" ELSE "drop"
      /\ UNCHANGED <<root, caller, batch, reply>>
  BY DEF DropNode, IInv, CallInv, Occupied
<1>2. /\ doomed = <<label>> \o rest /\ label = doomed[1] /\ label \in S /\ rest \in Seq(S)
      /\ 1 \in 1..Len(doomed)
      /\ \A i \in 1..Len(rest) : i + 1 \in 1..Len(doomed) /\ rest[i] = doomed[i + 1]
  BY <1>1, HeadTail
<1>3. label = Empty \/ (/\ label \in DOMAIN store.refs /\ store.refs[label] \in Nat
                        /\ store.refs[label] > 0 /\ InRange(Root, label))
  BY <1>2, Rooted
<1>4. \E place \in Places : Placed(label, place)
  BY <1>2 DEF IInv, PlacesInv
<1>5. Counted(store, With(E, edge)) /\ edge \notin E /\ edge.to = label
  <2>1. Counted(store, Edges(nodes, root, doomed))
    BY <1>1, StillFacts
  <2>2. edge.to = label
    BY EdgeKinds
  <2> HIDE DEF label, rest, nodes, S
  <2>3. Edges(nodes, root, <<label>> \o rest) = With(E, edge) /\ edge \notin E
    BY <1>2, PushEdge
  <2>. QED
    BY <1>2, <2>1, <2>2, <2>3
<1>6. \A l \in DOMAIN store.refs :
         store.refs[l] \in Nat /\ store.refs[l] > 0 /\ \E place \in Places : Placed(l, place)
  BY <1>1, StillFacts
<1>7. children = IF opens THEN <<label.left, label.right>> ELSE <<>>
  OBVIOUS
<1>8. opens <=> IsInternal(label) /\ label \notin DOMAIN after.refs
  OBVIOUS
<1> HIDE DEF label, rest, after, opens, children, nodes, E, edge, S
<1>9. /\ Counted(after, E)
      /\ \A l : l \in DOMAIN after.refs <=>
            l \in DOMAIN store.refs /\ ~(l = label /\ store.refs[l] = 1)
      /\ \A l \in DOMAIN after.refs : l # label => after.refs[l] = store.refs[l]
      /\ label # Empty /\ store.refs[label] # 1 => after.refs[label] = store.refs[label] - 1
  <2> DEFINE keep == FALSE
             F == With(E, edge)
  <2>1. /\ after = Decref(store, Root, label, keep) /\ keep \in BOOLEAN /\ edge \in F
        /\ Counted(store, F) /\ (label = Empty \/ InRange(Root, label)) /\ edge.to = label
    BY <1>1, <1>3, <1>5 DEF With
  <2>2. Without(F, edge) = E
    BY <1>5 DEF With, Without
  <2> HIDE DEF keep, F
  <2>3. /\ Counted(after, Without(F, edge))
        /\ \A l : l \in DOMAIN after.refs <=>
              l \in DOMAIN store.refs /\ ~(l = label /\ store.refs[l] = 1 /\ ~keep)
        /\ \A l \in DOMAIN after.refs : l # label => after.refs[l] = store.refs[l]
        /\ label # Empty /\ (keep \/ store.refs[label] # 1) =>
              after.refs[label] = store.refs[label] - 1
    BY <2>1, DecrefKeeps
  <2>. QED
    BY <2>2, <2>3 DEF keep
<1>10. Empty \notin DOMAIN store.refs
  BY <1>5 DEF Counted, Exact
<1>11. \A l \in DOMAIN after.refs : after.refs[l] # 0 /\ \E place \in Places : Placed(l, place)
  <2>1. ASSUME NEW l \in DOMAIN after.refs
        PROVE  after.refs[l] # 0
    <3>1. CASE l = label
      BY <1>3, <1>9, <1>10, <2>1, <3>1
    <3>2. CASE l # label
      BY <1>6, <1>9, <2>1, <3>2
    <3>. QED
      BY <3>1, <3>2
  <2>. QED
    BY <1>6, <1>9, <2>1
<1>12. /\ \A g \in Handle : root'[g] # NoLabel => Placed(root'[g], Root)
       /\ \A i \in 1..Len(rest) : \E place \in Places : Placed(rest[i], place)
  BY <1>1, <1>2 DEF IInv, PlacesInv, Live
<1>13. CASE ~opens
  <2>1. doomed' = rest
    BY <1>1, <1>2, <1>7, <1>13
  <2>2. Internals(after) = nodes
    BY <1>8, <1>9, <1>13 DEF Internals, nodes
  <2>3. Counted(after, Edges(Internals(after), root', doomed'))
    BY <1>1, <1>9, <2>1, <2>2 DEF E
  <2>4. CallInv'
    <3>1. doomed' \in Seq({ doomed'[i] : i \in 1..Len(doomed') }) /\ (doomed' # <<>> => Len(doomed') > 0)
      <4>1. doomed' \in Seq(S)
        BY <1>2, <2>1
      <4>. QED
        BY <4>1, OwnRange
    <3>. QED
      BY <1>1, <3>1 DEF IInv, CallInv
  <2>. QED
    BY <1>1, <1>11, <1>12, <2>1, <2>3, <2>4, StillKeeps DEF after
<1>14. CASE opens
  <2>1. IsInternal(label) /\ label \notin DOMAIN after.refs /\ label \in nodes
    BY <1>3, <1>8, <1>14, InternalNot DEF Internals, nodes
  <2>2. Internals(after) = Without(nodes, label)
    BY <1>9, <2>1 DEF Internals, nodes, Without
  <2> DEFINE more == S \cup {label.left, label.right}
             pair == <<label.left, label.right>>
  <2>3. rest \in Seq(more) /\ label.left \in more /\ label.right \in more
    BY <1>2
  <2>4. doomed' = pair \o rest
    BY <1>1, <1>7, <1>14
  <2>5. Exact(after.refs, Edges(Without(nodes, label), root, pair \o rest))
    <3> HIDE DEF more
    <3>1. Exact(after.refs, Edges(nodes, root, rest))
      BY <1>9 DEF Counted, E
    <3>. QED
      BY <2>1, <2>3, <3>1, OpenNode
  <2>6. Counted(after, Edges(Internals(after), root', doomed'))
    BY <1>1, <1>9, <2>2, <2>4, <2>5 DEF Counted
  <2>7. /\ doomed' \in Seq(more) /\ Len(doomed') = Len(rest) + 2
        /\ doomed'[1] = label.left /\ doomed'[2] = label.right
        /\ \A i \in 1..Len(rest) : doomed'[i + 2] = rest[i]
        /\ Len(rest) \in Nat
    BY <2>3, <2>4
  <2>8. CallInv'
    <3>1. doomed' \in Seq({ doomed'[i] : i \in 1..Len(doomed') }) /\ doomed' # <<>>
          /\ Len(doomed') > 0
      <4> HIDE DEF more
      <4>. QED
        BY <2>7, OwnRange
    <3>. QED
      BY <1>1, <3>1 DEF IInv, CallInv
  <2>9. ASSUME NEW i \in 1..Len(doomed')
        PROVE  \E place \in Places : Placed(doomed'[i], place)
    <3>1. PICK place \in Places : Placed(label, place)
      BY <1>4
    <3>2. /\ Placed(label.left, Left(place)) /\ Placed(label.right, Right(place))
          /\ Left(place) \in Places /\ Right(place) \in Places
      BY <2>1, <3>1, PlacedKinds
    <3>3. CASE i = 1
      BY <2>7, <3>2, <3>3
    <3>4. CASE i = 2
      BY <2>7, <3>2, <3>4
    <3>5. CASE i # 1 /\ i # 2
      <4>1. i - 2 \in 1..Len(rest) /\ (i - 2) + 2 = i
        BY <2>7, <3>5
      <4>2. doomed'[i] = rest[i - 2]
        BY <2>7, <4>1
      <4>. QED
        BY <1>12, <4>1, <4>2
    <3>. QED
      BY <3>3, <3>4, <3>5
  <2>. QED
    BY <1>1, <1>11, <1>12, <2>6, <2>8, <2>9, StillKeeps DEF after
<1>. QED
  BY <1>13, <1>14

-----------------------------------------------------------------------------
(***************************************************************************)
(* The invariant, and the theorems.                                        *)
(***************************************************************************)

\* Every step keeps the invariant.
LEMMA StepKeeps ==
    ASSUME IInv, [Next]_vars
    PROVE  IInv'
<1>1. ASSUME NEW location \in DOMAIN frames, Recur(location)
      PROVE  IInv'
  <2>1. CASE Pass(location)
    BY <2>1, PassKeeps
  <2>2. CASE DoOnEmpty(location)
    BY <2>2, EmptyKeeps
  <2>3. CASE SplitEmpty(location)
    BY <2>3, SplitEmptyKeeps
  <2>4. CASE DoOnLeaf(location)
    BY <2>4, LeafKeeps
  <2>5. CASE MissLeaf(location)
    BY <2>5, MissKeeps
  <2>6. CASE SplitLeaf(location)
    BY <2>6, SplitLeafKeeps
  <2>7. CASE SplitInternal(location)
    BY <2>7, SplitInternalKeeps
  <2>8. CASE Join(location)
    BY <2>8, JoinKeeps
  <2>. QED
    BY <1>1, <2>1, <2>2, <2>3, <2>4, <2>5, <2>6, <2>7, <2>8 DEF Recur
<1>2. ASSUME NEW h \in Handle, NEW b \in Batch, Begin(h, b)
      PROVE  IInv'
  BY <1>2, BeginKeeps
<1>3. CASE Commit
  BY <1>3, CommitKeeps
<1>4. CASE Return
  BY <1>4, ReturnKeeps
<1>5. ASSUME NEW h \in Handle, Open(h)
      PROVE  IInv'
  BY <1>5, OpenKeeps
<1>6. ASSUME NEW h \in Handle, NEW copy \in Handle, Clone(h, copy)
      PROVE  IInv'
  BY <1>6, CloneKeeps
<1>7. ASSUME NEW h \in Handle, Drop(h)
      PROVE  IInv'
  BY <1>7, DropKeeps
<1>8. CASE DropNode
  BY <1>8, DropNodeKeeps
<1>9. CASE UNCHANGED vars
  <2>1. UNCHANGED <<store, root, mode, caller, batch, frames, reply, doomed>>
    BY <1>9 DEF vars
  <2>2. Kept' = Kept
    BY <2>1 DEF Kept, IsHollow, HasOrigin, Origin, Shielded, PreserveBranches
  <2>3. CountsInv' /\ FramesInv' /\ CallInv' /\ PlacesInv' /\ ZeroInv'
    BY <2>1, <2>2 DEF IInv, CountsInv, FramesInv, CallInv, PlacesInv, ZeroInv, Live
  <2>4. StagesInv'
    BY <2>1 DEF IInv, StagesInv, HasOrigin, Origin, Shielded, PreserveBranches
  <2>. QED
    BY <2>3, <2>4 DEF IInv
<1>. QED
  BY <1>1, <1>2, <1>3, <1>4, <1>5, <1>6, <1>7, <1>8, <1>9 DEF Next

\* The invariant holds in every state the database reaches.
LEMMA Invariant == Spec => []IInv
<1>1. Init => IInv
  BY InitKeeps
<1>2. IInv /\ [Next]_vars => IInv'
  BY StepKeeps
<1>. QED
  BY <1>1, <1>2, PTL DEF Spec

\* No `unreachable!`, no `unwrap` of a node that is not there, no count below
\* zero and no index outside the split store is ever reached: whatever tables a
\* database has, whatever they share, however their transactions' halves
\* interleave.
THEOREM CallsNeverPanic == Spec => []NoPanic
<1>1. IInv => NoPanic
  <2>1. SUFFICES ASSUME IInv
                 PROVE  NoPanic
    OBVIOUS
  <2>2. store = [refs |-> store.refs, panicked |-> FALSE]
    BY <2>1 DEF IInv, CountsInv, Counted
  <2>. QED
    BY <2>2 DEF NoPanic
<1>. QED
  BY <1>1, Invariant, PTL

\* The state has the shape it is meant to have: frames hang from the root, the
\* store is lent out exactly while a call runs.
THEOREM ApplyTypes == Spec => []TypeOK
<1>1. IInv => TypeOK
  <2>1. SUFFICES ASSUME IInv
                 PROVE  TypeOK
    OBVIOUS
  <2>2. /\ \A label \in DOMAIN store.refs : store.refs[label] \in Nat
        /\ store = [refs |-> store.refs, panicked |-> FALSE]
    BY <2>1 DEF IInv, CountsInv, Counted, Exact
  <2>3. store.panicked \in BOOLEAN
    <3> DEFINE counts == store.refs
    <3>1. store = [refs |-> counts, panicked |-> FALSE]
      BY <2>2, Zenon
    <3> HIDE DEF counts
    <3>2. [refs |-> counts, panicked |-> FALSE].panicked \in BOOLEAN
      OBVIOUS
    <3>. QED
      BY <3>1, <3>2, Zenon
  <2>4. /\ mode \in {"idle", "apply", "reply", "drop"}
        /\ caller \in Handle \cup {Absent}
        /\ batch \in Batch \cup {NoBatch}
        /\ reply \in [Key -> Value \cup {Nothing}]
        /\ mode # "apply" => frames = <<>> /\ caller = Absent
    BY <2>1 DEF IInv, CallInv, Live
  <2>5. \A location \in DOMAIN frames :
           /\ location = Root \/ frames[Front(location)].stage = "branch"
           /\ frames[location].references \in Nat
    BY <2>1 DEF IInv, FramesInv, IsFrame
  <2>. QED
    BY <2>2, <2>3, <2>4, <2>5 DEF TypeOK
<1>. QED
  BY <1>1, Invariant, PTL

-----------------------------------------------------------------------------
(***************************************************************************)
(* Counts, in the words of ReferencesExact.                                *)
(***************************************************************************)

\* There are as many owners as edges, when none owns two.
LEMMA OwnersCount ==
    ASSUME NEW edges, IsFiniteSet(edges), NEW owners,
           \A edge \in edges : edge.of \in owners,
           \A owner \in owners : \E edge \in edges : edge.of = owner,
           \A edge, other \in edges : edge.of = other.of => edge = other
    PROVE  IsFiniteSet(owners) /\ Cardinality(owners) = Cardinality(edges)
<1> DEFINE f == [edge \in edges |-> edge.of]
<1>1. f \in Surjection(edges, owners)
  BY DEF Surjection
<1>2. f \in Injection(edges, owners)
  BY DEF Injection, IsInjective
<1>. QED
  BY <1>1, <1>2, FS_Surjection

\* Sets that are apart are counted one by one.
LEMMA ApartCount ==
    ASSUME NEW S, IsFiniteSet(S), NEW T, IsFiniteSet(T), S \cap T = {}
    PROVE  IsFiniteSet(S \cup T) /\ Cardinality(S \cup T) = Cardinality(S) + Cardinality(T)
<1>1. Cardinality(S \cap T) = 0
  BY FS_EmptySet
<1>2. Cardinality(S) \in Nat /\ Cardinality(T) \in Nat
  BY FS_CardinalityType
<1>3. /\ IsFiniteSet(S \cup T)
      /\ Cardinality(S \cup T) = Cardinality(S) + Cardinality(T) - Cardinality(S \cap T)
  BY FS_Union, Zenon
<1>. QED
  BY <1>1, <1>2, <1>3

\* The edges into a label are those of its parents and its holders.
LEMMA EdgesInto ==
    ASSUME NEW label, NEW E, E = Edges(Internals(store), root, <<>>), label # NoLabel,
           IsFiniteSet(Into(E, label))
    PROVE  Cardinality(Into(E, label)) =
              Cardinality(LeftParents(label)) + Cardinality(RightParents(label))
                 + Cardinality(Holders(label))
<1> DEFINE lefts == { edge \in Into(E, label) : edge.by = "left" }
           rights == { edge \in Into(E, label) : edge.by = "right" }
           handles == { edge \in Into(E, label) : edge.by = "handle" }
<1>1. ASSUME NEW edge \in Into(E, label)
      PROVE  \/ \E parent \in LeftParents(label) : edge = LeftEdge(parent)
             \/ \E parent \in RightParents(label) : edge = RightEdge(parent)
             \/ \E h \in Holders(label) : edge = HandleEdge(h, label)
  <2>1. edge \in E /\ edge.to = label
    BY DEF Into
  <2>2. 1..Len(<<>>) = {}
    OBVIOUS
  <2>3. \/ \E parent \in Internals(store) : edge = LeftEdge(parent)
        \/ \E parent \in Internals(store) : edge = RightEdge(parent)
        \/ \E h \in Handle : root[h] # NoLabel /\ edge = HandleEdge(h, root[h])
    BY <2>1, <2>2 DEF Edges
  <2>4. CASE \E parent \in Internals(store) : edge = LeftEdge(parent)
    BY <2>1, <2>4, EdgeKinds DEF Internals, LeftParents
  <2>5. CASE \E parent \in Internals(store) : edge = RightEdge(parent)
    BY <2>1, <2>5, EdgeKinds DEF Internals, RightParents
  <2>6. CASE \E h \in Handle : root[h] # NoLabel /\ edge = HandleEdge(h, root[h])
    <3>1. PICK h \in Handle : root[h] # NoLabel /\ edge = HandleEdge(h, root[h])
      BY <2>6
    <3>2. root[h] = label
      BY <2>1, <3>1, EdgeKinds
    <3>. QED
      BY <3>1, <3>2 DEF Holders
  <2>. QED
    BY <2>3, <2>4, <2>5, <2>6
<1>2. /\ \A parent \in LeftParents(label) : LeftEdge(parent) \in Into(E, label)
      /\ \A parent \in RightParents(label) : RightEdge(parent) \in Into(E, label)
      /\ \A h \in Holders(label) : HandleEdge(h, label) \in Into(E, label)
  <2>1. ASSUME NEW parent \in LeftParents(label)
        PROVE  LeftEdge(parent) \in E /\ LeftEdge(parent).to = label
    BY EdgeIn, EdgeKinds DEF Internals, LeftParents
  <2>2. ASSUME NEW parent \in RightParents(label)
        PROVE  RightEdge(parent) \in E /\ RightEdge(parent).to = label
    BY EdgeIn, EdgeKinds DEF Internals, RightParents
  <2>3. ASSUME NEW h \in Holders(label)
        PROVE  HandleEdge(h, label) \in E /\ HandleEdge(h, label).to = label
    BY EdgeIn, EdgeKinds DEF Holders
  <2>. QED
    BY <2>1, <2>2, <2>3 DEF Into
<1>3. /\ \A l : LeftEdge(l).by = "left" /\ LeftEdge(l).of = l
      /\ \A l : RightEdge(l).by = "right" /\ RightEdge(l).of = l
      /\ \A h, l : HandleEdge(h, l).by = "handle" /\ HandleEdge(h, l).of = h
  BY DEF LeftEdge, RightEdge, HandleEdge
<1>4. IsFiniteSet(lefts) /\ IsFiniteSet(rights) /\ IsFiniteSet(handles)
  BY FS_Subset
<1>5. Cardinality(LeftParents(label)) = Cardinality(lefts)
  <2>1. \A edge \in lefts : \E parent \in LeftParents(label) : edge = LeftEdge(parent)
    BY <1>1, <1>3
  <2>2. \A parent \in LeftParents(label) : LeftEdge(parent) \in lefts
    BY <1>2, <1>3
  <2> HIDE DEF lefts
  <2>. QED
    BY <1>3, <1>4, <2>1, <2>2, OwnersCount
<1>6. Cardinality(RightParents(label)) = Cardinality(rights)
  <2>1. \A edge \in rights : \E parent \in RightParents(label) : edge = RightEdge(parent)
    BY <1>1, <1>3
  <2>2. \A parent \in RightParents(label) : RightEdge(parent) \in rights
    BY <1>2, <1>3
  <2> HIDE DEF rights
  <2>. QED
    BY <1>3, <1>4, <2>1, <2>2, OwnersCount
<1>7. Cardinality(Holders(label)) = Cardinality(handles)
  <2>1. \A edge \in handles : \E h \in Holders(label) : edge = HandleEdge(h, label)
    BY <1>1, <1>3
  <2>2. \A h \in Holders(label) : HandleEdge(h, label) \in handles
    BY <1>2, <1>3
  <2> HIDE DEF handles
  <2>. QED
    BY <1>3, <1>4, <2>1, <2>2, OwnersCount
<1>8. /\ Into(E, label) = (lefts \cup rights) \cup handles
      /\ lefts \cap rights = {} /\ (lefts \cup rights) \cap handles = {}
  BY <1>1, <1>3
<1> HIDE DEF lefts, rights, handles
<1>9. /\ IsFiniteSet(lefts \cup rights)
      /\ Cardinality(lefts \cup rights) = Cardinality(lefts) + Cardinality(rights)
  BY <1>4, <1>8, ApartCount
<1>10. Cardinality((lefts \cup rights) \cup handles) = Cardinality(lefts \cup rights) + Cardinality(handles)
  BY <1>4, <1>8, <1>9, ApartCount
<1>. QED
  BY <1>5, <1>6, <1>7, <1>8, <1>9, <1>10

\* Between calls every count is exact and positive: nothing leaks, nothing is
\* freed early, through any history of transactions on tables that share nodes.
THEOREM CountsExact == Spec => []ReferencesExact
<1>1. ASSUME IInv
      PROVE  ReferencesExact
  <2>1. SUFFICES ASSUME mode \in {"idle", "reply"}, NEW label \in DOMAIN store.refs
                 PROVE  /\ store.refs[label] > 0
                        /\ store.refs[label] = Cardinality(LeftParents(label))
                              + Cardinality(RightParents(label)) + Cardinality(Holders(label))
    BY DEF ReferencesExact
  <2>2. frames = <<>> /\ doomed = <<>>
    BY <1>1, <2>1 DEF IInv, CallInv
  <2> DEFINE E == Edges(Internals(store), root, <<>>)
  <2>3. Exact(store.refs, E) /\ store.refs[label] > 0
    BY <1>1, <2>2, StillFacts DEF Counted
  <2>4. label # NoLabel
    BY <1>1, PlacedKinds DEF IInv, PlacesInv
  <2>5. IsFiniteSet(Into(E, label)) /\ store.refs[label] = Cardinality(Into(E, label))
    BY <2>3 DEF Exact
  <2> HIDE DEF E
  <2>. QED
    BY <2>3, <2>4, <2>5, EdgesInto DEF E
<1>. QED
  BY <1>1, Invariant, PTL

-----------------------------------------------------------------------------
(***************************************************************************)
(* The trees nobody works on.  A node is about to lose its children when   *)
(* its frame is neither shielded nor finds it shared: then every node      *)
(* above it is in the same case, up to the caller's root, so that a node   *)
(* of another handle's tree never is.                                      *)
(***************************************************************************)
Owned(location, label) ==
    /\ location \in DOMAIN frames /\ HasOrigin(location) /\ ~Shielded(location)
    /\ Origin(location) = label /\ IsInternal(label)
    /\ label \in DOMAIN store.refs /\ store.refs[label] = 1

\* Another handle's node, as it is met on the way down.
Snapshot(label, place) ==
    \/ label = Empty
    \/ /\ label \in DOMAIN store.refs
       /\ IsInternal(label) => Placed(label, place) /\ ~Owned(place, label)

\* Only a node its transaction owns alone is hollow.
LEMMA HollowOwned ==
    ASSUME IInv, NEW place, NEW label, Placed(label, place), IsHollow(label)
    PROVE  Owned(place, label)
<1>1. PICK location \in DOMAIN frames :
         /\ HasOrigin(location) /\ label = Origin(location) /\ IsInternal(label)
         /\ ~Shielded(location) /\ label \in DOMAIN store.refs /\ store.refs[label] = 1
  BY DEF IsHollow
<1>2. mode = "apply"
  BY <1>1 DEF IInv, CallInv
<1>3. location = place
  BY <1>1, <1>2, OriginPlaced, OnePlace
<1>. QED
  BY <1>1, <1>3 DEF Owned

\* The root another handle holds is shared if it is the caller's.
LEMMA SnapshotRoot ==
    ASSUME IInv, NEW h \in Live \ {caller}
    PROVE  Snapshot(root[h], Root)
<1> DEFINE E == Edges(Kept, root, doomed)
           edge == HandleEdge(h, root[h])
<1>1. h \in Handle /\ root[h] # NoLabel /\ h # caller /\ Placed(root[h], Root)
  BY DEF Live, IInv, PlacesInv
<1>2. Exact(store.refs, E) /\ edge \in E /\ edge.to = root[h]
  BY <1>1, EdgeIn, EdgeKinds DEF IInv, CountsInv, Counted
<1>3. ASSUME Owned(Root, root[h])
      PROVE  FALSE
  <2>1. root[caller] = root[h] /\ store.refs[root[h]] = 1 /\ IsInternal(root[h])
    BY <1>3 DEF Owned, Origin
  <2>2. caller \in Handle /\ root[caller] # NoLabel
    BY <1>3 DEF Owned, IInv, CallInv, Live
  <2> DEFINE other == HandleEdge(caller, root[caller])
  <2>3. other \in E /\ other.to = root[h] /\ other # edge
    BY <1>1, <2>1, <2>2, EdgeIn, EdgeKinds
  <2>4. root[h] # Empty
    BY <2>1, InternalNot
  <2> HIDE DEF E, edge, other
  <2>5. store.refs[root[h]] \in Nat /\ store.refs[root[h]] > 1
    BY <1>2, <2>3, <2>4, EdgeCounts
  <2>. QED
    BY <2>1, <2>5
<1>4. root[h] = Empty \/ root[h] \in DOMAIN store.refs
  BY <1>2 DEF Exact
<1>. QED
  BY <1>1, <1>3, <1>4 DEF Snapshot

\* A transaction that owns a child owns its parent.
LEMMA OwnedAbove ==
    ASSUME IInv, NEW place \in Places, NEW d \in Direction, NEW label \in Kept,
           Owned(Append(place, d), Child(label, d))
    PROVE  Owned(place, label)
<1> DEFINE E == Edges(Kept, root, doomed)
           below == Append(place, d)
           child == Child(label, d)
           frame == frames[place]
           Edge(l) == IF d = "L" THEN LeftEdge(l) ELSE RightEdge(l)
<1>1. /\ below \in DOMAIN frames /\ HasOrigin(below) /\ ~Shielded(below)
      /\ Origin(below) = child /\ IsInternal(child) /\ store.refs[child] = 1
  BY DEF Owned
<1>2. mode = "apply"
  BY <1>1 DEF IInv, CallInv
<1>3. /\ below # Root /\ Front(below) = place /\ Last(below) = d
      /\ below \in {Left(place), Right(place)}
  BY Deeper, Halves
<1>4. place \in DOMAIN frames /\ frame.stage = "branch"
  BY <1>1, <1>3 DEF IInv, FramesInv
<1>5. frame.original /\ ~PreserveBranches(frame, frame.original)
  BY <1>1, <1>3, Sides
<1>6. IsInternal(frame.label) /\ HasOrigin(place) /\ frame.label = Origin(place)
  BY <1>4, <1>5 DEF IInv, StagesInv
<1>7. /\ frame.label \in DOMAIN store.refs /\ store.refs[frame.label] = frame.references
      /\ frame.references > 0 /\ frame.references \in Nat /\ ~Shielded(place)
  BY <1>4, <1>5, <1>6 DEF IInv, StagesInv, FramesInv, IsFrame, PreserveBranches
<1>8. store.refs[frame.label] = 1
  BY <1>5, <1>7 DEF PreserveBranches
<1>9. frame.label \in Kept
  <2>1. Placed(frame.label, place)
    BY <1>4 DEF IInv, PlacesInv
  <2>. QED
    BY <1>2, <1>4, <1>6, <1>7, <2>1, NotHollow DEF Kept
<1>10. Child(frame.label, d) = child
  BY <1>1, <1>3 DEF Origin
<1>11. /\ \A l \in Kept : Edge(l) \in E /\ Edge(l).to = Child(l, d)
       /\ \A k, l : Edge(k) = Edge(l) => k = l
  BY EdgeIn, EdgeKinds DEF Kept, Child, Direction
<1>12. Exact(store.refs, E) /\ child # Empty
  BY <1>1, InternalNot DEF IInv, CountsInv, Counted
<1>13. frame.label = label
  <2> HIDE DEF E, Edge, child
  <2>1. ASSUME Edge(frame.label) # Edge(label)
        PROVE  FALSE
    <3>1. /\ Edge(frame.label) \in E /\ Edge(label) \in E
          /\ Edge(frame.label).to = child /\ Edge(label).to = child
      BY <1>9, <1>10, <1>11 DEF child
    <3>2. store.refs[child] \in Nat /\ store.refs[child] > 1
      BY <1>12, <2>1, <3>1, EdgeCounts
    <3>. QED
      BY <1>1, <3>2
  <2>. QED
    BY <1>11, <2>1
<1>. QED
  BY <1>4, <1>6, <1>7, <1>8, <1>13 DEF Owned

\* On the way down another handle's tree.
LEMMA SnapshotStep ==
    ASSUME IInv, NEW place \in Places, Len(place) < PathLength, NEW d \in Direction,
           NEW label, Snapshot(label, place)
    PROVE  Snapshot(Child(label, d), Append(place, d))
<1>1. CASE ~IsInternal(label)
  BY <1>1 DEF Snapshot, Child
<1>2. CASE IsInternal(label)
  <2> DEFINE child == Child(label, d)
  <2>1. label \in DOMAIN store.refs /\ Placed(label, place) /\ ~Owned(place, label)
    BY <1>2, InternalNot DEF Snapshot
  <2>2. label \in Kept
    BY <1>2, <2>1, HollowOwned DEF Kept
  <2>3. child \in {label.left, label.right}
    BY <1>2 DEF Child, Direction
  <2>4. child = Empty \/ child \in DOMAIN store.refs
    BY <2>2, <2>3, KeptChildren
  <2>5. Placed(child, Append(place, d))
    <3>1. Placed(label.left, Left(place)) /\ Placed(label.right, Right(place))
      BY <1>2, <2>1, PlacedKinds
    <3>2. /\ d = "L" => child = label.left /\ Append(place, d) = Left(place)
          /\ d = "R" => child = label.right /\ Append(place, d) = Right(place)
      BY <1>2 DEF Child, Left, Right
    <3>3. d = "L" \/ d = "R"
      BY DEF Direction
    <3>. QED
      BY ONLY <3>1, <3>2, <3>3
  <2>6. ~Owned(Append(place, d), child)
    BY <2>1, <2>2, OwnedAbove
  <2>. QED
    BY <2>4, <2>5, <2>6 DEF Snapshot
<1>. QED
  BY <1>1, <1>2

\* All the way down.
LEMMA SnapshotNodes ==
    ASSUME IInv, NEW h \in Live \ {caller}
    PROVE  \A p \in Places : Snapshot(Descend(root[h], p), p)
<1> DEFINE S == { n \in Nat : \A p \in Places :
                    Len(p) = n => Snapshot(Descend(root[h], p), p) }
<1>1. 0 \in S
  <2>1. \A p \in Places : Len(p) = 0 => p = Root
    BY Higher, PlaceSeq
  <2>. QED
    BY <2>1, SnapshotRoot, DescendStep
<1>2. ASSUME NEW n \in Nat, n \in S
      PROVE  n + 1 \in S
  <2>1. ASSUME NEW p \in Places, Len(p) = n + 1
        PROVE  Snapshot(Descend(root[h], p), p)
    <3>1. p # Root
      BY <2>1, RootPlace
    <3>2. /\ Front(p) \in Places /\ Last(p) \in Direction /\ p = Append(Front(p), Last(p))
          /\ Len(Front(p)) = n /\ Len(Front(p)) < PathLength
      BY <2>1, <3>1, Higher
    <3>3. Snapshot(Descend(root[h], Front(p)), Front(p))
      BY <1>2, <3>2
    <3> DEFINE q == Front(p)
               d == Last(p)
    <3>4. Descend(root[h], Append(q, d)) = Child(Descend(root[h], q), d)
      BY <3>2, DescendStep
    <3>5. Snapshot(Child(Descend(root[h], q), d), Append(q, d))
      BY <3>2, <3>3, SnapshotStep
    <3>. QED
      BY <3>2, <3>4, <3>5
  <2>. QED
    BY <2>1
<1> HIDE DEF S
<1>3. Nat \subseteq S
  BY <1>1, <1>2, SetInduction
<1>. QED
  BY <1>3, PlaceSeq DEF S

\* Halfway through another table's transaction, and between the steps of a drop,
\* the whole tree of every handle nobody works on is in the store.
THEOREM SnapshotsStay == Spec => []SnapshotsIntact
<1>1. ASSUME IInv
      PROVE  SnapshotsIntact
  BY <1>1, SnapshotNodes, LocationsPlaces DEF SnapshotsIntact, Nodes, Snapshot
<1>. QED
  BY <1>1, Invariant, PTL

\* The root of every table is that of the tree its contents have, whatever batches
\* brought them there, in whatever order: equal contents have equal roots.
THEOREM RootsCommit == Spec => []Canonical
<1>1. ASSUME IInv
      PROVE  Canonical
  <2>1. ASSUME NEW h \in Live
        PROVE  root[h] = Tree(Contents(root[h]))
    <3>1. Placed(root[h], Root)
      BY <1>1 DEF IInv, PlacesInv
    <3>. QED
      BY <3>1, TreeIsOne
  <2>. QED
    BY <2>1 DEF Canonical
<1>. QED
  BY <1>1, Invariant, PTL

-----------------------------------------------------------------------------
(***************************************************************************)
(* Apply implements KeyValue, for every value of its constants: the        *)
(* recursion over a shared, split, reference counted store is a set of     *)
(* independent maps, on which a transaction takes effect when its new root *)
(* is committed.                                                           *)
(*                                                                         *)
(* What the proof adds to the invariant of ApplyProofs is what an          *)
(* activation of `recur` has to do: it is given the subtree the caller's   *)
(* table has at its place, and leaves there the one the batch makes of it. *)
(***************************************************************************)

\* What the caller's table maps a key to, before the transaction and after it.
Before(k) == Lookup(root[caller], k)
After(k) == Updated(Contents(root[caller]), batch)[k]

\* A frame's label says of a key of the frame's place what it should.
GivenAt(location, k) ==
    \A v \in Value : Finds(frames[location].label, location, k, v) <=> Before(k) = v

MadeAt(location, k) ==
    \A v \in Value : Finds(frames[location].label, location, k, v) <=> After(k) = v

Works(location) ==
    \A k \in Key : Holds(location, k) =>
        /\ frames[location].stage = "recur" => GivenAt(location, k)
        /\ frames[location].stage = "done" => MadeAt(location, k)

WorkInv == mode = "apply" => \A location \in DOMAIN frames : Works(location)

\* The work on a key is done.
Answered(k) ==
    \E location \in DOMAIN frames : frames[location].stage = "done" /\ Holds(location, k)

AnswersInv ==
    /\ mode = "apply" =>
          \A k \in Key : reply[k] = IF batch[k].act = "get" /\ Answered(k) THEN Before(k) ELSE Nothing
    /\ mode \in {"idle", "drop"} => reply = NoReply

StartedInv == mode = "apply" => batch \in Batch

CInv == IInv /\ WorkInv /\ AnswersInv /\ StartedInv

-----------------------------------------------------------------------------
(***************************************************************************)
(* The keys of a running transaction.                                      *)
(***************************************************************************)

\* What the caller's table holds, and what it is to hold.
LEMMA Values ==
    ASSUME IInv, mode = "apply", NEW k \in Key
    PROVE  /\ Before(k) \in Value \cup {Nothing} /\ After(k) \in Value \cup {Nothing}
           /\ batch[k].act \in {"skip", "get", "remove", "set"}
           /\ After(k) = CASE batch[k].act = "set" -> batch[k].value
                           [] batch[k].act = "remove" -> Nothing
                           [] OTHER -> Before(k)
           /\ batch[k].act = "set" => batch[k].value \in Value
           /\ batch[k] = Skip <=> batch[k].act = "skip"
           /\ batch[k] = Get <=> batch[k].act = "get"
<1>1. batch \in [Key -> Operation]
  <2>1. NoBatch \in [Key -> Operation]
    BY DEF NoBatch, Operation
  <2>. QED
    BY <2>1, ApplyAssumption DEF IInv, CallInv
<1>2. /\ batch[k].act \in {"skip", "get", "remove", "set"}
      /\ batch[k].act = "set" => batch[k].value \in Value
      /\ batch[k] = Skip <=> batch[k].act = "skip"
      /\ batch[k] = Get <=> batch[k].act = "get"
  BY <1>1 DEF Operation, Skip, Get, Delete, Set
<1>3. Before(k) \in Value \cup {Nothing}
  BY LookupFinds DEF Before, IInv, CallInv, PlacesInv
<1>4. After(k) = CASE batch[k].act = "set" -> batch[k].value
                   [] batch[k].act = "remove" -> Nothing
                   [] OTHER -> Before(k)
  BY DEF After, Updated, Contents, Before
<1>. QED
  BY <1>2, <1>3, <1>4

\* A key without an operation is to stay as it is.
LEMMA Untouched ==
    ASSUME IInv, mode = "apply", NEW location, NEW k \in Key, Holds(location, k),
           k \notin Task(location)
    PROVE  After(k) = Before(k) /\ batch[k].act = "skip"
  BY Values DEF Task

-----------------------------------------------------------------------------
(***************************************************************************)
(* The arms of recur do their work.                                        *)
(***************************************************************************)

\* An activation that returns what it should, and fills the holders it should.
LEMMA FinishWorks ==
    ASSUME CInv, mode = "apply", NEW location \in DOMAIN frames,
           frames[location].stage = "recur", NEW new,
           frames' = [frames EXCEPT ![location] = Done(new)],
           UNCHANGED <<root, mode, caller, batch>>,
           \A k \in Key : Holds(location, k) =>
              \A v \in Value : Finds(new, location, k, v) <=> After(k) = v,
           \A k \in Key : reply'[k] = IF Holds(location, k) /\ batch[k].act = "get"
                                      THEN Before(k) ELSE reply[k]
    PROVE  WorkInv' /\ AnswersInv'
<1>1. /\ DOMAIN frames' = DOMAIN frames
      /\ \A other \in DOMAIN frames : other # location => frames'[other] = frames[other]
      /\ frames'[location].stage = "done" /\ frames'[location].label = new
  BY DEF Done
<1>2. \A k : Before(k)' = Before(k) /\ After(k)' = After(k)
  BY DEF Before, After
<1>3. WorkInv'
  BY <1>1, <1>2 DEF CInv, WorkInv, Works, GivenAt, MadeAt
<1>4. ASSUME NEW k \in Key
      PROVE  Answered(k)' <=> Answered(k) \/ Holds(location, k)
  BY <1>1 DEF Answered
<1>5. ASSUME NEW k \in Key
      PROVE  reply'[k] = IF batch[k].act = "get" /\ Answered(k)' THEN Before(k) ELSE Nothing
  BY <1>4 DEF CInv, AnswersInv
<1>. QED
  BY <1>2, <1>3, <1>5 DEF AnswersInv

\* An activation that calls two others on the two halves of its subtree.
LEMMA BranchWorks ==
    ASSUME CInv, mode = "apply", NEW location \in DOMAIN frames,
           frames[location].stage = "recur", Len(location) < PathLength,
           NEW original, NEW left, NEW leftReferences, NEW right, NEW rightReferences,
           Branch(location, original, left, leftReferences, right, rightReferences),
           UNCHANGED <<root, mode, caller, batch, reply>>,
           \A k \in Key, v \in Value :
              /\ Holds(Left(location), k) =>
                    (Finds(left, Left(location), k, v)
                        <=> Finds(frames[location].label, location, k, v))
              /\ Holds(Right(location), k) =>
                    (Finds(right, Right(location), k, v)
                        <=> Finds(frames[location].label, location, k, v))
    PROVE  WorkInv' /\ AnswersInv'
<1> DEFINE L == Left(location)
           R == Right(location)
           preserve == PreserveBranches(frames[location], original)
<1>1. /\ location \in Places /\ L \in Places /\ R \in Places /\ L # R
      /\ L # location /\ R # location /\ Above(location, L) /\ Above(location, R)
  <2>1. location \in Places
    BY DEF CInv, IInv, FramesInv
  <2>. QED
    BY <2>1, HalfFacts
<1>2. L \notin DOMAIN frames /\ R \notin DOMAIN frames
  BY <1>1, Ancestors DEF CInv, IInv
<1>3. /\ DOMAIN frames' = DOMAIN frames \cup {L, R}
      /\ \A other \in DOMAIN frames : other # location => frames'[other] = frames[other]
      /\ frames'[L] = Frame(left, leftReferences, preserve)
      /\ frames'[R] = Frame(right, rightReferences, preserve)
      /\ frames'[location] = Branching(frames[location], original)
  <2>1. frames' = Calls(location, original, Frame(left, leftReferences, preserve),
                        Frame(right, rightReferences, preserve))
    BY DEF Branch
  <2>. QED
    BY <1>1, <1>2, <2>1 DEF Calls
<1>4. /\ frames'[L].stage = "recur" /\ frames'[L].label = left
      /\ frames'[R].stage = "recur" /\ frames'[R].label = right
      /\ frames'[location].stage = "branch"
  BY <1>3 DEF Frame, Branching
<1>5. \A k : Before(k)' = Before(k) /\ After(k)' = After(k)
  BY DEF Before, After
<1>6. \A k \in Key : Holds(location, k) => GivenAt(location, k)
  BY DEF CInv, WorkInv, Works
<1>7. \A k \in Key : Holds(L, k) \/ Holds(R, k) => Holds(location, k)
  BY <1>1, HoldsHalves
<1> HIDE DEF L, R, preserve
<1>8. \A k \in Key, v \in Value :
         /\ Holds(L, k) => (Finds(left, L, k, v) <=> Before(k) = v)
         /\ Holds(R, k) => (Finds(right, R, k, v) <=> Before(k) = v)
  BY <1>6, <1>7 DEF GivenAt, L, R
<1>9. WorkInv'
  <2>1. ASSUME NEW other \in DOMAIN frames'
        PROVE  Works(other)'
    <3>1. CASE other \in {L, R}
      BY <1>4, <1>5, <1>8, <3>1 DEF Works, GivenAt
    <3>2. CASE other = location
      BY <1>4, <3>2 DEF Works
    <3>3. CASE other \in DOMAIN frames /\ other # location
      <4>1. frames'[other] = frames[other] /\ Works(other)
        BY <1>3, <3>3 DEF CInv, WorkInv
      <4>. QED
        BY <1>5, <4>1 DEF Works, GivenAt, MadeAt
    <3>. QED
      BY <1>3, <2>1, <3>1, <3>2, <3>3
  <2>. QED
    BY <2>1 DEF WorkInv
<1>10. \A k : Answered(k)' <=> Answered(k)
  <2>1. ASSUME NEW k, Answered(k)
        PROVE  Answered(k)'
    <3>1. PICK other \in DOMAIN frames : frames[other].stage = "done" /\ Holds(other, k)
      BY <2>1 DEF Answered
    <3>2. other # location /\ other \in DOMAIN frames' /\ frames'[other] = frames[other]
      BY <1>3, <3>1
    <3>. QED
      BY <3>1, <3>2 DEF Answered
  <2>2. ASSUME NEW k, Answered(k)'
        PROVE  Answered(k)
    <3>1. PICK other \in DOMAIN frames' : frames'[other].stage = "done" /\ Holds(other, k)
      BY <2>2 DEF Answered
    <3>2. other \in DOMAIN frames /\ other # location
      BY <1>3, <1>4, <3>1
    <3>. QED
      BY <1>3, <3>1, <3>2 DEF Answered
  <2>. QED
    BY <2>1, <2>2
<1>11. AnswersInv'
  BY <1>5, <1>10 DEF CInv, AnswersInv
<1>. QED
  BY <1>9, <1>11

\* No operation concerns the subtree.
LEMMA PassWorks ==
    ASSUME CInv, NEW location, Pass(location)
    PROVE  WorkInv' /\ AnswersInv'
<1> DEFINE label == frames[location].label
<1>1. /\ mode = "apply" /\ location \in DOMAIN frames /\ frames[location].stage = "recur"
      /\ frames' = [frames EXCEPT ![location] = Done(label)] /\ Task(location) = {}
      /\ UNCHANGED <<root, mode, caller, batch>> /\ reply' = reply
  BY DEF Pass, Ready, Finish, Elsewhere
<1>2. ASSUME NEW k \in Key, Holds(location, k)
      PROVE  /\ GivenAt(location, k) /\ After(k) = Before(k) /\ batch[k].act = "skip"
  BY <1>1, <1>2, Untouched DEF CInv, WorkInv, Works
<1>3. \A k \in Key : Holds(location, k) =>
         \A v \in Value : Finds(label, location, k, v) <=> After(k) = v
  BY <1>2 DEF GivenAt
<1>4. \A k \in Key : reply'[k] = IF Holds(location, k) /\ batch[k].act = "get"
                                 THEN Before(k) ELSE reply[k]
  BY <1>1, <1>2
<1> HIDE DEF label
<1>. QED
  BY <1>1, <1>3, <1>4, FinishWorks

\* What the subtree of a leaf, or of nothing, says of the table.
LEMMA LeafWork ==
    ASSUME CInv, mode = "apply", NEW location \in DOMAIN frames,
           frames[location].stage = "recur", ~IsInternal(frames[location].label),
           NEW k \in Key, Holds(location, k)
    PROVE  LET label == frames[location].label
           IN  Before(k) = IF IsLeaf(label) /\ label.key = k THEN label.value ELSE Nothing
<1> DEFINE label == frames[location].label
<1>1. location \in Places /\ Placed(label, location)
  BY DEF CInv, IInv, FramesInv, PlacesInv
<1>2. \A v \in Value : Finds(label, location, k, v) <=> Before(k) = v
  BY DEF CInv, WorkInv, Works, GivenAt
<1>3. \A v : Finds(label, location, k, v) <=> IsLeaf(label) /\ label.key = k /\ label.value = v
  BY <1>1, FindsHere
<1>4. Before(k) \in Value \cup {Nothing}
  BY Values DEF CInv
<1>5. IsLeaf(label) => label.value \in Value
  BY <1>1, PlacedKinds
<1> HIDE DEF label
<1>. QED
  BY <1>2, <1>3, <1>4, <1>5 DEF label

\* One operation on an empty subtree.
LEMMA EmptyWorks ==
    ASSUME CInv, NEW location, DoOnEmpty(location)
    PROVE  WorkInv' /\ AnswersInv'
<1>1. PICK j \in Key :
         /\ Task(location) = {j}
         /\ LET label == IF batch[j].act = "set" THEN Leaf(j, batch[j].value) ELSE Empty
            IN  /\ store' = Populate(store, Scope(location), label)
                /\ Finish(location, label)
  BY DEF DoOnEmpty
<1> DEFINE new == IF batch[j].act = "set" THEN Leaf(j, batch[j].value) ELSE Empty
<1>2. /\ mode = "apply" /\ location \in DOMAIN frames /\ frames[location].stage = "recur"
      /\ frames[location].label = Empty /\ ~IsInternal(Empty) /\ ~IsLeaf(Empty)
      /\ frames' = [frames EXCEPT ![location] = Done(new)]
      /\ UNCHANGED <<root, mode, caller, batch>> /\ reply' = reply
  BY <1>1, Labels DEF DoOnEmpty, Ready, Finish, Elsewhere
<1>3. location \in Places
  BY <1>2 DEF CInv, IInv, FramesInv
<1>4. \A k \in Key : Holds(location, k) => Before(k) = Nothing
  BY <1>2, LeafWork
<1>5. ~IsInternal(new) /\ (IsLeaf(new) <=> batch[j].act = "set")
      /\ (batch[j].act = "set" => new.key = j /\ new.value = batch[j].value)
  BY Labels
<1> HIDE DEF new
<1>6. ASSUME NEW k \in Key, Holds(location, k), NEW v \in Value
      PROVE  Finds(new, location, k, v) <=> After(k) = v
  <2>1. Finds(new, location, k, v) <=> IsLeaf(new) /\ new.key = k /\ new.value = v
    BY <1>3, <1>5, FindsHere
  <2>2. CASE k = j
    <3>1. After(k) = CASE batch[k].act = "set" -> batch[k].value
                       [] batch[k].act = "remove" -> Nothing
                       [] OTHER -> Nothing
      BY <1>2, <1>4, <1>6, Values DEF CInv
    <3>. QED
      BY <1>5, <2>1, <2>2, <3>1, NothingAssumption
  <2>3. CASE k # j
    <3>1. After(k) = Nothing
      BY <1>1, <1>2, <1>4, <1>6, <2>3, Untouched DEF CInv
    <3>. QED
      BY <1>5, <2>1, <2>3, <3>1, NothingAssumption
  <2>. QED
    BY <2>2, <2>3
<1>7. ASSUME NEW k \in Key
      PROVE  reply'[k] = IF Holds(location, k) /\ batch[k].act = "get"
                         THEN Before(k) ELSE reply[k]
  <2>1. Holds(location, k) => reply[k] = Nothing /\ Before(k) = Nothing
    BY <1>2, <1>4 DEF CInv, AnswersInv
  <2>. QED
    BY <1>2, <2>1
<1>. QED
  BY <1>2, <1>6, <1>7, FinishWorks

\* One operation, on the very key of a leaf.
LEMMA LeafWorks ==
    ASSUME CInv, NEW location, DoOnLeaf(location)
    PROVE  WorkInv' /\ AnswersInv'
<1> DEFINE label == frames[location].label
           j == label.key
           op == batch[j]
           new == CASE op.act = "set" -> Leaf(j, op.value)
                    [] op.act = "remove" -> Empty
                    [] op.act = "get" -> label
<1>1. /\ mode = "apply" /\ location \in DOMAIN frames /\ frames[location].stage = "recur"
      /\ IsLeaf(label) /\ Task(location) = {j}
      /\ frames' = [frames EXCEPT ![location] = Done(new)]
      /\ reply' = IF op.act = "get" THEN [reply EXCEPT ![j] = Answer(label)] ELSE reply
      /\ UNCHANGED <<root, mode, caller, batch>>
  BY DEF DoOnLeaf, Ready, Finish, Elsewhere
<1>2. /\ location \in Places /\ Placed(label, location) /\ ~IsInternal(label)
      /\ reply \in [Key -> Value \cup {Nothing}]
  BY <1>1, InternalNot DEF CInv, IInv, FramesInv, PlacesInv, CallInv
<1>3. /\ j \in Key /\ Holds(location, j) /\ label.value \in Value
      /\ op.act \in {"set", "remove", "get"}
  BY <1>1, <1>2, Operations, PlacedKinds DEF CInv
<1>4. \A k \in Key : Holds(location, k) => Before(k) = IF k = j THEN label.value ELSE Nothing
  BY <1>1, <1>2, LeafWork
<1>5. /\ ~IsInternal(new)
      /\ op.act = "set" => IsLeaf(new) /\ new.key = j /\ new.value = op.value
      /\ op.act = "remove" => ~IsLeaf(new)
      /\ op.act = "get" => IsLeaf(new) /\ new.key = j /\ new.value = label.value
  <2>1. CASE op.act = "set"
    <3>1. new = Leaf(j, op.value)
      BY <2>1
    <3>. QED
      BY <2>1, <3>1, Labels
  <2>2. CASE op.act = "remove"
    <3>1. new = Empty
      BY <2>2
    <3>. QED
      BY <2>2, <3>1, Labels
  <2>3. CASE op.act = "get"
    <3>1. new = label
      BY <2>3
    <3>. QED
      BY <1>1, <1>2, <2>3, <3>1
  <2>. QED
    BY <1>3, <2>1, <2>2, <2>3
<1> HIDE DEF new, j, label
<1>6. ASSUME NEW k \in Key, Holds(location, k), NEW v \in Value
      PROVE  Finds(new, location, k, v) <=> After(k) = v
  <2>1. Finds(new, location, k, v) <=> IsLeaf(new) /\ new.key = k /\ new.value = v
    BY <1>2, <1>5, FindsHere
  <2>2. CASE k = j
    <3>1. After(k) = CASE op.act = "set" -> op.value
                       [] op.act = "remove" -> Nothing
                       [] OTHER -> label.value
      BY <1>1, <1>4, <1>6, <2>2, Values DEF CInv
    <3>. QED
      BY <1>3, <1>5, <2>1, <2>2, <3>1, NothingAssumption
  <2>3. CASE k # j
    <3>1. After(k) = Nothing
      BY <1>1, <1>4, <1>6, <2>3, Untouched DEF CInv
    <3>. QED
      BY <1>3, <1>5, <2>1, <2>3, <3>1, NothingAssumption
  <2>. QED
    BY <2>2, <2>3
<1>7. ASSUME NEW k \in Key
      PROVE  reply'[k] = IF Holds(location, k) /\ batch[k].act = "get"
                         THEN Before(k) ELSE reply[k]
  <2>1. CASE k = j
    BY <1>1, <1>2, <1>3, <1>4, <2>1 DEF Answer
  <2>2. CASE k # j
    <3>1. reply'[k] = reply[k]
      BY <1>1, <1>2, <2>2
    <3>2. Holds(location, k) => batch[k].act = "skip"
      BY <1>1, <2>2, Untouched DEF CInv
    <3>. QED
      BY <3>1, <3>2
  <2>. QED
    BY <2>1, <2>2
<1>. QED
  BY <1>1, <1>6, <1>7, FinishWorks

\* A Get that ends on the leaf of another key.
LEMMA MissWorks ==
    ASSUME CInv, NEW location, MissLeaf(location)
    PROVE  WorkInv' /\ AnswersInv'
<1> DEFINE label == frames[location].label
<1>1. /\ mode = "apply" /\ location \in DOMAIN frames /\ frames[location].stage = "recur"
      /\ frames' = [frames EXCEPT ![location] = Done(label)]
      /\ IsMiss(label, Task(location))
      /\ UNCHANGED <<root, mode, caller, batch>> /\ reply' = reply
  BY DEF MissLeaf, Ready, Finish, Elsewhere
<1>2. PICK j \in Key \ {label.key} : Task(location) = {j} /\ batch[j] = Get
  BY <1>1 DEF IsMiss
<1>3. IsLeaf(label) /\ ~IsInternal(label) /\ batch[j].act = "get"
  BY <1>1, <1>2, InternalNot DEF IsMiss, Get
<1>4. \A k \in Key : Holds(location, k) => After(k) = Before(k)
  BY <1>1, <1>2, <1>3, Untouched, Values DEF CInv
<1>5. ASSUME NEW k \in Key, Holds(location, k), NEW v \in Value
      PROVE  Finds(label, location, k, v) <=> After(k) = v
  BY <1>1, <1>4, <1>5 DEF CInv, WorkInv, Works, GivenAt
<1>6. ASSUME NEW k \in Key
      PROVE  reply'[k] = IF Holds(location, k) /\ batch[k].act = "get"
                         THEN Before(k) ELSE reply[k]
  <2>1. CASE Holds(location, k) /\ batch[k].act = "get"
    <3>1. k = j
      BY <1>1, <1>2, <2>1, Untouched DEF CInv
    <3>2. Before(k) = Nothing
      BY <1>1, <1>2, <1>3, <2>1, <3>1, LeafWork
    <3>. QED
      BY <1>1, <2>1, <3>2 DEF CInv, AnswersInv
  <2>2. CASE ~(Holds(location, k) /\ batch[k].act = "get")
    BY <1>1, <2>2
  <2>. QED
    BY <2>1, <2>2
<1> HIDE DEF label
<1>. QED
  BY <1>1, <1>5, <1>6, FinishWorks

\* Several operations on an empty subtree.
LEMMA SplitEmptyWorks ==
    ASSUME CInv, NEW location, SplitEmpty(location)
    PROVE  WorkInv' /\ AnswersInv'
<1>1. /\ mode = "apply" /\ location \in DOMAIN frames /\ frames[location].stage = "recur"
      /\ frames[location].label = Empty /\ ~IsInternal(Empty) /\ ~IsLeaf(Empty)
      /\ Branch(location, FALSE, Empty, NotApplicable, Empty, NotApplicable)
      /\ UNCHANGED <<root, mode, caller, batch, reply>>
  BY Labels DEF SplitEmpty, Ready, Elsewhere
<1>2. PICK j \in Task(location), k \in Task(location) : j # k
  BY DEF SplitEmpty
<1>3. location \in Places
  BY <1>1 DEF CInv, IInv, FramesInv
<1>4. Len(location) < PathLength
  BY <1>2, <1>3, Operations, KeysPart DEF CInv
<1>5. Left(location) \in Places /\ Right(location) \in Places
  BY <1>3, <1>4, HalfFacts
<1>6. \A p \in Places, i \in Key : \A v : ~Finds(Empty, p, i, v)
  BY <1>1, FindsHere
<1>. QED
  BY <1>1, <1>3, <1>4, <1>5, <1>6, BranchWorks

\* Any other work on a leaf pushes it down.
LEMMA SplitLeafWorks ==
    ASSUME CInv, NEW location, SplitLeaf(location)
    PROVE  WorkInv' /\ AnswersInv'
<1> DEFINE label == frames[location].label
           references == frames[location].references
           L == Left(location)
           R == Right(location)
<1>1. /\ mode = "apply" /\ location \in DOMAIN frames /\ frames[location].stage = "recur"
      /\ IsLeaf(label) /\ Task(location) \notin {{}, {label.key}}
      /\ IF Path[label.key][Len(location) + 1] = "L"
         THEN Branch(location, FALSE, label, references, Empty, NotApplicable)
         ELSE Branch(location, FALSE, Empty, NotApplicable, label, references)
      /\ UNCHANGED <<root, mode, caller, batch, reply>>
  BY DEF SplitLeaf, Ready, Elsewhere
<1>2. /\ location \in Places /\ Placed(label, location) /\ ~IsInternal(label)
      /\ ~IsInternal(Empty) /\ ~IsLeaf(Empty)
  BY <1>1, InternalNot, Labels DEF CInv, IInv, FramesInv, PlacesInv
<1>3. label.key \in Key /\ Holds(location, label.key)
  BY <1>1, <1>2, PlacedKinds
<1>4. PICK i \in Task(location) : i # label.key
  BY <1>1
<1>5. Len(location) < PathLength
  BY <1>2, <1>3, <1>4, Operations, KeysPart DEF CInv
<1>6. L \in Places /\ R \in Places
  BY <1>2, <1>5, HalfFacts
<1>7. \A k \in Key, p \in Places : \A v :
         /\ Finds(label, p, k, v) <=> label.key = k /\ label.value = v
         /\ ~Finds(Empty, p, k, v)
  BY <1>1, <1>2, FindsHere
<1>8. \A k \in Key :
         /\ Holds(L, k) => Path[k][Len(location) + 1] = "L"
         /\ Holds(R, k) => Path[k][Len(location) + 1] = "R"
  BY <1>2, <1>5, HoldsHalves
<1> HIDE DEF label, references
<1>9. CASE Path[label.key][Len(location) + 1] = "L"
  <2>1. Branch(location, FALSE, label, references, Empty, NotApplicable)
    BY <1>1, <1>9
  <2>2. \A k \in Key, v \in Value :
           /\ Holds(L, k) => (Finds(label, L, k, v) <=> Finds(label, location, k, v))
           /\ Holds(R, k) => (Finds(Empty, R, k, v) <=> Finds(label, location, k, v))
    BY <1>2, <1>6, <1>7, <1>8, <1>9
  <2>. QED
    BY <1>1, <1>5, <2>1, <2>2, BranchWorks DEF label
<1>10. CASE Path[label.key][Len(location) + 1] # "L"
  <2>1. Branch(location, FALSE, Empty, NotApplicable, label, references)
    BY <1>1, <1>10
  <2>2. \A k \in Key, v \in Value :
           /\ Holds(L, k) => (Finds(Empty, L, k, v) <=> Finds(label, location, k, v))
           /\ Holds(R, k) => (Finds(label, R, k, v) <=> Finds(label, location, k, v))
    BY <1>2, <1>6, <1>7, <1>8, <1>10
  <2>. QED
    BY <1>1, <1>5, <2>1, <2>2, BranchWorks DEF label
<1>. QED
  BY <1>9, <1>10

\* Work on an internal node.
LEMMA SplitInternalWorks ==
    ASSUME CInv, NEW location, SplitInternal(location)
    PROVE  WorkInv' /\ AnswersInv'
<1> DEFINE label == frames[location].label
<1>1. /\ mode = "apply" /\ location \in DOMAIN frames /\ frames[location].stage = "recur"
      /\ IsInternal(label)
      /\ UNCHANGED <<root, mode, caller, batch, reply>>
  BY DEF SplitInternal, Ready, Elsewhere
<1>2. /\ Len(location) < PathLength
      /\ \A child \in {label.left, label.right} \ {Empty} :
            child \in DOMAIN store.refs /\ InRange(Scope(location), child)
  BY <1>1, ChildrenThere DEF CInv
<1>3. Branch(location, TRUE, label.left, References(store, label.left),
                             label.right, References(store, label.right))
  BY <1>1, <1>2 DEF SplitInternal, Occupied
<1>4. location \in Places
  BY <1>1 DEF CInv, IInv, FramesInv
<1>5. \A k \in Key, v \in Value :
         /\ Holds(Left(location), k) =>
               (Finds(label.left, Left(location), k, v) <=> Finds(label, location, k, v))
         /\ Holds(Right(location), k) =>
               (Finds(label.right, Right(location), k, v) <=> Finds(label, location, k, v))
  BY <1>1, <1>2, <1>4, FindsHalf
<1>. QED
  BY <1>1, <1>2, <1>3, <1>5, BranchWorks

\* A branch that joins what its halves have made.
LEMMA JoinWorks ==
    ASSUME CInv, NEW location, Join(location)
    PROVE  WorkInv' /\ AnswersInv'
<1> DEFINE L == Left(location)
           R == Right(location)
           left == JoinLeft(location)
           right == JoinRight(location)
           new == JoinNew(location)
<1>1. /\ mode = "apply" /\ Joinable(location)
      /\ UNCHANGED <<root, mode, caller, batch, reply>>
      /\ frames' = Restrict([frames EXCEPT ![location] = Done(new)], DOMAIN frames \ {L, R})
  BY DEF Join, Joinable, Elsewhere, JoinNew, JoinLeft, JoinRight
<1>2. new = Merged(Scope(location), left, right)
  BY DEF JoinNew
<1> HIDE DEF new
<1>3. /\ DOMAIN frames' = DOMAIN frames \ {L, R}
      /\ location \in DOMAIN frames'
      /\ frames'[location].stage = "done" /\ frames'[location].label = new
      /\ \A other \in DOMAIN frames \ Joins(location) : frames'[other] = frames[other]
  BY <1>1, JoinFrames DEF CInv
<1>4. /\ location \in Places /\ Len(location) < PathLength
      /\ Placed(left, L) /\ Placed(right, R)
  BY <1>1, JoinPlaces DEF CInv
<1>5. /\ L \in DOMAIN frames /\ frames[L].stage = "done" /\ frames[L].label = left
      /\ R \in DOMAIN frames /\ frames[R].stage = "done" /\ frames[R].label = right
      /\ location \in DOMAIN frames /\ frames[location].stage = "branch"
  BY <1>1 DEF Joinable, IsDone, JoinLeft, JoinRight
<1>6. \A k : Before(k)' = Before(k) /\ After(k)' = After(k)
  BY <1>1 DEF Before, After
<1>7. \A k \in Key : /\ Holds(L, k) => MadeAt(L, k)
                     /\ Holds(R, k) => MadeAt(R, k)
  BY <1>1, <1>5 DEF CInv, WorkInv, Works
<1>8. \A k \in Key : Holds(location, k) <=> Holds(L, k) \/ Holds(R, k)
  BY <1>4, HalvesHold, HoldsHalves
<1> HIDE DEF left, right, L, R
<1>9. ASSUME NEW k \in Key, Holds(location, k), NEW v \in Value
      PROVE  Finds(new, location, k, v) <=> After(k) = v
  <2>1. /\ Holds(L, k) => (Finds(new, location, k, v) <=> Finds(left, L, k, v))
        /\ Holds(R, k) => (Finds(new, location, k, v) <=> Finds(right, R, k, v))
    BY <1>2, <1>4, <1>9, FindsMerged DEF L, R
  <2>2. /\ Holds(L, k) => (Finds(left, L, k, v) <=> After(k) = v)
        /\ Holds(R, k) => (Finds(right, R, k, v) <=> After(k) = v)
    BY <1>5, <1>7 DEF MadeAt
  <2>. QED
    BY <1>8, <1>9, <2>1, <2>2
<1>10. WorkInv'
  <2>1. ASSUME NEW other \in DOMAIN frames'
        PROVE  Works(other)'
    <3>1. CASE other = location
      BY <1>3, <1>6, <1>9, <3>1 DEF Works, MadeAt
    <3>2. CASE other # location
      <4>1. other \in DOMAIN frames /\ frames'[other] = frames[other] /\ Works(other)
        BY <1>1, <1>3, <3>2 DEF Joins, L, R, CInv, WorkInv
      <4>. QED
        BY <1>6, <4>1 DEF Works, GivenAt, MadeAt
    <3>. QED
      BY <3>1, <3>2
  <2>. QED
    BY <2>1 DEF WorkInv
<1>11. ASSUME NEW k \in Key
       PROVE  Answered(k)' <=> Answered(k)
  <2>1. ASSUME Answered(k)
        PROVE  Answered(k)'
    <3>1. PICK other \in DOMAIN frames : frames[other].stage = "done" /\ Holds(other, k)
      BY <2>1 DEF Answered
    <3>2. CASE other \in {L, R}
      BY <1>3, <1>8, <3>1, <3>2 DEF Answered
    <3>3. CASE other \notin {L, R}
      BY <1>3, <1>5, <3>1, <3>3 DEF Answered, Joins, L, R
    <3>. QED
      BY <3>2, <3>3
  <2>2. ASSUME Answered(k)'
        PROVE  Answered(k)
    <3>1. PICK other \in DOMAIN frames' : frames'[other].stage = "done" /\ Holds(other, k)
      BY <2>2 DEF Answered
    <3>2. CASE other = location
      BY <1>5, <1>8, <3>1, <3>2 DEF Answered
    <3>3. CASE other # location
      BY <1>3, <3>1, <3>3 DEF Answered, Joins, L, R
    <3>. QED
      BY <3>2, <3>3
  <2>. QED
    BY <2>1, <2>2
<1>12. AnswersInv'
  BY <1>1, <1>6, <1>11 DEF CInv, AnswersInv
<1>. QED
  BY <1>10, <1>12

\* Every step of the recursion does its work.
LEMMA RecurWorks ==
    ASSUME CInv, NEW location, Recur(location)
    PROVE  WorkInv' /\ AnswersInv'
<1>1. CASE Pass(location)
  BY <1>1, PassWorks
<1>2. CASE DoOnEmpty(location)
  BY <1>2, EmptyWorks
<1>3. CASE SplitEmpty(location)
  BY <1>3, SplitEmptyWorks
<1>4. CASE DoOnLeaf(location)
  BY <1>4, LeafWorks
<1>5. CASE MissLeaf(location)
  BY <1>5, MissWorks
<1>6. CASE SplitLeaf(location)
  BY <1>6, SplitLeafWorks
<1>7. CASE SplitInternal(location)
  BY <1>7, SplitInternalWorks
<1>8. CASE Join(location)
  BY <1>8, JoinWorks
<1>. QED
  BY <1>1, <1>2, <1>3, <1>4, <1>5, <1>6, <1>7, <1>8 DEF Recur

-----------------------------------------------------------------------------
(***************************************************************************)
(* The calls.                                                              *)
(***************************************************************************)

\* A transaction begins with its root, and no answer.
LEMMA BeginWorks ==
    ASSUME CInv, NEW h \in Handle, NEW b \in Batch, Begin(h, b)
    PROVE  WorkInv' /\ AnswersInv'
<1>1. /\ mode = "idle" /\ h \in Live /\ mode' = "apply" /\ caller' = h
      /\ UNCHANGED <<root, reply>> /\ reply = NoReply
  BY DEF Begin, Idle, CInv, AnswersInv
<1>2. root[h] # Empty => root[h] \in DOMAIN store.refs
  BY <1>1, Rooted DEF CInv
<1>3. frames' = [place \in {Root} |-> Frame(root[h], References(store, root[h]), FALSE)]
  BY <1>1, <1>2 DEF Begin, Occupied
<1>4. DOMAIN frames' = {Root} /\ frames'[Root].stage = "recur" /\ frames'[Root].label = root[h]
  BY <1>3 DEF Frame
<1>5. Placed(root[h], Root)
  BY <1>1 DEF CInv, IInv, PlacesInv
<1>6. \A k \in Key : Before(k)' = Lookup(root[h], k)
  BY <1>1 DEF Before
<1>7. WorkInv'
  BY <1>4, <1>5, <1>6, LookupFinds DEF WorkInv, Works, GivenAt
<1>8. AnswersInv'
  BY <1>1, <1>4 DEF AnswersInv, Answered, NoReply
<1>. QED
  BY <1>7, <1>8

\* A transaction ends with every answer, and with the contents it should.
LEMMA CommitWorks ==
    ASSUME CInv, mode = "apply", IsDone(Root)
    PROVE  /\ Contents(frames[Root].label) = Updated(Contents(root[caller]), batch)
           /\ reply = Answers(Contents(root[caller]), batch)
<1> DEFINE new == frames[Root].label
<1>1. Root \in DOMAIN frames /\ frames[Root].stage = "done" /\ Placed(new, Root)
  BY DEF IsDone, CInv, IInv, PlacesInv
<1>2. ASSUME NEW k \in Key
      PROVE  Lookup(new, k) = After(k)
  <2>1. Holds(Root, k)
    BY HoldsRoot
  <2>2. \A v \in Value : Finds(new, Root, k, v) <=> After(k) = v
    BY <1>1, <2>1 DEF CInv, WorkInv, Works, MadeAt
  <2>3. After(k) \in Value \cup {Nothing}
    BY Values DEF CInv
  <2> HIDE DEF new
  <2>4. /\ Lookup(new, k) \in Value \cup {Nothing}
        /\ \A v \in Value : Lookup(new, k) = v <=> Finds(new, Root, k, v)
    BY <1>1, LookupFinds
  <2>. QED
    BY <2>2, <2>3, <2>4, NothingAssumption
<1>3. Contents(new) = Updated(Contents(root[caller]), batch)
  <2>1. \A k \in Key : After(k) = Updated(Contents(root[caller]), batch)[k]
    BY DEF After
  <2>2. Updated(Contents(root[caller]), batch)
           = [k \in Key |-> Updated(Contents(root[caller]), batch)[k]]
    BY DEF Updated
  <2>3. Contents(new) = [k \in Key |-> After(k)]
    BY <1>2 DEF Contents
  <2>. QED
    BY <2>1, <2>2, <2>3
<1>4. \A k \in Key : Answered(k)
  BY <1>1, HoldsRoot DEF Answered
<1>5. reply = [k \in Key |-> reply[k]]
  BY DEF CInv, IInv, CallInv
<1>6. \A k \in Key : reply[k] = IF batch[k].act = "get" THEN Before(k) ELSE Nothing
  BY <1>4 DEF CInv, AnswersInv
<1>7. reply = Answers(Contents(root[caller]), batch)
  BY <1>5, <1>6 DEF Answers, Contents, Before
<1>. QED
  BY <1>3, <1>7

\* Every step keeps the whole invariant.
LEMMA WorkKeeps ==
    ASSUME CInv, [Next]_vars
    PROVE  CInv'
<1>1. IInv'
  BY StepKeeps DEF CInv
<1>2. WorkInv' /\ AnswersInv'
  <2>1. ASSUME NEW location \in DOMAIN frames, Recur(location)
        PROVE  WorkInv' /\ AnswersInv'
    BY <2>1, RecurWorks
  <2>2. ASSUME NEW h \in Handle, NEW b \in Batch, Begin(h, b)
        PROVE  WorkInv' /\ AnswersInv'
    BY <2>2, BeginWorks
  <2>3. CASE Commit
    BY <2>3 DEF Commit, WorkInv, AnswersInv
  <2>4. CASE Return
    BY <2>4 DEF Return, WorkInv, AnswersInv
  <2>5. ASSUME NEW h \in Handle, Open(h)
        PROVE  WorkInv' /\ AnswersInv'
    BY <2>5 DEF CInv, Open, Idle, WorkInv, AnswersInv, NoReply
  <2>6. ASSUME NEW h \in Handle, NEW copy \in Handle, Clone(h, copy)
        PROVE  WorkInv' /\ AnswersInv'
    BY <2>6 DEF CInv, Clone, Idle, WorkInv, AnswersInv, NoReply
  <2>7. ASSUME NEW h \in Handle, Drop(h)
        PROVE  WorkInv' /\ AnswersInv'
    BY <2>7 DEF CInv, Drop, Idle, WorkInv, AnswersInv, NoReply
  <2>8. CASE DropNode
    <3>1. mode = "drop" /\ mode' \in {"idle", "drop"} /\ reply' = reply
      BY <2>8 DEF DropNode
    <3>. QED
      BY <3>1 DEF CInv, WorkInv, AnswersInv, NoReply
  <2>9. CASE UNCHANGED vars
    <3>1. UNCHANGED <<store, root, mode, caller, batch, frames, reply, doomed>>
      BY <2>9 DEF vars
    <3>2. WorkInv'
      BY <3>1 DEF CInv, WorkInv, Works, GivenAt, MadeAt, Before, After
    <3>3. AnswersInv'
      BY <3>1 DEF CInv, AnswersInv, Answered, Before, NoReply
    <3>. QED
      BY <3>2, <3>3
  <2>. QED
    BY <2>1, <2>2, <2>3, <2>4, <2>5, <2>6, <2>7, <2>8, <2>9 DEF Next
<1>3. StartedInv'
  <2>1. ASSUME NEW location, Recur(location)
        PROVE  UNCHANGED <<mode, batch>>
    BY <2>1 DEF Recur, Pass, DoOnEmpty, SplitEmpty, DoOnLeaf, MissLeaf, SplitLeaf,
                SplitInternal, Join, Elsewhere
  <2>. QED
    BY <2>1 DEF CInv, StartedInv, Next, vars, Begin, Commit, Return, Open, Clone, Drop, DropNode, Idle
<1>. QED
  BY <1>1, <1>2, <1>3 DEF CInv

\* The invariant holds in every state the database reaches.
LEMMA WorkInvariant == Spec => []CInv
<1>1. Init => CInv
  BY InitKeeps DEF Init, CInv, WorkInv, AnswersInv, StartedInv
<1>2. CInv /\ [Next]_vars => CInv'
  BY WorkKeeps
<1>. QED
  BY <1>1, <1>2, PTL DEF Spec

-----------------------------------------------------------------------------
(***************************************************************************)
(* The maps.                                                               *)
(***************************************************************************)

\* The variables of KeyValue, as Apply has them.
tableBar == [h \in Handle |-> IF h \in Live THEN Contents(root[h]) ELSE Absent]

callBar == [t \in {"caller"} |->
    IF mode = "apply" THEN [handle |-> caller, batch |-> batch] ELSE Absent]

replyBar == [t \in {"caller"} |-> IF mode = "reply" THEN reply ELSE Absent]

Mapped == Maps!Next \/ UNCHANGED Maps!vars

\* A step that touches no root and neither starts nor ends a transaction is one
\* that changes no map.
LEMMA Stutter ==
    ASSUME tableBar' = tableBar, callBar' = callBar, replyBar' = replyBar
    PROVE  Mapped
  BY DEF Mapped, Maps!vars, tableBar, callBar, replyBar

\* What a table holds is a map, and not what stands for no table.
LEMMA MapsThere ==
    ASSUME CInv
    PROVE  /\ \A h \in Live : Contents(root[h]) \in Map /\ Contents(root[h]) # Absent
           /\ \A h \in Handle : tableBar[h] # Absent <=> h \in Live
           /\ Maps!Live = Live
<1>1. ASSUME NEW h \in Live
      PROVE  Contents(root[h]) \in Map /\ Contents(root[h]) # Absent
  <2>1. Placed(root[h], Root)
    BY DEF CInv, IInv, PlacesInv
  <2>2. \A k \in Key : Lookup(root[h], k) \in Value \cup {Nothing}
    BY <2>1, LookupFinds
  <2>3. Contents(root[h]) \in Map
    BY <2>2 DEF Contents, Map
  <2>. QED
    BY <2>3, ApplyAssumption
<1>2. \A h \in Handle : tableBar[h] # Absent <=> h \in Live
  BY <1>1 DEF tableBar
<1>. QED
  BY <1>1, <1>2 DEF Maps!Live, tableBar, Live

\* A call that begins submits its transaction.
LEMMA BeginMaps ==
    ASSUME CInv, NEW h \in Handle, NEW b \in Batch, Begin(h, b)
    PROVE  Mapped
<1>1. /\ mode = "idle" /\ mode' = "apply" /\ caller' = h /\ batch' = b /\ h \in Live
      /\ UNCHANGED <<root, reply>>
  BY DEF Begin, Idle
<1>2. tableBar' = tableBar
  BY <1>1 DEF tableBar, Live
<1>3. callBar["caller"] = Absent /\ replyBar["caller"] = Absent /\ replyBar' = replyBar
  BY <1>1 DEF callBar, replyBar
<1>4. callBar' = [callBar EXCEPT !["caller"] = [handle |-> h, batch |-> b]]
  BY <1>1 DEF callBar
<1>5. Maps!Submit("caller", h, b)
  BY <1>1, <1>2, <1>3, <1>4, MapsThere DEF Maps!Submit, tableBar, callBar, replyBar
<1>. QED
  BY <1>5 DEF Mapped, Maps!Next

\* A commit executes the transaction.
LEMMA CommitMaps ==
    ASSUME CInv, Commit
    PROVE  Mapped
<1> DEFINE new == frames[Root].label
           old == Contents(root[caller])
<1>1. /\ mode = "apply" /\ IsDone(Root) /\ mode' = "reply" /\ reply' = reply
      /\ root' = [root EXCEPT ![caller] = new]
  BY DEF Commit
<1>2. /\ caller \in Live /\ caller \in Handle /\ DOMAIN root = Handle /\ new # NoLabel
  <2>1. Placed(new, Root)
    BY <1>1 DEF IsDone, CInv, IInv, PlacesInv
  <2>. QED
    BY <1>1, <2>1, PlacedKinds DEF CInv, IInv, CallInv, Live
<1>3. Contents(new) = Updated(old, batch) /\ reply = Answers(old, batch)
  BY <1>1, CommitWorks
<1>4. callBar["caller"] = [handle |-> caller, batch |-> batch] /\ tableBar[caller] = old
  BY <1>1, <1>2 DEF callBar, tableBar
<1>5. callBar["caller"] # Absent
  <2>1. batch \in Batch \cup {NoBatch}
    BY DEF CInv, IInv, CallInv
  <2>2. batch \in Batch
    BY <1>1, <2>1 DEF CInv, StartedInv
  <2>3. callBar["caller"] \in [handle : Handle, batch : Batch]
    BY <1>2, <1>4, <2>2
  <2>. QED
    BY <2>3, ApplyAssumption
<1>6. tableBar' = [tableBar EXCEPT ![caller] = Updated(old, batch)]
  <2>1. Live' = Live /\ root'[caller] = new /\ \A h \in Handle : h # caller => root'[h] = root[h]
    BY <1>1, <1>2 DEF Live
  <2> HIDE DEF new, old
  <2>. QED
    BY <1>2, <1>3, <2>1 DEF tableBar
<1>7. callBar' = [callBar EXCEPT !["caller"] = Absent]
  BY <1>1 DEF callBar
<1>8. replyBar' = [replyBar EXCEPT !["caller"] = Answers(old, batch)]
  BY <1>1, <1>3 DEF replyBar
<1>9. /\ Maps!Updated(old, batch) = Updated(old, batch)
      /\ Maps!Answers(old, batch) = Answers(old, batch)
  BY DEF Maps!Updated, Updated, Maps!Answers, Answers
<1> HIDE DEF old
<1>10. Maps!Execute("caller")
  BY <1>4, <1>5, <1>6, <1>7, <1>8, <1>9 DEF Maps!Execute, tableBar, callBar, replyBar
<1>. QED
  BY <1>10 DEF Mapped, Maps!Next

\* The caller picks up its answers.
LEMMA ReturnMaps ==
    ASSUME CInv, Return
    PROVE  Mapped
<1>1. /\ mode = "reply" /\ mode' = "idle" /\ UNCHANGED <<root, caller, batch>>
      /\ reply \in [Key -> Value \cup {Nothing}]
  BY DEF Return, CInv, IInv, CallInv
<1>2. reply # Absent
  BY <1>1, ApplyAssumption DEF Map
<1>3. tableBar' = tableBar /\ callBar' = callBar
  BY <1>1 DEF tableBar, callBar, Live
<1>4. replyBar["caller"] # Absent /\ replyBar' = [replyBar EXCEPT !["caller"] = Absent]
  BY <1>1, <1>2 DEF replyBar
<1>5. Maps!Return("caller")
  BY <1>3, <1>4 DEF Maps!Return, tableBar, callBar, replyBar
<1>. QED
  BY <1>5 DEF Mapped, Maps!Next

\* A table that is opened holds nothing.
LEMMA OpenMaps ==
    ASSUME CInv, NEW h \in Handle, Open(h)
    PROVE  Mapped
<1>1. /\ h \notin Live /\ root' = [root EXCEPT ![h] = Empty] /\ UNCHANGED <<mode, caller, batch, reply>>
      /\ DOMAIN root = Handle /\ Empty # NoLabel
  BY Labels DEF Open, CInv, IInv, CallInv
<1>2. Contents(Empty) = EmptyMap
  <2>1. Placed(Empty, Root)
    BY RootPlace, PlacedEmpty
  <2>2. ASSUME NEW k \in Key
        PROVE  Lookup(Empty, k) = Nothing
    <3>1. \A v : ~Finds(Empty, Root, k, v)
      BY RootPlace, Labels, FindsHere
    <3>. QED
      BY <2>1, <3>1, LookupFinds
  <2>. QED
    BY <2>2 DEF Contents, EmptyMap
<1>3. /\ Live' = Live \cup {h} /\ root'[h] = Empty
      /\ \A g \in Handle : g # h => root'[g] = root[g]
  BY <1>1 DEF Live
<1>4. tableBar' = [tableBar EXCEPT ![h] = EmptyMap]
  BY <1>2, <1>3 DEF tableBar
<1>5. callBar' = callBar /\ replyBar' = replyBar
  BY <1>1 DEF callBar, replyBar
<1>6. Maps!EmptyMap = EmptyMap
  BY DEF Maps!EmptyMap, EmptyMap
<1>7. Maps!Open(h)
  BY <1>1, <1>4, <1>5, <1>6, MapsThere DEF Maps!Open, tableBar, callBar, replyBar
<1>. QED
  BY <1>7 DEF Mapped, Maps!Next

\* A clone holds what its origin does.
LEMMA CloneMaps ==
    ASSUME CInv, NEW h \in Handle, NEW copy \in Handle, Clone(h, copy)
    PROVE  Mapped
<1>1. /\ h \in Live /\ copy \notin Live /\ root' = [root EXCEPT ![copy] = root[h]]
      /\ UNCHANGED <<mode, caller, batch, reply>> /\ DOMAIN root = Handle
  BY DEF Clone, CInv, IInv, CallInv
<1>2. /\ Live' = Live \cup {copy} /\ root'[copy] = root[h]
      /\ \A g \in Handle : g # copy => root'[g] = root[g]
  BY <1>1 DEF Live
<1>3. tableBar' = [tableBar EXCEPT ![copy] = tableBar[h]]
  BY <1>1, <1>2 DEF tableBar
<1>4. callBar' = callBar /\ replyBar' = replyBar
  BY <1>1 DEF callBar, replyBar
<1>5. Maps!Clone(h, copy)
  BY <1>1, <1>3, <1>4, MapsThere DEF Maps!Clone, tableBar, callBar, replyBar
<1>. QED
  BY <1>5 DEF Mapped, Maps!Next

\* A table that is dropped is gone, whatever is left of its nodes.
LEMMA DropMaps ==
    ASSUME CInv, NEW h \in Handle, Drop(h)
    PROVE  Mapped
<1>1. /\ h \in Live /\ mode = "idle" /\ mode' = "drop" /\ root' = [root EXCEPT ![h] = NoLabel]
      /\ DOMAIN root = Handle
  BY DEF Drop, Idle, CInv, IInv, CallInv
<1>2. Live' = Live \ {h} /\ \A g \in Handle : g # h => root'[g] = root[g]
  BY <1>1 DEF Live
<1>3. tableBar' = [tableBar EXCEPT ![h] = Absent]
  BY <1>2 DEF tableBar
<1>4. callBar' = callBar /\ replyBar' = replyBar /\ callBar["caller"] = Absent
  BY <1>1 DEF callBar, replyBar
<1>5. Maps!Drop(h)
  BY <1>1, <1>3, <1>4, MapsThere DEF Maps!Drop, tableBar, callBar, replyBar
<1>. QED
  BY <1>5 DEF Mapped, Maps!Next

\* Batches are atomic and tables independent: whatever subtrees the tables of a
\* database share, however the halves of a transaction interleave, its callers
\* see maps that only their own transactions change.
THEOREM ApplyImplementsKeyValue == Spec => ImplementsKeyValue
<1>1. Init => Maps!Init
  <2>1. Init => Live = {} /\ mode = "idle"
    BY DEF Init, Live
  <2>. QED
    BY <2>1 DEF Maps!Init
<1>2. CInv /\ [Next]_vars => [Maps!Next]_(Maps!vars)
  <2>. SUFFICES ASSUME CInv, [Next]_vars PROVE Mapped
    BY DEF Mapped
  <2>1. ASSUME NEW location \in DOMAIN frames, Recur(location) PROVE Mapped
    <3>1. UNCHANGED <<root, mode, caller, batch>> /\ mode = "apply"
      BY <2>1 DEF Recur, Pass, DoOnEmpty, SplitEmpty, DoOnLeaf, MissLeaf, SplitLeaf,
                  SplitInternal, Join, Ready, Elsewhere
    <3>. QED
      BY <3>1, Stutter DEF tableBar, callBar, replyBar, Live
  <2>2. ASSUME NEW h \in Handle, NEW b \in Batch, Begin(h, b) PROVE Mapped
    BY <2>2, BeginMaps
  <2>3. CASE Commit
    BY <2>3, CommitMaps
  <2>4. CASE Return
    BY <2>4, ReturnMaps
  <2>5. ASSUME NEW h \in Handle, Open(h) PROVE Mapped
    BY <2>5, OpenMaps
  <2>6. ASSUME NEW h \in Handle, NEW copy \in Handle, Clone(h, copy) PROVE Mapped
    BY <2>6, CloneMaps
  <2>7. ASSUME NEW h \in Handle, Drop(h) PROVE Mapped
    BY <2>7, DropMaps
  <2>8. CASE DropNode
    <3>1. mode = "drop" /\ mode' \in {"idle", "drop"} /\ UNCHANGED <<root, caller, batch, reply>>
      BY <2>8 DEF DropNode
    <3>. QED
      BY <3>1, Stutter DEF tableBar, callBar, replyBar, Live
  <2>9. CASE UNCHANGED vars
    BY <2>9, Stutter DEF vars, tableBar, callBar, replyBar, Live
  <2>. QED
    BY <2>1, <2>2, <2>3, <2>4, <2>5, <2>6, <2>7, <2>8, <2>9 DEF Next
<1>. QED
  BY <1>1, <1>2, WorkInvariant, PTL DEF Spec, Maps!Spec, ImplementsKeyValue

-----------------------------------------------------------------------------
(***************************************************************************)
(* Queries.  A walk through the tree of a table nobody works on finds      *)
(* every label it is at: the tree is in the store, at places the store of  *)
(* the walk covers.                                                        *)
(***************************************************************************)
\* A label a walk through a table's tree can be at; or no label any more.
Walked(label, p) == Snapshot(label, p) /\ Placed(label, p)

Seen(label, p) == label = None \/ Walked(label, p)

\* What a tree records at a place.
Recorded(label, p) ==
    { record \in Record : Holds(p, record.key) /\ Finds(label, p, record.key, record.value) }

\* No label is of none of the kinds.
LEMMA NoneIs == ~IsInternal(None) /\ ~IsLeaf(None) /\ None # Empty
  BY DEF None, NoLabel, IsInternal, IsLeaf, Empty

\* A walk finds what it is at.
LEMMA SeenFound ==
    ASSUME NEW p \in Places, NEW label, Seen(label, p)
    PROVE  /\ label \in LabelsMet
           /\ label # None => Found(p, label)
<1>1. CASE label = None
  BY <1>1 DEF LabelsMet
<1>2. CASE label = Empty
  BY <1>2, NoneIs DEF LabelsMet, Found
<1>3. CASE label # None /\ label # Empty
  <2>1. label \in DOMAIN store.refs /\ Placed(label, p)
    BY <1>3 DEF Seen, Walked, Snapshot
  <2>2. InRange(Scope(p), label)
    BY <1>3, <2>1, AboveFacts, Covered
  <2>. QED
    BY <2>1, <2>2 DEF LabelsMet, Found, Occupied
<1>. QED
  BY <1>1, <1>2, <1>3

\* And what it goes on to.
LEMMA SeenBelow ==
    ASSUME IInv, NEW p \in Places, Len(p) < PathLength, NEW d \in Direction,
           NEW label, Seen(label, p)
    PROVE  Seen(Below(label, d), Append(p, d))
<1>1. CASE ~IsInternal(label)
  BY <1>1 DEF Below, Seen, Walked
<1>2. CASE IsInternal(label)
  <2>1. Snapshot(label, p) /\ Placed(label, p)
    BY <1>2, NoneIs DEF Seen, Walked
  <2>2. Snapshot(Child(label, d), Append(p, d))
    BY <2>1, SnapshotStep
  <2>3. Placed(label.left, Left(p)) /\ Placed(label.right, Right(p))
    BY <1>2, <2>1, PlacedKinds
  <2>4. Placed(Child(label, d), Append(p, d))
    BY <1>2, <2>3, Halves DEF Child, Direction
  <2>. QED
    BY <1>2, <2>2, <2>4 DEF Below, Seen, Walked
<1>. QED
  BY <1>1, <1>2

\* Of what is not internal the walk takes the records there are.
LEMMA RecordedHere ==
    ASSUME NEW p \in Places, NEW label, Seen(label, p), ~IsInternal(label)
    PROVE  Recorded(label, p) = Records(label)
<1>1. \A record \in Record : record.key \in Key /\ record.value \in Value
         /\ record = [key |-> record.key, value |-> record.value]
  BY DEF Record
<1>2. \A k \in Key : \A v : Finds(label, p, k, v) <=> IsLeaf(label) /\ label.key = k /\ label.value = v
  BY FindsHere
<1>3. CASE ~IsLeaf(label)
  BY <1>1, <1>2, <1>3 DEF Recorded, Records
<1>4. CASE IsLeaf(label)
  <2>1. label.key \in Key /\ label.value \in Value /\ Holds(p, label.key)
    BY <1>4, NoneIs, PlacedKinds DEF Seen, Walked
  <2> DEFINE here == [key |-> label.key, value |-> label.value]
  <2>2. here \in Record /\ here.key = label.key /\ here.value = label.value
    BY <2>1 DEF Record
  <2>3. ASSUME NEW record \in Recorded(label, p)
        PROVE  record = here
    BY <1>1, <1>2, <2>3 DEF Recorded
  <2>4. here \in Recorded(label, p)
    BY <1>2, <1>4, <2>1, <2>2 DEF Recorded
  <2>5. Records(label) = {here}
    BY <1>4 DEF Records
  <2>. QED
    BY <2>3, <2>4, <2>5
<1>. QED
  BY <1>3, <1>4

\* What a half has is nothing the other half has.
LEMMA RecordedApart ==
    ASSUME NEW p \in Places, Len(p) < PathLength, NEW l, NEW r
    PROVE  \A record \in Recorded(l, Left(p)) : record \notin Recorded(r, Right(p))
<1>1. SUFFICES ASSUME NEW record \in Record, Holds(Left(p), record.key), Holds(Right(p), record.key)
               PROVE  FALSE
  BY DEF Recorded
<1>2. record.key \in Key
  BY DEF Record
<1>. QED
  BY <1>1, <1>2, HoldsHalves

\* A walk that goes on has all of a tree's records in what is here and below.
LEMMA RecordedBelow ==
    ASSUME NEW p \in Places, Len(p) < PathLength, NEW label, Seen(label, p)
    PROVE  /\ Recorded(label, p) = Records(label)
                 \cup Recorded(Below(label, "L"), Left(p)) \cup Recorded(Below(label, "R"), Right(p))
           /\ Records(label) # {} =>
                 Recorded(Below(label, "L"), Left(p)) = {} /\ Recorded(Below(label, "R"), Right(p)) = {}
<1>1. Left(p) \in Places /\ Right(p) \in Places
  BY HalfFacts
<1>2. CASE ~IsInternal(label)
  <2>1. Below(label, "L") = None /\ Below(label, "R") = None
    BY <1>2 DEF Below
  <2>2. Seen(None, Left(p)) /\ Seen(None, Right(p)) /\ Records(None) = {}
    BY NoneIs DEF Seen, Walked, Records
  <2>3. Recorded(None, Left(p)) = {} /\ Recorded(None, Right(p)) = {}
    BY <1>1, <2>2, NoneIs, RecordedHere
  <2>. QED
    BY <1>2, <2>1, <2>3, RecordedHere
<1>3. CASE IsInternal(label)
  <2>1. Records(label) = {}
    BY <1>3, InternalNot DEF Records
  <2>2. Below(label, "L") = label.left /\ Below(label, "R") = label.right
    BY <1>3 DEF Below, Child
  <2>3. \A record \in Record :
           record \in Recorded(label, p) <=>
              record \in Recorded(label.left, Left(p)) \/ record \in Recorded(label.right, Right(p))
    <3>1. SUFFICES ASSUME NEW record \in Record
                   PROVE  record \in Recorded(label, p) <=>
                            record \in Recorded(label.left, Left(p))
                            \/ record \in Recorded(label.right, Right(p))
      OBVIOUS
    <3> DEFINE k == record.key
               v == record.value
    <3>2. k \in Key
      BY DEF Record
    <3>3. /\ Holds(Left(p), k) => Holds(p, k) /\ (Finds(label, p, k, v) <=> Finds(label.left, Left(p), k, v))
          /\ Holds(Right(p), k) => Holds(p, k) /\ (Finds(label, p, k, v) <=> Finds(label.right, Right(p), k, v))
      BY <1>3, <3>2, FindsHalf, HoldsHalves
    <3>4. Holds(p, k) => Holds(Left(p), k) \/ Holds(Right(p), k)
      BY <3>2, HalvesHold
    <3>. QED
      BY <3>3, <3>4 DEF Recorded
  <2>4. \A l, q : Recorded(l, q) \subseteq Record
    BY DEF Recorded
  <2>. QED
    BY <2>1, <2>2, <2>3, <2>4
<1>. QED
  BY <1>2, <1>3

\* The recursion of the walk over two trees, and what it is one level below.
DifferenceNode(none, depth, beneath, location, lho, rho) ==
    LET here == [lho |-> Records(lho), rho |-> Records(rho)]
        below(d) == beneath[Append(location, d)][Below(lho, d)][Below(rho, d)]
    IN  CASE lho = rho -> [lho |-> {}, rho |-> {}]
          [] lho # rho /\ \E label \in {lho, rho} \ {None} : ~Found(location, label) -> Panicked
          [] OTHER ->
                IF ~GoesOn(lho, rho) THEN here
                ELSE IF depth = PathLength \/ Panicked \in {below("L"), below("R")} THEN Panicked
                ELSE [lho |-> here.lho \cup below("L").lho \cup below("R").lho,
                      rho |-> here.rho \cup below("L").rho \cup below("R").rho]

DifferenceStep(none, depth, beneath) ==
    [location \in LocationsAt(depth) |-> [lho \in LabelsMet |-> [rho \in LabelsMet |->
        DifferenceNode(none, depth, beneath, location, lho, rho)]]]

DifferenceRecursion == INSTANCE Recursion WITH Top <- PathLength, Step <- DifferenceStep

\* What the walk gives of two labels, by what it gives one level below.
LEMMA DifferencesIs ==
    ASSUME NEW depth \in Level, NEW location \in LocationsAt(depth),
           NEW lho \in LabelsMet, NEW rho \in LabelsMet
    PROVE  Differences[depth][location][lho][rho]
             = DifferenceNode(0, depth, Differences[depth + 1], location, lho, rho)
<1>1. PathLength \in Nat /\ Level = 0..PathLength
  BY TreeAssumption DEF Level
<1>2. ASSUME NEW x, NEW y
      PROVE  DifferenceStep(0, PathLength, x) = DifferenceStep(0, PathLength, y)
  BY DEF DifferenceStep, DifferenceNode
<1>3. \E f : f = [d \in Level |-> DifferenceStep(0, d, f[d + 1])]
  BY <1>1, <1>2, DifferenceRecursion!Exists
<1>4. Differences = [d \in Level |-> DifferenceStep(0, d, Differences[d + 1])]
  BY <1>3 DEF Differences, DifferenceStep, DifferenceNode
<1>5. Differences[depth] = DifferenceStep(0, depth, Differences[depth + 1])
  BY <1>4
<1>. QED
  BY <1>5 DEF DifferenceStep

\* What a walk gives: records of each tree, the same of both left out.
Tells(difference, lho, rho) ==
    /\ difference \in [lho : SUBSET lho, rho : SUBSET rho]
    /\ lho \ difference.lho = rho \ difference.rho

DifferenceAt(p, lho, rho) == Differences[Len(p)][p][lho][rho]

\* A place is one of the locations at its depth.
LEMMA PlaceAt ==
    ASSUME NEW p \in Places
    PROVE  Len(p) \in Level /\ p \in LocationsAt(Len(p))
  BY PlaceSeq DEF Level, LocationsAt

\* The walk at one place, if it is right below.
LEMMA DifferenceStepTells ==
    ASSUME IInv, NEW p \in Places, NEW lho, NEW rho, Seen(lho, p), Seen(rho, p),
           Len(p) < PathLength =>
              \A d \in Direction :
                  Tells(DifferenceAt(Append(p, d), Below(lho, d), Below(rho, d)),
                        Recorded(Below(lho, d), Append(p, d)), Recorded(Below(rho, d), Append(p, d)))
    PROVE  Tells(DifferenceAt(p, lho, rho), Recorded(lho, p), Recorded(rho, p))
<1> DEFINE D == DifferenceAt(p, lho, rho)
           below(d) == DifferenceAt(Append(p, d), Below(lho, d), Below(rho, d))
<1>1. /\ Len(p) \in Level /\ p \in LocationsAt(Len(p)) /\ Len(p) \in Nat /\ PathLength \in Nat
      /\ lho \in LabelsMet /\ rho \in LabelsMet
  BY PlaceAt, PlaceSeq, SeenFound
<1>2. D = DifferenceNode(0, Len(p), Differences[Len(p) + 1], p, lho, rho)
  BY <1>1, DifferencesIs DEF DifferenceAt
<1>3. \A label \in {lho, rho} \ {None} : Found(p, label)
  BY SeenFound
<1>4. \A d \in Direction : below(d) = Differences[Len(p) + 1][Append(p, d)][Below(lho, d)][Below(rho, d)]
  BY Deeper DEF DifferenceAt
<1>5. CASE lho = rho
  <2>1. D = [lho |-> {}, rho |-> {}]
    BY <1>2, <1>5 DEF DifferenceNode
  <2>. QED
    BY <1>5, <2>1 DEF Tells
<1>6. CASE lho # rho /\ ~GoesOn(lho, rho)
  <2>1. D = [lho |-> Records(lho), rho |-> Records(rho)]
    BY <1>2, <1>3, <1>6 DEF DifferenceNode
  <2>2. Recorded(lho, p) = Records(lho) /\ Recorded(rho, p) = Records(rho)
    BY <1>6, RecordedHere DEF GoesOn
  <2>. QED
    BY <2>1, <2>2 DEF Tells
<1>7. CASE lho # rho /\ GoesOn(lho, rho)
  <2>1. Len(p) < PathLength
    <3>1. \A label \in {lho, rho} : IsInternal(label) => Placed(label, p)
      BY NoneIs DEF Seen, Walked
    <3>. QED
      BY <1>7, <3>1, PlacedKinds DEF GoesOn
  <2>2. "L" \in Direction /\ "R" \in Direction /\ Append(p, "L") = Left(p) /\ Append(p, "R") = Right(p)
    BY DEF Direction, Left, Right
  <2>3. /\ Tells(below("L"), Recorded(Below(lho, "L"), Left(p)), Recorded(Below(rho, "L"), Left(p)))
        /\ Tells(below("R"), Recorded(Below(lho, "R"), Right(p)), Recorded(Below(rho, "R"), Right(p)))
    <3>1. \A d \in Direction :
             Tells(below(d), Recorded(Below(lho, d), Append(p, d)), Recorded(Below(rho, d), Append(p, d)))
      BY <2>1
    <3> HIDE DEF below
    <3>. QED
      BY <2>2, <3>1
  <2>4. /\ below("L") = Differences[Len(p) + 1][Append(p, "L")][Below(lho, "L")][Below(rho, "L")]
        /\ below("R") = Differences[Len(p) + 1][Append(p, "R")][Below(lho, "R")][Below(rho, "R")]
    <3> HIDE DEF below
    <3>. QED
      BY <1>4, <2>2
  <2> HIDE DEF below
  <2>5. below("L") # Panicked /\ below("R") # Panicked
    <3>1. below("L") \in [lho : SUBSET Record, rho : SUBSET Record]
          /\ below("R") \in [lho : SUBSET Record, rho : SUBSET Record]
      BY <2>3 DEF Tells, Recorded
    <3>. QED
      BY <3>1, QueriesAssumption
  <2> DEFINE all == [lho |-> Records(lho) \cup below("L").lho \cup below("R").lho,
                     rho |-> Records(rho) \cup below("L").rho \cup below("R").rho]
  <2>6. D = all
    <3>1. Len(p) # PathLength
      BY <1>1, <2>1
    <3>. QED
      BY <1>2, <1>3, <1>7, <2>4, <2>5, <3>1 DEF DifferenceNode
  <2>8. /\ \A label \in {lho, rho} :
              /\ Recorded(label, p) = Records(label)
                    \cup Recorded(Below(label, "L"), Left(p)) \cup Recorded(Below(label, "R"), Right(p))
              /\ Records(label) # {} =>
                    Recorded(Below(label, "L"), Left(p)) = {} /\ Recorded(Below(label, "R"), Right(p)) = {}
    BY <2>1, RecordedBelow
  <2>9. \A l, r : \A record \in Recorded(l, Left(p)) : record \notin Recorded(r, Right(p))
    BY <2>1, RecordedApart
  <2> DEFINE leftL == Recorded(Below(lho, "L"), Left(p))
             leftR == Recorded(Below(rho, "L"), Left(p))
             rightL == Recorded(Below(lho, "R"), Right(p))
             rightR == Recorded(Below(rho, "R"), Right(p))
  <2>10. \A x \in leftL \cup leftR : x \notin rightL /\ x \notin rightR
    BY <2>9
  <2>11. /\ Records(lho) # {} => leftL = {} /\ rightL = {}
         /\ Records(rho) # {} => leftR = {} /\ rightR = {}
    BY <2>8
  <2>12. /\ Recorded(lho, p) = Records(lho) \cup leftL \cup rightL
         /\ Recorded(rho, p) = Records(rho) \cup leftR \cup rightR
    BY <2>8
  <2>13. Tells(below("L"), leftL, leftR) /\ Tells(below("R"), rightL, rightR)
    BY <2>3
  <2> HIDE DEF leftL, leftR, rightL, rightR
  <2>14. Tells(all, Records(lho) \cup leftL \cup rightL, Records(rho) \cup leftR \cup rightR)
    <3> DEFINE left == below("L")
               right == below("R")
               hereL == Records(lho)
               hereR == Records(rho)
    <3>1. Tells(left, leftL, leftR) /\ Tells(right, rightL, rightR)
      BY <2>13
    <3>2. /\ hereL # {} => leftL = {} /\ rightL = {}
          /\ hereR # {} => leftR = {} /\ rightR = {}
      BY <2>11
    <3> HIDE DEF left, right, hereL, hereR
    <3>3. Tells([lho |-> hereL \cup left.lho \cup right.lho, rho |-> hereR \cup left.rho \cup right.rho],
                hereL \cup leftL \cup rightL, hereR \cup leftR \cup rightR)
      BY ONLY <2>10, <3>1, <3>2 DEF Tells
    <3>. QED
      BY <3>3 DEF left, right, hereL, hereR
  <2>. QED
    BY <2>6, <2>12, <2>14
<1>. QED
  BY <1>5, <1>6, <1>7

\* At every place the walk gives what the two trees differ in, and is never stuck.
LEMMA DifferencesTell ==
    ASSUME IInv, NEW p \in Places, NEW lho, NEW rho, Seen(lho, p), Seen(rho, p)
    PROVE  Tells(DifferenceAt(p, lho, rho), Recorded(lho, p), Recorded(rho, p))
<1> DEFINE T(q) == \A l, r : Seen(l, q) /\ Seen(r, q) =>
                      Tells(DifferenceAt(q, l, r), Recorded(l, q), Recorded(r, q))
           S == { q \in Places : T(q) }
<1>1. ASSUME NEW q \in Places, Len(q) < PathLength => Left(q) \in S /\ Right(q) \in S
      PROVE  q \in S
  <2>1. ASSUME NEW l, NEW r, Seen(l, q), Seen(r, q)
        PROVE  Tells(DifferenceAt(q, l, r), Recorded(l, q), Recorded(r, q))
    <3>1. ASSUME Len(q) < PathLength, NEW d \in Direction
          PROVE  Tells(DifferenceAt(Append(q, d), Below(l, d), Below(r, d)),
                       Recorded(Below(l, d), Append(q, d)), Recorded(Below(r, d), Append(q, d)))
      <4>1. T(Append(q, d))
        BY <1>1, <3>1, Halves DEF Direction
      <4>2. Seen(Below(l, d), Append(q, d)) /\ Seen(Below(r, d), Append(q, d))
        BY <2>1, <3>1, SeenBelow
      <4>. QED
        BY <4>1, <4>2
    <3>. QED
      BY <2>1, <3>1, DifferenceStepTells
  <2>. QED
    BY <2>1
<1> HIDE DEF S
<1>2. Places \subseteq S
  BY <1>1, PlacesFromBelow
<1>. QED
  BY <1>2 DEF S

\* What a table's tree records is what its keys are mapped to.
LEMMA RecordedLookup ==
    ASSUME NEW label, Placed(label, Root), NEW record
    PROVE  record \in Recorded(label, Root) <=>
             record \in Record /\ Lookup(label, record.key) = record.value
<1>1. record \in Record => record.key \in Key /\ record.value \in Value
  BY DEF Record
<1>. QED
  BY <1>1, LookupFinds, HoldsRoot DEF Recorded

\* From what the walk gives, the keys that two trees differ on and their values.
LEMMA TellsLookups ==
    ASSUME NEW l, NEW r, Placed(l, Root), Placed(r, Root), NEW found,
           Tells(found, Recorded(l, Root), Recorded(r, Root)), NEW k
    PROVE  /\ /\ \E record \in found.lho \cup found.rho : record.key = k
              /\ Differing(found.lho, found.rho, k)
              <=> k \in Key /\ Lookup(l, k) # Lookup(r, k)
           /\ k \in Key /\ Lookup(l, k) # Lookup(r, k) =>
                /\ \A record \in found.lho : record.key = k => record.value = Lookup(l, k)
                /\ \A record \in found.rho : record.key = k => record.value = Lookup(r, k)
                /\ Lookup(l, k) # Nothing => \E record \in found.lho : record.key = k
                /\ Lookup(r, k) # Nothing => \E record \in found.rho : record.key = k
                /\ Lookup(l, k) = Nothing => ~\E record \in found.lho : record.key = k
                /\ Lookup(r, k) = Nothing => ~\E record \in found.rho : record.key = k
<1> DEFINE L == Recorded(l, Root)
           R == Recorded(r, Root)
<1>1. /\ \A record \in L : record \in Record /\ Lookup(l, record.key) = record.value
      /\ \A record \in R : record \in Record /\ Lookup(r, record.key) = record.value
  BY RecordedLookup
<1>2. \A record \in Record : /\ record.key \in Key /\ record.value \in Value
                             /\ record = [key |-> record.key, value |-> record.value]
  BY DEF Record
<1>3. /\ found.lho \subseteq L /\ found.rho \subseteq R
      /\ \A record \in L : record \notin found.lho <=> record \in R /\ record \notin found.rho
      /\ \A record \in R : record \notin found.rho <=> record \in L /\ record \notin found.lho
  BY DEF Tells
<1>4. ASSUME k \in Key, Lookup(l, k) \in Value
      PROVE  [key |-> k, value |-> Lookup(l, k)] \in L
  <2> DEFINE record == [key |-> k, value |-> Lookup(l, k)]
  <2>1. record \in Record /\ record.key = k /\ record.value = Lookup(l, k)
    BY <1>4 DEF Record
  <2> HIDE DEF record
  <2>2. record \in L
    BY <2>1, RecordedLookup
  <2>. QED
    BY <2>2 DEF record
<1>5. ASSUME k \in Key, Lookup(r, k) \in Value
      PROVE  [key |-> k, value |-> Lookup(r, k)] \in R
  <2> DEFINE record == [key |-> k, value |-> Lookup(r, k)]
  <2>1. record \in Record /\ record.key = k /\ record.value = Lookup(r, k)
    BY <1>5 DEF Record
  <2> HIDE DEF record
  <2>2. record \in R
    BY <2>1, RecordedLookup
  <2>. QED
    BY <2>2 DEF record
<1>6. k \in Key => Lookup(l, k) \in Value \cup {Nothing} /\ Lookup(r, k) \in Value \cup {Nothing}
  BY LookupFinds
<1> HIDE DEF L, R
<1>7. ASSUME NEW record \in found.lho \cup found.rho, record.key = k,
             Differing(found.lho, found.rho, k)
      PROVE  k \in Key /\ Lookup(l, k) # Lookup(r, k)
  <2>1. record \in Record /\ k \in Key
    BY <1>1, <1>2, <1>3, <1>7
  <2>2. ASSUME Lookup(l, k) = Lookup(r, k)
        PROVE  FALSE
    <3>1. record = [key |-> k, value |-> Lookup(l, k)] /\ Lookup(l, k) \in Value
      BY <1>1, <1>2, <1>3, <1>7, <2>1, <2>2
    <3>2. record \in L /\ record \in R
      BY <1>4, <1>5, <2>1, <2>2, <3>1
    <3>3. record \in found.lho /\ record \in found.rho
      BY <1>3, <1>7, <3>2
    <3>. QED
      BY <1>7, <3>3 DEF Differing
  <2>. QED
    BY <2>1, <2>2
<1>8. ASSUME k \in Key, Lookup(l, k) # Lookup(r, k)
      PROVE  /\ Differing(found.lho, found.rho, k)
             /\ \A record \in found.lho : record.key = k => record.value = Lookup(l, k)
             /\ \A record \in found.rho : record.key = k => record.value = Lookup(r, k)
             /\ Lookup(l, k) # Nothing => \E record \in found.lho : record.key = k
             /\ Lookup(r, k) # Nothing => \E record \in found.rho : record.key = k
             /\ Lookup(l, k) = Nothing => ~\E record \in found.lho : record.key = k
             /\ Lookup(r, k) = Nothing => ~\E record \in found.rho : record.key = k
  <2>1. Differing(found.lho, found.rho, k)
    BY <1>1, <1>3, <1>8 DEF Differing
  <2>2. /\ \A record \in found.lho : record.key = k => record.value = Lookup(l, k) /\ record.value \in Value
        /\ \A record \in found.rho : record.key = k => record.value = Lookup(r, k) /\ record.value \in Value
    BY <1>1, <1>2, <1>3
  <2>3. ASSUME Lookup(l, k) # Nothing
        PROVE  \E record \in found.lho : record.key = k
    <3> DEFINE record == [key |-> k, value |-> Lookup(l, k)]
    <3>1. record \in L /\ record.key = k
      BY <1>4, <1>6, <1>8, <2>3
    <3> HIDE DEF record
    <3>2. record \notin R
      <4>1. record.value = Lookup(l, k)
        BY DEF record
      <4>. QED
        BY <1>1, <1>8, <3>1, <4>1
    <3>. QED
      BY <1>3, <3>1, <3>2
  <2>4. ASSUME Lookup(r, k) # Nothing
        PROVE  \E record \in found.rho : record.key = k
    <3> DEFINE record == [key |-> k, value |-> Lookup(r, k)]
    <3>1. record \in R /\ record.key = k
      BY <1>5, <1>6, <1>8, <2>4
    <3> HIDE DEF record
    <3>2. record \notin L
      <4>1. record.value = Lookup(r, k)
        BY DEF record
      <4>. QED
        BY <1>1, <1>8, <3>1, <4>1
    <3>. QED
      BY <1>3, <3>1, <3>2
  <2>. QED
    BY <2>1, <2>2, <2>3, <2>4, NothingAssumption
<1>9. k \in Key /\ Lookup(l, k) # Lookup(r, k) => Lookup(l, k) # Nothing \/ Lookup(r, k) # Nothing
  OBVIOUS
<1>. QED
  BY <1>7, <1>8, <1>9

\* The value that records have for a key.
ValueIn(records, k) ==
    IF \E record \in records : record.key = k
    THEN (CHOOSE record \in records : record.key = k).value ELSE Nothing

\* The difference of two tables, between the calls.
LEMMA DifferenceTrue ==
    ASSUME IInv, Idle, NEW h \in Live, NEW other \in Live
    PROVE  Difference(h, other) =
             [k \in { k \in Key : Lookup(root[h], k) # Lookup(root[other], k) } |->
                 <<Lookup(root[h], k), Lookup(root[other], k)>>]
<1> DEFINE l == root[h]
           r == root[other]
           found == Differences[0][Root][l][r]
           keys == { record.key : record \in found.lho \cup found.rho }
           differing == { k \in keys : Differing(found.lho, found.rho, k) }
<1>1. h \in Live \ {caller} /\ other \in Live \ {caller}
  BY ApplyAssumption DEF IInv, CallInv, Idle, Live
<1>2. Placed(l, Root) /\ Placed(r, Root) /\ Seen(l, Root) /\ Seen(r, Root)
  BY <1>1, SnapshotRoot DEF IInv, PlacesInv, Seen, Walked
<1>3. Tells(found, Recorded(l, Root), Recorded(r, Root))
  BY <1>2, RootPlace, DifferencesTell DEF DifferenceAt
<1>4. found # Panicked
  <2>1. found \in [lho : SUBSET Record, rho : SUBSET Record]
    BY <1>3 DEF Tells, Recorded
  <2>. QED
    BY <2>1, QueriesAssumption
<1>5. Difference(h, other) = [k \in differing |-> <<ValueIn(found.lho, k), ValueIn(found.rho, k)>>]
  BY <1>4 DEF Difference, ValueIn
<1> HIDE DEF l, r, found
<1>6. \A k : k \in differing <=> k \in Key /\ Lookup(l, k) # Lookup(r, k)
  BY <1>2, <1>3, TellsLookups
<1>7. ASSUME NEW k \in Key, Lookup(l, k) # Lookup(r, k)
      PROVE  ValueIn(found.lho, k) = Lookup(l, k) /\ ValueIn(found.rho, k) = Lookup(r, k)
  BY <1>2, <1>3, <1>7, TellsLookups DEF ValueIn
<1> HIDE DEF keys
<1>8. differing = { k \in Key : Lookup(l, k) # Lookup(r, k) }
  BY <1>6
<1>9. \A k \in differing : ValueIn(found.lho, k) = Lookup(l, k) /\ ValueIn(found.rho, k) = Lookup(r, k)
  BY <1>6, <1>7
<1> HIDE DEF differing
<1>10. Difference(h, other) = [k \in differing |-> <<Lookup(l, k), Lookup(r, k)>>]
  BY <1>5, <1>9
<1>. QED
  BY <1>8, <1>10 DEF l, r

\* The difference of two collections is what each has alone.
LEMMA CollectionsTrue ==
    ASSUME IInv, Idle, NEW h \in Live, NEW other \in Live, NEW unit \in Value,
           IsCollection(h, unit), IsCollection(other, unit)
    PROVE  CollectionDifference(h, other) = <<Items(h) \ Items(other), Items(other) \ Items(h)>>
<1> DEFINE l(k) == Lookup(root[h], k)
           r(k) == Lookup(root[other], k)
           differing == { k \in Key : l(k) # r(k) }
           difference == Difference(h, other)
           first == { k \in DOMAIN difference : difference[k][1] # Nothing }
<1>1. difference = [k \in differing |-> <<l(k), r(k)>>]
  BY DifferenceTrue
<1>2. /\ Items(h) = { k \in Key : l(k) # Nothing } /\ Items(other) = { k \in Key : r(k) # Nothing }
      /\ \A k \in Items(h) : l(k) = unit
      /\ \A k \in Items(other) : r(k) = unit
  BY DEF Items, IsCollection
<1>3. CollectionDifference(h, other) = <<first, DOMAIN difference \ first>>
  BY DEF CollectionDifference
<1> HIDE DEF l, r, difference
<1>4. DOMAIN difference = differing /\ \A k \in differing : difference[k][1] = l(k)
  BY <1>1
<1>5. first = Items(h) \ Items(other)
  BY <1>2, <1>4, NothingAssumption
<1>6. DOMAIN difference \ first = Items(other) \ Items(h)
  BY <1>2, <1>4, <1>5, NothingAssumption
<1>. QED
  BY <1>3, <1>5, <1>6

\* The difference of two tables has exactly the keys they differ on, with both
\* values, though the walk skips what the trees share, goes on in one tree where
\* the other has ended, and meets one record at two depths; it never comes to a
\* label it does not find.  The difference of collections is what each has alone.
THEOREM DifferencesTrue == Spec => []DiffTrue
<1>1. ASSUME IInv
      PROVE  DiffTrue
  <2>1. SUFFICES ASSUME Idle, NEW h \in Live, NEW other \in Live
                 PROVE  LET holds(k) == <<Lookup(root[h], k), Lookup(root[other], k)>>
                        IN  Difference(h, other) =
                               [k \in { k \in Key : holds(k)[1] # holds(k)[2] } |-> holds(k)]
    BY <1>1, CollectionsTrue DEF DiffTrue
  <2> DEFINE holds(k) == <<Lookup(root[h], k), Lookup(root[other], k)>>
  <2>2. { k \in Key : holds(k)[1] # holds(k)[2] }
           = { k \in Key : Lookup(root[h], k) # Lookup(root[other], k) }
    OBVIOUS
  <2>. QED
    BY <1>1, <2>1, <2>2, DifferenceTrue
<1>. QED
  BY <1>1, Invariant, PTL

-----------------------------------------------------------------------------
(***************************************************************************)
(* Exports.  The maps are those of module MapNodes; what its recursions    *)
(* are for one node, and then what is exported of one subtree.             *)
(***************************************************************************)
\* The nodes of a map, and their hashes, at a depth.
MapHashStep(none, depth, beneath) ==
    {M!Empty} \cup M!Leaves \cup IF depth = PathLength THEN {} ELSE M!InternalHashes(beneath)

MapHashRecursion == INSTANCE Recursion WITH Top <- PathLength, Step <- MapHashStep

MapNodeStep(none, depth, beneath) ==
    {M!Empty} \cup M!Leaves \cup [kind : {"stub"}, hash : M!HashAt[depth]] \cup
        IF depth = PathLength THEN {} ELSE M!Internals(M!HashAt[depth + 1], beneath)

MapNodeRecursion == INSTANCE Recursion WITH Top <- PathLength, Step <- MapNodeStep

\* The levels of a tree and of a map are the same.
LEMMA MapLevels ==
    /\ PathLength \in Nat /\ Level = 0..PathLength /\ M!Level = Level
    /\ PathLength \in Level /\ 0 \in Level
    /\ \A depth \in Level : depth # PathLength => depth + 1 \in Level
  BY TreeAssumption DEF Level, M!Level

\* What is a hash at a depth.
LEMMA MapHashes ==
    ASSUME NEW depth \in Level
    PROVE  /\ M!Empty \in M!HashAt[depth]
           /\ \A k \in Key, v \in Value : M!Leaf(k, v) \in M!HashAt[depth]
           /\ depth # PathLength =>
                \A left, right \in M!HashAt[depth + 1] :
                    /\ M!InternalHash(left, right) \in M!InternalHashes(M!HashAt[depth + 1])
                    /\ M!InternalHash(left, right) \in M!HashAt[depth]
<1>1. \A x, y : MapHashStep(0, PathLength, x) = MapHashStep(0, PathLength, y)
  BY DEF MapHashStep
<1>2. \E f : f = [d \in Level |-> MapHashStep(0, d, f[d + 1])]
  BY <1>1, MapLevels, MapHashRecursion!Exists
<1>3. M!HashAt = [d \in Level |-> MapHashStep(0, d, M!HashAt[d + 1])]
  BY <1>2, MapLevels DEF M!HashAt, MapHashStep
<1>4. M!HashAt[depth] = MapHashStep(0, depth, M!HashAt[depth + 1])
  BY <1>3
<1>5. \A k \in Key, v \in Value : M!Leaf(k, v) \in M!Leaves
  BY DEF M!Leaf, M!Leaves
<1>6. \A left, right \in M!HashAt[depth + 1] :
         M!InternalHash(left, right) \in M!InternalHashes(M!HashAt[depth + 1])
  BY DEF M!InternalHash, M!InternalHashes
<1>. QED
  BY <1>4, <1>5, <1>6 DEF MapHashStep

\* The nodes at a depth, by those one level below.
LEMMA MapNodeIs ==
    ASSUME NEW depth \in Level
    PROVE  M!NodeAt[depth] = MapNodeStep(0, depth, M!NodeAt[depth + 1])
<1>1. \A x, y : MapNodeStep(0, PathLength, x) = MapNodeStep(0, PathLength, y)
  BY DEF MapNodeStep
<1>2. \E f : f = [d \in Level |-> MapNodeStep(0, d, f[d + 1])]
  BY <1>1, MapLevels, MapNodeRecursion!Exists
<1>3. M!NodeAt = [d \in Level |-> MapNodeStep(0, d, M!NodeAt[d + 1])]
  BY <1>2, MapLevels DEF M!NodeAt, MapNodeStep
<1>. QED
  BY <1>3

\* What is a node at a depth.
LEMMA MapNodes ==
    ASSUME NEW depth \in Level
    PROVE  /\ M!Empty \in M!NodeAt[depth]
           /\ \A k \in Key, v \in Value : M!Leaf(k, v) \in M!NodeAt[depth]
           /\ \A hash \in M!HashAt[depth] : M!Stub(hash) \in M!NodeAt[depth]
           /\ depth # PathLength =>
                \A hash \in M!InternalHashes(M!HashAt[depth + 1]),
                   left \in M!NodeAt[depth + 1], right \in M!NodeAt[depth + 1] :
                        M!Raw(hash, left, right) \in M!NodeAt[depth]
<1>1. M!NodeAt[depth] = MapNodeStep(0, depth, M!NodeAt[depth + 1])
  BY MapNodeIs
<1>2. \A k \in Key, v \in Value : M!Leaf(k, v) \in M!Leaves
  BY DEF M!Leaf, M!Leaves
<1>3. \A hash \in M!HashAt[depth] : M!Stub(hash) \in [kind : {"stub"}, hash : M!HashAt[depth]]
  BY DEF M!Stub
<1>4. \A hash \in M!InternalHashes(M!HashAt[depth + 1]), left \in M!NodeAt[depth + 1],
         right \in M!NodeAt[depth + 1] :
            M!Raw(hash, left, right) \in M!Internals(M!HashAt[depth + 1], M!NodeAt[depth + 1])
  BY DEF M!Raw, M!Internals
<1>. QED
  BY <1>1, <1>2, <1>3, <1>4 DEF MapNodeStep

\* At the last level no node is internal; and the kinds exclude each other.
LEMMA MapEnds ==
    ASSUME NEW n \in M!NodeAt[PathLength]
    PROVE  ~M!Is(n, "internal") /\ (M!Is(n, "empty") \/ M!Is(n, "leaf") \/ M!Is(n, "stub"))
<1>1. n \in {M!Empty} \/ n \in M!Leaves \/ n \in [kind : {"stub"}, hash : M!HashAt[PathLength]]
  BY MapNodeIs, MapLevels DEF MapNodeStep
<1>. QED
  BY <1>1 DEF M!Is, M!Empty, M!Leaves

MapReadNode(k, depth, beneath, n) ==
    CASE M!Is(n, "empty") -> Nothing
      [] M!Is(n, "leaf") -> IF M!Reaches(k, n) THEN n.value ELSE Nothing
      [] M!Is(n, "stub") -> Unknown
      [] M!Is(n, "internal") ->
            beneath[IF M!Side(k, depth) = "L" THEN n.left ELSE n.right]

MapReadStep(k, depth, beneath) ==
    [n \in M!NodeAt[depth] |-> MapReadNode(k, depth, beneath, n)]

MapReadRecursion == INSTANCE Recursion WITH Top <- PathLength, Step <- MapReadStep

\* What a node says of a key, by what its half says.
LEMMA MapReadIs ==
    ASSUME NEW k, NEW depth \in Level, NEW n \in M!NodeAt[depth]
    PROVE  M!Read(k)[depth][n] = MapReadNode(k, depth, M!Read(k)[depth + 1], n)
<1>1. ASSUME NEW x, NEW y
      PROVE  MapReadStep(k, PathLength, x) = MapReadStep(k, PathLength, y)
  <2>1. ASSUME NEW end \in M!NodeAt[PathLength]
        PROVE  MapReadNode(k, PathLength, x, end) = MapReadNode(k, PathLength, y, end)
    BY MapEnds DEF MapReadNode, M!Is
  <2>. QED
    BY <2>1 DEF MapReadStep
<1>2. \E f : f = [d \in Level |-> MapReadStep(k, d, f[d + 1])]
  BY <1>1, MapLevels, MapReadRecursion!Exists
<1>3. M!Read(k) = [d \in Level |-> MapReadStep(k, d, M!Read(k)[d + 1])]
  BY <1>2, MapLevels DEF M!Read, MapReadStep, MapReadNode
<1>4. M!Read(k)[depth] = MapReadStep(k, depth, M!Read(k)[depth + 1])
  BY <1>3
<1>. QED
  BY <1>4 DEF MapReadStep

MapCheckNode(beneath, location, n) ==
    CASE M!Is(n, "internal") ->
            /\ M!CompactInternal(n)
            /\ beneath[Append(location, "L")][n.left]
            /\ beneath[Append(location, "R")][n.right]
      [] M!Is(n, "leaf") -> M!OnPath(n, location)
      [] OTHER -> TRUE

MapCheckStep(none, depth, beneath) ==
    [location \in M!Location(depth) |-> [n \in M!NodeAt[depth] |->
        MapCheckNode(beneath, location, n)]]

MapCheckRecursion == INSTANCE Recursion WITH Top <- PathLength, Step <- MapCheckStep

\* Whether a node passes the check, by whether its halves do.
LEMMA MapCheckIs ==
    ASSUME NEW depth \in Level, NEW location \in LocationsAt(depth), NEW n \in M!NodeAt[depth]
    PROVE  M!Checking[depth][location][n] = MapCheckNode(M!Checking[depth + 1], location, n)
<1>1. ASSUME NEW x, NEW y
      PROVE  MapCheckStep(0, PathLength, x) = MapCheckStep(0, PathLength, y)
  <2>1. ASSUME NEW end \in M!NodeAt[PathLength], NEW l
        PROVE  MapCheckNode(x, l, end) = MapCheckNode(y, l, end)
    BY MapEnds DEF MapCheckNode
  <2>. QED
    BY <2>1 DEF MapCheckStep
<1>2. \E f : f = [d \in M!Level |-> MapCheckStep(0, d, f[d + 1])]
  BY <1>1, MapLevels, MapCheckRecursion!Exists
<1>3. M!Checking = [d \in M!Level |-> MapCheckStep(0, d, M!Checking[d + 1])]
  BY <1>2 DEF M!Checking, MapCheckStep, MapCheckNode
<1>4. M!Checking[depth] = MapCheckStep(0, depth, M!Checking[depth + 1])
  BY <1>3, MapLevels
<1>5. location \in M!Location(depth)
  BY DEF LocationsAt, Direction, M!Location
<1>. QED
  BY <1>4, <1>5 DEF MapCheckStep

MapDeserializeNode(beneath, n) ==
    IF M!Is(n, "internal") THEN M!Internal(beneath[n.left], beneath[n.right]) ELSE n

MapDeserializeStep(none, depth, beneath) ==
    [n \in M!NodeAt[depth] |-> MapDeserializeNode(beneath, n)]

MapDeserializeRecursion == INSTANCE Recursion WITH Top <- PathLength, Step <- MapDeserializeStep

\* A node that has travelled, by its halves that have.
LEMMA MapDeserializeIs ==
    ASSUME NEW depth \in Level, NEW n \in M!NodeAt[depth]
    PROVE  M!Deserializing[depth][n] = MapDeserializeNode(M!Deserializing[depth + 1], n)
<1>1. ASSUME NEW x, NEW y
      PROVE  MapDeserializeStep(0, PathLength, x) = MapDeserializeStep(0, PathLength, y)
  <2>1. ASSUME NEW end \in M!NodeAt[PathLength]
        PROVE  MapDeserializeNode(x, end) = MapDeserializeNode(y, end)
    BY MapEnds DEF MapDeserializeNode
  <2>. QED
    BY <2>1 DEF MapDeserializeStep
<1>2. \E f : f = [d \in M!Level |-> MapDeserializeStep(0, d, f[d + 1])]
  BY <1>1, MapLevels, MapDeserializeRecursion!Exists
<1>3. M!Deserializing = [d \in M!Level |-> MapDeserializeStep(0, d, M!Deserializing[d + 1])]
  BY <1>2 DEF M!Deserializing, MapDeserializeStep, MapDeserializeNode
<1>4. M!Deserializing[depth] = MapDeserializeStep(0, depth, M!Deserializing[depth + 1])
  BY <1>3, MapLevels
<1>. QED
  BY <1>4 DEF MapDeserializeStep

HashNode(depth, beneath, label) ==
    CASE IsInternal(label) ->
            IF depth = PathLength THEN Panicked
            ELSE M!InternalHash(beneath[label.left], beneath[label.right])
      [] IsLeaf(label) -> M!Leaf(label.key, label.value)
      [] OTHER -> M!Empty

HashStep(none, depth, beneath) == [label \in LabelsMet |-> HashNode(depth, beneath, label)]

HashRecursion == INSTANCE Recursion WITH Top <- PathLength, Step <- HashStep

\* The hash of a label, by those of its children.
LEMMA HashOfIs ==
    ASSUME NEW depth \in Level, NEW label \in LabelsMet
    PROVE  HashOf[depth][label] = HashNode(depth, HashOf[depth + 1], label)
<1>1. ASSUME NEW x, NEW y
      PROVE  HashStep(0, PathLength, x) = HashStep(0, PathLength, y)
  BY DEF HashStep, HashNode
<1>2. \E f : f = [d \in Level |-> HashStep(0, d, f[d + 1])]
  BY <1>1, MapLevels, HashRecursion!Exists
<1>3. HashOf = [d \in Level |-> HashStep(0, d, HashOf[d + 1])]
  BY <1>2 DEF HashOf, HashStep, HashNode
<1>4. HashOf[depth] = HashStep(0, depth, HashOf[depth + 1])
  BY <1>3
<1>. QED
  BY <1>4 DEF HashStep

ExportNode(depth, beneath, location, label, keys) ==
    CASE ~Found(location, label) -> Panicked
      [] Found(location, label) /\ IsInternal(label) /\ keys # {} ->
            LET below(d) == beneath[Append(location, d)][Child(label, d)]
                                [Half(location, keys, d)]
            IN  IF depth = PathLength \/ Panicked \in {below("L"), below("R")} THEN Panicked
                ELSE M!Raw(HashOf[depth][label], below("L"), below("R"))
      [] Found(location, label) /\ ExportsLeaf(label, keys) -> M!Leaf(label.key, label.value)
      [] label = Empty -> M!Empty
      [] OTHER -> M!Stub(HashOf[depth][label])

ExportStep(none, depth, beneath) ==
    [location \in LocationsAt(depth) |-> [label \in LabelsMet |-> [keys \in SUBSET Key |->
        ExportNode(depth, beneath, location, label, keys)]]]

ExportRecursion == INSTANCE Recursion WITH Top <- PathLength, Step <- ExportStep

\* The export of a label, by those of its children.
LEMMA ExportsIs ==
    ASSUME NEW depth \in Level, NEW location \in LocationsAt(depth), NEW label \in LabelsMet,
           NEW keys \in SUBSET Key
    PROVE  Exports[depth][location][label][keys]
             = ExportNode(depth, Exports[depth + 1], location, label, keys)
<1>1. ASSUME NEW x, NEW y
      PROVE  ExportStep(0, PathLength, x) = ExportStep(0, PathLength, y)
  BY DEF ExportStep, ExportNode
<1>2. \E f : f = [d \in Level |-> ExportStep(0, d, f[d + 1])]
  BY <1>1, MapLevels, ExportRecursion!Exists
<1>3. Exports = [d \in Level |-> ExportStep(0, d, Exports[d + 1])]
  BY <1>2 DEF Exports, ExportStep, ExportNode
<1>4. Exports[depth] = ExportStep(0, depth, Exports[depth + 1])
  BY <1>3
<1>. QED
  BY <1>4 DEF ExportStep

\* A child of an internal node that a walk is at.
LEMMA WalkedBelow ==
    ASSUME IInv, NEW p \in Places, NEW label, Walked(label, p), IsInternal(label)
    PROVE  /\ Len(p) < PathLength /\ Left(p) \in Places /\ Right(p) \in Places
           /\ Len(Left(p)) = Len(p) + 1 /\ Len(Right(p)) = Len(p) + 1
           /\ Walked(label.left, Left(p)) /\ Walked(label.right, Right(p))
           /\ label = Merged(Scope(p), label.left, label.right)
<1>1. /\ Len(p) < PathLength /\ label = Merged(Scope(p), label.left, label.right)
      /\ label.left # NoLabel /\ label.right # NoLabel
  <2>1. /\ Len(p) < PathLength /\ label = Merged(Scope(p), label.left, label.right)
        /\ Placed(label.left, Left(p)) /\ Placed(label.right, Right(p))
    BY PlacedKinds DEF Walked
  <2>. QED
    BY <2>1, PlacedKinds
<1>2. "L" \in Direction /\ "R" \in Direction
  BY DEF Direction
<1>3. Seen(label.left, Left(p)) /\ Seen(label.right, Right(p))
  <2>1. Seen(Below(label, "L"), Append(p, "L")) /\ Seen(Below(label, "R"), Append(p, "R"))
    BY <1>1, <1>2, SeenBelow DEF Seen
  <2>. QED
    BY <2>1, Halves DEF Below, Child
<1>. QED
  BY <1>1, <1>3, HalfFacts DEF Seen, None

\* The hash of a label is that of a map's node at its depth.
HashFits(label, p) == HashOf[Len(p)][label] \in M!HashAt[Len(p)]

\* The hash of a label, if those of its children fit.
LEMMA HashStepFits ==
    ASSUME IInv, NEW p \in Places, NEW label, Walked(label, p),
           IsInternal(label) => HashFits(label.left, Left(p)) /\ HashFits(label.right, Right(p))
    PROVE  /\ HashFits(label, p)
           /\ IsInternal(label) =>
                HashOf[Len(p)][label] =
                    M!InternalHash(HashOf[Len(p) + 1][label.left], HashOf[Len(p) + 1][label.right])
           /\ IsLeaf(label) => HashOf[Len(p)][label] = M!Leaf(label.key, label.value)
           /\ label = Empty => HashOf[Len(p)][label] = M!Empty
<1>1. Len(p) \in Level /\ label \in LabelsMet
  BY PlaceAt, SeenFound DEF Seen
<1>2. HashOf[Len(p)][label] = HashNode(Len(p), HashOf[Len(p) + 1], label)
  BY <1>1, HashOfIs
<1>3. CASE IsInternal(label)
  <2>1. /\ Len(p) < PathLength /\ Len(Left(p)) = Len(p) + 1 /\ Len(Right(p)) = Len(p) + 1
        /\ Len(p) # PathLength
    BY <1>3, WalkedBelow, PlaceSeq
  <2>2. HashOf[Len(p)][label] =
           M!InternalHash(HashOf[Len(p) + 1][label.left], HashOf[Len(p) + 1][label.right])
    BY <1>2, <1>3, <2>1, InternalNot DEF HashNode
  <2>. QED
    BY <1>1, <1>3, <2>1, <2>2, InternalNot, MapHashes DEF HashFits
<1>4. CASE IsLeaf(label) /\ ~IsInternal(label)
  <2>1. label.key \in Key /\ label.value \in Value /\ label # Empty
    BY <1>4, PlacedKinds, Labels DEF Walked
  <2>2. HashOf[Len(p)][label] = M!Leaf(label.key, label.value)
    BY <1>2, <1>4 DEF HashNode
  <2>. QED
    BY <1>1, <1>4, <2>1, <2>2, MapHashes DEF HashFits
<1>5. CASE label = Empty
  <2>1. ~IsInternal(label) /\ ~IsLeaf(label)
    BY <1>5, Labels
  <2>2. HashOf[Len(p)][label] = M!Empty
    BY <1>2, <2>1 DEF HashNode
  <2>. QED
    BY <1>1, <2>1, <2>2, MapHashes DEF HashFits
<1>. QED
  BY <1>3, <1>4, <1>5, PlacedKinds DEF Walked

\* Every label a walk is at has a hash of its depth.
LEMMA HashesFit ==
    ASSUME IInv, NEW p \in Places, NEW label, Walked(label, p)
    PROVE  HashFits(label, p)
<1> DEFINE S == { q \in Places : \A l : Walked(l, q) => HashFits(l, q) }
<1>1. ASSUME NEW q \in Places, Len(q) < PathLength => Left(q) \in S /\ Right(q) \in S
      PROVE  q \in S
  <2>1. ASSUME NEW l, Walked(l, q)
        PROVE  HashFits(l, q)
    <3>1. ASSUME IsInternal(l)
          PROVE  HashFits(l.left, Left(q)) /\ HashFits(l.right, Right(q))
      BY <1>1, <2>1, <3>1, WalkedBelow
    <3>. QED
      BY <2>1, <3>1, HashStepFits
  <2>. QED
    BY <2>1
<1> HIDE DEF S
<1>2. Places \subseteq S
  BY <1>1, PlacesFromBelow
<1>. QED
  BY <1>2 DEF S

\* What tells the kind of a map's node, and what its hash is.
LEMMA MapKinds ==
    /\ M!Is(M!Empty, "empty") /\ ~M!Is(M!Empty, "leaf") /\ ~M!Is(M!Empty, "stub")
    /\ ~M!Is(M!Empty, "internal") /\ M!Hash(M!Empty) = M!Empty
    /\ \A k, v : LET leaf == M!Leaf(k, v)
                 IN  /\ M!Is(leaf, "leaf") /\ ~M!Is(leaf, "empty") /\ ~M!Is(leaf, "stub")
                     /\ ~M!Is(leaf, "internal") /\ M!Hash(leaf) = leaf
                     /\ leaf.key = k /\ leaf.value = v
    /\ \A h : LET stub == M!Stub(h)
              IN  /\ M!Is(stub, "stub") /\ ~M!Is(stub, "empty") /\ ~M!Is(stub, "leaf")
                  /\ ~M!Is(stub, "internal") /\ M!Hash(stub) = h
    /\ \A h, l, r : LET node == M!Raw(h, l, r)
                    IN  /\ M!Is(node, "internal") /\ ~M!Is(node, "empty") /\ ~M!Is(node, "leaf")
                        /\ ~M!Is(node, "stub") /\ M!Hash(node) = h
                        /\ node.left = l /\ node.right = r
  BY DEF M!Is, M!Empty, M!Leaf, M!Stub, M!Raw, M!Hash

\* What an exported node says of a key.
Says(answer, label, p, k, keys) ==
    \/ answer = Unknown /\ k \notin keys
    \/ answer \in Value /\ Finds(label, p, k, answer)
    \/ answer = Nothing /\ \A v \in Value : ~Finds(label, p, k, v)

ExportAt(p, label, keys) == Exports[Len(p)][p][label][keys]

\* What an exported node is to be.
Shows(map, p, label, keys) ==
    /\ map \in M!NodeAt[Len(p)]
    /\ M!Hash(map) = HashOf[Len(p)][label]
    /\ M!Hash(M!Deserializing[Len(p)][map]) = HashOf[Len(p)][label]
    /\ M!Checking[Len(p)][p][map]
    /\ M!Is(map, "empty") => label = Empty
    /\ M!Is(map, "leaf") => IsLeaf(label)
    /\ \A k \in Key : Holds(p, k) => Says(M!Read(k)[Len(p)][map], label, p, k, keys)

\* A map's node that is not internal.
LEMMA EndShows ==
    ASSUME NEW p \in Places, NEW label, NEW keys, NEW map \in M!NodeAt[Len(p)],
           ~M!Is(map, "internal"), M!Hash(map) = HashOf[Len(p)][label],
           M!Is(map, "leaf") => M!OnPath(map, p),
           M!Is(map, "empty") => label = Empty,
           M!Is(map, "leaf") => IsLeaf(label),
           \A k \in Key : Holds(p, k) => Says(MapReadNode(k, Len(p), M!Read(k)[Len(p) + 1], map), label, p, k, keys)
    PROVE  Shows(map, p, label, keys)
<1>1. Len(p) \in Level /\ p \in LocationsAt(Len(p))
  BY PlaceAt
<1>2. M!Deserializing[Len(p)][map] = map
  BY <1>1, MapDeserializeIs DEF MapDeserializeNode
<1>3. M!Checking[Len(p)][p][map]
  BY <1>1, MapCheckIs DEF MapCheckNode
<1>4. \A k \in Key : M!Read(k)[Len(p)][map] = MapReadNode(k, Len(p), M!Read(k)[Len(p) + 1], map)
  BY <1>1, MapReadIs
<1>. QED
  BY <1>2, <1>3, <1>4 DEF Shows

\* Nothing to export, or a leaf, or a hash in place of what no key asks for.
LEMMA ExportsEnd ==
    ASSUME IInv, NEW p \in Places, NEW label, Walked(label, p), NEW keys \in SUBSET Key,
           ~IsInternal(label) \/ keys = {}
    PROVE  Shows(ExportAt(p, label, keys), p, label, keys)
<1> DEFINE map == ExportAt(p, label, keys)
           hash == HashOf[Len(p)][label]
           read(k) == MapReadNode(k, Len(p), M!Read(k)[Len(p) + 1], map)
<1>1. Len(p) \in Level /\ p \in LocationsAt(Len(p)) /\ label \in LabelsMet /\ Found(p, label)
  <2>1. label # None
    BY PlacedKinds DEF Walked, None
  <2>. QED
    BY <2>1, PlaceAt, SeenFound DEF Seen
<1>2. map = ExportNode(Len(p), Exports[Len(p) + 1], p, label, keys)
  BY <1>1, ExportsIs DEF ExportAt
<1>3. HashFits(label, p) /\ hash \in M!HashAt[Len(p)]
  BY HashesFit DEF HashFits
<1>4. \/ label = Empty
      \/ IsLeaf(label) /\ ~IsInternal(label) /\ label # Empty
      \/ IsInternal(label) /\ ~IsLeaf(label) /\ label # Empty
  BY PlacedKinds, Labels, InternalNot DEF Walked
<1>5. /\ IsLeaf(label) => hash = M!Leaf(label.key, label.value)
      /\ label = Empty => hash = M!Empty
  <2>1. IsInternal(label) => HashFits(label.left, Left(p)) /\ HashFits(label.right, Right(p))
    BY WalkedBelow, HashesFit
  <2>. QED
    BY <2>1, HashStepFits
<1>6. CASE label = Empty
  <2>1. map = M!Empty
    BY <1>1, <1>2, <1>6, Labels DEF ExportNode, ExportsLeaf
  <2>2. ASSUME NEW k \in Key
        PROVE  Says(read(k), label, p, k, keys)
    <3>1. read(k) = Nothing
      BY <2>1, MapKinds DEF MapReadNode
    <3>2. \A v \in Value : ~Finds(label, p, k, v)
      BY <1>6, Labels, FindsHere
    <3>. QED
      BY <3>1, <3>2 DEF Says
  <2>3. map \in M!NodeAt[Len(p)] /\ ~M!Is(map, "internal") /\ ~M!Is(map, "leaf") /\ M!Hash(map) = hash
    BY <1>1, <1>5, <1>6, <2>1, MapNodes, MapKinds
  <2> HIDE DEF map, hash
  <2>. QED
    BY <1>6, <2>2, <2>3, EndShows DEF hash, map
<1>7. CASE IsLeaf(label) /\ label # Empty /\ ~IsInternal(label) /\ keys # {}
  <2>1. /\ label.key \in Key /\ label.value \in Value /\ Holds(p, label.key)
    BY <1>7, PlacedKinds DEF Walked
  <2>2. map = M!Leaf(label.key, label.value)
    BY <1>1, <1>2, <1>7 DEF ExportNode, ExportsLeaf
  <2>3. ASSUME NEW k \in Key
        PROVE  Says(read(k), label, p, k, keys)
    <3>1. read(k) = IF label.key = k THEN label.value ELSE Nothing
      BY <2>2, MapKinds DEF MapReadNode, M!Reaches
    <3>2. \A v : Finds(label, p, k, v) <=> label.key = k /\ label.value = v
      BY <1>7, FindsHere
    <3>. QED
      BY <2>1, <3>1, <3>2 DEF Says
  <2>4. /\ map \in M!NodeAt[Len(p)] /\ ~M!Is(map, "internal") /\ ~M!Is(map, "empty")
        /\ M!Hash(map) = hash /\ map.key = label.key
    BY <1>1, <1>5, <1>7, <2>1, <2>2, MapNodes, MapKinds
  <2>5. M!OnPath(map, p)
    <3>1. p = SubSeq(p, 1, Len(p)) /\ p \in Seq(Direction) /\ Path[label.key] \in Seq(Direction)
      BY <2>1, PlaceSeq, PathPlace
    <3>. QED
      BY <2>1, <2>4, <3>1 DEF Holds, IsPrefix, M!OnPath
  <2> HIDE DEF map, hash
  <2>. QED
    BY <1>7, <2>3, <2>4, <2>5, EndShows DEF hash, map
<1>8. CASE label # Empty /\ keys = {}
  <2>1. map = M!Stub(hash)
    BY <1>1, <1>2, <1>8 DEF ExportNode, ExportsLeaf
  <2>2. ASSUME NEW k \in Key
        PROVE  Says(read(k), label, p, k, keys)
    <3>1. read(k) = Unknown
      BY <2>1, MapKinds DEF MapReadNode
    <3>. QED
      BY <1>8, <3>1 DEF Says
  <2>3. /\ map \in M!NodeAt[Len(p)] /\ ~M!Is(map, "internal") /\ ~M!Is(map, "leaf")
        /\ ~M!Is(map, "empty") /\ M!Hash(map) = hash
    BY <1>1, <1>3, <2>1, MapNodes, MapKinds
  <2> HIDE DEF map, hash
  <2>. QED
    BY <2>2, <2>3, EndShows DEF hash, map
<1>. QED
  BY <1>4, <1>6, <1>7, <1>8

\* An internal node that some key asks for, if its halves are exported right.
LEMMA ExportsBoth ==
    ASSUME IInv, NEW p \in Places, NEW label, Walked(label, p), NEW keys \in SUBSET Key,
           IsInternal(label), keys # {},
           Shows(ExportAt(Left(p), label.left, Half(p, keys, "L")), Left(p), label.left, Half(p, keys, "L")),
           Shows(ExportAt(Right(p), label.right, Half(p, keys, "R")), Right(p), label.right, Half(p, keys, "R"))
    PROVE  Shows(ExportAt(p, label, keys), p, label, keys)
<1> DEFINE depth == Len(p)
           map == ExportAt(p, label, keys)
           hash == HashOf[depth][label]
           keysL == Half(p, keys, "L")
           keysR == Half(p, keys, "R")
           left == ExportAt(Left(p), label.left, keysL)
           right == ExportAt(Right(p), label.right, keysR)
           hashL == HashOf[depth + 1][label.left]
           hashR == HashOf[depth + 1][label.right]
<1>1. depth \in Level /\ p \in LocationsAt(depth) /\ label \in LabelsMet /\ Found(p, label)
  <2>1. label # None
    BY PlacedKinds DEF Walked, None
  <2>. QED
    BY <2>1, PlaceAt, SeenFound DEF Seen
<1>2. /\ depth # PathLength /\ depth < PathLength /\ depth + 1 \in Level
      /\ Left(p) \in Places /\ Right(p) \in Places
      /\ Len(Left(p)) = depth + 1 /\ Len(Right(p)) = depth + 1
      /\ Walked(label.left, Left(p)) /\ Walked(label.right, Right(p))
      /\ label = Merged(Scope(p), label.left, label.right)
  BY <1>1, WalkedBelow, PlaceSeq, MapLevels
<1>3. /\ Left(p) = Append(p, "L") /\ Right(p) = Append(p, "R")
      /\ Child(label, "L") = label.left /\ Child(label, "R") = label.right
  BY DEF Left, Right, Child
<1>4. /\ left = Exports[depth + 1][Append(p, "L")][Child(label, "L")][Half(p, keys, "L")]
      /\ right = Exports[depth + 1][Append(p, "R")][Child(label, "R")][Half(p, keys, "R")]
  BY <1>2, <1>3 DEF ExportAt
<1>5. /\ left \in M!NodeAt[depth + 1] /\ right \in M!NodeAt[depth + 1]
      /\ M!Hash(left) = hashL /\ M!Hash(right) = hashR
      /\ M!Hash(M!Deserializing[depth + 1][left]) = hashL
      /\ M!Hash(M!Deserializing[depth + 1][right]) = hashR
      /\ M!Checking[depth + 1][Append(p, "L")][left]
      /\ M!Checking[depth + 1][Append(p, "R")][right]
      /\ M!Is(left, "empty") => label.left = Empty
      /\ M!Is(right, "empty") => label.right = Empty
      /\ M!Is(left, "leaf") => IsLeaf(label.left)
      /\ M!Is(right, "leaf") => IsLeaf(label.right)
  BY <1>2, <1>3 DEF Shows
<1>6. \A k \in Key :
         /\ Holds(Left(p), k) => Says(M!Read(k)[depth + 1][left], label.left, Left(p), k, keysL)
         /\ Holds(Right(p), k) => Says(M!Read(k)[depth + 1][right], label.right, Right(p), k, keysR)
  BY <1>2 DEF Shows
<1>7. hash = M!InternalHash(hashL, hashR) /\ hash \in M!InternalHashes(M!HashAt[depth + 1])
  <2>1. HashFits(label.left, Left(p)) /\ HashFits(label.right, Right(p))
    BY <1>2, HashesFit
  <2>2. hash = M!InternalHash(hashL, hashR)
    BY <2>1, HashStepFits
  <2>3. hashL \in M!HashAt[depth + 1] /\ hashR \in M!HashAt[depth + 1]
    BY <1>2, <2>1 DEF HashFits
  <2>. QED
    BY <1>1, <1>2, <2>2, <2>3, MapHashes
<1>8. left # Panicked /\ right # Panicked
  BY <1>2, <1>5, QueriesAssumption
<1>9. map = M!Raw(hash, left, right)
  <2>1. map = ExportNode(depth, Exports[depth + 1], p, label, keys)
    BY <1>1, ExportsIs DEF ExportAt
  <2> HIDE DEF map, left, right
  <2>2. ~ExportsLeaf(label, keys) /\ label # Empty
    BY InternalNot DEF ExportsLeaf
  <2>. QED
    BY <1>1, <1>2, <1>4, <1>8, <2>1, <2>2 DEF ExportNode
<1> HIDE DEF map, left, right, hash, hashL, hashR
<1>10. /\ map \in M!NodeAt[depth] /\ M!Hash(map) = hash
       /\ M!Is(map, "internal") /\ ~M!Is(map, "leaf") /\ ~M!Is(map, "empty") /\ ~M!Is(map, "stub")
       /\ map.left = left /\ map.right = right
  BY <1>1, <1>2, <1>5, <1>7, <1>9, MapNodes, MapKinds
<1>11. M!Hash(M!Deserializing[depth][map]) = hash
  <2>1. M!Deserializing[depth][map]
           = M!Internal(M!Deserializing[depth + 1][left], M!Deserializing[depth + 1][right])
    BY <1>1, <1>10, MapDeserializeIs DEF MapDeserializeNode
  <2>2. M!Hash(M!Internal(M!Deserializing[depth + 1][left], M!Deserializing[depth + 1][right]))
           = M!InternalHash(hashL, hashR)
    BY <1>5, MapKinds DEF M!Internal
  <2>. QED
    BY <1>7, <2>1, <2>2
<1>12. M!Checking[depth][p][map]
  <2>1. /\ ~(label.left = Empty /\ label.right = Empty)
        /\ ~(label.left = Empty /\ IsLeaf(label.right))
        /\ ~(IsLeaf(label.left) /\ label.right = Empty)
    BY <1>2, Labels, InternalNot DEF Merged
  <2>2. M!CompactInternal(map)
    BY <1>5, <1>10, <2>1 DEF M!CompactInternal
  <2>3. M!Checking[depth][p][map] = MapCheckNode(M!Checking[depth + 1], p, map)
    BY <1>1, <1>10, MapCheckIs
  <2>. QED
    BY <1>5, <1>10, <2>2, <2>3 DEF MapCheckNode
<1>13. ASSUME NEW k \in Key, Holds(p, k)
       PROVE  Says(M!Read(k)[depth][map], label, p, k, keys)
  <2>1. M!Read(k)[depth][map]
           = M!Read(k)[depth + 1][IF Path[k][depth + 1] = "L" THEN left ELSE right]
    BY <1>1, <1>10, MapReadIs DEF MapReadNode, M!Side
  <2>2. /\ k \in keysL <=> k \in keys /\ Holds(Left(p), k)
        /\ k \in keysR <=> k \in keys /\ Holds(Right(p), k)
    BY <1>3 DEF Half
  <2>3. CASE Holds(Left(p), k)
    <3>1. M!Read(k)[depth][map] = M!Read(k)[depth + 1][left]
      BY <1>2, <2>1, <2>3, HoldsHalves
    <3>2. \A v : Finds(label, p, k, v) <=> Finds(label.left, Left(p), k, v)
      BY <1>2, <2>3, FindsHalf
    <3>. QED
      BY <1>6, <2>2, <2>3, <3>1, <3>2 DEF Says
  <2>4. CASE Holds(Right(p), k)
    <3>1. M!Read(k)[depth][map] = M!Read(k)[depth + 1][right]
      BY <1>2, <2>1, <2>4, HoldsHalves
    <3>2. \A v : Finds(label, p, k, v) <=> Finds(label.right, Right(p), k, v)
      BY <1>2, <2>4, FindsHalf
    <3>. QED
      BY <1>6, <2>2, <2>4, <3>1, <3>2 DEF Says
  <2>. QED
    BY <1>2, <1>13, <2>3, <2>4, HalvesHold
<1>. QED
  BY <1>10, <1>11, <1>12, <1>13 DEF Shows, map, hash

\* Every part of an export shows what its subtree has.
LEMMA ExportsShow ==
    ASSUME IInv, NEW p \in Places, NEW label, Walked(label, p), NEW keys \in SUBSET Key
    PROVE  Shows(ExportAt(p, label, keys), p, label, keys)
<1> DEFINE S == { q \in Places : \A l : \A ks \in SUBSET Key :
                    Walked(l, q) => Shows(ExportAt(q, l, ks), q, l, ks) }
<1>1. ASSUME NEW q \in Places, Len(q) < PathLength => Left(q) \in S /\ Right(q) \in S
      PROVE  q \in S
  <2>1. ASSUME NEW l, NEW ks \in SUBSET Key, Walked(l, q)
        PROVE  Shows(ExportAt(q, l, ks), q, l, ks)
    <3>1. CASE ~IsInternal(l) \/ ks = {}
      BY <2>1, <3>1, ExportsEnd
    <3>2. CASE IsInternal(l) /\ ks # {}
      <4>1. Half(q, ks, "L") \in SUBSET Key /\ Half(q, ks, "R") \in SUBSET Key
        BY DEF Half
      <4>2. Walked(l.left, Left(q)) /\ Walked(l.right, Right(q)) /\ Len(q) < PathLength
        BY <2>1, <3>2, WalkedBelow
      <4>. QED
        BY <1>1, <2>1, <3>2, <4>1, <4>2, ExportsBoth
    <3>. QED
      BY <3>1, <3>2
  <2>. QED
    BY <2>1
<1> HIDE DEF S
<1>2. Places \subseteq S
  BY <1>1, PlacesFromBelow
<1>. QED
  BY <1>2 DEF S

\* What a table exports for any keys is a map with the table's commitment, also
\* after it has travelled, that passes the receiver's check and tells of each of
\* the keys what the table holds, of any other the truth or nothing.
THEOREM ExportsTrue == Spec => []ExportTrue
<1>1. ASSUME IInv
      PROVE  ExportTrue
  <2>1. SUFFICES ASSUME Idle, NEW h \in Live, NEW keys \in SUBSET Key
                 PROVE  LET map == Exported(h, keys)
                        IN  /\ map # Panicked
                            /\ M!Hash(map) = Commitment(h)
                            /\ M!Hash(map) = M!Hash(M!Deserialized(map))
                            /\ M!Check(map)
                            /\ \A k \in Key : M!Answer(map, k) \in
                                 {Lookup(root[h], k)} \cup (IF k \in keys THEN {} ELSE {Unknown})
    BY DEF ExportTrue
  <2> DEFINE map == Exported(h, keys)
             label == root[h]
  <2>2. h \in Live \ {caller}
    BY <1>1, <2>1, ApplyAssumption DEF IInv, CallInv, Idle, Live
  <2>3. Walked(label, Root) /\ Placed(label, Root)
    BY <1>1, <2>2, SnapshotRoot DEF IInv, PlacesInv, Walked
  <2>4. map = ExportAt(Root, label, keys) /\ Len(Root) = 0 /\ Root \in Places /\ Root = <<>>
    BY RootPlace DEF Exported, ExportAt, Root
  <2>5. Shows(map, Root, label, keys)
    BY <1>1, <2>3, <2>4, ExportsShow
  <2> HIDE DEF map
  <2>6. map # Panicked
    BY <2>4, <2>5, MapLevels, QueriesAssumption DEF Shows
  <2>7. M!Hash(map) = Commitment(h) /\ M!Hash(map) = M!Hash(M!Deserialized(map)) /\ M!Check(map)
    BY <2>4, <2>5 DEF Shows, Commitment, M!Deserialized, M!Check
  <2>8. ASSUME NEW k \in Key
        PROVE  M!Answer(map, k) \in {Lookup(label, k)} \cup (IF k \in keys THEN {} ELSE {Unknown})
    <3>1. Says(M!Answer(map, k), label, Root, k, keys)
      BY <2>4, <2>5, HoldsRoot DEF Shows, M!Answer
    <3>2. /\ Lookup(label, k) \in Value \cup {Nothing}
          /\ \A v \in Value : Lookup(label, k) = v <=> Finds(label, Root, k, v)
      BY <2>3, LookupFinds
    <3>. QED
      BY <3>1, <3>2 DEF Says
  <2>. QED
    BY <2>6, <2>7, <2>8 DEF map
<1>. QED
  BY <1>1, Invariant, PTL
=============================================================================

---------------------------- MODULE VectorProofs ----------------------------
(***************************************************************************)
(* Proofs about Vector, for vectors of any length and any packing: the     *)
(* layers stay those of a new vector with the same leaves, a proof shows   *)
(* its item and no other, and an old one nothing that is gone.             *)
(***************************************************************************)
EXTENDS Vector, Integers, SequenceTheorems, TLAPS

-----------------------------------------------------------------------------
(***************************************************************************)
(* The recursions.  Each is a function of the naturals, defined by what it *)
(* is for the number before; that there is one is a fact of Recursion.     *)
(***************************************************************************)
TwoToStep(none, k, before) == IF k = 0 THEN 1 ELSE 2 * before

TwoToRecursion == INSTANCE Recursion WITH Top <- 0, Step <- TwoToStep

\* A set that has zero, and with a number the next one, has them all.
LEMMA FromZero ==
    ASSUME NEW S, 0 \in S, \A n \in Nat : n \in S => n + 1 \in S
    PROVE  Nat \subseteq S
BY TwoToRecursion!FromZero

\* The powers of two double.
LEMMA TwoToIs ==
    /\ TwoTo[0] = 1
    /\ \A k \in Nat : TwoTo[k + 1] = 2 * TwoTo[k]
    /\ \A k \in Nat : TwoTo[k] \in Nat /\ TwoTo[k] >= 1
<1>1. \E f : f = [k \in Nat |-> TwoToStep(0, k, f[k - 1])]
  BY TwoToRecursion!ExistsUpward DEF TwoToStep
<1>2. TwoTo = [k \in Nat |-> TwoToStep(0, k, TwoTo[k - 1])]
  BY <1>1 DEF TwoTo, TwoToStep
<1>3. TwoTo[0] = 1
  BY <1>2 DEF TwoToStep
<1>4. ASSUME NEW k \in Nat
      PROVE  TwoTo[k + 1] = 2 * TwoTo[k]
  <2>1. k + 1 \in Nat /\ k + 1 # 0 /\ (k + 1) - 1 = k
    OBVIOUS
  <2>. QED
    BY <1>2, <2>1 DEF TwoToStep
<1> DEFINE S == { k \in Nat : TwoTo[k] \in Nat /\ TwoTo[k] >= 1 }
<1>5. 0 \in S
  BY <1>3
<1>6. \A k \in Nat : k \in S => k + 1 \in S
  BY <1>4
<1>7. Nat \subseteq S
  <2> HIDE DEF S
  <2>. QED
    BY <1>5, <1>6, FromZero
<1>. QED
  BY <1>3, <1>4, <1>7

AboveStep(bottom, n, before) ==
    CASE n = 0 -> bottom[1]
      [] n = 1 -> Pairs(before) \o bottom[2]
      [] OTHER -> Pairs(before)

AboveRecursion == INSTANCE Recursion WITH Top <- 0, Step <- AboveStep

LEMMA AboveIs ==
    ASSUME NEW first, NEW beside
    PROVE  /\ Above(first, beside)[0] = first
           /\ Above(first, beside)[1] = Pairs(first) \o beside
           /\ \A n \in Nat : n >= 1 =>
                Above(first, beside)[n + 1] = Pairs(Above(first, beside)[n])
<1> DEFINE bottom == <<first, beside>>
           layer == Above(first, beside)
<1>1. \A x, y : AboveStep(bottom, 0, x) = AboveStep(bottom, 0, y)
  BY DEF AboveStep
<1>2. \E f : f = [n \in Nat |-> AboveStep(bottom, n, f[n - 1])]
  <2> HIDE DEF bottom
  <2>. QED
    BY <1>1, AboveRecursion!ExistsUpward
<1>3. \A f : [n \in Nat |-> AboveStep(bottom, n, f[n - 1])] =
             [n \in Nat |-> CASE n = 0 -> first
                              [] n = 1 -> Pairs(f[0]) \o beside
                              [] OTHER -> Pairs(f[n - 1])]
  BY DEF AboveStep
<1>4. layer = [n \in Nat |-> AboveStep(bottom, n, layer[n - 1])]
  <2>1. \E f : f = [n \in Nat |-> CASE n = 0 -> first
                                    [] n = 1 -> Pairs(f[0]) \o beside
                                    [] OTHER -> Pairs(f[n - 1])]
    <3>1. PICK f : f = [n \in Nat |-> AboveStep(bottom, n, f[n - 1])]
      BY <1>2
    <3>2. f = [n \in Nat |-> CASE n = 0 -> first
                               [] n = 1 -> Pairs(f[0]) \o beside
                               [] OTHER -> Pairs(f[n - 1])]
      BY <3>1, <1>3
    <3>. QED
      BY <3>2
  <2>2. layer = [n \in Nat |-> CASE n = 0 -> first
                                 [] n = 1 -> Pairs(layer[0]) \o beside
                                 [] OTHER -> Pairs(layer[n - 1])]
    BY <2>1, Zenon DEF Above
  <2> HIDE DEF bottom, layer
  <2>. QED
    BY <1>3, <2>2
<1>5. layer[0] = first
  <2> HIDE DEF layer
  <2>. QED
    BY <1>4 DEF AboveStep
<1>6. layer[1] = Pairs(layer[0]) \o beside
  <2> HIDE DEF layer
  <2>. QED
    BY <1>4 DEF AboveStep
<1>7. ASSUME NEW n \in Nat, n >= 1
      PROVE  layer[n + 1] = Pairs(layer[n])
  <2>1. n + 1 \in Nat /\ n + 1 # 0 /\ n + 1 # 1 /\ (n + 1) - 1 = n
    BY <1>7
  <2> HIDE DEF layer
  <2>. QED
    BY <1>4, <2>1 DEF AboveStep
<1>. QED
  BY <1>5, <1>6, <1>7

AscentStep(index, n, before) == IF n = 0 THEN index ELSE before \div 2

AscentRecursion == INSTANCE Recursion WITH Top <- 0, Step <- AscentStep

LEMMA AscentIs ==
    ASSUME NEW index
    PROVE  /\ Ascent(index)[0] = index
           /\ \A n \in Nat : Ascent(index)[n + 1] = Ascent(index)[n] \div 2
<1> DEFINE at == Ascent(index)
<1>1. \E f : f = [n \in Nat |-> AscentStep(index, n, f[n - 1])]
  BY AscentRecursion!ExistsUpward DEF AscentStep
<1>2. at = [n \in Nat |-> AscentStep(index, n, at[n - 1])]
  BY <1>1 DEF Ascent, AscentStep
<1> HIDE DEF at
<1>3. at[0] = index
  BY <1>2 DEF AscentStep
<1>4. ASSUME NEW n \in Nat
      PROVE  at[n + 1] = at[n] \div 2
  <2>1. n + 1 \in Nat /\ n + 1 # 0 /\ (n + 1) - 1 = n
    OBVIOUS
  <2>. QED
    BY <1>2, <2>1 DEF AscentStep
<1>. QED
  BY <1>3, <1>4 DEF at

FoldedStep(below, n, before) ==
    IF n = 0 THEN below[2] ELSE Parent(below[1][n].direction, before, below[1][n].sibling)

FoldedRecursion == INSTANCE Recursion WITH Top <- 0, Step <- FoldedStep

\* The hashes on the way up a path, with the one at its top.
LEMMA FoldedIs ==
    ASSUME NEW path, NEW hash
    PROVE  \E up : /\ up[0] = hash
                   /\ \A n \in Nat : up[n + 1] =
                        Parent(path[n + 1].direction, up[n], path[n + 1].sibling)
                   /\ Folded(path, hash) = up[Len(path)]
<1> DEFINE below == <<path, hash>>
<1>1. \A x, y : FoldedStep(below, 0, x) = FoldedStep(below, 0, y)
  BY DEF FoldedStep
<1>2. PICK f : f = [n \in Nat |-> FoldedStep(below, n, f[n - 1])]
  <2> HIDE DEF below
  <2>. QED
    BY <1>1, FoldedRecursion!ExistsUpward
<1>3. f = [n \in Nat |->
              IF n = 0 THEN hash ELSE Parent(path[n].direction, f[n - 1], path[n].sibling)]
  BY <1>2 DEF FoldedStep
<1> DEFINE up == CHOOSE g : g = [n \in Nat |->
              IF n = 0 THEN hash ELSE Parent(path[n].direction, g[n - 1], path[n].sibling)]
<1>4. up = [n \in Nat |->
              IF n = 0 THEN hash ELSE Parent(path[n].direction, up[n - 1], path[n].sibling)]
  BY <1>3, Zenon
<1>5. Folded(path, hash) = up[Len(path)]
  BY Zenon DEF Folded
<1> HIDE DEF up
<1>6. up[0] = hash
  BY <1>4
<1>7. ASSUME NEW n \in Nat
      PROVE  up[n + 1] = Parent(path[n + 1].direction, up[n], path[n + 1].sibling)
  <2>1. n + 1 \in Nat /\ n + 1 # 0 /\ (n + 1) - 1 = n
    OBVIOUS
  <2>. QED
    BY <1>4, <2>1
<1>. QED
  BY <1>5, <1>6, <1>7

RaisedStep(where, n, before) ==
    IF n = 0 THEN where[4]
    ELSE Parent(Direction(Ascent(where[3])[n - 1]), before,
                Sibling(where[1][where[2] + n - 1], Ascent(where[3])[n - 1]))

RaisedRecursion == INSTANCE Recursion WITH Top <- 0, Step <- RaisedStep

\* The hashes on the way up from an index of a layer.
Rising(tree, layer, index, new) ==
    \A n \in Nat : new[n + 1] =
        Parent(Direction(Ascent(index)[n]), new[n], Sibling(tree[layer + n], Ascent(index)[n]))

\* The tree with these hashes.
Renewed(tree, layer, index, new) ==
    [l \in DOMAIN tree |->
        IF l < layer THEN tree[l]
        ELSE [tree[l] EXCEPT ![Ascent(index)[l - layer] + 1] = new[l - layer]]]

\* The hashes above a new one, and the tree with them.
LEMMA RaisedIs ==
    ASSUME NEW tree, NEW layer \in Nat, NEW index, NEW hash
    PROVE  \E new : /\ new[0] = hash
                    /\ Rising(tree, layer, index, new)
                    /\ Raised(tree, layer, index, hash) = Renewed(tree, layer, index, new)
<1> DEFINE where == <<tree, layer, index, hash>>
<1>1. \A x, y : RaisedStep(where, 0, x) = RaisedStep(where, 0, y)
  BY DEF RaisedStep
<1>2. PICK f : f = [n \in Nat |-> RaisedStep(where, n, f[n - 1])]
  <2> HIDE DEF where
  <2>. QED
    BY <1>1, RaisedRecursion!ExistsUpward
<1>3. f = [n \in Nat |->
              IF n = 0 THEN hash
              ELSE Parent(Direction(Ascent(index)[n - 1]), f[n - 1],
                          Sibling(tree[layer + n - 1], Ascent(index)[n - 1]))]
  BY <1>2 DEF RaisedStep
<1> DEFINE new == CHOOSE g : g = [n \in Nat |->
              IF n = 0 THEN hash
              ELSE Parent(Direction(Ascent(index)[n - 1]), g[n - 1],
                          Sibling(tree[layer + n - 1], Ascent(index)[n - 1]))]
<1>4. new = [n \in Nat |->
              IF n = 0 THEN hash
              ELSE Parent(Direction(Ascent(index)[n - 1]), new[n - 1],
                          Sibling(tree[layer + n - 1], Ascent(index)[n - 1]))]
  BY <1>3, Zenon
<1>5. Raised(tree, layer, index, hash) = Renewed(tree, layer, index, new)
  BY Zenon DEF Raised, Renewed
<1> HIDE DEF new
<1>6. new[0] = hash
  BY <1>4
<1>7. ASSUME NEW n \in Nat
      PROVE  new[n + 1] = Parent(Direction(Ascent(index)[n]), new[n],
                                 Sibling(tree[layer + n], Ascent(index)[n]))
  <2>1. n + 1 \in Nat /\ n + 1 # 0 /\ (n + 1) - 1 = n /\ layer + (n + 1) - 1 = layer + n
    OBVIOUS
  <2>. QED
    BY <1>4, <2>1
<1>8. Rising(tree, layer, index, new)
  BY <1>7 DEF Rising
<1>. QED
  BY <1>5, <1>6, <1>8

-----------------------------------------------------------------------------
(***************************************************************************)
(* The shape of the tree over n leaves: how many layers there are above    *)
(* the first, and how many nodes are in each.                              *)
(***************************************************************************)
Height(n) == CHOOSE k \in 0..n : TwoTo[k] = NextPowerOfTwo(n)

Size(n, l) == IF l = 1 THEN LastLayer(n) ELSE TwoTo[Height(n) + 1 - l]

\* There is a power of two that is not below a number, but below its double.
LEMMA Powers ==
    ASSUME NEW n \in Nat, n # 0
    PROVE  /\ Height(n) \in 0..n
           /\ NextPowerOfTwo(n) = TwoTo[Height(n)]
           /\ TwoTo[Height(n)] >= n /\ TwoTo[Height(n)] < 2 * n
<1> DEFINE S == { m \in Nat : m # 0 => \E k \in 0..m : TwoTo[k] >= m /\ TwoTo[k] < 2 * m }
<1>1. 0 \in S
  OBVIOUS
<1>2. ASSUME NEW m \in Nat, m \in S
      PROVE  m + 1 \in S
  <2>1. CASE m = 0
    <3>1. 0 \in 0..(m + 1) /\ TwoTo[0] >= m + 1 /\ TwoTo[0] < 2 * (m + 1)
      BY <2>1, TwoToIs
    <3>. QED
      BY <3>1
  <2>2. CASE m # 0
    <3>1. PICK k \in 0..m : TwoTo[k] >= m /\ TwoTo[k] < 2 * m
      BY <1>2, <2>2
    <3>2. /\ k \in Nat /\ k \in 0..(m + 1) /\ k + 1 \in 0..(m + 1)
          /\ TwoTo[k] \in Nat /\ TwoTo[k + 1] = 2 * TwoTo[k]
      BY TwoToIs
    <3>3. CASE TwoTo[k] = m
      <4>1. TwoTo[k + 1] >= m + 1 /\ TwoTo[k + 1] < 2 * (m + 1)
        BY <2>2, <3>2, <3>3
      <4>. QED
        BY <3>2, <4>1
    <3>4. CASE TwoTo[k] # m
      <4>1. TwoTo[k] >= m + 1 /\ TwoTo[k] < 2 * (m + 1)
        BY <3>1, <3>2, <3>4
      <4>. QED
        BY <3>2, <4>1
    <3>. QED
      BY <3>3, <3>4
  <2>. QED
    BY <2>1, <2>2
<1>3. Nat \subseteq S
  <2> HIDE DEF S
  <2>. QED
    BY <1>1, <1>2, FromZero
<1>4. PICK k \in 0..n : TwoTo[k] >= n /\ TwoTo[k] < 2 * n
  BY <1>3
<1>5. TwoTo[k] \in { TwoTo[j] : j \in 0..n }
  OBVIOUS
<1>6. /\ NextPowerOfTwo(n) \in { TwoTo[j] : j \in 0..n }
      /\ NextPowerOfTwo(n) >= n /\ NextPowerOfTwo(n) < 2 * n
  BY <1>4, <1>5 DEF NextPowerOfTwo
<1>7. \E j \in 0..n : TwoTo[j] = NextPowerOfTwo(n)
  BY <1>6
<1>8. Height(n) \in 0..n /\ TwoTo[Height(n)] = NextPowerOfTwo(n)
  BY <1>7 DEF Height
<1>. QED
  BY <1>6, <1>8

\* The first layer is filled in pairs, with as many that the second is complete; then
\* each has half of the one below, up to a single node.
LEMMA Sizes ==
    ASSUME NEW n \in Nat, n # 0
    PROVE  /\ Height(n) \in 0..n
           /\ \A l \in 1..(Height(n) + 1) : Size(n, l) \in Nat /\ Size(n, l) >= 1
           /\ Size(n, Height(n) + 1) = 1
           /\ \A l \in 1..Height(n) : /\ Size(n, l) \div 2 \in Nat
                                      /\ Size(n, l) \div 2 >= 1
                                      /\ Size(n, l) = 2 * (Size(n, l) \div 2)
           /\ \A l \in 2..Height(n) : Size(n, l + 1) = Size(n, l) \div 2
           /\ Height(n) >= 1 => Size(n, 2) = (Size(n, 1) \div 2) + (n - Size(n, 1))
           /\ Size(n, 1) <= n
           /\ Height(n) = 0 => n = 1
<1> DEFINE h == Height(n)
<1>1. h \in 0..n /\ h \in Nat
  BY Powers
<1>2. TwoTo[h] = NextPowerOfTwo(n) /\ TwoTo[h] >= n /\ TwoTo[h] < 2 * n
  BY Powers
<1>3. h = 0 => Size(n, 1) = 1 /\ n = 1
  <2>1. ASSUME h = 0
        PROVE  Size(n, 1) = 1 /\ n = 1
    <3>1. TwoTo[h] = 1
      BY <2>1, TwoToIs
    <3>2. n = 1 /\ NextPowerOfTwo(n) = 1
      BY <1>2, <3>1
    <3>. QED
      BY <3>2 DEF Size, LastLayer, Most
  <2>. QED
    BY <2>1
<1>4. ASSUME h >= 1
      PROVE  \E q \in Nat : /\ q >= 1 /\ q < n /\ n <= 2 * q
                            /\ Size(n, 1) = 2 * (n - q) /\ Size(n, 2) = q
  <2>1. h - 1 \in Nat /\ (h - 1) + 1 = h
    BY <1>1, <1>4
  <2>2. /\ TwoTo[h - 1] \in Nat /\ TwoTo[h - 1] >= 1 /\ TwoTo[h] = 2 * TwoTo[h - 1]
    BY <2>1, TwoToIs
  <2>3. NextPowerOfTwo(n) \div 2 = TwoTo[h - 1] /\ TwoTo[h - 1] < n /\ n <= 2 * TwoTo[h - 1]
    BY <1>2, <2>2
  <2>4. LastLayer(n) = 2 * (n - TwoTo[h - 1])
    BY <2>2, <2>3 DEF LastLayer, Most
  <2>5. Size(n, 2) = TwoTo[h - 1]
    BY <1>1 DEF Size
  <2>. QED
    BY <2>2, <2>3, <2>4, <2>5 DEF Size
<1>5. ASSUME NEW l \in 2..(h + 1)
      PROVE  /\ Size(n, l) = TwoTo[h + 1 - l] /\ h + 1 - l \in Nat
             /\ Size(n, l) \in Nat /\ Size(n, l) >= 1
  <2>1. Size(n, l) = TwoTo[h + 1 - l] /\ h + 1 - l \in Nat
    BY <1>1 DEF Size
  <2>. QED
    BY <2>1, TwoToIs
<1>6. ASSUME NEW l \in 2..h
      PROVE  Size(n, l) = 2 * Size(n, l + 1) /\ Size(n, l + 1) \in Nat /\ Size(n, l + 1) >= 1
  <2>1. l \in 2..(h + 1) /\ l + 1 \in 2..(h + 1)
    BY <1>1
  <2>2. Size(n, l) = TwoTo[h + 1 - l] /\ Size(n, l + 1) = TwoTo[h + 1 - (l + 1)]
        /\ h + 1 - (l + 1) \in Nat /\ Size(n, l + 1) \in Nat /\ Size(n, l + 1) >= 1
    BY <1>5, <2>1
  <2>3. h + 1 - l = (h + 1 - (l + 1)) + 1
    BY <1>1
  <2>4. TwoTo[h + 1 - l] = 2 * TwoTo[h + 1 - (l + 1)]
    BY <2>2, <2>3, TwoToIs
  <2>. QED
    BY <2>2, <2>4
<1> HIDE DEF h
<1>7. ASSUME NEW l \in 1..(h + 1)
      PROVE  Size(n, l) \in Nat /\ Size(n, l) >= 1
  <2>1. CASE l = 1
    BY <1>1, <1>3, <1>4, <2>1
  <2>2. CASE l # 1
    BY <1>1, <1>5, <2>2
  <2>. QED
    BY <2>1, <2>2
<1>8. Size(n, h + 1) = 1
  <2>1. CASE h = 0
    BY <1>3, <2>1
  <2>2. CASE h # 0
    <3>1. h + 1 \in 2..(h + 1) /\ h + 1 - (h + 1) = 0
      BY <1>1, <2>2
    <3>. QED
      BY <1>5, <3>1, TwoToIs
  <2>. QED
    BY <2>1, <2>2
<1>9. ASSUME NEW l \in 1..h
      PROVE  /\ Size(n, l) \div 2 \in Nat /\ Size(n, l) \div 2 >= 1
             /\ Size(n, l) = 2 * (Size(n, l) \div 2)
  <2>1. CASE l = 1
    BY <1>1, <1>4, <2>1
  <2>2. CASE l # 1
    BY <1>1, <1>6, <2>2
  <2>. QED
    BY <2>1, <2>2
<1>10. \A l \in 2..h : Size(n, l + 1) = Size(n, l) \div 2
  BY <1>6
<1>11. h >= 1 => Size(n, 2) = (Size(n, 1) \div 2) + (n - Size(n, 1))
  BY <1>4
<1>12. Size(n, 1) <= n
  <2>1. CASE h = 0
    BY <1>3, <2>1
  <2>2. CASE h # 0
    <3>1. h >= 1
      BY <1>1, <2>2
    <3>. QED
      BY <1>4, <3>1
  <2>. QED
    BY <2>1, <2>2
<1>. QED
  BY <1>1, <1>3, <1>7, <1>8, <1>9, <1>10, <1>11, <1>12 DEF h

\* Where the hash of a leaf is.
Spot(n, node) ==
    IF node < Size(n, 1) THEN [layer |-> 1, index |-> node]
    ELSE [layer |-> 2, index |-> node - Size(n, 1) \div 2]

LeafOf(tree, n, node) == tree[Spot(n, node).layer][Spot(n, node).index + 1]

LEMMA Spots ==
    ASSUME NEW n \in Nat, n # 0, NEW node \in 0..(n - 1)
    PROVE  /\ Spot(n, node).layer \in 1..2 /\ Spot(n, node).layer <= Height(n) + 1
           /\ Spot(n, node).index \in Nat
           /\ Spot(n, node).index < Size(n, Spot(n, node).layer)
           /\ Spot(n, node).layer = 1 => node < Size(n, 1) /\ Spot(n, node).index = node
           /\ Spot(n, node).layer = 2 =>
                /\ Spot(n, node).index = node - Size(n, 1) \div 2
                /\ Spot(n, node).index >= Size(n, 1) \div 2
                /\ node >= Size(n, 1) /\ Height(n) >= 1
<1>1. Height(n) \in Nat /\ Size(n, 1) \in Nat /\ Size(n, 1) >= 1 /\ Size(n, 1) <= n
  BY Sizes
<1>2. CASE node < Size(n, 1)
  <2>1. Spot(n, node) = [layer |-> 1, index |-> node]
    BY <1>2 DEF Spot
  <2>. QED
    BY <1>1, <1>2, <2>1
<1>3. CASE ~(node < Size(n, 1))
  <2>1. Spot(n, node) = [layer |-> 2, index |-> node - Size(n, 1) \div 2]
    BY <1>3 DEF Spot
  <2>2. Height(n) >= 1
    <3>1. CASE Height(n) = 0
      BY <1>1, <1>3, <3>1, Sizes
    <3>. QED
      BY <1>1, <3>1
  <2>3. /\ Size(n, 2) = (Size(n, 1) \div 2) + (n - Size(n, 1))
        /\ Size(n, 1) = 2 * (Size(n, 1) \div 2) /\ Size(n, 1) \div 2 \in Nat
    <3>1. 1 \in 1..Height(n)
      BY <1>1, <2>2
    <3>. QED
      BY <2>2, <3>1, Sizes
  <2> DEFINE half == Size(n, 1) \div 2
             one == Size(n, 1)
  <2>4. half \in Nat /\ one = 2 * half /\ Size(n, 2) = half + (n - one) /\ ~(node < one)
    BY <1>3, <2>3
  <2> HIDE DEF half, one
  <2>5. /\ node - half \in Nat /\ node - half >= half /\ node - half < Size(n, 2)
        /\ node >= one
    BY <2>4
  <2>. QED
    BY <1>1, <2>1, <2>2, <2>5 DEF half, one
<1>. QED
  BY <1>2, <1>3

\* The tree has the shape of one over n leaves, and each node hashes its children.
Fit(tree, n) ==
    /\ tree = [l \in 1..(Height(n) + 1) |-> tree[l]]
    /\ \A l \in 1..(Height(n) + 1) : tree[l] = [i \in 1..Size(n, l) |-> tree[l][i]]
    /\ \A l \in 1..Height(n) : \A i \in 1..(Size(n, l) \div 2) :
          tree[l + 1][i] = InternalHash(tree[l][2 * i - 1], tree[l][2 * i])

LEMMA HashesChildren ==
    ASSUME NEW n, NEW tree, Fit(tree, n), NEW l \in 1..Height(n),
           NEW i \in 1..(Size(n, l) \div 2)
    PROVE  tree[l + 1][i] = InternalHash(tree[l][2 * i - 1], tree[l][2 * i])
BY DEF Fit

\* Two of these with the same leaves are the same.
LEMMA LeavesTell ==
    ASSUME NEW n \in Nat, n # 0, NEW s, NEW t, Fit(s, n), Fit(t, n),
           \A node \in 0..(n - 1) : LeafOf(s, n, node) = LeafOf(t, n, node)
    PROVE  s = t
<1> DEFINE h == Height(n)
           S == { k \in Nat : k <= h => s[k + 1] = t[k + 1] }
<1>1. h \in Nat
  BY Sizes
<1>2. ASSUME NEW l \in 1..(h + 1), \A i \in 1..Size(n, l) : s[l][i] = t[l][i]
      PROVE  s[l] = t[l]
  <2>1. s[l] = [i \in 1..Size(n, l) |-> s[l][i]] /\ t[l] = [i \in 1..Size(n, l) |-> t[l][i]]
    BY DEF Fit
  <2>2. [i \in 1..Size(n, l) |-> s[l][i]] = [i \in 1..Size(n, l) |-> t[l][i]]
    BY <1>2
  <2>. QED
    BY <2>1, <2>2
<1>3. 0 \in S
  <2>1. ASSUME NEW i \in 1..Size(n, 1)
        PROVE  s[1][i] = t[1][i]
    <3>1. i - 1 \in 0..(n - 1) /\ i - 1 < Size(n, 1) /\ (i - 1) + 1 = i
      BY <1>1, Sizes
    <3>2. Spot(n, i - 1) = [layer |-> 1, index |-> i - 1]
      BY <3>1 DEF Spot
    <3>3. LeafOf(s, n, i - 1) = s[1][i] /\ LeafOf(t, n, i - 1) = t[1][i]
      BY <3>1, <3>2 DEF LeafOf
    <3>. QED
      BY <3>1, <3>3
  <2>2. 1 \in 1..(h + 1)
    BY <1>1
  <2>. QED
    BY <1>2, <2>1, <2>2
<1>4. ASSUME NEW k \in Nat, k \in S
      PROVE  k + 1 \in S
  <2>1. SUFFICES ASSUME k + 1 <= h PROVE s[k + 2] = t[k + 2]
    OBVIOUS
  <2>2. /\ k + 1 \in 1..h /\ k + 2 \in 1..(h + 1) /\ (k + 1) + 1 = k + 2
        /\ s[k + 1] = t[k + 1]
    BY <1>1, <1>4, <2>1
  <2>3. ASSUME NEW i \in 1..Size(n, k + 2)
        PROVE  s[k + 2][i] = t[k + 2][i]
    <3>1. CASE i <= Size(n, k + 1) \div 2
      <4>1. i \in 1..(Size(n, k + 1) \div 2)
        BY <2>2, <3>1, Sizes
      <4>2. /\ s[(k + 1) + 1][i] = InternalHash(s[k + 1][2 * i - 1], s[k + 1][2 * i])
            /\ t[(k + 1) + 1][i] = InternalHash(t[k + 1][2 * i - 1], t[k + 1][2 * i])
        BY <2>2, <4>1, HashesChildren
      <4>3. 2 * i - 1 \in 1..Size(n, k + 1) /\ 2 * i \in 1..Size(n, k + 1)
        BY <2>2, <4>1, Sizes
      <4>. QED
        BY <2>2, <4>2, <4>3
    <3>2. CASE ~(i <= Size(n, k + 1) \div 2)
      <4>1. k = 0
        <5>1. CASE k # 0
          <6>1. k + 1 \in 2..h
            BY <2>2, <5>1
          <6>2. Size(n, (k + 1) + 1) = Size(n, k + 1) \div 2
            BY <6>1, Sizes
          <6>. QED
            BY <2>2, <3>2, <6>2
        <5>. QED
          BY <5>1
      <4>2. /\ Size(n, 2) = (Size(n, 1) \div 2) + (n - Size(n, 1))
            /\ Size(n, 1) = 2 * (Size(n, 1) \div 2) /\ Size(n, 1) \div 2 \in Nat
            /\ Size(n, 1) <= n
        BY <1>1, <2>2, <4>1, Sizes
      <4> DEFINE half == Size(n, 1) \div 2
                 one == Size(n, 1)
      <4>3. /\ half \in Nat /\ one = 2 * half /\ Size(n, 2) = half + (n - one) /\ one <= n
            /\ i \in 1..Size(n, 2) /\ ~(i <= half)
        BY <3>2, <4>1, <4>2
      <4> HIDE DEF half, one
      <4> DEFINE node == (i - 1) + half
      <4>4. node \in 0..(n - 1) /\ ~(node < one) /\ node - half = i - 1 /\ (i - 1) + 1 = i
        BY <4>3
      <4>5. Spot(n, node) = [layer |-> 2, index |-> i - 1]
        BY <4>4 DEF Spot, half, one
      <4>6. LeafOf(s, n, node) = s[2][i] /\ LeafOf(t, n, node) = t[2][i]
        BY <4>4, <4>5 DEF LeafOf
      <4>. QED
        BY <4>1, <4>4, <4>6
    <3>. QED
      BY <3>1, <3>2
  <2>. QED
    BY <1>2, <2>2, <2>3
<1>5. Nat \subseteq S
  <2> HIDE DEF S
  <2>. QED
    BY <1>3, <1>4, FromZero
<1>6. ASSUME NEW l \in 1..(h + 1)
      PROVE  s[l] = t[l]
  <2>1. l - 1 \in Nat /\ l - 1 <= h /\ (l - 1) + 1 = l
    BY <1>1
  <2>. QED
    BY <1>5, <2>1
<1>7. s = [l \in 1..(h + 1) |-> s[l]] /\ t = [l \in 1..(h + 1) |-> t[l]]
  BY DEF Fit
<1>. QED
  BY <1>6, <1>7

-----------------------------------------------------------------------------
(***************************************************************************)
(* Sequences, element by element.                                          *)
(***************************************************************************)
LEMMA Listed ==
    ASSUME NEW n \in Nat, NEW s, s = [i \in 1..n |-> s[i]]
    PROVE  s \in Seq({ s[i] : i \in 1..n }) /\ Len(s) = n /\ DOMAIN s = 1..n
<1> DEFINE S == { s[i] : i \in 1..n }
<1>1. \A i \in 1..n : s[i] \in S
  OBVIOUS
<1> HIDE DEF S
<1>2. s \in [1..n -> S]
  BY <1>1
<1>3. s \in Seq(S)
  BY <1>2
<1>4. DOMAIN s = 1..n
  BY <1>2
<1>5. Len(s) \in Nat /\ DOMAIN s = 1..Len(s)
  BY <1>3, LenProperties
<1>6. Len(s) = n
  BY <1>4, <1>5
<1>. QED
  BY <1>3, <1>4, <1>6 DEF S

LEMMA Sliced ==
    ASSUME NEW s, NEW first \in Nat, NEW last \in Nat, first <= last + 1
    PROVE  SubSeq(s, first, last) = [i \in 1..(last - first + 1) |-> s[first + i - 1]]
<1> DEFINE S == { s[i] : i \in first..last }
           t == SubSeq(s, first, last)
<1>1. \A i \in first..last : s[i] \in S
  OBVIOUS
<1> HIDE DEF S
<1>2. /\ t \in Seq(S)
      /\ Len(t) = IF first <= last THEN last - first + 1 ELSE 0
      /\ \A i \in 1..(last - first + 1) : t[i] = s[first + i - 1]
  BY <1>1, SubSeqProperties
<1> HIDE DEF t
<1>3. Len(t) = last - first + 1
  BY <1>2
<1>4. t = [i \in 1..Len(t) |-> t[i]]
  BY <1>2, LenProperties
<1>5. t = [i \in 1..(last - first + 1) |-> s[first + i - 1]]
  BY <1>2, <1>3, <1>4
<1>. QED
  BY <1>5 DEF t

LEMMA Concatenated ==
    ASSUME NEW m \in Nat, NEW n \in Nat, NEW s, NEW t,
           s = [i \in 1..m |-> s[i]], t = [i \in 1..n |-> t[i]]
    PROVE  s \o t = [i \in 1..(m + n) |-> IF i <= m THEN s[i] ELSE t[i - m]]
<1> DEFINE S == { s[i] : i \in 1..m } \cup { t[i] : i \in 1..n }
           both == s \o t
<1>1. s \in Seq({ s[i] : i \in 1..m }) /\ t \in Seq({ t[i] : i \in 1..n })
      /\ Len(s) = m /\ Len(t) = n
  BY Listed
<1>2. s \in Seq(S) /\ t \in Seq(S)
  BY <1>1, SeqMonotonic
<1> HIDE DEF S
<1>3. /\ both \in Seq(S)
      /\ Len(both) = m + n
      /\ \A i \in 1..(m + n) : both[i] = IF i <= m THEN s[i] ELSE t[i - m]
  <2>1. /\ both \in Seq(S)
        /\ Len(both) = Len(s) + Len(t)
        /\ \A i \in 1..(Len(s) + Len(t)) :
              both[i] = IF i <= Len(s) THEN s[i] ELSE t[i - Len(s)]
    BY <1>2, ConcatProperties, Zenon
  <2>. QED
    BY <1>1, <2>1
<1> HIDE DEF both
<1>4. both = [i \in 1..(m + n) |-> both[i]]
  BY <1>3, LenProperties
<1>5. both = [i \in 1..(m + n) |-> IF i <= m THEN s[i] ELSE t[i - m]]
  BY <1>3, <1>4
<1>. QED
  BY <1>5 DEF both

\* The same, of what is known to be a sequence of so many elements.
Counted(s, n) == s = [i \in 1..n |-> s[i]]

LEMMA Joined ==
    ASSUME NEW m \in Nat, NEW n \in Nat, NEW s, NEW t, Counted(s, m), Counted(t, n)
    PROVE  s \o t = [i \in 1..(m + n) |-> IF i <= m THEN s[i] ELSE t[i - m]]
<1>1. s = [i \in 1..m |-> s[i]] /\ t = [i \in 1..n |-> t[i]]
  BY DEF Counted
<1>. QED
  BY <1>1, Concatenated

-----------------------------------------------------------------------------
(***************************************************************************)
(* A new vector's layers have the shape, and its leaves.                   *)
(***************************************************************************)
LEMMA LayersFitLeaves ==
    ASSUME NEW n \in Nat, n # 0, NEW nodes, nodes = [i \in 1..n |-> nodes[i]]
    PROVE  /\ Fit(Layers(nodes), n)
           /\ \A node \in 0..(n - 1) : LeafOf(Layers(nodes), n, node) = nodes[node + 1]
<1> DEFINE h == Height(n)
           one == Size(n, 1)
           first == SubSeq(nodes, 1, one)
           beside == SubSeq(nodes, one + 1, n)
           layer == Above(first, beside)
<1>1. /\ h \in Nat /\ one \in Nat /\ one >= 1 /\ one <= n /\ one = LastLayer(n)
      /\ h \in 0..n
  <2>1. h \in 0..n /\ one <= n
    BY Sizes
  <2>2. 1 \in 1..(h + 1)
    BY <2>1
  <2>3. one \in Nat /\ one >= 1
    BY <2>2, Sizes
  <2>4. one = LastLayer(n)
    BY DEF Size
  <2>. QED
    BY <2>1, <2>3, <2>4
<1>2. Len(nodes) = n
  BY Listed
<1>3. first = [i \in 1..one |-> nodes[i]]
  <2> HIDE DEF one
  <2>1. first = [i \in 1..(one - 1 + 1) |-> nodes[1 + i - 1]]
    BY <1>1, Sliced
  <2>2. one - 1 + 1 = one /\ \A i \in 1..one : 1 + i - 1 = i
    BY <1>1
  <2> HIDE DEF first
  <2>. QED
    BY <2>1, <2>2
<1>4. beside = [i \in 1..(n - one) |-> nodes[one + i]]
  <2> HIDE DEF one
  <2>1. beside = [i \in 1..(n - (one + 1) + 1) |-> nodes[(one + 1) + i - 1]]
    BY <1>1, Sliced
  <2>2. n - (one + 1) + 1 = n - one /\ \A i \in 1..(n - one) : (one + 1) + i - 1 = one + i
    BY <1>1
  <2> HIDE DEF beside
  <2>. QED
    BY <2>1, <2>2
<1>5. /\ layer[0] = first /\ layer[1] = Pairs(first) \o beside
      /\ \A k \in Nat : k >= 1 => layer[k + 1] = Pairs(layer[k])
  <2> HIDE DEF first, beside
  <2>. QED
    BY AboveIs
<1> HIDE DEF layer, first, beside, h, one
<1> DEFINE Typed(k) == layer[k] = [i \in 1..Size(n, k + 1) |-> layer[k][i]]
           Paired(k) == \A i \in 1..(Size(n, k + 1) \div 2) :
                            layer[k + 1][i] = InternalHash(layer[k][2 * i - 1], layer[k][2 * i])
\* What one layer tells of the next.
<1>6. ASSUME NEW k \in Nat, k <= h, Typed(k)
      PROVE  /\ Len(layer[k]) = Size(n, k + 1)
             /\ Pairs(layer[k]) = [i \in 1..(Size(n, k + 1) \div 2) |->
                                    InternalHash(layer[k][2 * i - 1], layer[k][2 * i])]
  <2>1. Size(n, k + 1) \in Nat
    <3>1. k + 1 \in 1..(h + 1)
      BY <1>1, <1>6
    <3>. QED
      BY <3>1, Sizes DEF h
  <2>2. Len(layer[k]) = Size(n, k + 1)
    BY <1>6, <2>1, Listed
  <2>. QED
    BY <2>2 DEF Pairs
<1>7. Typed(0)
  BY <1>3, <1>5 DEF one
<1>8. ASSUME h >= 1
      PROVE  /\ Typed(1) /\ Paired(0)
             /\ \A i \in 1..(n - one) : layer[1][(one \div 2) + i] = nodes[one + i]
             /\ one \div 2 \in Nat
  <2>1. /\ one \div 2 \in Nat /\ Size(n, 2) = (one \div 2) + (n - one)
    <3>1. 1 \in 1..h
      BY <1>1, <1>8
    <3>. QED
      BY <1>8, <3>1, Sizes DEF h, one
  <2> DEFINE half == one \div 2
  <2>2. Pairs(first) = [i \in 1..half |-> InternalHash(first[2 * i - 1], first[2 * i])]
    <3>1. 0 <= h /\ 0 + 1 = 1 /\ 0 \in Nat
      BY <1>1
    <3>2. Pairs(layer[0]) = [i \in 1..(Size(n, 0 + 1) \div 2) |->
                               InternalHash(layer[0][2 * i - 1], layer[0][2 * i])]
      BY <1>6, <1>7, <3>1
    <3>. QED
      BY <1>5, <3>1, <3>2 DEF one
  <2> HIDE DEF half
  <2>3. half \in Nat /\ n - one \in Nat
    BY <1>1, <2>1 DEF half
  <2>4. /\ Pairs(first) = [i \in 1..half |-> Pairs(first)[i]]
        /\ beside = [i \in 1..(n - one) |-> beside[i]]
    BY <1>4, <2>2
  <2>5. layer[1] = [i \in 1..(half + (n - one)) |->
                        IF i <= half THEN Pairs(first)[i] ELSE beside[i - half]]
    BY <1>5, <2>3, <2>4, Concatenated
  <2>6. Typed(1)
    BY <2>1, <2>5 DEF half
  <2>7. ASSUME NEW i \in 1..half
        PROVE  layer[1][i] = InternalHash(layer[0][2 * i - 1], layer[0][2 * i])
    <3>1. i \in 1..(half + (n - one)) /\ i <= half
      BY <2>3
    <3>. QED
      BY <1>5, <2>2, <2>5, <3>1
  <2>8. ASSUME NEW i \in 1..(n - one)
        PROVE  layer[1][half + i] = nodes[one + i]
    <3>1. half + i \in 1..(half + (n - one)) /\ ~(half + i <= half) /\ (half + i) - half = i
      BY <2>3
    <3>2. layer[1][half + i] = beside[i]
      BY <2>5, <3>1
    <3>. QED
      BY <1>4, <3>2
  <2>9. Paired(0)
    <3>1. 0 + 1 = 1
      OBVIOUS
    <3>. QED
      BY <2>7, <3>1 DEF half, one
  <2> HIDE DEF Typed, Paired
  <2>. QED
    BY <2>1, <2>6, <2>8, <2>9 DEF half
<1>9. ASSUME NEW k \in Nat, k >= 1, k + 1 <= h, Typed(k)
      PROVE  Typed(k + 1) /\ Paired(k)
  <2>1. k + 1 \in 2..h /\ k <= h /\ (k + 1) + 1 = k + 2
    BY <1>1, <1>9
  <2>2. Size(n, k + 2) = Size(n, k + 1) \div 2
    BY <2>1, Sizes DEF h
  <2>3. layer[k + 1] = [i \in 1..(Size(n, k + 1) \div 2) |->
                           InternalHash(layer[k][2 * i - 1], layer[k][2 * i])]
    BY <1>5, <1>6, <1>9, <2>1
  <2>. QED
    BY <2>1, <2>2, <2>3
<1> DEFINE S == { k \in Nat : k <= h => Typed(k) }
<1>10. 0 \in S
  BY <1>7
<1>11. ASSUME NEW k \in Nat, k \in S
       PROVE  k + 1 \in S
  <2>1. SUFFICES ASSUME k + 1 <= h PROVE Typed(k + 1)
    OBVIOUS
  <2>2. k <= h /\ h >= 1
    BY <1>1, <2>1
  <2>3. Typed(k)
    BY <1>11, <2>2
  <2>4. CASE k = 0
    <3>1. k + 1 = 1
      BY <2>4
    <3> HIDE DEF Typed
    <3>. QED
      BY <1>8, <2>2, <3>1
  <2>5. CASE k # 0
    <3>1. k >= 1
      BY <2>5
    <3> HIDE DEF Typed
    <3>. QED
      BY <1>9, <2>1, <2>3, <3>1
  <2>. QED
    BY <2>4, <2>5
<1>12. Nat \subseteq S
  <2> HIDE DEF S
  <2>. QED
    BY <1>10, <1>11, FromZero
<1>13. \A k \in 0..h : Typed(k)
  BY <1>1, <1>12
<1>14. ASSUME NEW k \in 0..(h - 1)
       PROVE  Paired(k)
  <2>1. k \in Nat /\ k + 1 <= h /\ h >= 1 /\ k \in 0..h
    BY <1>1
  <2>2. Typed(k)
    BY <1>13, <2>1
  <2> HIDE DEF Typed, Paired
  <2>3. CASE k = 0
    BY <1>8, <2>1, <2>3
  <2>4. CASE k # 0
    <3>1. k >= 1
      BY <2>1, <2>4
    <3>. QED
      BY <1>9, <2>1, <2>2, <3>1
  <2>. QED
    BY <2>3, <2>4
\* The layers end where they have a single node.
<1>15. ASSUME NEW k \in 0..h
       PROVE  Len(layer[k]) = Size(n, k + 1)
  <2>1. k \in Nat /\ k <= h
    BY <1>1
  <2> HIDE DEF Typed
  <2>2. Typed(k)
    BY <1>13
  <2>. QED
    BY <1>6, <2>1, <2>2
<1> DEFINE Ends(m) == Len(layer[m]) = 1 /\ \A k \in 0..(m - 1) : Len(layer[k]) > 1
           top == CHOOSE m \in 0..n : Ends(m)
<1>16. ASSUME NEW k \in 0..(h - 1)
       PROVE  Len(layer[k]) > 1
  <2>1. k \in 0..h /\ k + 1 \in 1..h
    BY <1>1
  <2>2. /\ Size(n, k + 1) = 2 * (Size(n, k + 1) \div 2)
        /\ Size(n, k + 1) \div 2 \in Nat /\ Size(n, k + 1) \div 2 >= 1
    BY <2>1, Sizes DEF h
  <2>3. Size(n, k + 1) > 1
    BY <2>2
  <2>. QED
    BY <1>15, <2>1, <2>3
<1>17. Ends(h)
  <2>1. Len(layer[h]) = 1
    <3>1. h \in 0..h /\ Size(n, h + 1) = 1
      BY <1>1, Sizes DEF h
    <3>. QED
      BY <1>15, <3>1
  <2>. QED
    BY <1>16, <2>1
<1>18. top = h
  <2>1. top \in 0..n /\ Ends(top)
    <3>1. \E m \in 0..n : Ends(m)
      BY <1>1, <1>17
    <3> HIDE DEF Ends
    <3>. QED
      BY <3>1
  <2> HIDE DEF top
  <2>2. CASE top < h
    <3>1. top \in 0..(h - 1)
      BY <1>1, <2>1, <2>2
    <3>2. Len(layer[top]) = 1 /\ Len(layer[top]) > 1
      BY <1>16, <2>1, <3>1
    <3>. QED
      BY <3>2
  <2>3. CASE h < top
    <3>1. h \in 0..(top - 1)
      BY <1>1, <2>1, <2>3
    <3>2. Len(layer[h]) = 1 /\ Len(layer[h]) > 1
      BY <1>17, <2>1, <3>1
    <3>. QED
      BY <3>2
  <2>. QED
    BY <1>1, <2>1, <2>2, <2>3
<1> DEFINE tree == Layers(nodes)
<1>19. tree = [l \in 1..(h + 1) |-> layer[l - 1]]
  <2>1. tree = [l \in 1..(top + 1) |-> layer[l - 1]]
    BY <1>1, <1>2 DEF Layers, layer, first, beside
  <2> HIDE DEF tree, top
  <2>. QED
    BY <1>18, <2>1
<1>20. \A l \in 1..(h + 1) : tree[l] = layer[l - 1]
  BY <1>19
<1> HIDE DEF tree
<1>21. Fit(tree, n)
  <2>1. tree = [l \in 1..(h + 1) |-> tree[l]]
    BY <1>19
  <2>2. ASSUME NEW l \in 1..(h + 1)
        PROVE  tree[l] = [i \in 1..Size(n, l) |-> tree[l][i]]
    <3>1. l - 1 \in 0..h /\ (l - 1) + 1 = l
      BY <1>1
    <3>2. Typed(l - 1)
      BY <1>13, <3>1
    <3>. QED
      BY <1>20, <3>1, <3>2
  <2>3. ASSUME NEW l \in 1..h, NEW i \in 1..(Size(n, l) \div 2)
        PROVE  tree[l + 1][i] = InternalHash(tree[l][2 * i - 1], tree[l][2 * i])
    <3>1. l - 1 \in 0..(h - 1) /\ (l - 1) + 1 = l /\ l + 1 \in 1..(h + 1) /\ (l + 1) - 1 = l
          /\ l \in 1..(h + 1)
      BY <1>1
    <3>2. Paired(l - 1)
      BY <1>14, <3>1
    <3>3. layer[l][i] = InternalHash(layer[l - 1][2 * i - 1], layer[l - 1][2 * i])
      BY <3>1, <3>2
    <3>4. tree[l + 1] = layer[l] /\ tree[l] = layer[l - 1]
      BY <1>20, <3>1
    <3>. QED
      BY <3>3, <3>4
  <2>. QED
    BY <2>1, <2>2, <2>3 DEF Fit, h
<1>22. ASSUME NEW node \in 0..(n - 1)
       PROVE  LeafOf(tree, n, node) = nodes[node + 1]
  <2>1. CASE node < one
    <3>1. Spot(n, node) = [layer |-> 1, index |-> node]
      BY <2>1 DEF Spot, one
    <3>2. LeafOf(tree, n, node) = tree[1][node + 1]
      BY <3>1 DEF LeafOf
    <3>3. 1 \in 1..(h + 1) /\ node + 1 \in 1..one
      BY <1>1, <2>1
    <3>4. tree[1] = layer[0]
      BY <1>20, <3>3
    <3>. QED
      BY <1>3, <1>5, <3>2, <3>3, <3>4
  <2>2. CASE ~(node < one)
    <3>1. Spot(n, node) = [layer |-> 2, index |-> node - one \div 2]
      BY <2>2 DEF Spot, one
    <3>2. LeafOf(tree, n, node) = tree[2][node - (one \div 2) + 1]
      BY <3>1 DEF LeafOf
    <3>3. h >= 1
      <4>1. CASE h = 0
        BY <1>1, <2>2, <4>1, Sizes DEF h
      <4>. QED
        BY <1>1, <4>1
    <3>4. 1 \in 1..h /\ 2 \in 1..(h + 1)
      BY <1>1, <3>3
    <3>5. one = 2 * (one \div 2) /\ one \div 2 \in Nat
      BY <3>4, Sizes DEF h, one
    <3>6. tree[2] = layer[1]
      BY <1>20, <3>4
    <3> DEFINE half == one \div 2
    <3>7. half \in Nat /\ one = 2 * half
      BY <3>5
    <3>8. \A i \in 1..(n - one) : layer[1][half + i] = nodes[one + i]
      BY <1>8, <3>3
    <3> HIDE DEF half
    <3>9. /\ node + 1 - one \in 1..(n - one) /\ half + (node + 1 - one) = node - half + 1
          /\ one + (node + 1 - one) = node + 1
      BY <1>1, <2>2, <3>7
    <3>10. layer[1][node - half + 1] = nodes[node + 1]
      BY <3>8, <3>9
    <3>. QED
      BY <3>2, <3>6, <3>10 DEF half
  <2>. QED
    BY <2>1, <2>2
<1>. QED
  BY <1>21, <1>22 DEF tree

\* A tree of the shape is that of a new vector with its leaves.
LEMMA LayersOfLeaves ==
    ASSUME NEW n \in Nat, n # 0, NEW tree, Fit(tree, n)
    PROVE  tree = Layers([i \in 1..n |-> LeafOf(tree, n, i - 1)])
<1> DEFINE nodes == [i \in 1..n |-> LeafOf(tree, n, i - 1)]
<1>1. nodes = [i \in 1..n |-> nodes[i]]
  OBVIOUS
<1>2. ASSUME NEW node \in 0..(n - 1)
      PROVE  nodes[node + 1] = LeafOf(tree, n, node)
  <2>1. node + 1 \in 1..n /\ (node + 1) - 1 = node
    OBVIOUS
  <2>. QED
    BY <2>1
<1> HIDE DEF nodes
<1>3. /\ Fit(Layers(nodes), n)
      /\ \A node \in 0..(n - 1) : LeafOf(Layers(nodes), n, node) = nodes[node + 1]
  BY <1>1, LayersFitLeaves
<1>4. \A node \in 0..(n - 1) : LeafOf(tree, n, node) = LeafOf(Layers(nodes), n, node)
  BY <1>2, <1>3
<1>. QED
  BY <1>3, <1>4, LeavesTell DEF nodes

-----------------------------------------------------------------------------
(***************************************************************************)
(* The way up from a node.                                                 *)
(***************************************************************************)

\* What two nodes hash to has room in the next layer, and is there.
LEMMA OneUp ==
    ASSUME NEW n \in Nat, n # 0, NEW tree, Fit(tree, n),
           NEW l \in 1..Height(n), NEW index \in Nat, index < Size(n, l)
    PROVE  /\ index \div 2 \in Nat /\ index \div 2 < Size(n, l) \div 2
           /\ Size(n, l) \div 2 <= Size(n, l + 1)
           /\ tree[l + 1][index \div 2 + 1] =
                Parent(Direction(index), tree[l][index + 1], Sibling(tree[l], index))
<1>1. /\ Size(n, l) \div 2 \in Nat /\ Size(n, l) = 2 * (Size(n, l) \div 2)
      /\ Height(n) \in Nat
  BY Sizes
<1> DEFINE half == Size(n, l) \div 2
<1>2. index \div 2 \in Nat /\ index \div 2 < half /\ half \in Nat
  <2>1. half \in Nat /\ index < 2 * half
    BY <1>1
  <2> HIDE DEF half
  <2>. QED
    BY <2>1
<1>3. half <= Size(n, l + 1)
  <2>1. CASE l = 1
    <3>1. Size(n, 2) = (Size(n, 1) \div 2) + (n - Size(n, 1)) /\ Size(n, 1) <= n
          /\ Size(n, 1) \in Nat
      <4>1. Height(n) >= 1 /\ 1 \in 1..(Height(n) + 1)
        BY <1>1
      <4>. QED
        BY <4>1, Sizes
    <3>2. l + 1 = 2
      BY <2>1
    <3> DEFINE one == Size(n, 1)
    <3>3. half \in Nat /\ Size(n, l + 1) = half + (n - one) /\ one <= n /\ one \in Nat
      BY <1>2, <2>1, <3>1, <3>2
    <3> HIDE DEF half, one
    <3>. QED
      BY <3>3
  <2>2. CASE l # 1
    <3>1. l \in 2..Height(n)
      BY <1>1, <2>2
    <3>2. Size(n, l + 1) = half
      BY <3>1, Sizes
    <3> HIDE DEF half
    <3>. QED
      BY <1>2, <3>2
  <2>. QED
    BY <2>1, <2>2
<1> DEFINE i == index \div 2 + 1
<1>4. i \in 1..half
  <2> HIDE DEF half
  <2>. QED
    BY <1>2
<1>5. tree[l + 1][i] = InternalHash(tree[l][2 * i - 1], tree[l][2 * i])
  BY <1>4, HashesChildren
<1>6. CASE index % 2 = 0
  <2>1. 2 * i - 1 = index + 1 /\ 2 * i = index + 2
    BY <1>6
  <2>. QED
    BY <1>2, <1>3, <1>5, <1>6, <2>1 DEF Parent, Direction, Sibling
<1>7. CASE index % 2 # 0
  <2>1. 2 * i - 1 = index /\ 2 * i = index + 1
    BY <1>7
  <2>. QED
    BY <1>2, <1>3, <1>5, <1>7, <2>1 DEF Parent, Direction, Sibling
<1>. QED
  BY <1>6, <1>7

\* The way up stays in the tree.
LEMMA Ascents ==
    ASSUME NEW n \in Nat, n # 0, NEW tree, Fit(tree, n),
           NEW l \in 1..(Height(n) + 1), NEW index \in Nat, index < Size(n, l)
    PROVE  \A k \in 0..(Height(n) + 1 - l) :
                Ascent(index)[k] \in Nat /\ Ascent(index)[k] < Size(n, l + k)
<1> DEFINE at == Ascent(index)
           S == { k \in Nat : l + k <= Height(n) + 1 => at[k] \in Nat /\ at[k] < Size(n, l + k) }
<1>1. Height(n) \in Nat
  BY Sizes
<1>2. at[0] = index /\ \A k \in Nat : at[k + 1] = at[k] \div 2
  BY AscentIs
<1> HIDE DEF at
<1>3. 0 \in S
  <2>1. l + 0 = l
    OBVIOUS
  <2>. QED
    BY <1>2, <2>1
<1>4. ASSUME NEW k \in Nat, k \in S
      PROVE  k + 1 \in S
  <2>1. SUFFICES ASSUME l + (k + 1) <= Height(n) + 1
                 PROVE  at[k + 1] \in Nat /\ at[k + 1] < Size(n, l + (k + 1))
    OBVIOUS
  <2>2. l + k \in 1..Height(n) /\ l + (k + 1) = (l + k) + 1 /\ l + k <= Height(n) + 1
    BY <1>1, <2>1
  <2>3. at[k] \in Nat /\ at[k] < Size(n, l + k)
    BY <1>4, <2>2
  <2>4. /\ at[k] \div 2 \in Nat /\ at[k] \div 2 < Size(n, l + k) \div 2
        /\ Size(n, l + k) \div 2 <= Size(n, (l + k) + 1)
    BY <2>2, <2>3, OneUp
  <2>5. Size(n, l + k) \div 2 \in Nat /\ Size(n, (l + k) + 1) \in Nat
    <3>1. (l + k) + 1 \in 1..(Height(n) + 1)
      BY <1>1, <2>2
    <3>. QED
      BY <2>2, <3>1, Sizes
  <2>6. at[k + 1] = at[k] \div 2
    BY <1>2
  <2> DEFINE half == Size(n, l + k) \div 2
             up == at[k] \div 2
             size == Size(n, (l + k) + 1)
  <2>7. up \in Nat /\ half \in Nat /\ size \in Nat /\ up < half /\ half <= size
    BY <2>4, <2>5
  <2> HIDE DEF half, up, size
  <2>8. up \in Nat /\ up < size
    BY <2>7
  <2>. QED
    BY <2>2, <2>6, <2>8 DEF up, size
<1>5. Nat \subseteq S
  <2> HIDE DEF S
  <2>. QED
    BY <1>3, <1>4, FromZero
<1>6. ASSUME NEW k \in 0..(Height(n) + 1 - l)
      PROVE  at[k] \in Nat /\ at[k] < Size(n, l + k)
  <2>1. k \in Nat /\ l + k <= Height(n) + 1
    BY <1>1
  <2>. QED
    BY <1>5, <2>1
<1>. QED
  BY <1>6 DEF at

\* A new hash for a leaf, and those above it: the shape stays, and the other leaves.
LEMMA RaisedFits ==
    ASSUME NEW n \in Nat, n # 0, NEW tree, Fit(tree, n), NEW node \in 0..(n - 1), NEW hash,
           NEW raised, raised = Raised(tree, Spot(n, node).layer, Spot(n, node).index, hash)
    PROVE  /\ Fit(raised, n)
           /\ LeafOf(raised, n, node) = hash
           /\ \A other \in 0..(n - 1) :
                other # node => LeafOf(raised, n, other) = LeafOf(tree, n, other)
<1> DEFINE h == Height(n)
           start == Spot(n, node).layer
           index == Spot(n, node).index
           at == Ascent(index)
<1>1. /\ h \in Nat /\ start \in 1..2 /\ start <= h + 1 /\ start \in 1..(h + 1) /\ start \in Nat
      /\ index \in Nat /\ index < Size(n, start)
  BY Sizes, Spots
<1>2. at[0] = index /\ \A k \in Nat : at[k + 1] = at[k] \div 2
  BY AscentIs
<1>3. \A k \in 0..(h + 1 - start) : at[k] \in Nat /\ at[k] < Size(n, start + k)
  BY <1>1, Ascents
<1>4. PICK new : /\ new[0] = hash
                 /\ Rising(tree, start, index, new)
                 /\ raised = Renewed(tree, start, index, new)
  <2>1. raised = Raised(tree, start, index, hash) /\ start \in Nat
    BY <1>1
  <2> HIDE DEF start, index
  <2>. QED
    BY <2>1, RaisedIs
<1>5. DOMAIN tree = 1..(h + 1)
  BY DEF Fit
<1>6. \A l \in 1..(h + 1) : tree[l] = [i \in 1..Size(n, l) |-> tree[l][i]]
  BY DEF Fit
<1> HIDE DEF h, at
\* What changed and what did not.
<1>7. ASSUME NEW l \in 1..(h + 1), ~(l < start)
      PROVE  /\ raised[l] = [i \in 1..Size(n, l) |-> raised[l][i]]
             /\ raised[l][at[l - start] + 1] = new[l - start]
             /\ \A i \in 1..Size(n, l) :
                    i # at[l - start] + 1 => raised[l][i] = tree[l][i]
             /\ at[l - start] + 1 \in 1..Size(n, l)
  <2>1. raised[l] = [tree[l] EXCEPT ![at[l - start] + 1] = new[l - start]]
    BY <1>4, <1>5, <1>7 DEF Renewed, at
  <2>2. at[l - start] + 1 \in 1..Size(n, l)
    <3>1. l - start \in 0..(h + 1 - start) /\ start + (l - start) = l
      BY <1>1, <1>7
    <3>2. at[l - start] \in Nat /\ at[l - start] < Size(n, l)
      BY <1>3, <3>1
    <3>3. Size(n, l) \in Nat
      BY Sizes DEF h
    <3>. QED
      BY <3>2, <3>3
  <2>3. tree[l] = [i \in 1..Size(n, l) |-> tree[l][i]]
    BY <1>6
  <2>. QED
    BY <2>1, <2>2, <2>3
<1>8. \A l \in 1..(h + 1) : l < start => raised[l] = tree[l]
  BY <1>4, <1>5 DEF Renewed
<1>9. Fit(raised, n)
  <2>1. raised = [l \in 1..(h + 1) |-> raised[l]]
    BY <1>4, <1>5 DEF Renewed
  <2>2. ASSUME NEW l \in 1..(h + 1)
        PROVE  raised[l] = [i \in 1..Size(n, l) |-> raised[l][i]]
    <3>1. CASE l < start
      BY <1>6, <1>8, <3>1
    <3>2. CASE ~(l < start)
      BY <1>7, <3>2
    <3>. QED
      BY <3>1, <3>2
  <2>3. ASSUME NEW l \in 1..h, NEW i \in 1..(Size(n, l) \div 2)
        PROVE  raised[l + 1][i] = InternalHash(raised[l][2 * i - 1], raised[l][2 * i])
    <3>1. tree[l + 1][i] = InternalHash(tree[l][2 * i - 1], tree[l][2 * i])
      BY HashesChildren DEF h
    <3>2. /\ Size(n, l) \div 2 \in Nat /\ Size(n, l) = 2 * (Size(n, l) \div 2)
      BY Sizes DEF h
    <3>3. /\ l \in 1..(h + 1) /\ l + 1 \in 1..(h + 1)
          /\ i \in Nat /\ 2 * i - 1 \in 1..Size(n, l) /\ 2 * i \in 1..Size(n, l)
      BY <1>1, <3>2
    <3>4. i \in 1..Size(n, l + 1)
      <4>1. 0 \in Nat /\ 0 < Size(n, l) /\ Size(n, l) \div 2 <= Size(n, l + 1)
        <5>1. Size(n, l) \in Nat /\ Size(n, l) >= 1
          BY <3>3, Sizes DEF h
        <5>2. 0 \in Nat /\ 0 < Size(n, l)
          BY <5>1
        <5>. QED
          BY <5>2, OneUp DEF h
      <4>2. Size(n, l + 1) \in Nat
        BY <3>3, Sizes DEF h
      <4>. QED
        BY <3>2, <4>1, <4>2
    <3>5. CASE l + 1 < start
      <4>1. l < start
        BY <1>1, <3>5
      <4>. QED
        BY <1>8, <3>1, <3>3, <3>5, <4>1
    \* The leaf is in the second layer, beside what the first hashes to.
    <3>6. CASE l < start /\ ~(l + 1 < start)
      <4>1. start = 2 /\ l = 1 /\ (l + 1) - start = 0
        BY <1>1, <3>6
      <4>2. index >= Size(n, 1) \div 2
        BY <4>1, Spots
      <4>3. i # at[(l + 1) - start] + 1
        <5>1. i <= Size(n, 1) \div 2
          BY <3>2, <4>1
        <5>2. at[(l + 1) - start] = index
          BY <1>2, <4>1
        <5> DEFINE half == Size(n, 1) \div 2
        <5>3. half \in Nat /\ i <= half /\ index >= half
          BY <3>2, <4>1, <4>2, <5>1
        <5> HIDE DEF half
        <5>. QED
          BY <1>1, <3>3, <5>2, <5>3
      <4>4. raised[l + 1][i] = tree[l + 1][i]
        BY <1>7, <3>3, <3>4, <3>6, <4>3
      <4>. QED
        BY <1>8, <3>1, <3>3, <3>6, <4>4
    <3>7. CASE ~(l < start)
      <4> DEFINE k == l - start
                 low == at[k]
      <4>1. /\ k \in Nat /\ (l + 1) - start = k + 1 /\ start + k = l /\ ~(l + 1 < start)
            /\ k \in 0..(h + 1 - start) /\ at[k] \in Nat
        <5>1. /\ k \in Nat /\ (l + 1) - start = k + 1 /\ start + k = l /\ ~(l + 1 < start)
              /\ k \in 0..(h + 1 - start)
          BY <1>1, <3>7
        <5>. QED
          BY <1>3, <5>1
      <4>2. at[k + 1] = low \div 2
        BY <1>2, <4>1
      <4>3. new[k + 1] = Parent(Direction(low), new[k], Sibling(tree[l], low))
        BY <1>4, <4>1 DEF Rising, at
      <4>4. /\ raised[l][low + 1] = new[k]
            /\ \A j \in 1..Size(n, l) : j # low + 1 => raised[l][j] = tree[l][j]
        BY <1>7, <3>3, <3>7
      <4>5. /\ raised[l + 1][low \div 2 + 1] = new[k + 1]
            /\ \A j \in 1..Size(n, l + 1) : j # low \div 2 + 1 => raised[l + 1][j] = tree[l + 1][j]
        <5>1. /\ raised[l + 1][at[(l + 1) - start] + 1] = new[(l + 1) - start]
              /\ \A j \in 1..Size(n, l + 1) :
                    j # at[(l + 1) - start] + 1 => raised[l + 1][j] = tree[l + 1][j]
          BY <1>7, <3>3, <4>1
        <5>. QED
          BY <4>1, <4>2, <5>1
      <4> HIDE DEF k
      <4>6. low \in Nat
        BY <4>1
      <4> HIDE DEF low
      <4>7. CASE i = low \div 2 + 1 /\ low % 2 = 0
        <5>1. 2 * i - 1 = low + 1 /\ 2 * i = low + 2 /\ 2 * i # low + 1
          BY <4>6, <4>7
        <5>2. raised[l][2 * i] = tree[l][low + 2]
          BY <3>3, <4>4, <5>1
        <5>3. new[k + 1] = InternalHash(new[k], tree[l][low + 2])
          BY <4>3, <4>7 DEF Parent, Direction, Sibling
        <5>. QED
          BY <4>4, <4>5, <4>7, <5>1, <5>2, <5>3
      <4>8. CASE i = low \div 2 + 1 /\ low % 2 # 0
        <5>1. 2 * i - 1 = low /\ 2 * i = low + 1 /\ 2 * i - 1 # low + 1
          BY <4>6, <4>8
        <5>2. raised[l][2 * i - 1] = tree[l][low]
          BY <3>3, <4>4, <5>1
        <5>3. new[k + 1] = InternalHash(tree[l][low], new[k])
          BY <4>3, <4>8 DEF Parent, Direction, Sibling
        <5>. QED
          BY <4>4, <4>5, <4>8, <5>1, <5>2, <5>3
      <4>9. CASE i # low \div 2 + 1
        <5>1. 2 * i - 1 # low + 1 /\ 2 * i # low + 1
          BY <3>3, <4>6, <4>9
        <5>2. /\ raised[l + 1][i] = tree[l + 1][i] /\ raised[l][2 * i] = tree[l][2 * i]
              /\ raised[l][2 * i - 1] = tree[l][2 * i - 1]
          BY <3>3, <3>4, <4>4, <4>5, <4>9, <5>1
        <5>. QED
          BY <3>1, <5>2
      <4>. QED
        BY <4>7, <4>8, <4>9
    <3>. QED
      BY <3>5, <3>6, <3>7
  <2>. QED
    BY <2>1, <2>2, <2>3 DEF Fit, h
<1>10. LeafOf(raised, n, node) = hash
  <2>1. /\ start \in 1..(h + 1) /\ ~(start < start) /\ start - start = 0
    BY <1>1
  <2>2. raised[start][at[start - start] + 1] = new[start - start]
    BY <1>7, <2>1
  <2>. QED
    BY <1>2, <1>4, <2>1, <2>2 DEF LeafOf
<1>11. ASSUME NEW other \in 0..(n - 1), other # node
       PROVE  LeafOf(raised, n, other) = LeafOf(tree, n, other)
  <2> DEFINE layer == Spot(n, other).layer
             place == Spot(n, other).index
  <2>1. /\ layer \in 1..2 /\ layer <= h + 1 /\ layer \in 1..(h + 1)
        /\ place \in Nat /\ place < Size(n, layer) /\ place + 1 \in 1..Size(n, layer)
    <3>1. /\ layer \in 1..2 /\ layer <= h + 1 /\ place \in Nat /\ place < Size(n, layer)
      BY Spots DEF h
    <3>2. layer \in 1..(h + 1)
      BY <1>1, <3>1
    <3>3. Size(n, layer) \in Nat
      BY <3>2, Sizes DEF h
    <3>. QED
      BY <3>1, <3>2, <3>3
  <2>2. ASSUME ~(layer < start)
        PROVE  place # at[layer - start]
    <3>1. CASE layer = start
      <4>1. at[layer - start] = index
        BY <1>1, <1>2, <3>1
      <4>2. place # index
        <5>1. CASE layer = 1
          <6>1. place = other /\ index = node
            BY <3>1, <5>1, Spots
          <6>. QED
            BY <1>11, <6>1
        <5>2. CASE layer = 2
          <6>1. place = other - Size(n, 1) \div 2 /\ index = node - Size(n, 1) \div 2
            BY <3>1, <5>2, Spots
          <6>2. Size(n, 1) \div 2 \in Nat
            <7>1. h >= 1 /\ 1 \in 1..h
              BY <1>1, <2>1, <5>2
            <7>. QED
              BY <7>1, Sizes DEF h
          <6> DEFINE half == Size(n, 1) \div 2
          <6>3. half \in Nat /\ place = other - half /\ index = node - half
            BY <6>1, <6>2
          <6> HIDE DEF half, place
          <6>. QED
            BY <1>11, <6>3
        <5>. QED
          BY <2>1, <5>1, <5>2
      <4>. QED
        BY <4>1, <4>2
    <3>2. CASE layer # start
      <4>1. layer = 2 /\ start = 1 /\ layer - start = 1 /\ 0 + 1 = 1
        BY <1>1, <2>1, <2>2, <3>2
      <4>2. at[1] = index \div 2
        BY <1>2, <4>1
      <4>3. 1 \in 1..h /\ h >= 1
        BY <1>1, <2>1, <4>1
      <4>4. index \div 2 < Size(n, 1) \div 2 /\ index \div 2 \in Nat
        BY <1>1, <4>1, <4>3, OneUp DEF h
      <4>5. place >= Size(n, 1) \div 2
        BY <4>1, Spots
      <4>6. Size(n, 1) \div 2 \in Nat
        BY <4>3, Sizes DEF h
      <4> DEFINE half == Size(n, 1) \div 2
                 up == index \div 2
      <4>7. half \in Nat /\ up \in Nat /\ up < half /\ place >= half
        BY <4>4, <4>5, <4>6
      <4> HIDE DEF half, place
      <4>8. place # up
        <5> HIDE DEF up
        <5>. QED
          BY <2>1, <4>7
      <4>. QED
        BY <4>1, <4>2, <4>8
    <3>. QED
      BY <3>1, <3>2
  <2>3. raised[layer][place + 1] = tree[layer][place + 1]
    <3>1. CASE layer < start
      BY <1>8, <2>1, <3>1
    <3>2. CASE ~(layer < start)
      <4>1. layer - start \in 0..(h + 1 - start)
        BY <1>1, <2>1, <3>2
      <4>2. at[layer - start] \in Nat /\ place # at[layer - start]
        BY <1>3, <2>2, <3>2, <4>1
      <4>3. place + 1 # at[layer - start] + 1
        BY <2>1, <4>2
      <4>. QED
        BY <1>7, <2>1, <3>2, <4>3
    <3>. QED
      BY <3>1, <3>2
  <2>. QED
    BY <2>3 DEF LeafOf
<1>. QED
  BY <1>9, <1>10, <1>11

-----------------------------------------------------------------------------
(***************************************************************************)
(* Paths of a proof.  One has as many steps as there are layers above its  *)
(* leaf, and goes from the sides the leaf and those above it are on.       *)
(***************************************************************************)
Steps(n, node) == Height(n) + 1 - Spot(n, node).layer

Leads(path, n, node) ==
    /\ path = [k \in 1..Steps(n, node) |-> path[k]]
    /\ \A k \in 1..Steps(n, node) :
          path[k].direction = Direction(Ascent(Spot(n, node).index)[k - 1])

\* Different children have different parents.
LEMMA ParentTells ==
    ASSUME NEW direction, NEW hash, NEW sibling, NEW other, NEW beside,
           Parent(direction, hash, sibling) = Parent(direction, other, beside)
    PROVE  hash = other
<1>1. \A a, b, c, d : InternalHash(a, b) = InternalHash(c, d) => a = c /\ b = d
  BY DEF InternalHash
<1>. QED
  BY <1>1 DEF Parent

\* The top of a tree shows that a hash is the one of the leaf a path leads from,
\* whatever is on its other sides; the hash shows the top with what is there.
LEMMA PathShows ==
    ASSUME NEW n \in Nat, n # 0, NEW tree, Fit(tree, n), NEW node \in 0..(n - 1),
           NEW path, Leads(path, n, node), NEW hash
    PROVE  /\ TopOf(tree) = Folded(path, hash) => hash = LeafOf(tree, n, node)
           /\ /\ hash = LeafOf(tree, n, node)
              /\ \A k \in 1..Steps(n, node) :
                    path[k].sibling = Sibling(tree[Spot(n, node).layer + (k - 1)],
                                              Ascent(Spot(n, node).index)[k - 1])
              => TopOf(tree) = Folded(path, hash)
<1> DEFINE h == Height(n)
           m == Steps(n, node)
           start == Spot(n, node).layer
           index == Spot(n, node).index
           at == Ascent(index)
           kept(k) == tree[start + k][at[k] + 1]
<1>1. /\ h \in Nat /\ start \in Nat /\ start >= 1 /\ start \in 1..(h + 1)
      /\ index \in Nat /\ index < Size(n, start)
      /\ m \in Nat /\ start + m = h + 1 /\ m = h + 1 - start
  <2>1. h \in Nat /\ start \in 1..2 /\ start <= h + 1 /\ index \in Nat /\ index < Size(n, start)
    BY Sizes, Spots
  <2>. QED
    BY <2>1 DEF Steps
<1>2. at[0] = index /\ \A k \in Nat : at[k + 1] = at[k] \div 2
  BY AscentIs
<1>3. \A k \in 0..m : at[k] \in Nat /\ at[k] < Size(n, start + k)
  BY <1>1, Ascents
<1>4. PICK up : /\ up[0] = hash
                /\ \A k \in Nat : up[k + 1] =
                     Parent(path[k + 1].direction, up[k], path[k + 1].sibling)
                /\ Folded(path, hash) = up[Len(path)]
  BY FoldedIs
<1>5. Len(path) = m
  BY <1>1, Listed DEF Leads
<1>6. \A k \in 1..m : path[k].direction = Direction(at[k - 1])
  BY DEF Leads
<1>7. kept(0) = LeafOf(tree, n, node)
  <2>1. start + 0 = start
    BY <1>1
  <2>. QED
    BY <1>2, <2>1 DEF LeafOf
<1>8. kept(m) = TopOf(tree)
  <2>1. at[m] = 0
    <3>1. m \in 0..m
      BY <1>1
    <3>2. at[m] \in Nat /\ at[m] < Size(n, h + 1)
      BY <1>1, <1>3, <3>1
    <3>3. Size(n, h + 1) = 1
      BY Sizes
    <3>. QED
      BY <3>2, <3>3
  <2>2. Len(tree) = h + 1
    <3>1. tree = [l \in 1..(h + 1) |-> tree[l]]
      BY DEF Fit
    <3>2. h + 1 \in Nat
      BY <1>1
    <3>. QED
      BY <3>1, <3>2, Listed
  <2>3. TopOf(tree) = tree[h + 1][1]
    BY <2>2 DEF TopOf, Last
  <2>4. start + m = h + 1 /\ 0 + 1 = 1
    BY <1>1
  <2>. QED
    BY <2>1, <2>3, <2>4
<1> HIDE DEF h, m, at
<1>9. ASSUME NEW k \in 0..(m - 1)
      PROVE  /\ kept(k + 1) = Parent(Direction(at[k]), kept(k), Sibling(tree[start + k], at[k]))
             /\ up[k + 1] = Parent(Direction(at[k]), up[k], path[k + 1].sibling)
  <2>1. /\ k \in Nat /\ k \in 0..m /\ k + 1 \in 1..m /\ (k + 1) - 1 = k
        /\ start + k \in 1..h /\ start + (k + 1) = (start + k) + 1
    BY <1>1
  <2>2. at[k] \in Nat /\ at[k] < Size(n, start + k)
    BY <1>3, <2>1
  <2>3. tree[(start + k) + 1][at[k] \div 2 + 1] =
            Parent(Direction(at[k]), tree[start + k][at[k] + 1], Sibling(tree[start + k], at[k]))
    BY <2>1, <2>2, OneUp DEF h
  <2>4. at[k + 1] = at[k] \div 2
    BY <1>2, <2>1
  <2>5. up[k + 1] = Parent(path[k + 1].direction, up[k], path[k + 1].sibling)
    BY <1>4, <2>1
  <2>6. path[k + 1].direction = Direction(at[k])
    BY <1>6, <2>1
  <2>. QED
    BY <2>1, <2>3, <2>4, <2>5, <2>6
<1> HIDE DEF kept
\* Down from the top.
<1>10. ASSUME TopOf(tree) = Folded(path, hash)
       PROVE  hash = LeafOf(tree, n, node)
  <2> DEFINE S == { j \in Nat : j <= m => up[m - j] = kept(m - j) }
  <2>1. 0 \in S
    <3>1. m - 0 = m
      BY <1>1
    <3>. QED
      BY <1>4, <1>5, <1>8, <1>10, <3>1
  <2>2. ASSUME NEW j \in Nat, j \in S
        PROVE  j + 1 \in S
    <3>1. SUFFICES ASSUME j + 1 <= m PROVE up[m - (j + 1)] = kept(m - (j + 1))
      OBVIOUS
    <3> DEFINE k == m - (j + 1)
    <3>2. k \in 0..(m - 1) /\ k + 1 = m - j /\ j <= m
      BY <1>1, <3>1
    <3>3. up[k + 1] = kept(k + 1)
      BY <2>2, <3>2
    <3> HIDE DEF k
    <3>4. up[k] = kept(k)
      BY <1>9, <3>2, <3>3, ParentTells
    <3>. QED
      BY <3>4 DEF k
  <2>3. Nat \subseteq S
    <3> HIDE DEF S
    <3>. QED
      BY <2>1, <2>2, FromZero
  <2>4. m - m = 0 /\ m \in S
    BY <1>1, <2>3
  <2>5. up[0] = kept(0)
    BY <1>1, <2>4
  <2>. QED
    BY <1>4, <1>7, <2>5
\* Up from the leaf.
<1>11. ASSUME hash = LeafOf(tree, n, node),
              \A k \in 1..m : path[k].sibling = Sibling(tree[start + (k - 1)], at[k - 1])
       PROVE  TopOf(tree) = Folded(path, hash)
  <2> DEFINE S == { j \in Nat : j <= m => up[j] = kept(j) }
  <2>1. 0 \in S
    BY <1>4, <1>7, <1>11
  <2>2. ASSUME NEW j \in Nat, j \in S
        PROVE  j + 1 \in S
    <3>1. SUFFICES ASSUME j + 1 <= m PROVE up[j + 1] = kept(j + 1)
      OBVIOUS
    <3>2. j \in 0..(m - 1) /\ j <= m /\ j + 1 \in 1..m /\ (j + 1) - 1 = j
      BY <1>1, <3>1
    <3>3. up[j] = kept(j)
      BY <2>2, <3>2
    <3>4. path[j + 1].sibling = Sibling(tree[start + j], at[j])
      BY <1>11, <3>2
    <3>. QED
      BY <1>9, <3>2, <3>3, <3>4
  <2>3. Nat \subseteq S
    <3> HIDE DEF S
    <3>. QED
      BY <2>1, <2>2, FromZero
  <2>4. up[m] = kept(m)
    BY <1>1, <2>3
  <2>. QED
    BY <1>4, <1>5, <1>8, <2>4
<1>. QED
  BY <1>10, <1>11 DEF m, at

-----------------------------------------------------------------------------
(***************************************************************************)
(* Chunks.                                                                 *)
(***************************************************************************)
LEMMA Division ==
    ASSUME NEW a \in Nat, NEW p \in Nat, p # 0
    PROVE  /\ a \div p \in Nat /\ a % p \in 0..(p - 1)
           /\ a = (a \div p) * p + (a % p)
OBVIOUS

\* Multiples of a number are that far apart.
LEMMA Multiples ==
    ASSUME NEW p \in Nat, NEW x \in Nat, NEW y \in Nat, x < y
    PROVE  x * p \in Nat /\ y * p \in Nat /\ x * p + p <= y * p
<1>1. PICK d \in Nat : y = x + 1 + d
  <2>1. y - x - 1 \in Nat /\ y = x + 1 + (y - x - 1)
    OBVIOUS
  <2>. QED
    BY <2>1
<1>2. y * p = x * p + p + d * p
  BY <1>1
<1>3. d * p \in Nat /\ x * p \in Nat /\ y * p \in Nat
  OBVIOUS
<1>. QED
  BY <1>2, <1>3

LEMMA Quotient ==
    ASSUME NEW a \in Nat, NEW p \in Nat, p # 0, NEW q \in Nat, q * p <= a, a < q * p + p
    PROVE  q = a \div p
<1> DEFINE r == a \div p
<1>1. r \in Nat /\ r * p <= a /\ a < r * p + p
  BY Division
<1> HIDE DEF r
<1>2. r * p \in Nat /\ q * p \in Nat
  BY <1>1
<1>3. ~(q < r)
  BY <1>1, <1>2, Multiples
<1>4. ~(r < q)
  BY <1>1, <1>2, Multiples
<1>. QED
  BY <1>1, <1>3, <1>4 DEF r

\* How many leaves there are.
Count == (Len(items) + packing - 1) \div packing

\* A vector of one item or more.
Filled == packing \in Nat /\ packing # 0 /\ items \in Seq(Item) /\ Len(items) >= 1

\* Leaves and items: every item is in the chunk of its leaf, every leaf has one.
LEMMA Counts ==
    ASSUME Filled
    PROVE  /\ Count \in Nat /\ Count # 0 /\ Nodes = 0..(Count - 1)
           /\ \A index \in Index :
                /\ index \in Nat /\ index \div packing \in 0..(Count - 1)
                /\ index % packing \in Nat /\ index % packing < packing
                /\ First(index) = (index \div packing) * packing
                /\ First(index) \in Nat /\ index = First(index) + (index % packing)
           /\ \A node \in 0..(Count - 1) :
                node * packing \in Nat /\ node * packing < Len(items)
<1> DEFINE len == Len(items)
           p == packing
<1>1. p \in Nat /\ p # 0 /\ len \in Nat /\ len >= 1
  BY LenProperties DEF Filled
<1> HIDE DEF len, p
<1>2. /\ Count \in Nat /\ Count * p <= len + p - 1 /\ len + p - 1 < Count * p + p
      /\ Count * p \in Nat
  <2>1. len + p - 1 \in Nat
    BY <1>1
  <2>2. Count = (len + p - 1) \div p
    BY DEF Count, len, p
  <2> DEFINE sum == len + p - 1
  <2>3. /\ sum \div p \in Nat /\ sum % p \in 0..(p - 1)
        /\ sum = (sum \div p) * p + (sum % p)
    BY <1>1, <2>1, Division
  <2> DEFINE q == sum \div p
             r == sum % p
  <2>4. q \in Nat /\ r \in 0..(p - 1) /\ sum = q * p + r /\ q * p \in Nat
    <3>1. q \in Nat
      BY <2>3
    <3> HIDE DEF q
    <3>2. q * p \in Nat
      BY <1>1, <3>1
    <3>. QED
      BY <2>3, <3>1, <3>2 DEF q
  <2> HIDE DEF q, r
  <2>5. q * p <= sum /\ sum < q * p + p
    <3> HIDE DEF sum
    <3>. QED
      BY <1>1, <2>4
  <2>. QED
    BY <2>2, <2>4, <2>5 DEF q
<1>3. Count # 0
  <2>1. SUFFICES ASSUME Count = 0 PROVE FALSE
    OBVIOUS
  <2>2. Count * p = 0
    BY <1>1, <2>1
  <2>. QED
    BY <1>1, <1>2, <2>2
<1> DEFINE last == Count - 1
<1>4. last \in Nat /\ last + 1 = Count /\ Count * p = last * p + p /\ last * p \in Nat
  <2>1. last \in Nat /\ last + 1 = Count
    BY <1>2, <1>3
  <2> HIDE DEF last
  <2>2. (last + 1) * p = last * p + p /\ last * p \in Nat
    BY <1>1, <2>1
  <2>. QED
    BY <2>1, <2>2
<1>5. last * p <= len - 1 /\ len - 1 < last * p + p /\ len - 1 \in Nat
  <2> HIDE DEF last
  <2>. QED
    BY <1>1, <1>2, <1>4
<1>6. last = (len - 1) \div p
  <2> HIDE DEF last
  <2>. QED
    BY <1>1, <1>4, <1>5, Quotient
<1>7. Nodes = 0..(Count - 1)
  BY <1>6 DEF Nodes, len, p
<1>8. ASSUME NEW node \in 0..(Count - 1)
      PROVE  node * p \in Nat /\ node * p < len
  <2> HIDE DEF last
  <2>1. node \in Nat /\ (node < last \/ node = last)
    BY <1>2, <1>4
  <2>2. node * p \in Nat
    BY <1>1, <2>1
  <2>3. CASE node < last
    <3>1. node * p + p <= last * p
      BY <1>1, <1>4, <2>1, <2>3, Multiples
    <3>. QED
      BY <1>1, <1>4, <1>5, <2>2, <3>1
  <2>4. CASE node = last
    BY <1>1, <1>4, <1>5, <2>4
  <2>. QED
    BY <2>1, <2>3, <2>4
<1>9. ASSUME NEW index \in Index
      PROVE  /\ index \in Nat /\ index \div p \in 0..(Count - 1)
             /\ index % p \in Nat /\ index % p < p
             /\ First(index) = (index \div p) * p
             /\ First(index) \in Nat /\ index = First(index) + (index % p)
  <2>1. index \in Nat /\ index <= len - 1
    BY <1>1 DEF Index, len
  <2>2. /\ index \div p \in Nat /\ index % p \in 0..(p - 1)
        /\ index = (index \div p) * p + (index % p)
    BY <1>1, <2>1, Division
  <2> DEFINE q == index \div p
             r == index % p
  <2>3. q \in Nat /\ r \in Nat /\ r < p /\ index = q * p + r
    BY <1>1, <2>2
  <2>4. First(index) = index - r
    BY DEF First, p
  <2> HIDE DEF q, r
  <2>5. q * p \in Nat
    BY <1>1, <2>3
  <2>6. First(index) = q * p /\ index = First(index) + r
    BY <2>1, <2>3, <2>4, <2>5
  <2>7. q <= last
    <3> HIDE DEF last
    <3>1. SUFFICES ASSUME last < q PROVE FALSE
      BY <1>4, <2>3
    <3>2. last * p + p <= q * p
      BY <1>1, <1>4, <2>3, <3>1, Multiples
    <3>. QED
      BY <1>1, <1>4, <1>5, <2>1, <2>3, <2>5, <3>2
  <2>8. q \in 0..(Count - 1)
    BY <1>2, <2>3, <2>7
  <2>. QED
    BY <2>1, <2>3, <2>5, <2>6, <2>8 DEF q, r
<1>. QED
  BY <1>2, <1>3, <1>7, <1>8, <1>9 DEF len, p

\* How many items are in the chunk from `first` on.
Room(all, first) == Least(first + packing, Len(all)) - first

LEMMA ChunkIs ==
    ASSUME packing \in Nat, packing # 0, NEW all \in Seq(Item),
           NEW first \in Nat, first < Len(all)
    PROVE  /\ Room(all, first) \in Nat /\ Room(all, first) >= 1
           /\ Room(all, first) <= packing /\ first + Room(all, first) <= Len(all)
           /\ \A i \in Nat : i < packing /\ first + i < Len(all) => i < Room(all, first)
           /\ ChunkAt(all, first) = [i \in 1..Room(all, first) |-> all[first + i]]
           /\ ChunkAt(all, first) \in Seq(Item)
           /\ Len(ChunkAt(all, first)) = Room(all, first)
<1> DEFINE last == Least(first + packing, Len(all))
           room == Room(all, first)
           chunk == ChunkAt(all, first)
<1>1. Len(all) \in Nat
  BY LenProperties
<1>2. /\ last \in Nat /\ last >= first + 1 /\ last <= first + packing /\ last <= Len(all)
      /\ \A i \in Nat : i < packing /\ first + i < Len(all) => first + i < last
  BY <1>1 DEF Least
<1>3. room = last - first
  BY DEF Room
<1> HIDE DEF last, room
<1>4. /\ room \in Nat /\ room >= 1 /\ room <= packing /\ first + room <= Len(all)
      /\ \A i \in Nat : i < packing /\ first + i < Len(all) => i < room
  BY <1>1, <1>2, <1>3
<1>5. chunk = [i \in 1..(last - (first + 1) + 1) |-> all[first + 1 + i - 1]]
  <2>1. chunk = SubSeq(all, first + 1, last)
    BY DEF ChunkAt, last
  <2> HIDE DEF chunk
  <2>. QED
    BY <1>2, <2>1, Sliced
<1>6. chunk = [i \in 1..room |-> all[first + i]]
  <2>1. last - (first + 1) + 1 = room /\ \A i \in 1..room : first + 1 + i - 1 = first + i
    BY <1>2, <1>3, <1>4
  <2> HIDE DEF chunk
  <2>. QED
    BY <1>5, <2>1
<1> HIDE DEF chunk
<1>7. chunk = [i \in 1..room |-> chunk[i]]
  BY <1>6
<1>8. Len(chunk) = room
  BY <1>4, <1>7, Listed
<1>9. chunk \in Seq(Item)
  <2>1. ASSUME NEW i \in 1..room
        PROVE  all[first + i] \in Item
    <3>1. first + i \in 1..Len(all)
      BY <1>1, <1>4
    <3>. QED
      BY <3>1, ElementOfSeq
  <2>2. chunk \in [1..room -> Item]
    BY <1>6, <2>1
  <2>. QED
    BY <1>4, <2>2
<1>. QED
  BY <1>4, <1>6, <1>8, <1>9 DEF room, chunk

\* An item that is set changes its own chunk, and no other.
LEMMA ChunkElsewhere ==
    ASSUME Filled, NEW index \in Index, NEW item \in Item,
           NEW changed, changed = [items EXCEPT ![index + 1] = item]
    PROVE  /\ changed \in Seq(Item) /\ Len(changed) = Len(items)
           /\ \A node \in 0..(Count - 1) : node # index \div packing =>
                ChunkAt(changed, node * packing) = ChunkAt(items, node * packing)
<1>1. /\ index \in Nat /\ index + 1 \in 1..Len(items) /\ Len(items) \in Nat
      /\ packing \in Nat /\ packing # 0 /\ items \in Seq(Item)
  <2>1. Len(items) \in Nat
    BY LenProperties DEF Filled
  <2>. QED
    BY <2>1 DEF Filled, Index
<1>2. /\ changed \in Seq(Item) /\ Len(changed) = Len(items)
      /\ \A j \in 1..Len(items) : changed[j] = IF j = index + 1 THEN item ELSE items[j]
  BY <1>1, ExceptSeq
<1>3. ASSUME NEW node \in 0..(Count - 1), node # index \div packing
      PROVE  ChunkAt(changed, node * packing) = ChunkAt(items, node * packing)
  <2> DEFINE first == node * packing
             room == Room(items, first)
  <2>1. first \in Nat /\ first < Len(items) /\ node \in Nat
    BY Counts
  <2>2. Room(changed, first) = room
    BY <1>2 DEF Room
  <2> HIDE DEF first
  <2>3. /\ ChunkAt(items, first) = [i \in 1..room |-> items[first + i]]
        /\ room \in Nat /\ room <= packing /\ first + room <= Len(items)
    BY <1>1, <2>1, ChunkIs
  <2>4. ChunkAt(changed, first) = [i \in 1..room |-> changed[first + i]]
    BY <1>1, <1>2, <2>1, <2>2, ChunkIs
  <2> HIDE DEF room
  <2>5. ASSUME NEW i \in 1..room
        PROVE  changed[first + i] = items[first + i]
    <3>1. first + i \in 1..Len(items) /\ first <= (first + i) - 1 /\ (first + i) - 1 \in Nat
          /\ (first + i) - 1 < first + packing
      BY <1>1, <2>1, <2>3
    <3>2. first + i # index + 1
      <4>1. SUFFICES ASSUME first + i = index + 1 PROVE FALSE
        OBVIOUS
      <4>2. first <= index /\ index < first + packing
        BY <1>1, <2>1, <3>1, <4>1
      <4>3. node = index \div packing
        BY <1>1, <2>1, <4>2, Quotient DEF first
      <4>. QED
        BY <1>3, <4>3
    <3>. QED
      BY <1>2, <3>1, <3>2
  <2>. QED
    BY <2>3, <2>4, <2>5 DEF first
<1>. QED
  BY <1>2, <1>3

\* What a proof's item is put between.
LEMMA InsertedIs ==
    ASSUME NEW siblings \in Seq(Item), NEW position \in 0..Len(siblings), NEW item
    PROVE  Inserted(siblings, position, item) =
             [i \in 1..(Len(siblings) + 1) |->
                IF i <= position THEN siblings[i]
                ELSE IF i = position + 1 THEN item ELSE siblings[i - 1]]
<1> DEFINE n == Len(siblings)
           low == SubSeq(siblings, 1, (position + 1) - 1)
           mid == <<item>>
           high == SubSeq(siblings, position + 1, n)
<1>1. n \in Nat /\ position \in Nat /\ position <= n /\ (position + 1) - 1 = position
  BY LenProperties
<1> HIDE DEF n
<1>2. low = [i \in 1..position |-> siblings[i]]
  <2>1. low = [i \in 1..(position - 1 + 1) |-> siblings[1 + i - 1]]
    BY <1>1, Sliced
  <2>2. position - 1 + 1 = position /\ \A i \in 1..position : 1 + i - 1 = i
    BY <1>1
  <2> HIDE DEF low
  <2>. QED
    BY <2>1, <2>2
<1>3. high = [i \in 1..(n - position) |-> siblings[position + i]]
  <2>1. high = [i \in 1..(n - (position + 1) + 1) |-> siblings[position + 1 + i - 1]]
    BY <1>1, Sliced
  <2>2. n - (position + 1) + 1 = n - position
        /\ \A i \in 1..(n - position) : position + 1 + i - 1 = position + i
    BY <1>1
  <2> HIDE DEF high
  <2>. QED
    BY <2>1, <2>2
<1>4. mid = [i \in 1..1 |-> item]
  OBVIOUS
<1>5. Inserted(siblings, position, item) = (low \o mid) \o high
  BY DEF Inserted, InsertAt, n
<1> HIDE DEF low, mid, high
<1>6. /\ Counted(low, position) /\ Counted(mid, 1) /\ Counted(high, n - position)
      /\ n - position \in Nat
  BY <1>1, <1>2, <1>3, <1>4 DEF Counted
<1> DEFINE both == low \o mid
<1>7. both = [i \in 1..(position + 1) |-> IF i <= position THEN low[i] ELSE mid[i - position]]
  BY <1>1, <1>6, Joined
<1> HIDE DEF both
<1>8. Counted(both, position + 1) /\ position + 1 \in Nat
  BY <1>1, <1>7 DEF Counted
<1>9. both \o high = [i \in 1..((position + 1) + (n - position)) |->
                         IF i <= position + 1 THEN both[i] ELSE high[i - (position + 1)]]
  BY <1>6, <1>8, Joined
<1>10. (position + 1) + (n - position) = n + 1
  BY <1>1
<1>11. ASSUME NEW i \in 1..(n + 1)
       PROVE  (IF i <= position + 1 THEN both[i] ELSE high[i - (position + 1)]) =
              (IF i <= position THEN siblings[i]
               ELSE IF i = position + 1 THEN item ELSE siblings[i - 1])
  <2>1. CASE i <= position
    <3>1. i \in 1..position /\ i \in 1..(position + 1) /\ i <= position + 1
      BY <1>1, <2>1
    <3>. QED
      BY <1>2, <1>7, <2>1, <3>1
  <2>2. CASE i = position + 1
    <3>1. i \in 1..(position + 1) /\ ~(i <= position) /\ i - position = 1 /\ 1 \in 1..1
          /\ i <= position + 1
      BY <1>1, <2>2
    <3>. QED
      BY <1>4, <1>7, <2>2, <3>1
  <2>3. CASE i > position + 1
    <3>1. /\ ~(i <= position) /\ ~(i <= position + 1) /\ i # position + 1
          /\ i - (position + 1) \in 1..(n - position)
          /\ position + (i - (position + 1)) = i - 1
      BY <1>1, <2>3
    <3>. QED
      BY <1>3, <3>1
  <2>. QED
    BY <1>1, <2>1, <2>2, <2>3
<1>. QED
  BY <1>5, <1>9, <1>10, <1>11 DEF both, n

LEMMA RemovedIs ==
    ASSUME NEW chunk \in Seq(Item), NEW position \in 0..(Len(chunk) - 1)
    PROVE  RemoveAt(chunk, position + 1) =
             [i \in 1..(Len(chunk) - 1) |-> IF i <= position THEN chunk[i] ELSE chunk[i + 1]]
<1> DEFINE n == Len(chunk)
           low == SubSeq(chunk, 1, (position + 1) - 1)
           high == SubSeq(chunk, (position + 1) + 1, n)
<1>1. n \in Nat /\ position \in Nat /\ position + 1 <= n /\ (position + 1) - 1 = position
  BY LenProperties
<1> HIDE DEF n
<1>2. low = [i \in 1..position |-> chunk[i]]
  <2>1. low = [i \in 1..(position - 1 + 1) |-> chunk[1 + i - 1]]
    BY <1>1, Sliced
  <2>2. position - 1 + 1 = position /\ \A i \in 1..position : 1 + i - 1 = i
    BY <1>1
  <2> HIDE DEF low
  <2>. QED
    BY <2>1, <2>2
<1>3. high = [i \in 1..(n - (position + 1)) |-> chunk[position + 1 + i]]
  <2>1. high = [i \in 1..(n - ((position + 1) + 1) + 1) |-> chunk[(position + 1) + 1 + i - 1]]
    BY <1>1, Sliced
  <2>2. n - ((position + 1) + 1) + 1 = n - (position + 1)
        /\ \A i \in 1..(n - (position + 1)) : (position + 1) + 1 + i - 1 = position + 1 + i
    BY <1>1
  <2> HIDE DEF high
  <2>. QED
    BY <2>1, <2>2
<1>4. RemoveAt(chunk, position + 1) = low \o high
  BY DEF RemoveAt, n
<1> HIDE DEF low, high
<1>5. /\ Counted(low, position) /\ Counted(high, n - (position + 1))
      /\ n - (position + 1) \in Nat
  BY <1>1, <1>2, <1>3 DEF Counted
<1>6. low \o high = [i \in 1..(position + (n - (position + 1))) |->
                        IF i <= position THEN low[i] ELSE high[i - position]]
  <2> DEFINE more == n - (position + 1)
  <2>1. Counted(low, position) /\ Counted(high, more) /\ more \in Nat
    BY <1>5
  <2> HIDE DEF more
  <2>2. low \o high = [i \in 1..(position + more) |->
                           IF i <= position THEN low[i] ELSE high[i - position]]
    BY <1>1, <2>1, Joined
  <2>. QED
    BY <2>2 DEF more
<1>7. position + (n - (position + 1)) = n - 1
  BY <1>1
<1>8. ASSUME NEW i \in 1..(n - 1)
      PROVE  (IF i <= position THEN low[i] ELSE high[i - position]) =
             (IF i <= position THEN chunk[i] ELSE chunk[i + 1])
  <2>1. CASE i <= position
    <3>1. i \in 1..position
      BY <1>1, <2>1
    <3>. QED
      BY <1>2, <2>1, <3>1
  <2>2. CASE ~(i <= position)
    <3>1. i - position \in 1..(n - (position + 1)) /\ position + 1 + (i - position) = i + 1
      BY <1>1, <2>2
    <3>. QED
      BY <1>3, <2>2, <3>1
  <2>. QED
    BY <2>1, <2>2
<1>. QED
  BY <1>4, <1>6, <1>7, <1>8 DEF n

\* An item put where one was taken out is there instead of it.
LEMMA Replaced ==
    ASSUME NEW chunk \in Seq(Item), NEW position \in 0..(Len(chunk) - 1), NEW item \in Item
    PROVE  /\ RemoveAt(chunk, position + 1) \in Seq(Item)
           /\ Len(RemoveAt(chunk, position + 1)) = Len(chunk) - 1
           /\ Inserted(RemoveAt(chunk, position + 1), position, item) =
                [chunk EXCEPT ![position + 1] = item]
<1> DEFINE n == Len(chunk)
           rest == RemoveAt(chunk, position + 1)
<1>1. /\ n \in Nat /\ position \in Nat /\ position + 1 <= n /\ n - 1 \in Nat
      /\ position \in 0..(n - 1) /\ chunk \in [1..n -> Item]
  BY LenProperties
<1>2. rest = [i \in 1..(n - 1) |-> IF i <= position THEN chunk[i] ELSE chunk[i + 1]]
  BY RemovedIs
<1> HIDE DEF n, rest
<1>3. rest \in [1..(n - 1) -> Item]
  <2>1. \A i \in 1..(n - 1) : i \in 1..n /\ i + 1 \in 1..n
    BY <1>1
  <2>. QED
    BY <1>1, <1>2, <2>1
<1>4. rest \in Seq(Item)
  BY <1>1, <1>3
<1>5. Len(rest) = n - 1
  <2>1. rest = [i \in 1..(n - 1) |-> rest[i]]
    BY <1>3
  <2>. QED
    BY <1>1, <2>1, Listed
<1>6. Inserted(rest, position, item) =
        [i \in 1..(n - 1 + 1) |-> IF i <= position THEN rest[i]
                                  ELSE IF i = position + 1 THEN item ELSE rest[i - 1]]
  BY <1>1, <1>4, <1>5, InsertedIs
<1>7. n - 1 + 1 = n
  BY <1>1
<1>8. ASSUME NEW i \in 1..n
      PROVE  (IF i <= position THEN rest[i] ELSE IF i = position + 1 THEN item ELSE rest[i - 1]) =
             [chunk EXCEPT ![position + 1] = item][i]
  <2>1. [chunk EXCEPT ![position + 1] = item][i] = IF i = position + 1 THEN item ELSE chunk[i]
    BY <1>1
  <2>2. CASE i <= position
    <3>1. i \in 1..(n - 1) /\ i # position + 1
      BY <1>1, <2>2
    <3>. QED
      BY <1>2, <2>1, <2>2, <3>1
  <2>3. CASE i = position + 1
    BY <1>1, <2>1, <2>3
  <2>4. CASE i > position + 1
    <3>1. /\ i - 1 \in 1..(n - 1) /\ ~(i - 1 <= position) /\ (i - 1) + 1 = i /\ ~(i <= position)
          /\ i # position + 1
      BY <1>1, <2>4
    <3>2. rest[i - 1] = chunk[i]
      BY <1>2, <3>1
    <3>. QED
      BY <2>1, <3>1, <3>2
  <2>. QED
    BY <1>1, <2>2, <2>3, <2>4
<1>9. [chunk EXCEPT ![position + 1] = item] =
        [i \in 1..n |-> [chunk EXCEPT ![position + 1] = item][i]]
  BY <1>1
<1>10. Inserted(rest, position, item) = [chunk EXCEPT ![position + 1] = item]
  BY <1>6, <1>7, <1>8, <1>9
<1>. QED
  BY <1>4, <1>5, <1>10 DEF n, rest
-----------------------------------------------------------------------------
(***************************************************************************)
(* Where things are in a vector whose layers have the shape.               *)
(***************************************************************************)

\* A leaf is where the code looks for it.
LEMMA Places ==
    ASSUME NEW n \in Nat, n # 0, Fit(layers, n), NEW node \in 0..(n - 1)
    PROVE  /\ Len(layers) = Height(n) + 1
           /\ Place(node) = Spot(n, node)
           /\ Kept(node) = LeafOf(layers, n, node)
<1>1. /\ Height(n) \in Nat /\ Height(n) + 1 \in Nat /\ 1 \in 1..(Height(n) + 1)
      /\ Size(n, 1) \in Nat
  BY Sizes
<1>2. /\ layers = [l \in 1..(Height(n) + 1) |-> layers[l]]
      /\ layers[1] = [i \in 1..Size(n, 1) |-> layers[1][i]]
  BY <1>1 DEF Fit
<1>3. Len(layers) = Height(n) + 1
  BY <1>1, <1>2, Listed
<1>4. Len(layers[1]) = Size(n, 1)
  BY <1>1, <1>2, Listed
<1>5. Place(node) = Spot(n, node)
  BY <1>4 DEF Place, Spot
<1>. QED
  BY <1>3, <1>5 DEF Kept, LeafOf

\* An item is where its chunk has it.
LEMMA Positions ==
    ASSUME Filled, NEW index \in Index
    PROVE  /\ Chunk(index \div packing) = ChunkAt(items, First(index))
           /\ ChunkAt(items, First(index)) \in Seq(Item)
           /\ index % packing \in 0..(Len(ChunkAt(items, First(index))) - 1)
           /\ ChunkAt(items, First(index))[(index % packing) + 1] = items[index + 1]
           /\ items[index + 1] \in Item
<1> DEFINE first == First(index)
           r == index % packing
           room == Room(items, first)
           chunk == ChunkAt(items, first)
<1>1. /\ packing \in Nat /\ packing # 0 /\ items \in Seq(Item) /\ Len(items) \in Nat
      /\ index \in Nat /\ index < Len(items)
  <2>1. Len(items) \in Nat
    BY LenProperties DEF Filled
  <2>. QED
    BY <2>1 DEF Filled, Index
<1>2. /\ first \in Nat /\ r \in Nat /\ r < packing /\ index = first + r
      /\ first = (index \div packing) * packing
  BY Counts
<1> HIDE DEF first, r
<1>3. first < Len(items) /\ first + r < Len(items)
  BY <1>1, <1>2
<1>4. /\ room \in Nat /\ room >= 1 /\ r < room
      /\ chunk = [i \in 1..room |-> items[first + i]]
      /\ chunk \in Seq(Item) /\ Len(chunk) = room
  BY <1>1, <1>2, <1>3, ChunkIs
<1> HIDE DEF room, chunk
<1>5. r \in 0..(Len(chunk) - 1) /\ r + 1 \in 1..room /\ first + (r + 1) = index + 1
  BY <1>1, <1>2, <1>4
<1>6. chunk[r + 1] = items[index + 1]
  BY <1>4, <1>5
<1>7. Chunk(index \div packing) = chunk
  BY <1>2 DEF Chunk, chunk
<1>8. items[index + 1] \in Item
  BY <1>1, ElementOfSeq
<1>. QED
  BY <1>4, <1>5, <1>6, <1>7, <1>8 DEF first, r, chunk

\* The layers of the items as they are.
LEMMA NewLayers ==
    ASSUME Filled
    PROVE  /\ Fit(Layers(Leaves(items)), Count)
           /\ \A node \in 0..(Count - 1) :
                LeafOf(Layers(Leaves(items)), Count, node) = ItemHash(Chunk(node))
<1>1. Count \in Nat /\ Count # 0
  BY Counts
<1> DEFINE nodes == Leaves(items)
<1>2. nodes = [n \in 1..Count |-> ItemHash(ChunkAt(items, (n - 1) * packing))]
  BY DEF Leaves, Count
<1> HIDE DEF nodes
<1>3. nodes = [n \in 1..Count |-> nodes[n]]
  BY <1>2
<1>4. /\ Fit(Layers(nodes), Count)
      /\ \A node \in 0..(Count - 1) : LeafOf(Layers(nodes), Count, node) = nodes[node + 1]
  BY <1>1, <1>3, LayersFitLeaves
<1>5. ASSUME NEW node \in 0..(Count - 1)
      PROVE  nodes[node + 1] = ItemHash(Chunk(node))
  <2>1. node + 1 \in 1..Count /\ (node + 1) - 1 = node
    BY <1>1
  <2>. QED
    BY <1>2, <2>1 DEF Chunk
<1>. QED
  BY <1>4, <1>5 DEF nodes

-----------------------------------------------------------------------------
(***************************************************************************)
(* The invariant.                                                          *)
(***************************************************************************)

\* The leaf of a chunk that can be hashed has its hash.
UpToDate ==
    \A node \in 0..(Count - 1) :
        Hashable(Chunk(node)) => LeafOf(layers, Count, node) = ItemHash(Chunk(node))

\* A proof that was kept leads from the leaf of its index, and goes with a chunk
\* as long as the one that is there.
HeldFits ==
    /\ held.index \in Index /\ held.item \in Item
    /\ Leads(held.proof.path, Count, held.index \div packing)
    /\ held.proof.position = held.index % packing
    /\ held.proof.siblings \in Seq(Item)
    /\ Len(held.proof.siblings) = Len(ChunkAt(items, First(held.index))) - 1

IInv ==
    /\ Filled
    /\ Fit(layers, Count)
    /\ UpToDate
    /\ held # NoProof => HeldFits

LEMMA Starts == ASSUME Init PROVE IInv
<1>1. Filled
  <2>1. /\ packing \in Nat /\ packing # 0
        /\ items # <<>> /\ items \in Seq(Item \ Unhashable)
    BY VectorAssumption DEF Init
  <2>2. items \in Seq(Item)
    <3>1. Item \ Unhashable \subseteq Item
      OBVIOUS
    <3>. QED
      BY <2>1, <3>1, SeqMonotonic
  <2>3. Len(items) \in Nat /\ Len(items) # 0
    BY <2>1, <2>2, LenProperties, EmptySeq
  <2>. QED
    BY <2>1, <2>2, <2>3 DEF Filled
<1>2. layers = Layers(Leaves(items)) /\ held = NoProof
  BY DEF Init
<1>. QED
  BY <1>1, <1>2, NewLayers DEF IInv, UpToDate

\* What is kept of a proof stays what it was while the vector keeps its length.
LEMMA HeldStays ==
    ASSUME IInv, Filled', held' = held, packing' = packing, Len(items') = Len(items)
    PROVE  held' # NoProof => HeldFits'
<1>1. SUFFICES ASSUME held # NoProof PROVE HeldFits'
  OBVIOUS
<1>2. Filled /\ HeldFits
  BY <1>1 DEF IInv
<1>3. Count' = Count /\ Index' = Index
  BY DEF Count, Index
<1> DEFINE first == First(held.index)
<1>4. First(held.index)' = first
  BY DEF First
<1>5. /\ held.index \in Index /\ first \in Nat
      /\ first < Len(items) /\ Len(items) \in Nat
  <2>1. held.index \in Index
    BY <1>2 DEF HeldFits
  <2>2. /\ first \in Nat /\ held.index = first + (held.index % packing)
        /\ held.index % packing \in Nat /\ held.index \in Nat
    BY <1>2, <2>1, Counts
  <2>3. Len(items) \in Nat
    BY <1>2, LenProperties DEF Filled
  <2>4. held.index < Len(items)
    BY <2>1, <2>3 DEF Index
  <2> HIDE DEF first
  <2>. QED
    BY <2>1, <2>2, <2>3, <2>4
<1> HIDE DEF first
<1>6. Room(items', first) = Room(items, first)
  BY DEF Room
<1>7. Len(ChunkAt(items, first)) = Room(items, first)
  BY <1>2, <1>5, ChunkIs DEF Filled
<1>8. Len(ChunkAt(items', first)) = Room(items', first)
  BY <1>2, <1>5, ChunkIs DEF Filled
<1>9. ChunkAt(items, First(held.index))' = ChunkAt(items', first)
  BY <1>4 DEF ChunkAt
<1>. QED
  BY <1>2, <1>3, <1>6, <1>7, <1>8, <1>9 DEF HeldFits, first

LEMMA SetKeeps ==
    ASSUME IInv, NEW index \in Index, NEW item \in Replacement, Set(index, item)
    PROVE  IInv'
<1> DEFINE node == index \div packing
           chunk == ChunkAt(items', First(index))
<1>1. /\ Filled /\ Fit(layers, Count) /\ UpToDate /\ item \in Item
      /\ packing' = packing /\ held' = held /\ items' = [items EXCEPT ![index + 1] = item]
  BY VectorAssumption DEF IInv, Set
<1>2. /\ items' \in Seq(Item) /\ Len(items') = Len(items)
      /\ \A other \in 0..(Count - 1) : other # node =>
            ChunkAt(items', other * packing) = ChunkAt(items, other * packing)
  BY <1>1, ChunkElsewhere
<1>3. Filled' /\ Count' = Count
  BY <1>1, <1>2 DEF Filled, Count
<1>4. /\ Count \in Nat /\ Count # 0 /\ node \in 0..(Count - 1)
      /\ First(index) = node * packing
  BY <1>1, Counts
<1>5. ASSUME NEW other \in 0..(Count - 1), other = node
      PROVE  Chunk(other)' = chunk
  BY <1>1, <1>4, <1>5 DEF Chunk, ChunkAt
<1>6. ASSUME NEW other \in 0..(Count - 1), other # node
      PROVE  Chunk(other)' = Chunk(other)
  <2>1. Chunk(other)' = ChunkAt(items', other * packing)
    BY <1>1 DEF Chunk, ChunkAt
  <2>. QED
    BY <1>2, <1>6, <2>1 DEF Chunk
<1>7. layers' = IF Hashable(chunk) THEN Raised(layers, Place(node).layer, Place(node).index, ItemHash(chunk))
                ELSE layers
  BY DEF Set
<1> HIDE DEF node, chunk
<1>8. Place(node) = Spot(Count, node)
  BY <1>1, <1>4, Places
<1>9. /\ Fit(layers', Count)
      /\ Hashable(chunk) => LeafOf(layers', Count, node) = ItemHash(chunk)
      /\ \A other \in 0..(Count - 1) :
            other # node => LeafOf(layers', Count, other) = LeafOf(layers, Count, other)
  <2>1. CASE Hashable(chunk)
    <3>1. layers' = Raised(layers, Spot(Count, node).layer, Spot(Count, node).index,
                           ItemHash(chunk))
      BY <1>7, <1>8, <2>1
    <3>. QED
      BY <1>1, <1>4, <3>1, RaisedFits
  <2>2. CASE ~Hashable(chunk)
    BY <1>1, <1>7, <2>2
  <2>. QED
    BY <2>1, <2>2
<1>10. UpToDate'
  <2>1. SUFFICES ASSUME NEW other \in 0..(Count - 1), Hashable(Chunk(other)')
                 PROVE  LeafOf(layers', Count, other) = ItemHash(Chunk(other)')
    BY <1>3 DEF UpToDate
  <2>2. CASE other = node
    <3>1. Chunk(other)' = chunk
      BY <1>5, <2>2
    <3>. QED
      BY <1>9, <2>1, <2>2, <3>1
  <2>3. CASE other # node
    BY <1>1, <1>6, <1>9, <2>1, <2>3 DEF UpToDate
  <2>. QED
    BY <2>2, <2>3
<1>11. held' # NoProof => HeldFits'
  BY <1>1, <1>2, <1>3, HeldStays
<1>. QED
  BY <1>3, <1>9, <1>10, <1>11 DEF IInv

\* A path that is taken leads from its leaf, and has what is beside it now.
LEMMA PathLeads ==
    ASSUME Filled, Fit(layers, Count), NEW index \in Index
    PROVE  /\ Leads(Prove(index).path, Count, index \div packing)
           /\ \A k \in 1..Steps(Count, index \div packing) :
                Prove(index).path[k].sibling =
                    Sibling(layers[Spot(Count, index \div packing).layer + (k - 1)],
                            Ascent(Spot(Count, index \div packing).index)[k - 1])
<1> DEFINE node == index \div packing
           spot == Spot(Count, node)
           at == Ascent(spot.index)
           path == Prove(index).path
<1>1. Count \in Nat /\ Count # 0 /\ node \in 0..(Count - 1)
  BY Counts
<1>2. Len(layers) = Height(Count) + 1 /\ Place(node) = spot
  BY <1>1, Places
<1>3. path = [k \in 1..(Len(layers) - Place(node).layer) |->
                Step(Place(node).layer + k - 1, Ascent(Place(node).index)[k - 1])]
  BY DEF Prove
<1>4. spot.layer \in Nat
  BY <1>1, Spots
<1>5. Steps(Count, node) = Len(layers) - spot.layer
  <2>1. Height(Count) \in Nat
    BY <1>1, Sizes
  <2>. QED
    BY <1>2, <1>4, <2>1 DEF Steps
<1> HIDE DEF node, spot, path
<1>6. path = [k \in 1..Steps(Count, node) |-> Step(spot.layer + k - 1, at[k - 1])]
  BY <1>2, <1>3, <1>5
<1> HIDE DEF at
<1>7. ASSUME NEW k \in 1..Steps(Count, node)
      PROVE  /\ path[k].direction = Direction(at[k - 1])
             /\ path[k].sibling = Sibling(layers[spot.layer + (k - 1)], at[k - 1])
  <2>1. spot.layer + k - 1 = spot.layer + (k - 1)
    BY <1>4
  <2>2. path[k] = Step(spot.layer + (k - 1), at[k - 1])
    BY <1>6, <2>1
  <2>. QED
    BY <2>2 DEF Step
<1>8. path = [k \in 1..Steps(Count, node) |-> path[k]]
  BY <1>6
<1>9. Leads(path, Count, node)
  BY <1>7, <1>8 DEF Leads, at, spot
<1>. QED
  BY <1>7, <1>9 DEF node, spot, at, path

LEMMA TakeKeeps ==
    ASSUME IInv, NEW index \in Index, Take(index)
    PROVE  IInv'
<1> DEFINE chunk == ChunkAt(items, First(index))
           position == index % packing
<1>1. Filled /\ Fit(layers, Count) /\ UpToDate
  BY DEF IInv
<1>2. /\ packing' = packing /\ items' = items /\ layers' = layers
      /\ held' = [index |-> index, item |-> items[index + 1], proof |-> Prove(index)]
  BY DEF Take
<1>3. Filled' /\ Fit(layers, Count)' /\ UpToDate'
  BY <1>1, <1>2 DEF Filled, Fit, UpToDate, Count, Chunk, ChunkAt
<1>4. /\ chunk \in Seq(Item) /\ position \in 0..(Len(chunk) - 1)
      /\ items[index + 1] \in Item
  BY <1>1, Positions
<1>5. /\ Prove(index).siblings = RemoveAt(chunk, position + 1)
      /\ Prove(index).position = position
  BY DEF Prove
<1> HIDE DEF chunk, position
<1>6. /\ Prove(index).siblings \in Seq(Item)
      /\ Len(Prove(index).siblings) = Len(chunk) - 1
  BY <1>4, <1>5, Replaced
<1>7. Leads(Prove(index).path, Count, index \div packing)
  BY <1>1, PathLeads
<1>8. /\ held'.index = index /\ held'.item = items[index + 1] /\ held'.proof = Prove(index)
  BY <1>2
<1>9. Count' = Count /\ Index' = Index /\ chunk = ChunkAt(items', First(index)')
  BY <1>2 DEF Count, Index, First, chunk
<1>10. ChunkAt(items, First(held.index))' = chunk
  BY <1>2, <1>8 DEF First, ChunkAt, chunk
<1>11. HeldFits'
  BY <1>2, <1>4, <1>5, <1>6, <1>7, <1>8, <1>9, <1>10 DEF HeldFits, position
<1>. QED
  BY <1>3, <1>11 DEF IInv

LEMMA ReloadKeeps ==
    ASSUME IInv, Reload
    PROVE  IInv'
<1>1. /\ packing' = packing /\ items' = items /\ held' = held
      /\ layers' = Layers(Leaves(items))
  BY DEF Reload
<1>2. Filled /\ Filled' /\ Count' = Count
  BY <1>1 DEF IInv, Filled, Count
<1>3. /\ Fit(layers', Count)
      /\ \A node \in 0..(Count - 1) : LeafOf(layers', Count, node) = ItemHash(Chunk(node))
  BY <1>1, <1>2, NewLayers
<1>4. \A node : Chunk(node)' = Chunk(node)
  BY <1>1 DEF Chunk, ChunkAt
<1>5. UpToDate'
  BY <1>2, <1>3, <1>4 DEF UpToDate
<1>6. held' # NoProof => HeldFits'
  BY <1>1, <1>2, HeldStays
<1>. QED
  BY <1>2, <1>3, <1>5, <1>6 DEF IInv

LEMMA NextKeeps == IInv /\ [Next]_vars => IInv'
<1> SUFFICES ASSUME IInv, [Next]_vars PROVE IInv'
  OBVIOUS
<1>1. ASSUME NEW index \in Index, NEW item \in Replacement, Set(index, item) PROVE IInv'
  BY <1>1, SetKeeps
<1>2. ASSUME NEW index \in Index, Take(index) PROVE IInv'
  BY <1>2, TakeKeeps
<1>3. CASE Reload
  BY <1>3, ReloadKeeps
<1>4. CASE UNCHANGED vars
  BY <1>4 DEF vars, IInv, Filled, Fit, UpToDate, HeldFits, Count, Index, Chunk, ChunkAt, First
<1>. QED
  BY <1>1, <1>2, <1>3, <1>4 DEF Next

-----------------------------------------------------------------------------
(***************************************************************************)
(* What the invariant shows.                                               *)
(***************************************************************************)
LEMMA ItsLayers == ASSUME IInv PROVE LayersFit
<1>1. /\ Filled /\ Fit(layers, Count) /\ UpToDate
      /\ Count \in Nat /\ Count # 0 /\ Nodes = 0..(Count - 1)
  BY Counts DEF IInv
<1>2. \A node \in 0..(Count - 1) : Kept(node) = LeafOf(layers, Count, node)
  BY <1>1, Places
<1>3. layers = Layers([n \in 1..Count |-> LeafOf(layers, Count, n - 1)])
  BY <1>1, LayersOfLeaves
<1>4. [n \in 1..Count |-> LeafOf(layers, Count, n - 1)] = [n \in 1..Count |-> Kept(n - 1)]
  <2>1. \A n \in 1..Count : n - 1 \in 0..(Count - 1)
    BY <1>1
  <2>. QED
    BY <1>2, <2>1
<1>5. layers = Layers([n \in 1..((Len(items) + packing - 1) \div packing) |-> Kept(n - 1)])
  BY <1>3, <1>4, Zenon DEF Count
<1>6. \A node \in Nodes : Hashable(Chunk(node)) => Kept(node) = ItemHash(Chunk(node))
  BY <1>1, <1>2 DEF UpToDate
<1>. QED
  BY <1>5, <1>6 DEF LayersFit

\* What hashes alike is alike.
LEMMA ItemHashTells ==
    ASSUME NEW chunk, NEW other, ItemHash(chunk) = ItemHash(other)
    PROVE  chunk = other
BY DEF ItemHash

LEMMA ItsProofs == ASSUME IInv PROVE ProofsShow
<1>1. SUFFICES ASSUME NEW index \in Index, Hashable(ChunkAt(items, First(index))),
                      NEW item \in Item
               PROVE  Verify(Prove(index), TopOf(layers), item) <=> item = items[index + 1]
  BY DEF ProofsShow
<1> DEFINE node == index \div packing
           chunk == ChunkAt(items, First(index))
           position == index % packing
           inserted == [chunk EXCEPT ![position + 1] = item]
           path == Prove(index).path
<1>2. Filled /\ Fit(layers, Count) /\ UpToDate
  BY DEF IInv
<1>3. Count \in Nat /\ Count # 0 /\ node \in 0..(Count - 1)
  BY <1>2, Counts
<1>4. /\ Chunk(node) = chunk /\ chunk \in Seq(Item) /\ position \in 0..(Len(chunk) - 1)
      /\ chunk[position + 1] = items[index + 1]
  BY <1>2, Positions
<1>5. position + 1 \in DOMAIN chunk
  BY <1>4, LenProperties
<1>6. LeafOf(layers, Count, node) = ItemHash(chunk)
  BY <1>1, <1>2, <1>3, <1>4 DEF UpToDate
<1>7. /\ Prove(index).siblings = RemoveAt(chunk, position + 1)
      /\ Prove(index).position = position
  BY DEF Prove
<1>8. /\ Leads(path, Count, node)
      /\ \A k \in 1..Steps(Count, node) :
            path[k].sibling = Sibling(layers[Spot(Count, node).layer + (k - 1)],
                                      Ascent(Spot(Count, node).index)[k - 1])
  BY <1>2, PathLeads
<1> HIDE DEF node, chunk, position, path
<1>9. Inserted(Prove(index).siblings, Prove(index).position, item) = inserted
  BY <1>4, <1>7, Replaced
<1>10. Verify(Prove(index), TopOf(layers), item) <=>
          Hashable(inserted) /\ TopOf(layers) = Folded(path, ItemHash(inserted))
  BY <1>9 DEF Verify, path
<1>11. /\ TopOf(layers) = Folded(path, ItemHash(inserted)) =>
              ItemHash(inserted) = LeafOf(layers, Count, node)
       /\ ItemHash(inserted) = LeafOf(layers, Count, node) =>
              TopOf(layers) = Folded(path, ItemHash(inserted))
  BY <1>2, <1>3, <1>8, PathShows
<1>12. inserted = chunk <=> item = items[index + 1]
  <2>1. inserted[position + 1] = item
    BY <1>5
  <2>2. chunk[position + 1] = item => inserted = chunk
    BY <1>4, LenProperties
  <2>. QED
    BY <1>4, <2>1, <2>2
<1>13. Hashable(chunk)
  BY <1>1 DEF chunk
<1>14. ItemHash(inserted) = LeafOf(layers, Count, node) <=> inserted = chunk
  BY <1>6, ItemHashTells
<1> HIDE DEF inserted
<1>. QED
  BY <1>10, <1>11, <1>12, <1>13, <1>14

LEMMA ItsStale == ASSUME IInv PROVE StaleRefused
<1> DEFINE index == held.index
           node == index \div packing
           chunk == ChunkAt(items, First(index))
           position == index % packing
           siblings == held.proof.siblings
           path == held.proof.path
<1>1. SUFFICES ASSUME held # NoProof, Hashable(chunk),
                      Verify(held.proof, TopOf(layers), held.item)
               PROVE  items[index + 1] = held.item
  BY DEF StaleRefused
<1>2. Filled /\ Fit(layers, Count) /\ UpToDate /\ HeldFits
  BY <1>1 DEF IInv
<1>3. /\ index \in Index /\ Leads(path, Count, node) /\ held.proof.position = position
      /\ siblings \in Seq(Item) /\ Len(siblings) = Len(chunk) - 1
  BY <1>2 DEF HeldFits
<1>4. Count \in Nat /\ Count # 0 /\ node \in 0..(Count - 1)
  BY <1>2, <1>3, Counts
<1>5. /\ Chunk(node) = chunk /\ chunk \in Seq(Item) /\ position \in 0..(Len(chunk) - 1)
      /\ chunk[position + 1] = items[index + 1]
  BY <1>2, <1>3, Positions
<1> DEFINE inserted == Inserted(siblings, position, held.item)
<1>6. TopOf(layers) = Folded(path, ItemHash(inserted))
  BY <1>1, <1>3 DEF Verify
<1>7. LeafOf(layers, Count, node) = ItemHash(chunk)
  BY <1>1, <1>2, <1>4, <1>5 DEF UpToDate
<1> HIDE DEF index, node, chunk, position, siblings, path
<1>8. inserted = [i \in 1..(Len(siblings) + 1) |->
                    IF i <= position THEN siblings[i]
                    ELSE IF i = position + 1 THEN held.item ELSE siblings[i - 1]]
  <2>1. siblings \in Seq(Item) /\ position \in 0..Len(siblings)
    BY <1>3, <1>5
  <2> DEFINE item == held.item
  <2> HIDE DEF item, inserted
  <2>2. Inserted(siblings, position, item) =
          [i \in 1..(Len(siblings) + 1) |->
              IF i <= position THEN siblings[i]
              ELSE IF i = position + 1 THEN item ELSE siblings[i - 1]]
    BY <2>1, InsertedIs
  <2>. QED
    BY <2>2, Zenon DEF item, inserted
<1> HIDE DEF inserted
<1>9. ItemHash(inserted) = LeafOf(layers, Count, node)
  BY <1>2, <1>3, <1>4, <1>6, PathShows
<1>10. inserted = chunk
  BY <1>7, <1>9, ItemHashTells
<1>11. inserted[position + 1] = held.item
  <2>1. Len(chunk) \in Nat
    BY <1>5, LenProperties
  <2>2. position + 1 \in 1..(Len(siblings) + 1) /\ ~(position + 1 <= position)
    BY <1>3, <1>5, <2>1
  <2>. QED
    BY <1>8, <2>2
<1>. QED
  BY <1>5, <1>10, <1>11

-----------------------------------------------------------------------------
LEMMA Invariance == Spec => []IInv
<1>1. Init => IInv
  BY Starts
<1>. QED
  BY <1>1, NextKeeps, PTL DEF Spec

\* Vector::set and Vector::new: for any number of items and any packing, and after
\* any calls of `set`, also of items that have no hash, the layers are those of a new
\* vector with the same leaves, and a leaf that can be hashed is up to date.
THEOREM LayersStay == Spec => []LayersFit
BY Invariance, ItsLayers, PTL

\* Vector::prove and Proof::verify: for any number of items and any packing, a proof
\* that is taken now shows the item at its index, and no other one.
THEOREM ProofsTell == Spec => []ProofsShow
BY Invariance, ItsProofs, PTL

\* Proof::verify: for any number of items and any packing, a proof that was kept
\* while the vector changed does not show an item that is no longer there.
THEOREM StaleIsRefused == Spec => []StaleRefused
BY Invariance, ItsStale, PTL
=============================================================================

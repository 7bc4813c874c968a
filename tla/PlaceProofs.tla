----------------------------- MODULE PlaceProofs -----------------------------
(***************************************************************************)
(* Facts about locations, the keys they hold and the way down a tree, for  *)
(* digests of any length and any tree: what proofs about any module that   *)
(* works on trees rest on.                                                 *)
(***************************************************************************)
EXTENDS Tree, FiniteSetTheorems, SequenceTheorems, WellFoundedInduction, TLAPS

-----------------------------------------------------------------------------
(***************************************************************************)
(* Induction, for sets of numbers.                                         *)
(***************************************************************************)

\* Every set of naturals has a least element.
LEMMA LeastNatural ==
    ASSUME NEW S \in SUBSET Nat, S # {}
    PROVE  \E n \in S : \A m \in S : n <= m
<1>1. PICK n \in S : \A m \in S : <<m, n>> \notin OpToRel(<, Nat)
  BY WFMin, NatLessThanWellFounded
<1>2. ASSUME NEW m \in S
      PROVE  n <= m
  <2>1. <<m, n>> \notin {ss \in Nat \X Nat : ss[1] < ss[2]}
    BY <1>1 DEF OpToRel
  <2>2. m \in Nat /\ n \in Nat
    OBVIOUS
  <2>. QED
    BY <2>1, <2>2
<1>. QED
  BY <1>2

\* A set that has zero, and with a number the next one, has them all.
LEMMA SetInduction ==
    ASSUME NEW S, 0 \in S, \A n \in Nat : n \in S => n + 1 \in S
    PROVE  Nat \subseteq S
<1>1. SUFFICES ASSUME Nat \ S # {}
               PROVE  FALSE
  OBVIOUS
<1>2. PICK n \in Nat \ S : \A m \in Nat \ S : n <= m
  BY <1>1, LeastNatural
<1>3. n - 1 \in Nat /\ n - 1 \in S /\ n = (n - 1) + 1
  BY <1>2
<1>. QED
  BY <1>3

-----------------------------------------------------------------------------
(***************************************************************************)
(* Locations.                                                              *)
(***************************************************************************)

\* Where a node may be.
Places == { p \in Seq(Direction) : Len(p) <= PathLength }

\* One location is above another one, or is the same.
Above(p, q) == Len(p) <= Len(q) /\ \A i \in 1..Len(p) : p[i] = q[i]

\* A digest is a place.
LEMMA PathPlace ==
    ASSUME NEW k \in Key
    PROVE  Path[k] \in Places /\ Len(Path[k]) = PathLength
<1>1. Path[k] \in [1..PathLength -> Direction] /\ PathLength \in Nat
  BY TreeAssumption
<1>2. Path[k] \in Seq(Direction) /\ Len(Path[k]) = PathLength
  BY <1>1
<1>. QED
  BY <1>1, <1>2 DEF Places

\* A place is a sequence.
LEMMA PlaceSeq ==
    ASSUME NEW p \in Places
    PROVE  /\ p \in Seq(Direction) /\ Len(p) \in Nat /\ Len(p) <= PathLength
           /\ PathLength \in Nat /\ Depth \in Nat /\ Depth <= PathLength
           /\ \A i \in 1..Len(p) : p[i] \in Direction
  BY TreeAssumption, LenProperties, ElementOfSeq DEF Places

\* The root is a place.
LEMMA RootPlace == Root \in Places /\ Len(Root) = 0
  BY TreeAssumption, EmptySeq DEF Places, Root

\* One place further down.
LEMMA Deeper ==
    ASSUME NEW p \in Places, NEW d \in Direction
    PROVE  /\ Append(p, d) \in Seq(Direction)
           /\ Len(Append(p, d)) = Len(p) + 1
           /\ Len(p) < PathLength => Append(p, d) \in Places
           /\ \A i \in 1..Len(p) : Append(p, d)[i] = p[i]
           /\ Append(p, d)[Len(p) + 1] = d
           /\ Front(Append(p, d)) = p /\ Last(Append(p, d)) = d
           /\ Append(p, d) # Root /\ Append(p, d) # p
<1>1. p \in Seq(Direction) /\ Len(p) \in Nat /\ PathLength \in Nat
  BY PlaceSeq
<1>2. /\ Append(p, d) \in Seq(Direction)
      /\ Len(Append(p, d)) = Len(p) + 1
      /\ \A i \in 1..Len(p) : Append(p, d)[i] = p[i]
      /\ Append(p, d)[Len(p) + 1] = d
      /\ Append(p, d) # <<>>
  BY <1>1, AppendProperties
<1>3. Len(p) < PathLength => Append(p, d) \in Places
  BY <1>1, <1>2 DEF Places
<1>4. Front(Append(p, d)) = p /\ Last(Append(p, d)) = d
  BY <1>1, <1>2 DEF Front, Last
<1>. QED
  BY <1>1, <1>2, <1>3, <1>4 DEF Root

\* Every other place is one further down than its front.
LEMMA Higher ==
    ASSUME NEW p \in Places, p # Root
    PROVE  /\ Front(p) \in Places /\ Last(p) \in Direction
           /\ p = Append(Front(p), Last(p))
           /\ Len(Front(p)) = Len(p) - 1 /\ Len(p) > 0 /\ Len(Front(p)) < PathLength
<1>1. PICK s \in Seq(Direction), d \in Direction : p = Append(s, d)
  BY PlaceSeq, SequenceEmptyOrAppend DEF Root
<1>2. Len(p) = Len(s) + 1 /\ Len(s) \in Nat
  BY <1>1, AppendProperties, LenProperties
<1>3. s \in Places /\ Len(s) < PathLength
  BY <1>2, PlaceSeq DEF Places
<1>4. Front(p) = s /\ Last(p) = d
  BY <1>1, <1>3, Deeper
<1>. QED
  BY <1>1, <1>2, <1>3, <1>4

\* The two halves of a place.
LEMMA Halves ==
    ASSUME NEW p \in Places
    PROVE  /\ Left(p) = Append(p, "L") /\ Right(p) = Append(p, "R")
           /\ Left(p) # Right(p) /\ {"L", "R"} = Direction
  BY Deeper DEF Left, Right, Direction

\* Places are equal when their fronts and last directions are.
LEMMA SamePlace ==
    ASSUME NEW p \in Places, NEW q \in Places, NEW d \in Direction, NEW e \in Direction
    PROVE  Append(p, d) = Append(q, e) <=> p = q /\ d = e
  BY PlaceSeq, AppendInjective

\* Places that go the same way are the same, or one is above the other.
LEMMA AboveFacts ==
    ASSUME NEW p \in Places, NEW q \in Places
    PROVE  /\ Above(p, p)
           /\ IsPrefix(p, q) <=> Above(p, q)
           /\ Above(p, q) /\ Len(p) = Len(q) => p = q
           /\ Above(p, q) /\ p # q => Len(p) < Len(q)
           /\ \A d \in Direction : Above(p, Append(p, d))
<1>1. /\ p \in Seq(Direction) /\ Len(p) \in Nat
      /\ q \in Seq(Direction) /\ Len(q) \in Nat
  BY PlaceSeq
<1>2. Above(p, p)
  BY <1>1 DEF Above
<1>3. Above(p, q) /\ Len(p) = Len(q) => p = q
  BY <1>1, SeqEqual DEF Above
<1>4. ASSUME Len(p) <= Len(q)
      PROVE  SubSeq(p, 1, Len(p)) = SubSeq(q, 1, Len(p)) <=> \A i \in 1..Len(p) : p[i] = q[i]
  <2>1. SubSeq(p, 1, Len(p)) = p
    BY <1>1, SubSeqFull
  <2>2. \A i \in 1..Len(p) : q[i] \in Direction
    BY <1>1, <1>4, ElementOfSeq
  <2>3. /\ SubSeq(q, 1, Len(p)) \in Seq(Direction)
        /\ Len(SubSeq(q, 1, Len(p))) = Len(p)
        /\ \A i \in 1..Len(p) : SubSeq(q, 1, Len(p))[i] = q[i]
    <3>1. Len(p) \in Int /\ 1 \in Int
      BY <1>1
    <3>2. /\ SubSeq(q, 1, Len(p)) \in Seq(Direction)
          /\ Len(SubSeq(q, 1, Len(p))) = IF 1 <= Len(p) THEN Len(p) - 1 + 1 ELSE 0
          /\ \A i \in 1 .. Len(p) - 1 + 1 : SubSeq(q, 1, Len(p))[i] = q[1 + i - 1]
      BY <2>2, <3>1, SubSeqProperties
    <3>. QED
      BY <1>1, <3>2
  <2>4. (\A i \in 1..Len(p) : p[i] = q[i]) => p = SubSeq(q, 1, Len(p))
    BY <1>1, <2>3, SeqEqual
  <2>. QED
    BY <2>1, <2>3, <2>4
<1>5. \A d \in Direction : Above(p, Append(p, d))
  BY <1>1, Deeper DEF Above
<1>. QED
  BY <1>1, <1>2, <1>3, <1>4, <1>5 DEF Above, IsPrefix

\* What the two halves of a place are.
LEMMA HalfFacts ==
    ASSUME NEW p \in Places
    PROVE  /\ Left(p) # Right(p) /\ Last(Left(p)) = "L" /\ Last(Right(p)) = "R"
           /\ \A half \in {Left(p), Right(p)} :
                 /\ half # p /\ half # Root /\ Above(p, half) /\ Len(half) = Len(p) + 1
                 /\ Front(half) = p
                 /\ Len(p) < PathLength => half \in Places
<1>1. "L" \in Direction /\ "R" \in Direction
  BY DEF Direction
<1>2. \A d \in Direction :
         /\ Append(p, d) # p /\ Append(p, d) # Root /\ Above(p, Append(p, d))
         /\ Len(Append(p, d)) = Len(p) + 1 /\ Front(Append(p, d)) = p /\ Last(Append(p, d)) = d
         /\ Len(p) < PathLength => Append(p, d) \in Places
  BY Deeper, AboveFacts
<1>. QED
  BY <1>1, <1>2, Halves

\* Being above, from one to the next.
LEMMA AboveAbove ==
    ASSUME NEW p \in Places, NEW q \in Places, NEW r \in Places
    PROVE  /\ Above(p, q) /\ Above(q, r) => Above(p, r)
           /\ Above(p, r) /\ Above(q, r) => Above(p, q) \/ Above(q, p)
           /\ \A d \in Direction : Above(Append(p, d), q) => Above(p, q) /\ q[Len(p) + 1] = d
<1>1. Len(p) \in Nat /\ Len(q) \in Nat /\ Len(r) \in Nat
  BY PlaceSeq
<1>2. ASSUME NEW d \in Direction, Above(Append(p, d), q)
      PROVE  Above(p, q) /\ q[Len(p) + 1] = d
  <2>1. /\ Len(Append(p, d)) = Len(p) + 1 /\ Append(p, d)[Len(p) + 1] = d
        /\ \A i \in 1..Len(p) : Append(p, d)[i] = p[i]
    BY Deeper
  <2> HIDE DEF Above
  <2>2. Len(p) + 1 <= Len(q) /\ \A i \in 1..(Len(p) + 1) : Append(p, d)[i] = q[i]
    BY <1>2, <2>1 DEF Above
  <2>. QED
    BY <1>1, <2>1, <2>2 DEF Above
<1>3. Above(p, q) /\ Above(q, r) => Above(p, r)
  BY <1>1 DEF Above
<1>4. Above(p, r) /\ Above(q, r) => Above(p, q) \/ Above(q, p)
  BY <1>1 DEF Above
<1>. QED
  BY <1>2, <1>3, <1>4

\* Below a place, one is below a half of it.
LEMMA AboveHalf ==
    ASSUME NEW p \in Places, NEW q \in Places, Above(p, q), p # q
    PROVE  Above(Left(p), q) \/ Above(Right(p), q)
<1>1. Len(p) \in Nat /\ Len(q) \in Nat /\ Len(p) < Len(q) /\ q \in Seq(Direction)
  BY PlaceSeq, AboveFacts
<1>2. Len(p) + 1 \in 1..Len(q) /\ q[Len(p) + 1] \in Direction
  BY <1>1, PlaceSeq
<1>3. ASSUME NEW d \in Direction, q[Len(p) + 1] = d
      PROVE  Above(Append(p, d), q)
  <2>1. /\ Len(Append(p, d)) = Len(p) + 1 /\ Append(p, d)[Len(p) + 1] = d
        /\ \A i \in 1..Len(p) : Append(p, d)[i] = p[i]
    BY Deeper
  <2>2. \A i \in 1..(Len(p) + 1) : i \in 1..Len(p) \/ i = Len(p) + 1
    BY <1>1
  <2>3. \A i \in 1..(Len(p) + 1) : Append(p, d)[i] = q[i]
    BY <1>3, <2>1, <2>2 DEF Above
  <2>. QED
    BY <1>1, <2>1, <2>3 DEF Above
<1>. QED
  BY <1>2, <1>3, Halves DEF Direction

-----------------------------------------------------------------------------
(***************************************************************************)
(* Keys.                                                                   *)
(***************************************************************************)

\* A place holds the keys whose digests it is above.
LEMMA HoldsAbove ==
    ASSUME NEW p \in Places, NEW k \in Key
    PROVE  Holds(p, k) <=> Above(p, Path[k])
  BY PathPlace, AboveFacts DEF Holds

\* The root holds every key.
LEMMA HoldsRoot == \A k \in Key : Holds(Root, k)
<1>. SUFFICES ASSUME NEW k \in Key PROVE Holds(Root, k)
  OBVIOUS
<1>1. Len(Root) = 0 /\ Root \in Places /\ Path[k] \in Places /\ Len(Path[k]) \in Nat
  BY RootPlace, PathPlace, PlaceSeq
<1>2. Above(Root, Path[k])
  BY <1>1 DEF Above
<1>. QED
  BY <1>1, <1>2, HoldsAbove

\* A place above the end of the digests holds a key in one of its halves.
LEMMA HoldsDeeper ==
    ASSUME NEW p \in Places, NEW k \in Key, NEW d \in Direction, Len(p) < PathLength
    PROVE  Holds(Append(p, d), k) <=> Holds(p, k) /\ Path[k][Len(p) + 1] = d
<1>1. Append(p, d) \in Places /\ Len(p) \in Nat /\ PathLength \in Nat
  BY Deeper, PlaceSeq
<1>2. /\ Holds(Append(p, d), k) <=> Above(Append(p, d), Path[k])
      /\ Holds(p, k) <=> Above(p, Path[k])
      /\ Path[k] \in Places /\ Len(Path[k]) = PathLength
  BY <1>1, HoldsAbove, PathPlace
<1>3. Above(Append(p, d), Path[k]) => Above(p, Path[k]) /\ Path[k][Len(p) + 1] = d
  BY <1>1, <1>2, AboveAbove
<1>4. ASSUME Above(p, Path[k]), Path[k][Len(p) + 1] = d
      PROVE  Above(Append(p, d), Path[k])
  <2>1. /\ Len(Append(p, d)) = Len(p) + 1 /\ Append(p, d)[Len(p) + 1] = d
        /\ \A i \in 1..Len(p) : Append(p, d)[i] = p[i]
    BY Deeper
  <2>2. \A i \in 1..(Len(p) + 1) : i \in 1..Len(p) \/ i = Len(p) + 1
    BY <1>1
  <2>3. \A i \in 1..(Len(p) + 1) : Append(p, d)[i] = Path[k][i]
    BY <1>4, <2>1, <2>2 DEF Above
  <2>. QED
    BY <1>1, <1>2, <2>1, <2>3 DEF Above
<1>. QED
  BY <1>2, <1>3, <1>4

\* The halves of a place split its keys, and tell it.
LEMMA HoldsHalves ==
    ASSUME NEW p \in Places
    PROVE  /\ \A k \in Key : Len(p) < PathLength =>
                /\ Holds(Left(p), k) <=> Holds(p, k) /\ Path[k][Len(p) + 1] = "L"
                /\ Holds(Right(p), k) <=> Holds(p, k) /\ Path[k][Len(p) + 1] = "R"
           /\ \A q \in Places : /\ Left(p) = Left(q) => p = q
                                /\ Right(p) = Right(q) => p = q
                                /\ Left(p) # Right(q)
<1>1. "L" \in Direction /\ "R" \in Direction /\ "L" # "R"
  BY DEF Direction
<1>2. \A q \in Places : Left(q) = Append(q, "L") /\ Right(q) = Append(q, "R")
  BY Halves
<1>3. \A k \in Key : Len(p) < PathLength =>
         /\ Holds(Append(p, "L"), k) <=> Holds(p, k) /\ Path[k][Len(p) + 1] = "L"
         /\ Holds(Append(p, "R"), k) <=> Holds(p, k) /\ Path[k][Len(p) + 1] = "R"
  BY <1>1, HoldsDeeper
<1>4. \A q \in Places : /\ Append(p, "L") = Append(q, "L") => p = q
                        /\ Append(p, "R") = Append(q, "R") => p = q
                        /\ Append(p, "L") # Append(q, "R")
  BY <1>1, SamePlace
<1>. QED
  BY <1>2, <1>3, <1>4

\* Two keys part before the end of their digests.
LEMMA KeysPart ==
    ASSUME NEW p \in Places, NEW j \in Key, NEW k \in Key, j # k, Holds(p, j), Holds(p, k)
    PROVE  Len(p) < PathLength
<1>1. Above(p, Path[j]) /\ Above(p, Path[k])
  BY HoldsAbove
<1>2. Len(p) = PathLength => Path[j] = p /\ Path[k] = p
  BY <1>1, PathPlace, AboveFacts
<1>3. Path[j] # Path[k]
  BY TreeAssumption
<1>. QED
  BY <1>2, <1>3, PlaceSeq

\* Two places that hold one key are one above the other.
LEMMA HoldsBoth ==
    ASSUME NEW p \in Places, NEW q \in Places, NEW k \in Key, Holds(p, k), Holds(q, k)
    PROVE  Above(p, q) \/ Above(q, p)
  BY HoldsAbove, PathPlace, AboveAbove

-----------------------------------------------------------------------------
(***************************************************************************)
(* Going down a tree.                                                      *)
(***************************************************************************)

\* The nodes met on the way down, in n steps.
Walk(f, label, s, n) == f[0] = label /\ \A i \in 1..n : f[i] = Child(f[i - 1], s[i])

\* There is one end to a way down.
LEMMA WalkSame ==
    ASSUME NEW f, NEW g, NEW label, NEW s, NEW t, NEW n \in Nat,
           Walk(f, label, s, n), Walk(g, label, t, n), \A i \in 1..n : s[i] = t[i]
    PROVE  f[n] = g[n]
<1> DEFINE S == { m \in Nat : m <= n => f[m] = g[m] }
<1>1. 0 \in S
  BY DEF Walk
<1>2. ASSUME NEW m \in Nat, m \in S
      PROVE  m + 1 \in S
  <2>1. SUFFICES ASSUME m + 1 <= n PROVE f[m + 1] = g[m + 1]
    OBVIOUS
  <2>2. m + 1 \in 1..n /\ (m + 1) - 1 = m /\ f[m] = g[m]
    BY <1>2, <2>1
  <2>3. /\ f[m + 1] = Child(f[(m + 1) - 1], s[m + 1])
        /\ g[m + 1] = Child(g[(m + 1) - 1], t[m + 1])
        /\ s[m + 1] = t[m + 1]
    BY <2>2 DEF Walk
  <2>. QED
    BY <2>2, <2>3
<1> HIDE DEF S
<1>3. n \in S
  BY <1>1, <1>2, SetInduction
<1>. QED
  BY <1>3 DEF S

\* The labels met on the way, as a function.
IsChain(f, label, s, n) ==
    f = [i \in 0..n |-> IF i = 0 THEN label ELSE Child(f[i - 1], s[i])]

\* There is a way down, of any length.
LEMMA WalkExists ==
    ASSUME NEW label, NEW s, NEW n \in Nat
    PROVE  \E f : IsChain(f, label, s, n)
<1> DEFINE Way(f, m) == f = [i \in 0..m |-> IF i = 0 THEN label ELSE Child(f[i - 1], s[i])]
           S == { m \in Nat : \E f : Way(f, m) }
<1>1. 0 \in S
  <2>1. Way([i \in 0..0 |-> label], 0)
    OBVIOUS
  <2>. QED
    BY <2>1
<1>2. ASSUME NEW m \in Nat, m \in S
      PROVE  m + 1 \in S
  <2>1. PICK f : Way(f, m)
    BY <1>2
  <2> DEFINE g == [i \in 0..(m + 1) |-> IF i = m + 1 THEN Child(f[m], s[m + 1]) ELSE f[i]]
  <2>2. ASSUME NEW i \in 0..(m + 1)
        PROVE  g[i] = IF i = 0 THEN label ELSE Child(g[i - 1], s[i])
    <3>1. CASE i = m + 1
      <4>1. i # 0 /\ i - 1 = m /\ m \in 0..(m + 1) /\ m # m + 1
        BY <3>1
      <4>2. g[m] = f[m]
        BY <4>1
      <4>. QED
        BY <3>1, <4>1, <4>2
    <3>2. CASE i # m + 1
      <4>1. i \in 0..m /\ (i # 0 => i - 1 \in 0..(m + 1) /\ i - 1 # m + 1)
        BY <3>2
      <4>2. g[i] = f[i] /\ (i # 0 => g[i - 1] = f[i - 1])
        BY <3>2, <4>1
      <4>3. f[i] = IF i = 0 THEN label ELSE Child(f[i - 1], s[i])
        BY <2>1, <4>1
      <4>. QED
        BY <4>2, <4>3
    <3>. QED
      BY <3>1, <3>2
  <2>3. g = [i \in 0..(m + 1) |-> g[i]]
    OBVIOUS
  <2>4. Way(g, m + 1)
    <3> HIDE DEF g
    <3>. QED
      BY <2>2, <2>3
  <2>5. \E h : Way(h, m + 1)
    <3> HIDE DEF g, Way
    <3>. QED
      BY <2>4
  <2>. QED
    <3> HIDE DEF Way
    <3>. QED
      BY <2>5
<1> HIDE DEF S
<1>3. n \in S
  BY <1>1, <1>2, SetInduction
<1>4. \A f : Way(f, n) <=> IsChain(f, label, s, n)
  BY Zenon DEF IsChain
<1> HIDE DEF Way
<1>. QED
  BY <1>3, <1>4 DEF S

\* The same, in the words of Walk.
LEMMA WalkAny ==
    ASSUME NEW label, NEW s, NEW n \in Nat
    PROVE  \E f : Walk(f, label, s, n)
<1> DEFINE f == CHOOSE f : f = [i \in 0..n |-> IF i = 0 THEN label ELSE Child(f[i - 1], s[i])]
<1>4. \E g : IsChain(g, label, s, n)
  BY WalkExists
<1>1. f = [i \in 0..n |-> IF i = 0 THEN label ELSE Child(f[i - 1], s[i])]
  BY <1>4, Zenon DEF IsChain
<1> HIDE DEF f
<1>2. f[0] = label
  BY <1>1
<1>3. ASSUME NEW i \in 1..n
      PROVE  f[i] = Child(f[i - 1], s[i])
  <2>1. i \in 0..n /\ i # 0
    OBVIOUS
  <2>. QED
    BY <1>1, <2>1
<1>. QED
  BY <1>2, <1>3 DEF Walk

\* Descend is the end of the way down.
LEMMA DescendWalk ==
    ASSUME NEW label, NEW s \in Seq(Direction)
    PROVE  \E f : Walk(f, label, s, Len(s)) /\ Descend(label, s) = f[Len(s)]
<1>1. Len(s) \in Nat
  BY LenProperties
<1> DEFINE f == CHOOSE f : f = [i \in 0..Len(s) |-> IF i = 0 THEN label ELSE Child(f[i - 1], s[i])]
<1>5. \E g : IsChain(g, label, s, Len(s))
  BY <1>1, WalkExists
<1>2. f = [i \in 0..Len(s) |-> IF i = 0 THEN label ELSE Child(f[i - 1], s[i])]
  BY <1>5, Zenon DEF IsChain
<1>3. Descend(label, s) = f[Len(s)]
  BY DEF Descend
<1> HIDE DEF f
<1>4. f[0] = label
  BY <1>1, <1>2
<1>6. ASSUME NEW i \in 1..Len(s)
      PROVE  f[i] = Child(f[i - 1], s[i])
  <2>1. i \in 0..Len(s) /\ i # 0
    BY <1>1
  <2>. QED
    BY <1>2, <2>1
<1>. QED
  BY <1>3, <1>4, <1>6 DEF Walk

\* Descending one step at a time.
LEMMA DescendStep ==
    ASSUME NEW label
    PROVE  /\ Descend(label, Root) = label
           /\ \A p \in Places, d \in Direction :
                 Descend(label, Append(p, d)) = Child(Descend(label, p), d)
<1>1. Descend(label, Root) = label
  <2>1. Root \in Seq(Direction) /\ Len(Root) = 0
    BY RootPlace, PlaceSeq
  <2>2. \E f : Walk(f, label, Root, 0) /\ Descend(label, Root) = f[0]
    BY <2>1, DescendWalk
  <2>. QED
    BY ONLY <2>2 DEF Walk
<1>2. ASSUME NEW p \in Places, NEW d \in Direction
      PROVE  Descend(label, Append(p, d)) = Child(Descend(label, p), d)
  <2> DEFINE q == Append(p, d)
             n == Len(p)
  <2>1. /\ p \in Seq(Direction) /\ q \in Seq(Direction) /\ Len(q) = n + 1 /\ n \in Nat
        /\ \A i \in 1..n : q[i] = p[i]
        /\ q[n + 1] = d
    BY PlaceSeq, Deeper
  <2> HIDE DEF q, n
  <2>2. PICK f : Walk(f, label, p, n) /\ Descend(label, p) = f[n]
    BY <2>1, DescendWalk DEF n
  <2>3. PICK g : Walk(g, label, q, n + 1) /\ Descend(label, q) = g[n + 1]
    BY <2>1, DescendWalk
  <2>4. /\ Walk(g, label, q, n)
        /\ g[n + 1] = Child(g[(n + 1) - 1], q[n + 1])
    BY <2>1, <2>3 DEF Walk
  <2>5. f[n] = g[n]
    BY <2>1, <2>2, <2>4, WalkSame
  <2>. QED
    BY <2>1, <2>2, <2>3, <2>4, <2>5 DEF q
<1>. QED
  BY <1>1, <1>2

\* The locations of nodes are places, and those that hold keys.
LEMMA LocationsPlaces ==
    /\ Locations \subseteq Places
    /\ \A p \in Places, k \in Key : Holds(p, k) => p \in Locations
<1>1. ASSUME NEW k \in Key, NEW n \in 0..Len(Path[k])
      PROVE  SubSeq(Path[k], 1, n) \in Places
  <2> DEFINE s == Path[k]
  <2>1. s \in Places /\ Len(s) \in Nat /\ PathLength \in Nat /\ \A i \in 1..Len(s) : s[i] \in Direction
    BY PathPlace, PlaceSeq
  <2>2. n \in Int /\ 1 \in Int /\ n >= 0 /\ n <= PathLength /\ \A i \in 1..n : s[i] \in Direction
    BY <2>1, PathPlace
  <2> HIDE DEF s
  <2>3. SubSeq(s, 1, n) \in Seq(Direction) /\ Len(SubSeq(s, 1, n)) = IF 1 <= n THEN n - 1 + 1 ELSE 0
    BY <2>2, SubSeqProperties
  <2>. QED
    BY <2>1, <2>2, <2>3 DEF Places, s
<1>2. ASSUME NEW p \in Locations
      PROVE  p \in Places
  <2>1. PICK k \in Key : p \in Prefixes(Path[k])
    BY DEF Locations
  <2>2. PICK n \in 0..Len(Path[k]) : p = SubSeq(Path[k], 1, n)
    BY <2>1 DEF Prefixes
  <2>. QED
    BY <1>1, <2>2
<1>3. ASSUME NEW p \in Places, NEW k \in Key, Holds(p, k)
      PROVE  p \in Locations
  <2>1. /\ Above(p, Path[k]) /\ p \in Seq(Direction) /\ Len(p) \in Nat
        /\ Path[k] \in Seq(Direction) /\ Len(Path[k]) \in Nat
    BY <1>3, HoldsAbove, PathPlace, PlaceSeq
  <2>2. Len(p) \in 0..Len(Path[k])
    BY <2>1 DEF Above
  <2> DEFINE s == Path[k]
             n == Len(p)
  <2>3. n \in Int /\ 1 \in Int /\ n >= 0 /\ \A i \in 1..n : s[i] \in Direction /\ s[i] = p[i]
    BY <2>1, PlaceSeq DEF Above
  <2> HIDE DEF s
  <2>4. /\ SubSeq(s, 1, n) \in Seq(Direction)
        /\ Len(SubSeq(s, 1, n)) = IF 1 <= n THEN n - 1 + 1 ELSE 0
        /\ \A i \in 1 .. n - 1 + 1 : SubSeq(s, 1, n)[i] = s[1 + i - 1]
    <3> HIDE DEF n
    <3>. QED
      BY <2>3, SubSeqProperties
  <2>5. Len(SubSeq(s, 1, n)) = n /\ \A i \in 1..n : SubSeq(s, 1, n)[i] = p[i]
    BY <2>3, <2>4
  <2>6. SubSeq(s, 1, n) = p
    BY <2>1, <2>4, <2>5, SeqEqual
  <2>7. p \in Prefixes(Path[k])
    BY <2>2, <2>6 DEF s, Prefixes
  <2>. QED
    BY <2>7 DEF Locations
<1>. QED
  BY <1>2, <1>3

\* What a half of a place holds is longer than the place.
LEMMA HoldsShort ==
    ASSUME NEW p \in Places, NEW half \in {Left(p), Right(p)}, NEW k \in Key, Holds(half, k)
    PROVE  Len(p) < PathLength
<1>1. /\ half \in Seq(Direction) /\ Len(half) = Len(p) + 1 /\ Len(p) \in Nat /\ PathLength \in Nat
      /\ Len(p) <= PathLength
  <2>1. /\ Left(p) = Append(p, "L") /\ Right(p) = Append(p, "R")
        /\ "L" \in Direction /\ "R" \in Direction
    BY DEF Left, Right, Direction
  <2>2. half = Append(p, "L") \/ half = Append(p, "R")
    BY <2>1
  <2>5. \A d \in Direction : Append(p, d) \in Seq(Direction) /\ Len(Append(p, d)) = Len(p) + 1
    BY Deeper
  <2>3. half \in Seq(Direction) /\ Len(half) = Len(p) + 1
    BY ONLY <2>1, <2>2, <2>5
  <2>4. Len(p) \in Nat /\ PathLength \in Nat /\ Len(p) <= PathLength
    BY PlaceSeq
  <2>. QED
    BY <2>3, <2>4
<1>2. Path[k] \in Places /\ Path[k] \in Seq(Direction) /\ Len(Path[k]) = PathLength
  BY PathPlace, PlaceSeq
<1>3. IsPrefix(half, Path[k])
  BY DEF Holds
<1>4. Len(half) <= Len(Path[k])
  BY <1>1, <1>2, <1>3 DEF IsPrefix
<1>. QED
  BY <1>1, <1>2, <1>4

-----------------------------------------------------------------------------
(***************************************************************************)
(* Induction over places.                                                  *)
(***************************************************************************)

\* A set that has the root, and with a place those one further down, has them all.
LEMMA PlaceInduction ==
    ASSUME NEW S, Root \in S,
           \A p \in Places, d \in Direction : Len(p) < PathLength /\ p \in S => Append(p, d) \in S
    PROVE  Places \subseteq S
<1> DEFINE T == { n \in Nat : \A p \in Places : Len(p) = n => p \in S }
<1>1. 0 \in T
  <2>1. ASSUME NEW p \in Places, Len(p) = 0
        PROVE  p \in S
    BY <2>1, Higher
  <2>. QED
    BY <2>1
<1>2. ASSUME NEW n \in Nat, n \in T
      PROVE  n + 1 \in T
  <2>1. ASSUME NEW p \in Places, Len(p) = n + 1
        PROVE  p \in S
    <3>1. p # Root
      BY <2>1, RootPlace
    <3>2. /\ Front(p) \in Places /\ Last(p) \in Direction
          /\ p = Append(Front(p), Last(p))
          /\ Len(Front(p)) = Len(p) - 1 /\ Len(Front(p)) < PathLength
      BY <3>1, Higher
    <3>3. Len(Front(p)) = n
      BY <2>1, <3>2
    <3>4. Front(p) \in S
      BY <1>2, <3>2, <3>3
    <3>. QED
      BY <3>2, <3>4
  <2>. QED
    BY <2>1
<1>3. Nat \subseteq T
  <2> HIDE DEF T
  <2>. QED
    BY <1>1, <1>2, SetInduction
<1>. QED
  BY <1>3, PlaceSeq

\* A set that has a place when it has both halves of it has every place.
LEMMA PlacesFromBelow ==
    ASSUME NEW S,
           \A p \in Places : (Len(p) < PathLength => Left(p) \in S /\ Right(p) \in S) => p \in S
    PROVE  Places \subseteq S
<1> DEFINE T == { n \in Nat : \A q \in Places : PathLength <= Len(q) + n => q \in S }
<1>1. \A q \in Places : Len(q) \in Nat /\ Len(q) <= PathLength /\ PathLength \in Nat
  BY PlaceSeq
<1>2. 0 \in T
  <2>1. ASSUME NEW q \in Places, PathLength <= Len(q)
        PROVE  q \in S
    BY <1>1, <2>1
  <2>. QED
    BY <1>1, <2>1
<1>3. ASSUME NEW n \in Nat, n \in T
      PROVE  n + 1 \in T
  <2>1. ASSUME NEW q \in Places, PathLength <= Len(q) + (n + 1)
        PROVE  q \in S
    <3>1. ASSUME Len(q) < PathLength, NEW half \in {Left(q), Right(q)}
          PROVE  half \in S
      <4>1. half \in Places /\ Len(half) = Len(q) + 1
        BY <3>1, HalfFacts
      <4>2. PathLength <= Len(half) + n
        BY <1>1, <2>1, <4>1
      <4>. QED
        BY <1>3, <4>1, <4>2
    <3>. QED
      BY <3>1
  <2>. QED
    BY <2>1
<1> HIDE DEF T
<1>4. Nat \subseteq T
  BY <1>2, <1>3, SetInduction
<1>5. ASSUME NEW p \in Places
      PROVE  p \in S
  <2>1. PathLength \in T /\ PathLength <= Len(p) + PathLength
    BY <1>1, <1>4, <1>5
  <2>. QED
    BY <2>1 DEF T
<1>. QED
  BY <1>5

\* From what is not internal one gets no further down.
LEMMA DescendEnds ==
    ASSUME NEW label, NEW p \in Places, ~IsInternal(Descend(label, p)),
           NEW q \in Places, Above(p, q)
    PROVE  Descend(label, q) = Descend(label, p)
<1> DEFINE S == { r \in Places : Above(p, r) => Descend(label, r) = Descend(label, p) }
<1>1. Root \in S
  <2>1. Root \in Places /\ Len(Root) = 0
    BY RootPlace
  <2>2. Above(p, Root) => p = Root
    <3>1. Len(p) \in Nat
      BY PlaceSeq
    <3>2. Above(p, Root) => Len(p) = Len(Root)
      BY <2>1, <3>1 DEF Above
    <3>. QED
      BY <2>1, <3>2, AboveFacts
  <2>. QED
    BY <2>1, <2>2
<1>2. ASSUME NEW r \in Places, NEW d \in Direction, Len(r) < PathLength, r \in S
      PROVE  Append(r, d) \in S
  <2>1. Append(r, d) \in Places
    BY <1>2, Deeper
  <2>2. ASSUME Above(p, Append(r, d)), p # Append(r, d)
        PROVE  Descend(label, Append(r, d)) = Descend(label, p)
    <3>1. Above(r, Append(r, d))
      BY AboveFacts
    <3>2. Above(p, r)
      <4>1. Len(p) < Len(Append(r, d)) /\ Len(Append(r, d)) = Len(r) + 1
        BY <2>1, <2>2, AboveFacts, Deeper
      <4>2. Len(p) \in Nat /\ Len(r) \in Nat
        BY PlaceSeq
      <4>3. \A i \in 1..Len(r) : Append(r, d)[i] = r[i]
        BY Deeper
      <4>. QED
        BY <2>2, <4>1, <4>2, <4>3 DEF Above
    <3>3. Descend(label, r) = Descend(label, p)
      BY <1>2, <3>2
    <3>4. Descend(label, Append(r, d)) = Child(Descend(label, r), d)
      BY DescendStep
    <3>. QED
      BY <3>3, <3>4 DEF Child
  <2>. QED
    BY <2>1, <2>2
<1>3. Places \subseteq S
  <2> HIDE DEF S
  <2>. QED
    BY <1>1, <1>2, PlaceInduction
<1>. QED
  BY <1>3

\* The nodes of a tree are met at places.
LEMMA NodesAtPlaces ==
    ASSUME NEW label, NEW node \in Nodes(label)
    PROVE  \E p \in Places : node = Descend(label, p)
  BY LocationsPlaces DEF Nodes

=============================================================================

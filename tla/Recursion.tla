------------------------------ MODULE Recursion ------------------------------
(***************************************************************************)
(* Functions that are defined step by step, of a level by what they are    *)
(* one level below, or of a number by what they are for the one before:    *)
(* there are such functions, whatever a step takes.  And facts about       *)
(* levels are proved from the last one up, about numbers from zero.        *)
(*                                                                         *)
(* The step is a parameter of the module: who cites these facts instances  *)
(* it with the body of a recursive function.                               *)
(***************************************************************************)
EXTENDS Integers, WellFoundedInduction, TLAPS

CONSTANTS
    Top,            \* the last level
    Step(_, _, _)   \* of a parameter, a level, and what the function is one below

\* A set that has the last level, and with a level the one above, has them all.
LEMMA Climb ==
    ASSUME NEW S, Top \in Nat, Top \in S,
           \A depth \in 0..Top : depth # Top /\ depth + 1 \in S => depth \in S
    PROVE  0..Top \subseteq S
<1> DEFINE bad == { n \in Nat : n <= Top /\ Top - n \notin S }
<1>1. SUFFICES ASSUME NEW missing \in 0..Top, missing \notin S
               PROVE  FALSE
  OBVIOUS
<1>2. Top - missing \in bad
  <2>1. Top - missing \in Nat /\ Top - missing <= Top /\ Top - (Top - missing) = missing
    BY <1>1
  <2>. QED
    BY <1>1, <2>1
<1>3. PICK n \in bad : \A m \in bad : <<m, n>> \notin OpToRel(<, Nat)
  <2>1. bad \in SUBSET Nat /\ bad # {}
    BY <1>2
  <2> HIDE DEF bad
  <2>. QED
    BY <2>1, WFMin, NatLessThanWellFounded
<1>4. n \in Nat /\ n <= Top /\ Top - n \notin S
  BY <1>3
<1>5. n # 0
  <2>1. Top - 0 = Top
    OBVIOUS
  <2>. QED
    BY <1>4, <2>1
<1>6. n - 1 \in bad
  <2>1. n - 1 \in Nat /\ n - 1 <= Top
    BY <1>4, <1>5
  <2>2. Top - n \in 0..Top /\ Top - n # Top /\ (Top - n) + 1 = Top - (n - 1)
    BY <1>4, <1>5
  <2>3. Top - (n - 1) \notin S
    BY <1>4, <2>2
  <2>. QED
    BY <2>1, <2>3
<1>7. <<n - 1, n>> \in OpToRel(<, Nat)
  BY <1>4, <1>5, <1>6 DEF OpToRel
<1>. QED
  BY <1>3, <1>6, <1>7

\* There is a function with the value at every level that the step makes of the
\* one at the level below.
LEMMA Exists ==
    ASSUME NEW parameter, Top \in Nat,
           \A x, y : Step(parameter, Top, x) = Step(parameter, Top, y)
    PROVE  \E f : f = [depth \in 0..Top |-> Step(parameter, depth, f[depth + 1])]
<1> DEFINE From(f, top) == \A depth \in 0..Top :
               top <= depth => f[depth] = Step(parameter, depth, f[depth + 1])
           S == { top \in 0..Top : \E f : DOMAIN f = 0..Top /\ From(f, top) }
<1>1. Top \in S
  <2> DEFINE f == [depth \in 0..Top |-> Step(parameter, Top, 0)]
  <2>1. DOMAIN f = 0..Top /\ f[Top] = Step(parameter, Top, f[Top + 1])
    <3>1. Top \in 0..Top /\ DOMAIN f = 0..Top
      OBVIOUS
    <3>2. f[Top] = Step(parameter, Top, 0)
      BY <3>1
    <3> HIDE DEF f
    <3>. QED
      BY <3>1, <3>2
  <2>2. From(f, Top)
    <3>1. \A depth \in 0..Top : Top <= depth => depth = Top
      OBVIOUS
    <3> HIDE DEF f
    <3>. QED
      BY <2>1, <3>1
  <2>3. \E g : DOMAIN g = 0..Top /\ From(g, Top)
    <3> HIDE DEF f, From
    <3>. QED
      BY <2>1, <2>2
  <2>4. Top \in 0..Top
    OBVIOUS
  <2>. QED
    <3> HIDE DEF From
    <3>. QED
      BY <2>3, <2>4
<1>2. ASSUME NEW top \in 0..Top, top # Top, top + 1 \in S
      PROVE  top \in S
  <2>1. PICK f : DOMAIN f = 0..Top /\ From(f, top + 1)
    <3> HIDE DEF From
    <3>. QED
      BY <1>2
  <2> DEFINE value == Step(parameter, top, f[top + 1])
             g == [depth \in 0..Top |-> IF depth = top THEN value ELSE f[depth]]
  <2>2. ASSUME NEW depth \in 0..Top, top <= depth
        PROVE  g[depth] = Step(parameter, depth, g[depth + 1])
    <3>1. CASE depth = top
      <4>1. depth + 1 \in 0..Top /\ depth + 1 # top
        BY <1>2, <3>1
      <4>2. g[depth + 1] = f[depth + 1]
        BY <4>1
      <4>3. g[depth] = value
        BY <3>1
      <4> HIDE DEF g
      <4>. QED
        BY <3>1, <4>2, <4>3
    <3>2. CASE depth # top
      <4>1. top + 1 <= depth
        BY <2>2, <3>2
      <4>2. f[depth] = Step(parameter, depth, f[depth + 1])
        BY <2>1, <4>1
      <4>3. g[depth] = f[depth]
        BY <3>2
      <4>4. CASE depth = Top
        <5> HIDE DEF g
        <5>. QED
          BY <4>2, <4>3, <4>4
      <4>5. CASE depth # Top
        <5>1. depth + 1 \in 0..Top /\ depth + 1 # top
          BY <4>1, <4>5
        <5>2. g[depth + 1] = f[depth + 1]
          BY <5>1
        <5> HIDE DEF g
        <5>. QED
          BY <4>2, <4>3, <5>2
      <4>. QED
        BY <4>4, <4>5
    <3>. QED
      BY <3>1, <3>2
  <2>3. DOMAIN g = 0..Top
    OBVIOUS
  <2> HIDE DEF g
  <2>4. From(g, top)
    BY <2>2
  <2>5. \E h : DOMAIN h = 0..Top /\ From(h, top)
    <3> HIDE DEF From
    <3>. QED
      BY <2>3, <2>4
  <2>. QED
    <3> HIDE DEF From
    <3>. QED
      BY <2>5
<1>3. 0 \in S
  <2> HIDE DEF S
  <2>1. 0..Top \subseteq S
    BY <1>1, <1>2, Climb
  <2>. QED
    BY <2>1
<1>4. PICK f : DOMAIN f = 0..Top /\ From(f, 0)
  <2> HIDE DEF From
  <2>. QED
    BY <1>3
<1> DEFINE g == [depth \in 0..Top |-> f[depth]]
<1>5. \A depth \in 0..Top : g[depth] = f[depth]
  OBVIOUS
<1>6. \A depth \in 0..Top : f[depth] = Step(parameter, depth, f[depth + 1])
  BY <1>4
<1>7. ASSUME NEW depth \in 0..Top
      PROVE  g[depth] = Step(parameter, depth, g[depth + 1])
  <2>1. CASE depth = Top
    <3> HIDE DEF g
    <3>. QED
      BY <1>5, <1>6, <2>1
  <2>2. CASE depth # Top
    <3>1. depth + 1 \in 0..Top
      BY <2>2
    <3> HIDE DEF g
    <3>. QED
      BY <1>5, <1>6, <3>1
  <2>. QED
    BY <2>1, <2>2
<1>8. g = [depth \in 0..Top |-> g[depth]]
  OBVIOUS
<1> HIDE DEF g
<1>9. g = [depth \in 0..Top |-> Step(parameter, depth, g[depth + 1])]
  BY <1>7, <1>8
<1>. QED
  BY <1>9

-----------------------------------------------------------------------------
(***************************************************************************)
(* The same upward: functions of the naturals defined by what they are for *)
(* the number before.                                                      *)
(***************************************************************************)

\* A set that has zero, and with a number the next one, has them all.
LEMMA FromZero ==
    ASSUME NEW S, 0 \in S, \A n \in Nat : n \in S => n + 1 \in S
    PROVE  Nat \subseteq S
<1>1. SUFFICES ASSUME Nat \ S # {}
               PROVE  FALSE
  OBVIOUS
<1>2. PICK n \in Nat \ S : \A m \in Nat \ S : <<m, n>> \notin OpToRel(<, Nat)
  BY <1>1, WFMin, NatLessThanWellFounded
<1>3. n # 0 /\ n \in Nat
  BY <1>2
<1>4. n - 1 \in Nat /\ n = (n - 1) + 1 /\ n - 1 < n
  BY <1>3
<1>5. n - 1 \notin S
  BY <1>2, <1>4
<1>6. <<n - 1, n>> \in OpToRel(<, Nat)
  BY <1>3, <1>4 DEF OpToRel
<1>. QED
  BY <1>2, <1>4, <1>5, <1>6

\* There is a function with the value for every number that the step makes of the
\* one for the number before.
LEMMA ExistsUpward ==
    ASSUME NEW parameter,
           \A x, y : Step(parameter, 0, x) = Step(parameter, 0, y)
    PROVE  \E f : f = [n \in Nat |-> Step(parameter, n, f[n - 1])]
<1> DEFINE UpTo(f, n) == \A m \in 0..n : f[m] = Step(parameter, m, f[m - 1])
           Known(n) == CHOOSE f : UpTo(f, n)
           h == [n \in Nat |-> Known(n)[n]]
<1>1. ASSUME NEW n \in Nat, NEW f, NEW g, UpTo(f, n), UpTo(g, n)
      PROVE  \A m \in 0..n : f[m] = g[m]
  <2> DEFINE S == { m \in Nat : m <= n => f[m] = g[m] }
  <2>1. 0 \in S
    <3>1. 0 \in 0..n
      OBVIOUS
    <3>. QED
      BY <1>1, <3>1
  <2>2. ASSUME NEW m \in Nat, m \in S
        PROVE  m + 1 \in S
    <3>1. SUFFICES ASSUME m + 1 <= n PROVE f[m + 1] = g[m + 1]
      OBVIOUS
    <3>2. m + 1 \in 0..n /\ (m + 1) - 1 = m /\ f[m] = g[m]
      BY <2>2, <3>1
    <3>3. f[m + 1] = Step(parameter, m + 1, f[(m + 1) - 1])
          /\ g[m + 1] = Step(parameter, m + 1, g[(m + 1) - 1])
      BY <1>1, <3>2
    <3>. QED
      BY <3>2, <3>3
  <2>3. Nat \subseteq S
    <3> HIDE DEF S
    <3>. QED
      BY <2>1, <2>2, FromZero
  <2>. QED
    BY <2>3
<1>2. \A n \in Nat : \E f : UpTo(f, n)
  <2> DEFINE S == { n \in Nat : \E f : UpTo(f, n) }
  <2>1. 0 \in S
    <3> DEFINE f == [m \in Nat |-> Step(parameter, 0, 0)]
    <3>1. f[0] = Step(parameter, 0, f[0 - 1])
      <4>1. f[0] = Step(parameter, 0, 0)
        OBVIOUS
      <4> HIDE DEF f
      <4>. QED
        BY <4>1
    <3> HIDE DEF f
    <3>2. UpTo(f, 0)
      <4>1. \A m \in 0..0 : m = 0
        OBVIOUS
      <4>. QED
        BY <3>1, <4>1
    <3>. QED
      BY <3>2
  <2>2. ASSUME NEW n \in Nat, n \in S
        PROVE  n + 1 \in S
    <3>1. PICK f : UpTo(f, n)
      BY <2>2
    <3> DEFINE g == [m \in Nat |-> IF m = n + 1 THEN Step(parameter, n + 1, f[n]) ELSE f[m]]
    <3>2. ASSUME NEW m \in 0..(n + 1)
          PROVE  g[m] = Step(parameter, m, g[m - 1])
      <4>1. CASE m = n + 1
        <5>1. m - 1 = n /\ m \in Nat /\ n # n + 1
          BY <4>1
        <5>2. g[n] = f[n] /\ g[m] = Step(parameter, n + 1, f[n])
          BY <4>1, <5>1
        <5> HIDE DEF g
        <5>. QED
          BY <4>1, <5>1, <5>2
      <4>2. CASE m # n + 1
        <5>1. m \in 0..n
          BY <4>2
        <5>2. f[m] = Step(parameter, m, f[m - 1]) /\ g[m] = f[m]
          BY <3>1, <4>2, <5>1
        <5>3. CASE m = 0
          <6> HIDE DEF g
          <6>. QED
            BY <5>2, <5>3
        <5>4. CASE m # 0
          <6>1. m - 1 \in Nat /\ m - 1 # n + 1
            BY <5>1, <5>4
          <6>2. g[m - 1] = f[m - 1]
            BY <6>1
          <6> HIDE DEF g
          <6>. QED
            BY <5>2, <6>2
        <5>. QED
          BY <5>3, <5>4
      <4>. QED
        BY <4>1, <4>2
    <3> HIDE DEF g
    <3>3. UpTo(g, n + 1)
      BY <3>2
    <3>4. \E z : UpTo(z, n + 1)
      <4> HIDE DEF UpTo
      <4>. QED
        BY <3>3
    <3>. QED
      BY <3>4
  <2>3. Nat \subseteq S
    <3> HIDE DEF S
    <3>. QED
      BY <2>1, <2>2, FromZero
  <2>. QED
    BY <2>3
<1>3. ASSUME NEW n \in Nat
      PROVE  UpTo(Known(n), n)
  <2>1. \E f : UpTo(f, n)
    BY <1>2
  <2> HIDE DEF UpTo
  <2>. QED
    BY <2>1
<1>4. \A n \in Nat : h[n] = Known(n)[n]
  OBVIOUS
<1> HIDE DEF Known
<1>5. ASSUME NEW n \in Nat
      PROVE  h[n] = Step(parameter, n, h[n - 1])
  <2>1. Known(n)[n] = Step(parameter, n, Known(n)[n - 1])
    <3>1. n \in 0..n
      OBVIOUS
    <3>. QED
      BY <1>3, <3>1
  <2>2. CASE n = 0
    <3> HIDE DEF h
    <3>. QED
      BY <1>4, <2>1, <2>2
  <2>3. CASE n # 0
    <3>1. n - 1 \in Nat /\ n - 1 \in 0..(n - 1) /\ \A m \in 0..(n - 1) : m \in 0..n
      BY <2>3
    <3>2. UpTo(Known(n), n - 1) /\ UpTo(Known(n - 1), n - 1)
      BY <1>3, <3>1
    <3>3. Known(n)[n - 1] = Known(n - 1)[n - 1]
      <4> HIDE DEF UpTo
      <4>. QED
        BY <1>1, <3>1, <3>2
    <3> HIDE DEF h
    <3>. QED
      BY <1>4, <2>1, <3>1, <3>3
  <2>. QED
    BY <2>2, <2>3
<1>6. h = [n \in Nat |-> h[n]]
  OBVIOUS
<1> HIDE DEF h
<1>7. h = [n \in Nat |-> Step(parameter, n, h[n - 1])]
  BY <1>5, <1>6
<1>. QED
  BY <1>7
=============================================================================

-------------------------- MODULE PartialMapProofs --------------------------
(***************************************************************************)
(* Proofs about PartialMap, for any keys, digests, values and maps: as     *)
(* long as nobody removes a leaf next to a stub, a map that knows a part   *)
(* of its tree commits to its contents and answers as a complete map does. *)
(***************************************************************************)
EXTENDS PartialMap, SequenceTheorems, TLAPS

-----------------------------------------------------------------------------
(***************************************************************************)
(* The recursions.  Each is a function of the depth, defined by what it is *)
(* one level down; that there is such a function is a fact of Recursion.   *)
(***************************************************************************)
LEMMA Levels ==
    /\ PathLength \in Nat /\ PathLength \in Level /\ 0 \in Level
    /\ \A depth \in Level : depth # PathLength => depth + 1 \in Level
BY PathAssumption DEF Level

HashStep(none, depth, below) ==
    {Empty} \cup Leaves \cup IF depth = PathLength THEN {} ELSE InternalHashes(below)

HashRecursion == INSTANCE Recursion WITH Top <- PathLength, Step <- HashStep

LEMMA HashAtIs == HashAt = [depth \in Level |-> HashStep(0, depth, HashAt[depth + 1])]
<1>1. \A x, y : HashStep(0, PathLength, x) = HashStep(0, PathLength, y)
  BY DEF HashStep
<1>2. \E f : f = [depth \in Level |-> HashStep(0, depth, f[depth + 1])]
  BY <1>1, Levels, HashRecursion!Exists DEF Level
<1>. QED
  BY <1>2 DEF HashAt, HashStep

NodeStep(none, depth, below) ==
    {Empty} \cup Leaves \cup [kind : {"stub"}, hash : HashAt[depth]] \cup
        IF depth = PathLength THEN {} ELSE Internals(HashAt[depth + 1], below)

NodeRecursion == INSTANCE Recursion WITH Top <- PathLength, Step <- NodeStep

LEMMA NodeAtIs == NodeAt = [depth \in Level |-> NodeStep(0, depth, NodeAt[depth + 1])]
<1>1. \A x, y : NodeStep(0, PathLength, x) = NodeStep(0, PathLength, y)
  BY DEF NodeStep
<1>2. \E f : f = [depth \in Level |-> NodeStep(0, depth, f[depth + 1])]
  BY <1>1, Levels, NodeRecursion!Exists DEF Level
<1>. QED
  BY <1>2 DEF NodeAt, NodeStep

\* What a node at a depth can be.
LEMMA Kinds ==
    ASSUME NEW depth \in Level, NEW n \in NodeAt[depth]
    PROVE  \/ n = Empty
           \/ /\ n = Leaf(n.key, n.value)
              /\ n.key \in Key /\ n.value \in Value
           \/ n = Stub(n.hash) /\ n.hash \in HashAt[depth]
           \/ /\ depth # PathLength /\ depth + 1 \in Level
              /\ n = Raw(n.hash, n.left, n.right)
              /\ n.hash \in InternalHashes(HashAt[depth + 1])
              /\ n.left \in NodeAt[depth + 1] /\ n.right \in NodeAt[depth + 1]
<1>1. NodeAt[depth] = NodeStep(0, depth, NodeAt[depth + 1])
  BY NodeAtIs
<1>2. \/ n \in {Empty} \/ n \in Leaves \/ n \in [kind : {"stub"}, hash : HashAt[depth]]
      \/ depth # PathLength /\ n \in Internals(HashAt[depth + 1], NodeAt[depth + 1])
  BY <1>1 DEF NodeStep
<1>. QED
  BY <1>2, Levels DEF Leaves, Internals, Leaf, Stub, Raw

\* And what is a node at a depth.
LEMMA Makes ==
    ASSUME NEW depth \in Level
    PROVE  /\ Empty \in NodeAt[depth]
           /\ \A k \in Key, v \in Value : Leaf(k, v) \in NodeAt[depth]
           /\ \A hash \in HashAt[depth] : Stub(hash) \in NodeAt[depth]
           /\ depth # PathLength =>
                \A hash \in InternalHashes(HashAt[depth + 1]),
                   left \in NodeAt[depth + 1], right \in NodeAt[depth + 1] :
                        Raw(hash, left, right) \in NodeAt[depth]
<1>1. NodeAt[depth] = NodeStep(0, depth, NodeAt[depth + 1])
  BY NodeAtIs
<1>2. \A k \in Key, v \in Value : Leaf(k, v) \in Leaves
  BY DEF Leaf, Leaves
<1>3. \A hash \in HashAt[depth] : Stub(hash) \in [kind : {"stub"}, hash : HashAt[depth]]
  BY DEF Stub
<1>4. \A hash \in InternalHashes(HashAt[depth + 1]), left \in NodeAt[depth + 1],
         right \in NodeAt[depth + 1] :
            Raw(hash, left, right) \in Internals(HashAt[depth + 1], NodeAt[depth + 1])
  BY DEF Raw, Internals
<1>. QED
  BY <1>1, <1>2, <1>3, <1>4 DEF NodeStep

\* The same of hashes.
LEMMA HashKinds ==
    ASSUME NEW depth \in Level
    PROVE  /\ Empty \in HashAt[depth]
           /\ \A k \in Key, v \in Value : Leaf(k, v) \in HashAt[depth]
           /\ depth # PathLength =>
                /\ InternalHashes(HashAt[depth + 1]) \subseteq HashAt[depth]
                /\ \A left, right \in HashAt[depth + 1] :
                        InternalHash(left, right) \in InternalHashes(HashAt[depth + 1])
<1>1. HashAt[depth] = HashStep(0, depth, HashAt[depth + 1])
  BY HashAtIs
<1>2. \A k \in Key, v \in Value : Leaf(k, v) \in Leaves
  BY DEF Leaf, Leaves
<1>3. \A left, right \in HashAt[depth + 1] :
            InternalHash(left, right) \in InternalHashes(HashAt[depth + 1])
  BY DEF InternalHash, InternalHashes
<1>. QED
  BY <1>1, <1>2, <1>3 DEF HashStep

\* What a node is follows from its kind.
LEMMA KindOf ==
    ASSUME NEW depth \in Level, NEW n \in NodeAt[depth]
    PROVE  /\ \/ Is(n, "empty") \/ Is(n, "leaf") \/ Is(n, "stub")
              \/ Is(n, "internal")
           /\ Is(n, "empty") => n = Empty
           /\ Is(n, "leaf") => /\ n = Leaf(n.key, n.value)
                                  /\ n.key \in Key /\ n.value \in Value
           /\ Is(n, "stub") => n = Stub(n.hash) /\ n.hash \in HashAt[depth]
           /\ Is(n, "internal") =>
                /\ depth # PathLength /\ depth + 1 \in Level
                /\ n = Raw(n.hash, n.left, n.right)
                /\ n.hash \in InternalHashes(HashAt[depth + 1])
                /\ n.left \in NodeAt[depth + 1] /\ n.right \in NodeAt[depth + 1]
BY Kinds DEF Is, Empty, Leaf, Stub, Raw

\* The child on a side.
Half(n, d) == IF d = "L" THEN n.left ELSE n.right

LEMMA HalfAt ==
    ASSUME NEW depth \in Level, NEW n \in NodeAt[depth], Is(n, "internal"), NEW d
    PROVE  Half(n, d) \in NodeAt[depth + 1]
BY KindOf DEF Half

-----------------------------------------------------------------------------
(***************************************************************************)
(* What each recursion is, node by node.                                   *)
(***************************************************************************)
ReadNode(k, depth, below, n) ==
    CASE Is(n, "empty") -> Nothing
      [] Is(n, "leaf") -> IF Reaches(k, n) THEN n.value ELSE Nothing
      [] Is(n, "stub") -> Unknown
      [] Is(n, "internal") ->
            below[IF Side(k, depth) = "L" THEN n.left ELSE n.right]

ReadStep(k, depth, below) == [n \in NodeAt[depth] |-> ReadNode(k, depth, below, n)]

ReadRecursion == INSTANCE Recursion WITH Top <- PathLength, Step <- ReadStep

LEMMA ReadIs ==
    ASSUME NEW k, NEW depth \in Level, NEW n \in NodeAt[depth]
    PROVE  /\ Is(n, "empty") => Read(k)[depth][n] = Nothing
           /\ Is(n, "leaf") =>
                Read(k)[depth][n] = IF Reaches(k, n) THEN n.value ELSE Nothing
           /\ Is(n, "stub") => Read(k)[depth][n] = Unknown
           /\ Is(n, "internal") =>
                Read(k)[depth][n] = Read(k)[depth + 1][Half(n, Side(k, depth))]
<1>1. ASSUME NEW x, NEW y
      PROVE  ReadStep(k, PathLength, x) = ReadStep(k, PathLength, y)
  <2>1. ASSUME NEW end \in NodeAt[PathLength]
        PROVE  ReadNode(k, PathLength, x, end) = ReadNode(k, PathLength, y, end)
    <3>1. ~Is(end, "internal") /\ (Is(end, "empty") \/ Is(end, "leaf") \/ Is(end, "stub"))
      BY Levels, KindOf
    <3>. QED
      BY <3>1 DEF ReadNode, Is
  <2>. QED
    BY <2>1 DEF ReadStep
<1>2. \E f : f = [d \in Level |-> ReadStep(k, d, f[d + 1])]
  BY <1>1, Levels, ReadRecursion!Exists DEF Level
<1>3. Read(k) = [d \in Level |-> ReadStep(k, d, Read(k)[d + 1])]
  BY <1>2 DEF Read, ReadStep, ReadNode
<1>4. Read(k)[depth] = ReadStep(k, depth, Read(k)[depth + 1])
  BY <1>3
<1>5. Read(k)[depth][n] = ReadNode(k, depth, Read(k)[depth + 1], n)
  BY <1>4 DEF ReadStep
<1>. QED
  BY <1>5 DEF ReadNode, Is, Half

RecordsNode(below, n) ==
    CASE Is(n, "leaf") -> {<<n.key, n.value>>}
      [] Is(n, "internal") -> below[n.left] \cup below[n.right]
      [] OTHER -> {}

RecordsStep(none, depth, below) == [n \in NodeAt[depth] |-> RecordsNode(below, n)]

RecordsRecursion == INSTANCE Recursion WITH Top <- PathLength, Step <- RecordsStep

LEMMA RecordsIs ==
    ASSUME NEW depth \in Level, NEW n \in NodeAt[depth]
    PROVE  /\ Is(n, "empty") \/ Is(n, "stub") => Records[depth][n] = {}
           /\ Is(n, "leaf") => Records[depth][n] = {<<n.key, n.value>>}
           /\ Is(n, "internal") =>
                Records[depth][n] =
                    Records[depth + 1][n.left] \cup Records[depth + 1][n.right]
<1>1. ASSUME NEW x, NEW y
      PROVE  RecordsStep(0, PathLength, x) = RecordsStep(0, PathLength, y)
  <2>1. ASSUME NEW end \in NodeAt[PathLength]
        PROVE  RecordsNode(x, end) = RecordsNode(y, end)
    <3>1. ~Is(end, "internal") /\ (Is(end, "empty") \/ Is(end, "leaf") \/ Is(end, "stub"))
      BY Levels, KindOf
    <3>. QED
      BY <3>1 DEF RecordsNode, Is
  <2>. QED
    BY <2>1 DEF RecordsStep
<1>2. \E f : f = [d \in Level |-> RecordsStep(0, d, f[d + 1])]
  BY <1>1, Levels, RecordsRecursion!Exists DEF Level
<1>3. Records = [d \in Level |-> RecordsStep(0, d, Records[d + 1])]
  BY <1>2 DEF Records, RecordsStep, RecordsNode
<1>4. Records[depth] = RecordsStep(0, depth, Records[depth + 1])
  BY <1>3
<1>5. Records[depth][n] = RecordsNode(Records[depth + 1], n)
  BY <1>4 DEF RecordsStep
<1>. QED
  BY <1>5 DEF RecordsNode, Is

WholeKeys(map, depth, below, keys) ==
    CASE keys = {} -> Empty
      [] \E k \in keys : keys = {k} ->
            LET k == CHOOSE k \in keys : TRUE IN Leaf(k, map[k])
      [] OTHER ->
            IF depth = PathLength THEN Empty
            ELSE Internal(below[Split(keys, depth, "L")], below[Split(keys, depth, "R")])

WholeStep(map, depth, below) == [keys \in SUBSET Key |-> WholeKeys(map, depth, below, keys)]

WholeRecursion == INSTANCE Recursion WITH Top <- PathLength, Step <- WholeStep

LEMMA CompletedIs ==
    ASSUME NEW map, NEW depth \in Level, NEW keys \in SUBSET Key
    PROVE  /\ keys = {} => Completed(map)[depth][keys] = Empty
           /\ \A k \in keys : keys = {k} => Completed(map)[depth][keys] = Leaf(k, map[k])
           /\ depth # PathLength /\ (\E j, k \in keys : j # k) =>
                Completed(map)[depth][keys] =
                    Internal(Completed(map)[depth + 1][Split(keys, depth, "L")],
                             Completed(map)[depth + 1][Split(keys, depth, "R")])
<1>1. \A x, y : WholeStep(map, PathLength, x) = WholeStep(map, PathLength, y)
  BY DEF WholeStep, WholeKeys
<1>2. \E f : f = [d \in Level |-> WholeStep(map, d, f[d + 1])]
  BY <1>1, Levels, WholeRecursion!Exists DEF Level
<1>3. Completed(map) = [d \in Level |-> WholeStep(map, d, Completed(map)[d + 1])]
  BY <1>2 DEF Completed, WholeStep, WholeKeys
<1>4. Completed(map)[depth] = WholeStep(map, depth, Completed(map)[depth + 1])
  BY <1>3
<1> DEFINE below == Completed(map)[depth + 1]
<1>5. Completed(map)[depth][keys] = WholeKeys(map, depth, below, keys)
  BY <1>4 DEF WholeStep
<1> HIDE DEF below
<1>6. keys = {} => WholeKeys(map, depth, below, keys) = Empty
  BY DEF WholeKeys
<1>7. ASSUME NEW k \in keys, keys = {k}
      PROVE  WholeKeys(map, depth, below, keys) = Leaf(k, map[k])
  <2>1. (CHOOSE j \in keys : TRUE) = k
    BY <1>7
  <2>. QED
    BY <1>7, <2>1 DEF WholeKeys
<1>8. ASSUME depth # PathLength, NEW j \in keys, NEW k \in keys, j # k
      PROVE  WholeKeys(map, depth, below, keys) =
                Internal(below[Split(keys, depth, "L")], below[Split(keys, depth, "R")])
  BY <1>8 DEF WholeKeys
<1>. QED
  BY <1>5, <1>6, <1>7, <1>8 DEF below

UpdateNode(k, op, depth, below, n) ==
    CASE Is(n, "empty") ->
            Outcome(IF op.act = "set" THEN Leaf(k, op.value) ELSE Empty, Nothing)
      [] Is(n, "internal") -> Branch(below, n.left, n.right, depth, k)
      [] Is(n, "stub") -> Outcome(n, Unknown)
      [] Is(n, "leaf") /\ Reaches(k, n) ->
            Outcome(IF op.act = "set" THEN Leaf(k, op.value) ELSE Empty, n.value)
      [] Is(n, "leaf") /\ ~Reaches(k, n) /\ op.act = "remove" ->
            Outcome(n, Nothing)
      [] OTHER ->
            IF depth = PathLength THEN Outcome(n, Unknown)
            ELSE IF Side(n.key, depth) = "L"
                 THEN Branch(below, n, Empty, depth, k)
                 ELSE Branch(below, Empty, n, depth, k)

UpdateStep(update, depth, below) ==
    [n \in NodeAt[depth] |-> UpdateNode(update[1], update[2], depth, below, n)]

UpdateRecursion == INSTANCE Recursion WITH Top <- PathLength, Step <- UpdateStep

LEMMA RecurIs ==
    ASSUME NEW k, NEW op, NEW depth \in Level, NEW n \in NodeAt[depth]
    PROVE  Recur(k, op)[depth][n] = UpdateNode(k, op, depth, Recur(k, op)[depth + 1], n)
<1> DEFINE update == <<k, op>>
<1>1. ASSUME NEW x, NEW y
      PROVE  UpdateStep(update, PathLength, x) = UpdateStep(update, PathLength, y)
  <2>1. ASSUME NEW end \in NodeAt[PathLength]
        PROVE  UpdateNode(k, op, PathLength, x, end) = UpdateNode(k, op, PathLength, y, end)
    <3>1. ~Is(end, "internal") /\ (Is(end, "empty") \/ Is(end, "leaf") \/ Is(end, "stub"))
      BY Levels, KindOf
    <3>. QED
      BY <3>1 DEF UpdateNode, Is
  <2>. QED
    BY <2>1 DEF UpdateStep
<1>2. \E f : f = [d \in Level |-> UpdateStep(update, d, f[d + 1])]
  <2> HIDE DEF update
  <2>. QED
    BY <1>1, Levels, UpdateRecursion!Exists DEF Level
<1>3. \E f : f = [d \in Level |-> [end \in NodeAt[d] |-> UpdateNode(k, op, d, f[d + 1], end)]]
  BY <1>2 DEF UpdateStep
<1>4. Recur(k, op) =
        [d \in Level |-> [end \in NodeAt[d] |-> UpdateNode(k, op, d, Recur(k, op)[d + 1], end)]]
  <2> HIDE DEF update
  <2>. QED
    BY <1>3 DEF Recur, UpdateNode
<1>. QED
  BY <1>4

ExportNode(depth, below, keys, n) ==
    CASE Is(n, "internal") /\ keys # {} ->
            LET left == below[Split(keys, depth, "L")][n.left]
                right == below[Split(keys, depth, "R")][n.right]
            IN  IF Unknown \in {left, right} THEN Unknown ELSE Raw(n.hash, left, right)
      [] ExportsLeaf(n, keys) -> n
      [] Is(n, "stub") /\ keys # {} -> Unknown
      [] OTHER -> Pruned(n)

ExportStep(none, depth, below) ==
    [keys \in SUBSET Key |-> [n \in NodeAt[depth] |-> ExportNode(depth, below, keys, n)]]

ExportRecursion == INSTANCE Recursion WITH Top <- PathLength, Step <- ExportStep

LEMMA ExportingIs ==
    ASSUME NEW depth \in Level, NEW keys \in SUBSET Key, NEW n \in NodeAt[depth]
    PROVE  Exporting[depth][keys][n] = ExportNode(depth, Exporting[depth + 1], keys, n)
<1>1. ASSUME NEW x, NEW y
      PROVE  ExportStep(0, PathLength, x) = ExportStep(0, PathLength, y)
  <2>1. ASSUME NEW end \in NodeAt[PathLength], NEW ks
        PROVE  ExportNode(PathLength, x, ks, end) = ExportNode(PathLength, y, ks, end)
    <3>1. ~Is(end, "internal") /\ (Is(end, "empty") \/ Is(end, "leaf") \/ Is(end, "stub"))
      BY Levels, KindOf
    <3>. QED
      BY <3>1 DEF ExportNode, Is
  <2>. QED
    BY <2>1 DEF ExportStep
<1>2. \E f : f = [d \in Level |-> ExportStep(0, d, f[d + 1])]
  BY <1>1, Levels, ExportRecursion!Exists DEF Level
<1>3. Exporting = [d \in Level |-> ExportStep(0, d, Exporting[d + 1])]
  BY <1>2 DEF Exporting, ExportStep, ExportNode
<1>4. Exporting[depth] = ExportStep(0, depth, Exporting[depth + 1])
  BY <1>3
<1>. QED
  BY <1>4 DEF ExportStep

ImportNode(below, destination, source) ==
    CASE Is(destination, "stub") -> source
      [] Is(destination, "internal") /\ Is(source, "internal") ->
            Raw(destination.hash, below[destination.left][source.left],
                below[destination.right][source.right])
      [] OTHER -> destination

ImportStep(none, depth, below) ==
    [destination \in NodeAt[depth] |-> [source \in NodeAt[depth] |->
        ImportNode(below, destination, source)]]

ImportRecursion == INSTANCE Recursion WITH Top <- PathLength, Step <- ImportStep

LEMMA ImportingIs ==
    ASSUME NEW depth \in Level, NEW destination \in NodeAt[depth], NEW source \in NodeAt[depth]
    PROVE  Importing[depth][destination][source] =
                ImportNode(Importing[depth + 1], destination, source)
<1>1. ASSUME NEW x, NEW y
      PROVE  ImportStep(0, PathLength, x) = ImportStep(0, PathLength, y)
  <2>1. ASSUME NEW end \in NodeAt[PathLength], NEW m
        PROVE  ImportNode(x, end, m) = ImportNode(y, end, m)
    <3>1. ~Is(end, "internal")
      BY Levels, KindOf
    <3>. QED
      BY <3>1 DEF ImportNode
  <2>. QED
    BY <2>1 DEF ImportStep
<1>2. \E f : f = [d \in Level |-> ImportStep(0, d, f[d + 1])]
  BY <1>1, Levels, ImportRecursion!Exists DEF Level
<1>3. Importing = [d \in Level |-> ImportStep(0, d, Importing[d + 1])]
  BY <1>2 DEF Importing, ImportStep, ImportNode
<1>4. Importing[depth] = ImportStep(0, depth, Importing[depth + 1])
  BY <1>3
<1>. QED
  BY <1>4 DEF ImportStep

CheckNode(below, location, n) ==
    CASE Is(n, "internal") ->
            /\ CompactInternal(n)
            /\ below[Append(location, "L")][n.left]
            /\ below[Append(location, "R")][n.right]
      [] Is(n, "leaf") -> OnPath(n, location)
      [] OTHER -> TRUE

CheckStep(none, depth, below) ==
    [location \in Location(depth) |-> [n \in NodeAt[depth] |->
        CheckNode(below, location, n)]]

CheckRecursion == INSTANCE Recursion WITH Top <- PathLength, Step <- CheckStep

LEMMA CheckingIs ==
    ASSUME NEW depth \in Level, NEW location \in Location(depth), NEW n \in NodeAt[depth]
    PROVE  Checking[depth][location][n] = CheckNode(Checking[depth + 1], location, n)
<1>1. ASSUME NEW x, NEW y
      PROVE  CheckStep(0, PathLength, x) = CheckStep(0, PathLength, y)
  <2>1. ASSUME NEW end \in NodeAt[PathLength], NEW l
        PROVE  CheckNode(x, l, end) = CheckNode(y, l, end)
    <3>1. ~Is(end, "internal")
      BY Levels, KindOf
    <3>. QED
      BY <3>1 DEF CheckNode
  <2>. QED
    BY <2>1 DEF CheckStep
<1>2. \E f : f = [d \in Level |-> CheckStep(0, d, f[d + 1])]
  BY <1>1, Levels, CheckRecursion!Exists DEF Level
<1>3. Checking = [d \in Level |-> CheckStep(0, d, Checking[d + 1])]
  BY <1>2 DEF Checking, CheckStep, CheckNode
<1>4. Checking[depth] = CheckStep(0, depth, Checking[depth + 1])
  BY <1>3
<1>. QED
  BY <1>4 DEF CheckStep

DeserializeNode(below, n) ==
    IF Is(n, "internal") THEN Internal(below[n.left], below[n.right]) ELSE n

DeserializeStep(none, depth, below) ==
    [n \in NodeAt[depth] |-> DeserializeNode(below, n)]

DeserializeRecursion == INSTANCE Recursion WITH Top <- PathLength, Step <- DeserializeStep

LEMMA DeserializingIs ==
    ASSUME NEW depth \in Level, NEW n \in NodeAt[depth]
    PROVE  Deserializing[depth][n] = DeserializeNode(Deserializing[depth + 1], n)
<1>1. ASSUME NEW x, NEW y
      PROVE  DeserializeStep(0, PathLength, x) = DeserializeStep(0, PathLength, y)
  <2>1. ASSUME NEW end \in NodeAt[PathLength]
        PROVE  DeserializeNode(x, end) = DeserializeNode(y, end)
    <3>1. ~Is(end, "internal")
      BY Levels, KindOf
    <3>. QED
      BY <3>1 DEF DeserializeNode
  <2>. QED
    BY <2>1 DEF DeserializeStep
<1>2. \E f : f = [d \in Level |-> DeserializeStep(0, d, f[d + 1])]
  BY <1>1, Levels, DeserializeRecursion!Exists DEF Level
<1>3. Deserializing = [d \in Level |-> DeserializeStep(0, d, Deserializing[d + 1])]
  BY <1>2 DEF Deserializing, DeserializeStep, DeserializeNode
<1>4. Deserializing[depth] = DeserializeStep(0, depth, Deserializing[depth + 1])
  BY <1>3
<1>. QED
  BY <1>4 DEF DeserializeStep

NextToNode(k, depth, below, root) ==
    /\ Is(root, "internal")
    /\ LET left == Side(k, depth) = "L"
           child == IF left THEN root.left ELSE root.right
           sibling == IF left THEN root.right ELSE root.left
       IN  \/ Is(child, "leaf") /\ Reaches(k, child) /\ Is(sibling, "stub")
           \/ below[child]

NextToStep(k, depth, below) == [root \in NodeAt[depth] |-> NextToNode(k, depth, below, root)]

NextToRecursion == INSTANCE Recursion WITH Top <- PathLength, Step <- NextToStep

LEMMA NextToStubIs ==
    ASSUME NEW k, NEW depth \in Level, NEW root \in NodeAt[depth]
    PROVE  NextToStub(k)[depth][root] = NextToNode(k, depth, NextToStub(k)[depth + 1], root)
<1>1. ASSUME NEW x, NEW y
      PROVE  NextToStep(k, PathLength, x) = NextToStep(k, PathLength, y)
  <2>1. ASSUME NEW end \in NodeAt[PathLength]
        PROVE  NextToNode(k, PathLength, x, end) = NextToNode(k, PathLength, y, end)
    <3>1. ~Is(end, "internal")
      BY Levels, KindOf
    <3>. QED
      BY <3>1 DEF NextToNode
  <2>. QED
    BY <2>1 DEF NextToStep
<1>2. \E f : f = [d \in Level |-> NextToStep(k, d, f[d + 1])]
  BY <1>1, Levels, NextToRecursion!Exists DEF Level
<1>3. NextToStub(k) = [d \in Level |-> NextToStep(k, d, NextToStub(k)[d + 1])]
  BY <1>2 DEF NextToStub, NextToStep, NextToNode
<1>4. NextToStub(k)[depth] = NextToStep(k, depth, NextToStub(k)[depth + 1])
  BY <1>3
<1>. QED
  BY <1>4 DEF NextToStep

-----------------------------------------------------------------------------
(***************************************************************************)
(* Locations and the keys below them.                                      *)
(***************************************************************************)
Under(k, location, depth) == \A i \in 1..depth : location[i] = Path[k][i]

Held(map, location, depth) == { k \in Key : map[k] # Nothing /\ Under(k, location, depth) }

\* The location of a child.
LEMMA Further ==
    ASSUME NEW depth \in Level, depth # PathLength, NEW location \in Location(depth),
           NEW d \in {"L", "R"}
    PROVE  /\ Append(location, d) \in Location(depth + 1)
           /\ \A i \in 1..depth : Append(location, d)[i] = location[i]
           /\ Append(location, d)[depth + 1] = d
<1>1. depth \in Nat
  BY Levels DEF Level
<1>2. location \in Seq({"L", "R"}) /\ Len(location) = depth
  BY <1>1 DEF Location
<1>3. Append(location, d) \in Seq({"L", "R"}) /\ Len(Append(location, d)) = depth + 1
  BY <1>1, <1>2
<1>4. Append(location, d) \in Location(depth + 1)
  BY <1>3, LenProperties DEF Location
<1>5. /\ \A i \in 1..depth : Append(location, d)[i] = location[i]
      /\ Append(location, d)[depth + 1] = d
  BY <1>1, <1>2
<1>. QED
  BY <1>4, <1>5

LEMMA Sides ==
    ASSUME NEW k \in Key, NEW depth \in Level, depth # PathLength
    PROVE  Side(k, depth) \in {"L", "R"}
<1>1. depth + 1 \in 1..PathLength
  BY Levels DEF Level
<1>. QED
  BY <1>1, PathAssumption DEF Side

\* A key is below a child if it is below the node and goes to that side.
LEMMA UnderFurther ==
    ASSUME NEW depth \in Level, depth # PathLength, NEW location \in Location(depth),
           NEW d \in {"L", "R"}, NEW k
    PROVE  Under(k, Append(location, d), depth + 1) <=>
                Under(k, location, depth) /\ Side(k, depth) = d
<1>1. /\ \A i \in 1..depth : Append(location, d)[i] = location[i]
      /\ Append(location, d)[depth + 1] = d
  BY Further
<1>2. depth \in Nat /\ 1..(depth + 1) = (1..depth) \cup {depth + 1}
  BY Levels DEF Level
<1>. QED
  BY <1>1, <1>2 DEF Under, Side

LEMMA HeldSplit ==
    ASSUME NEW map, NEW depth \in Level, depth # PathLength, NEW location \in Location(depth),
           NEW d \in {"L", "R"}
    PROVE  Held(map, Append(location, d), depth + 1) =
                Split(Held(map, location, depth), depth, d)
BY UnderFurther DEF Held, Split

\* Every key is below the root, and one at most below the last level.
LEMMA UnderRoot == <<>> \in Location(0) /\ \A k : Under(k, <<>>, 0)
BY DEF Location, Under

LEMMA UnderEnd ==
    ASSUME NEW location, NEW j \in Key, NEW k \in Key,
           Under(j, location, PathLength), Under(k, location, PathLength)
    PROVE  j = k
<1>1. Path[j] \in [1..PathLength -> {"L", "R"}] /\ Path[k] \in [1..PathLength -> {"L", "R"}]
  BY PathAssumption
<1>2. \A i \in 1..PathLength : Path[j][i] = Path[k][i]
  BY DEF Under
<1>3. Path[j] = Path[k]
  <2>1. /\ Path[j] = [i \in 1..PathLength |-> Path[j][i]]
        /\ Path[k] = [i \in 1..PathLength |-> Path[k][i]]
    BY <1>1
  <2>. QED
    BY <1>2, <2>1
<1>. QED
  BY <1>3, PathAssumption

\* A leaf is checked to be at a location on its path.
LEMMA OnPathUnder ==
    ASSUME NEW depth \in Level, NEW location \in Location(depth), NEW leaf,
           leaf.key \in Key, Under(leaf.key, location, depth)
    PROVE  OnPath(leaf, location)
<1>1. depth \in Nat /\ depth <= PathLength /\ PathLength \in Nat
  BY Levels DEF Level
<1>2. location \in Seq({"L", "R"}) /\ Len(location) = depth
  BY <1>1 DEF Location
<1>3. Path[leaf.key] \in [1..PathLength -> {"L", "R"}]
  BY PathAssumption
<1>4. Path[leaf.key] \in Seq({"L", "R"}) /\ Len(Path[leaf.key]) = PathLength
  BY <1>1, <1>3
<1>5. /\ SubSeq(Path[leaf.key], 1, depth) \in Seq({"L", "R"})
      /\ Len(SubSeq(Path[leaf.key], 1, depth)) = depth
      /\ \A i \in 1..depth : SubSeq(Path[leaf.key], 1, depth)[i] = Path[leaf.key][i]
  BY <1>1, <1>4
<1>6. \A i \in 1..depth : SubSeq(Path[leaf.key], 1, depth)[i] = location[i]
  BY <1>5 DEF Under
<1>7. SubSeq(Path[leaf.key], 1, depth) = location
  BY <1>1, <1>2, <1>5, <1>6
<1>. QED
  BY <1>2, <1>7 DEF OnPath

-----------------------------------------------------------------------------
(***************************************************************************)
(* The hash a map has at a location, and the nodes that show a map there:  *)
(* as far as they go they are the tree of the map, and where they do not   *)
(* they have its hash.                                                     *)
(***************************************************************************)
Sum(map, location, depth) == Hash(Completed(map)[depth][Held(map, location, depth)])

LEMMA SumIs ==
    ASSUME NEW map, NEW depth \in Level, NEW location \in Location(depth)
    PROVE  /\ Held(map, location, depth) = {} => Sum(map, location, depth) = Empty
           /\ \A k \in Key : Held(map, location, depth) = {k} =>
                Sum(map, location, depth) = Leaf(k, map[k])
           /\ (\E j, k \in Held(map, location, depth) : j # k) =>
                /\ depth # PathLength
                /\ Sum(map, location, depth) =
                        InternalHash(Sum(map, Append(location, "L"), depth + 1),
                                     Sum(map, Append(location, "R"), depth + 1))
<1> DEFINE keys == Held(map, location, depth)
           tree == Completed(map)[depth][keys]
<1>1. keys \in SUBSET Key
  BY DEF Held
<1>2. keys = {} => Sum(map, location, depth) = Empty
  BY <1>1, CompletedIs DEF Sum, Hash, Is, Empty
<1>3. ASSUME NEW k \in Key, keys = {k}
      PROVE  Sum(map, location, depth) = Leaf(k, map[k])
  BY <1>1, <1>3, CompletedIs DEF Sum, Hash, Is, Leaf
<1>4. ASSUME NEW j \in keys, NEW k \in keys, j # k
      PROVE  /\ depth # PathLength
             /\ Sum(map, location, depth) =
                        InternalHash(Sum(map, Append(location, "L"), depth + 1),
                                     Sum(map, Append(location, "R"), depth + 1))
  <2>1. depth # PathLength
    BY <1>4, UnderEnd DEF Held
  <2>2. tree = Internal(Completed(map)[depth + 1][Split(keys, depth, "L")],
                        Completed(map)[depth + 1][Split(keys, depth, "R")])
    BY <1>1, <1>4, <2>1, CompletedIs
  <2>3. /\ Held(map, Append(location, "L"), depth + 1) = Split(keys, depth, "L")
        /\ Held(map, Append(location, "R"), depth + 1) = Split(keys, depth, "R")
    BY <2>1, HeldSplit
  <2>4. tree = Internal(Completed(map)[depth + 1][Held(map, Append(location, "L"), depth + 1)],
                        Completed(map)[depth + 1][Held(map, Append(location, "R"), depth + 1)])
    BY <2>2, <2>3
  <2>5. Hash(tree) = InternalHash(Sum(map, Append(location, "L"), depth + 1),
                                  Sum(map, Append(location, "R"), depth + 1))
    <3> HIDE DEF tree, keys
    <3>. QED
      BY <2>4 DEF Hash, Is, Internal, Raw, Sum
  <2>. QED
    BY <2>1, <2>5 DEF Sum
<1>. QED
  BY <1>2, <1>3, <1>4

ShownNode(map, depth, below, location, n) ==
    /\ Hash(n) = Sum(map, location, depth)
    /\ Is(n, "internal") =>
          /\ n.left # Stub(Empty) /\ n.right # Stub(Empty)
          /\ below[Append(location, "L")][n.left]
          /\ below[Append(location, "R")][n.right]

\* A node shows a map at a location.
Shown(map) ==
    LET shown[depth \in Level] ==
          [location \in Location(depth) |-> [n \in NodeAt[depth] |->
              ShownNode(map, depth, shown[depth + 1], location, n)]]
    IN  shown

ShownStep(map, depth, below) ==
    [location \in Location(depth) |-> [n \in NodeAt[depth] |->
        ShownNode(map, depth, below, location, n)]]

ShownRecursion == INSTANCE Recursion WITH Top <- PathLength, Step <- ShownStep

LEMMA ShownIs ==
    ASSUME NEW map, NEW depth \in Level, NEW location \in Location(depth),
           NEW n \in NodeAt[depth]
    PROVE  Shown(map)[depth][location][n] =
                ShownNode(map, depth, Shown(map)[depth + 1], location, n)
<1>1. ASSUME NEW x, NEW y
      PROVE  ShownStep(map, PathLength, x) = ShownStep(map, PathLength, y)
  <2>1. ASSUME NEW end \in NodeAt[PathLength], NEW l
        PROVE  ShownNode(map, PathLength, x, l, end) = ShownNode(map, PathLength, y, l, end)
    <3>1. ~Is(end, "internal")
      BY Levels, KindOf
    <3>. QED
      BY <3>1 DEF ShownNode
  <2>. QED
    BY <2>1 DEF ShownStep
<1>2. \E f : f = [d \in Level |-> ShownStep(map, d, f[d + 1])]
  BY <1>1, Levels, ShownRecursion!Exists DEF Level
<1>3. Shown(map) = [d \in Level |-> ShownStep(map, d, Shown(map)[d + 1])]
  BY <1>2 DEF Shown, ShownStep
<1>4. Shown(map)[depth] = ShownStep(map, depth, Shown(map)[depth + 1])
  BY <1>3
<1>. QED
  BY <1>4 DEF ShownStep

\* A fact of the last level, and of a level if of the next, is one of every level.
LEMMA LevelInduction ==
    ASSUME NEW S, PathLength \in S,
           \A depth \in Level : depth # PathLength /\ depth + 1 \in S => depth \in S
    PROVE  Level \subseteq S
BY Levels, HashRecursion!Climb DEF Level

LEMMA HashTyped ==
    ASSUME NEW depth \in Level, NEW n \in NodeAt[depth]
    PROVE  Hash(n) \in HashAt[depth]
BY Kinds, HashKinds DEF Hash, Is, Empty, Leaf, Stub, Raw

LEMMA InternalTyped ==
    ASSUME NEW depth \in Level, depth # PathLength,
           NEW left \in NodeAt[depth + 1], NEW right \in NodeAt[depth + 1]
    PROVE  Internal(left, right) \in NodeAt[depth]
<1>1. depth + 1 \in Level
  BY Levels
<1>2. Hash(left) \in HashAt[depth + 1] /\ Hash(right) \in HashAt[depth + 1]
  BY <1>1, HashTyped
<1>. QED
  BY <1>2, HashKinds, Makes DEF Internal

\* A set of keys is empty, has one, or two that differ.
LEMMA HowMany ==
    ASSUME NEW keys
    PROVE  keys = {} \/ (\E k \in keys : keys = {k}) \/ (\E j, k \in keys : j # k)
OBVIOUS

\* What a node that shows a map tells of it.
LEMMA ShownKinds ==
    ASSUME NEW map, NEW depth \in Level, NEW location \in Location(depth),
           NEW n \in NodeAt[depth], Shown(map)[depth][location][n]
    PROVE  /\ Hash(n) = Sum(map, location, depth)
           /\ Is(n, "empty") => Held(map, location, depth) = {}
           /\ Is(n, "leaf") => Held(map, location, depth) = {n.key} /\ n.value = map[n.key]
           /\ Is(n, "stub") /\ n # Stub(Empty) => Held(map, location, depth) # {}
           /\ Is(n, "internal") =>
                /\ \E j, k \in Held(map, location, depth) : j # k
                /\ n.left # Stub(Empty) /\ n.right # Stub(Empty)
                /\ Shown(map)[depth + 1][Append(location, "L")][n.left]
                /\ Shown(map)[depth + 1][Append(location, "R")][n.right]
<1> DEFINE keys == Held(map, location, depth)
<1>1. ShownNode(map, depth, Shown(map)[depth + 1], location, n)
  BY ShownIs
<1>2. Hash(n) = Sum(map, location, depth)
  BY <1>1 DEF ShownNode
<1>3. keys = {} => Sum(map, location, depth).kind = "empty"
  BY SumIs DEF Empty
<1>4. \A k \in keys : keys = {k} => Sum(map, location, depth) = Leaf(k, map[k])
  <2>1. keys \subseteq Key
    BY DEF Held
  <2>. QED
    BY <2>1, SumIs
<1>5. (\E j, k \in keys : j # k) => Sum(map, location, depth).kind = "hash"
  BY SumIs DEF InternalHash
<1>6. Is(n, "empty") => Hash(n).kind = "empty"
  BY DEF Hash, Is
<1>7. Is(n, "leaf") => Hash(n) = n /\ n.kind = "leaf"
  BY DEF Hash, Is
<1>8. Is(n, "internal") => Hash(n).kind = "hash"
  BY KindOf DEF Hash, Is, InternalHashes
<1>9. Is(n, "stub") /\ keys = {} => n = Stub(Empty)
  <2>1. keys = {} => Sum(map, location, depth) = Empty
    BY SumIs
  <2>. QED
    BY <1>2, <2>1, KindOf DEF Hash, Is, Stub
<1>10. \A k \in keys : keys = {k} => Sum(map, location, depth).kind = "leaf"
  BY <1>4 DEF Leaf
<1> HIDE DEF keys
<1>11. Is(n, "empty") => keys = {}
  BY <1>2, <1>5, <1>6, <1>10, HowMany
<1>12. Is(n, "leaf") => keys = {n.key} /\ n.value = map[n.key]
  <2>1. SUFFICES ASSUME Is(n, "leaf")
                 PROVE  keys = {n.key} /\ n.value = map[n.key]
    OBVIOUS
  <2>2. PICK k \in keys : keys = {k}
    BY <1>2, <1>3, <1>5, <1>7, <2>1, HowMany
  <2>3. n = Leaf(k, map[k])
    BY <1>2, <1>4, <1>7, <2>1, <2>2
  <2>. QED
    BY <2>2, <2>3 DEF Leaf
<1>13. Is(n, "internal") => \E j, k \in keys : j # k
  BY <1>2, <1>3, <1>8, <1>10, HowMany
<1>14. Is(n, "internal") =>
                /\ n.left # Stub(Empty) /\ n.right # Stub(Empty)
                /\ Shown(map)[depth + 1][Append(location, "L")][n.left]
                /\ Shown(map)[depth + 1][Append(location, "R")][n.right]
  BY <1>1 DEF ShownNode
<1>. QED
  BY <1>2, <1>9, <1>11, <1>12, <1>13, <1>14 DEF keys

\* An internal node that shows a map is the one its children make.
LEMMA ShownInternal ==
    ASSUME NEW map, NEW depth \in Level, NEW location \in Location(depth),
           NEW n \in NodeAt[depth], Shown(map)[depth][location][n], Is(n, "internal")
    PROVE  /\ n.hash = InternalHash(Hash(n.left), Hash(n.right))
           /\ n = Internal(n.left, n.right)
<1>1. /\ depth # PathLength /\ depth + 1 \in Level
      /\ n.left \in NodeAt[depth + 1] /\ n.right \in NodeAt[depth + 1]
      /\ n = Raw(n.hash, n.left, n.right)
  BY KindOf
<1>2. /\ Append(location, "L") \in Location(depth + 1)
      /\ Append(location, "R") \in Location(depth + 1)
  BY <1>1, Further
<1>3. Sum(map, location, depth) =
            InternalHash(Sum(map, Append(location, "L"), depth + 1),
                         Sum(map, Append(location, "R"), depth + 1))
  BY ShownKinds, SumIs
<1>4. /\ Hash(n.left) = Sum(map, Append(location, "L"), depth + 1)
      /\ Hash(n.right) = Sum(map, Append(location, "R"), depth + 1)
  BY <1>1, <1>2, ShownKinds
<1>5. n.hash = Sum(map, location, depth)
  BY ShownKinds DEF Hash
<1>. QED
  BY <1>1, <1>3, <1>4, <1>5 DEF Internal

\* Nodes that show a map: of no key, of one, of more, and what is left of one.
LEMMA ShownEmpty ==
    ASSUME NEW map, NEW depth \in Level, NEW location \in Location(depth),
           Held(map, location, depth) = {}
    PROVE  Empty \in NodeAt[depth] /\ Shown(map)[depth][location][Empty]
<1>1. Empty \in NodeAt[depth]
  BY Makes
<1>2. ShownNode(map, depth, Shown(map)[depth + 1], location, Empty)
  BY SumIs DEF ShownNode, Hash, Is, Empty
<1>. QED
  BY <1>1, <1>2, ShownIs

LEMMA ShownLeaf ==
    ASSUME NEW map, NEW depth \in Level, NEW location \in Location(depth),
           NEW k \in Key, Held(map, location, depth) = {k}, map[k] \in Value
    PROVE  /\ Leaf(k, map[k]) \in NodeAt[depth]
           /\ Shown(map)[depth][location][Leaf(k, map[k])]
<1>1. Leaf(k, map[k]) \in NodeAt[depth]
  BY Makes
<1>2. ShownNode(map, depth, Shown(map)[depth + 1], location, Leaf(k, map[k]))
  BY SumIs DEF ShownNode, Hash, Is, Leaf
<1>. QED
  BY <1>1, <1>2, ShownIs

LEMMA ShownParent ==
    ASSUME NEW map, NEW depth \in Level, NEW location \in Location(depth),
           depth # PathLength, \E j, k \in Held(map, location, depth) : j # k,
           NEW left \in NodeAt[depth + 1], NEW right \in NodeAt[depth + 1],
           left # Stub(Empty), right # Stub(Empty),
           Shown(map)[depth + 1][Append(location, "L")][left],
           Shown(map)[depth + 1][Append(location, "R")][right]
    PROVE  /\ Internal(left, right) \in NodeAt[depth]
           /\ Shown(map)[depth][location][Internal(left, right)]
<1>1. Internal(left, right) \in NodeAt[depth]
  BY InternalTyped
<1>2. /\ Append(location, "L") \in Location(depth + 1)
      /\ Append(location, "R") \in Location(depth + 1)
      /\ depth + 1 \in Level
  BY Further, Levels
<1>3. /\ Hash(left) = Sum(map, Append(location, "L"), depth + 1)
      /\ Hash(right) = Sum(map, Append(location, "R"), depth + 1)
  BY <1>2, ShownKinds
<1>4. Sum(map, location, depth) = InternalHash(Hash(left), Hash(right))
  BY <1>3, SumIs
<1>5. /\ Hash(Internal(left, right)) = InternalHash(Hash(left), Hash(right))
      /\ Internal(left, right).left = left /\ Internal(left, right).right = right
  BY DEF Internal, Raw, Hash, Is
<1>6. ShownNode(map, depth, Shown(map)[depth + 1], location, Internal(left, right))
  BY <1>4, <1>5 DEF ShownNode
<1>. QED
  BY <1>1, <1>6, ShownIs

\* The children of an internal node may be replaced by others that show the same.
LEMMA ShownRaw ==
    ASSUME NEW map, NEW depth \in Level, NEW location \in Location(depth),
           NEW n \in NodeAt[depth], Shown(map)[depth][location][n], Is(n, "internal"),
           NEW left \in NodeAt[depth + 1], NEW right \in NodeAt[depth + 1],
           left # Stub(Empty), right # Stub(Empty),
           Shown(map)[depth + 1][Append(location, "L")][left],
           Shown(map)[depth + 1][Append(location, "R")][right]
    PROVE  /\ Raw(n.hash, left, right) \in NodeAt[depth]
           /\ Shown(map)[depth][location][Raw(n.hash, left, right)]
<1>1. /\ depth # PathLength /\ depth + 1 \in Level
      /\ n.left \in NodeAt[depth + 1] /\ n.right \in NodeAt[depth + 1]
  BY KindOf
<1>2. /\ Append(location, "L") \in Location(depth + 1)
      /\ Append(location, "R") \in Location(depth + 1)
  BY <1>1, Further
<1>3. /\ Shown(map)[depth + 1][Append(location, "L")][n.left]
      /\ Shown(map)[depth + 1][Append(location, "R")][n.right]
      /\ \E j, k \in Held(map, location, depth) : j # k
  BY ShownKinds
<1>4. Hash(left) = Hash(n.left) /\ Hash(right) = Hash(n.right)
  BY <1>1, <1>2, <1>3, ShownKinds
<1>5. Raw(n.hash, left, right) = Internal(left, right)
  BY <1>4, ShownInternal DEF Internal
<1>. QED
  BY <1>1, <1>3, <1>5, ShownParent

LEMMA ShownStub ==
    ASSUME NEW map, NEW depth \in Level, NEW location \in Location(depth),
           NEW n \in NodeAt[depth], Shown(map)[depth][location][n]
    PROVE  /\ Stub(Hash(n)) \in NodeAt[depth]
           /\ Shown(map)[depth][location][Stub(Hash(n))]
<1>1. Stub(Hash(n)) \in NodeAt[depth]
  BY HashTyped, Makes
<1>2. Hash(Stub(Hash(n))) = Sum(map, location, depth) /\ ~Is(Stub(Hash(n)), "internal")
  BY ShownKinds DEF Stub, Hash, Is
<1>3. ShownNode(map, depth, Shown(map)[depth + 1], location, Stub(Hash(n)))
  BY <1>2 DEF ShownNode
<1>. QED
  BY <1>1, <1>3, ShownIs

\* What is shown at a location depends on the keys below it only.
Agree(a, b, location, depth) == \A k \in Key : Under(k, location, depth) => a[k] = b[k]

LEMMA AgreeBelow ==
    ASSUME NEW a, NEW b, NEW depth \in Level, depth # PathLength,
           NEW location \in Location(depth), NEW d \in {"L", "R"}, Agree(a, b, location, depth)
    PROVE  Agree(a, b, Append(location, d), depth + 1)
BY UnderFurther DEF Agree

LEMMA SumFrame ==
    ASSUME NEW a, NEW b, NEW depth \in Level, NEW location \in Location(depth),
           Agree(a, b, location, depth)
    PROVE  Held(a, location, depth) = Held(b, location, depth)
           /\ Sum(a, location, depth) = Sum(b, location, depth)
<1> DEFINE S == { d \in Level : \A l \in Location(d) : Agree(a, b, l, d) => Sum(a, l, d) = Sum(b, l, d) }
<1>1. ASSUME NEW d \in Level, NEW l \in Location(d), Agree(a, b, l, d)
      PROVE  Held(a, l, d) = Held(b, l, d)
  BY <1>1 DEF Held, Agree
<1>2. ASSUME NEW d \in Level, NEW l \in Location(d), Agree(a, b, l, d),
             ~\E j, k \in Held(a, l, d) : j # k
      PROVE  Sum(a, l, d) = Sum(b, l, d)
  <2>1. Held(a, l, d) = Held(b, l, d)
    BY <1>1, <1>2
  <2>2. CASE Held(a, l, d) = {}
    <3>1. Sum(a, l, d) = Empty
      BY <2>2, SumIs
    <3>2. Sum(b, l, d) = Empty
      BY <2>1, <2>2, SumIs
    <3>. QED
      BY <3>1, <3>2
  <2>3. CASE \E k \in Held(a, l, d) : Held(a, l, d) = {k}
    <3>1. PICK k \in Held(a, l, d) : Held(a, l, d) = {k}
      BY <2>3
    <3>2. k \in Key /\ a[k] = b[k]
      BY <1>2, <3>1 DEF Held, Agree
    <3>3. Sum(a, l, d) = Leaf(k, a[k])
      BY <3>1, <3>2, SumIs
    <3>4. Held(b, l, d) = {k}
      BY <2>1, <3>1
    <3>5. Sum(b, l, d) = Leaf(k, b[k])
      BY <3>2, <3>4, SumIs
    <3>. QED
      BY <3>2, <3>3, <3>5
  <2>. QED
    BY <1>2, <2>2, <2>3, HowMany
<1>3. PathLength \in S
  <2>1. ASSUME NEW l \in Location(PathLength)
        PROVE  ~\E j, k \in Held(a, l, PathLength) : j # k
    BY UnderEnd DEF Held
  <2>. QED
    BY <1>2, <2>1, Levels
<1>4. ASSUME NEW d \in Level, d # PathLength, d + 1 \in S
      PROVE  d \in S
  <2>1. SUFFICES ASSUME NEW l \in Location(d), Agree(a, b, l, d),
                        \E j, k \in Held(a, l, d) : j # k
                 PROVE  Sum(a, l, d) = Sum(b, l, d)
    BY <1>2
  <2>2. \A side \in {"L", "R"} :
            Sum(a, Append(l, side), d + 1) = Sum(b, Append(l, side), d + 1)
    BY <1>4, <2>1, AgreeBelow, Further
  <2>3. \E j, k \in Held(b, l, d) : j # k
    BY <1>1, <2>1
  <2>4. Sum(a, l, d) = InternalHash(Sum(a, Append(l, "L"), d + 1), Sum(a, Append(l, "R"), d + 1))
    BY <2>1, SumIs
  <2>5. Sum(b, l, d) = InternalHash(Sum(b, Append(l, "L"), d + 1), Sum(b, Append(l, "R"), d + 1))
    BY <2>3, SumIs
  <2>. QED
    BY <2>2, <2>4, <2>5
<1> HIDE DEF S
<1>5. Level \subseteq S
  BY <1>3, <1>4, LevelInduction
<1>. QED
  BY <1>1, <1>5 DEF S

LEMMA ShownFrame ==
    ASSUME NEW a, NEW b, NEW depth \in Level, NEW location \in Location(depth),
           NEW n \in NodeAt[depth], Agree(a, b, location, depth), Shown(a)[depth][location][n]
    PROVE  Shown(b)[depth][location][n]
<1> DEFINE S == { d \in Level : \A l \in Location(d), m \in NodeAt[d] :
                    Agree(a, b, l, d) /\ Shown(a)[d][l][m] => Shown(b)[d][l][m] }
<1>1. ASSUME NEW d \in Level, NEW l \in Location(d), NEW m \in NodeAt[d],
             Agree(a, b, l, d), Shown(a)[d][l][m], ~Is(m, "internal")
      PROVE  Shown(b)[d][l][m]
  <2>1. Hash(m) = Sum(a, l, d)
    BY <1>1, ShownKinds
  <2>2. Sum(a, l, d) = Sum(b, l, d)
    BY <1>1, SumFrame
  <2>3. ShownNode(b, d, Shown(b)[d + 1], l, m)
    BY <1>1, <2>1, <2>2 DEF ShownNode
  <2>. QED
    BY <2>3, ShownIs
<1>2. PathLength \in S
  <2>1. \A m \in NodeAt[PathLength] : ~Is(m, "internal")
    BY KindOf, Levels
  <2>. QED
    BY <1>1, <2>1, Levels
<1>3. ASSUME NEW d \in Level, d # PathLength, d + 1 \in S
      PROVE  d \in S
  <2>1. SUFFICES ASSUME NEW l \in Location(d), NEW m \in NodeAt[d], Agree(a, b, l, d),
                        Shown(a)[d][l][m], Is(m, "internal")
                 PROVE  Shown(b)[d][l][m]
    BY <1>1
  <2>2. /\ m.left \in NodeAt[d + 1] /\ m.right \in NodeAt[d + 1]
        /\ m.left # Stub(Empty) /\ m.right # Stub(Empty)
        /\ Shown(a)[d + 1][Append(l, "L")][m.left]
        /\ Shown(a)[d + 1][Append(l, "R")][m.right]
    BY <2>1, KindOf, ShownKinds
  <2>3. /\ Shown(b)[d + 1][Append(l, "L")][m.left]
        /\ Shown(b)[d + 1][Append(l, "R")][m.right]
    BY <1>3, <2>1, <2>2, AgreeBelow, Further
  <2>4. Hash(m) = Sum(b, l, d)
    BY <2>1, SumFrame, ShownKinds
  <2>5. ShownNode(b, d, Shown(b)[d + 1], l, m)
    BY <2>2, <2>3, <2>4 DEF ShownNode
  <2>. QED
    BY <2>5, ShownIs
<1> HIDE DEF S
<1>4. Level \subseteq S
  BY <1>2, <1>3, LevelInduction
<1>. QED
  BY <1>4 DEF S

-----------------------------------------------------------------------------
(***************************************************************************)
(* Reading, checking, sending.                                             *)
(***************************************************************************)

\* What is read of a key is what the map has for it, or not known.
LEMMA ReadTrue ==
    ASSUME NEW map \in Map, NEW depth \in Level, NEW location \in Location(depth),
           NEW n \in NodeAt[depth], Shown(map)[depth][location][n],
           NEW k \in Key, Under(k, location, depth)
    PROVE  Read(k)[depth][n] \in {Unknown, map[k]}
<1> DEFINE S == { d \in Level : \A l \in Location(d), m \in NodeAt[d] :
                    Under(k, l, d) /\ Shown(map)[d][l][m] => Read(k)[d][m] \in {Unknown, map[k]} }
<1>1. ASSUME NEW d \in Level, NEW l \in Location(d), NEW m \in NodeAt[d],
             Under(k, l, d), Shown(map)[d][l][m], ~Is(m, "internal")
      PROVE  Read(k)[d][m] \in {Unknown, map[k]}
  <2>1. k \in Held(map, l, d) <=> map[k] # Nothing
    BY <1>1 DEF Held
  <2>2. CASE Is(m, "empty")
    BY <1>1, <2>1, <2>2, ReadIs, ShownKinds
  <2>3. CASE Is(m, "leaf")
    <3>1. Read(k)[d][m] = IF m.key = k THEN m.value ELSE Nothing
      BY <2>3, ReadIs DEF Reaches
    <3>2. Held(map, l, d) = {m.key} /\ m.value = map[m.key]
      BY <1>1, <2>3, ShownKinds
    <3>3. m.key # k => map[k] = Nothing
      BY <2>1, <3>2
    <3>. QED
      BY <3>1, <3>2, <3>3
  <2>4. CASE Is(m, "stub")
    BY <1>1, <2>4, ReadIs
  <2>. QED
    BY <1>1, <2>2, <2>3, <2>4, KindOf
<1>2. PathLength \in S
  <2>1. \A m \in NodeAt[PathLength] : ~Is(m, "internal")
    BY KindOf, Levels
  <2>. QED
    BY <1>1, <2>1, Levels
<1>3. ASSUME NEW d \in Level, d # PathLength, d + 1 \in S
      PROVE  d \in S
  <2>1. SUFFICES ASSUME NEW l \in Location(d), NEW m \in NodeAt[d], Under(k, l, d),
                        Shown(map)[d][l][m], Is(m, "internal")
                 PROVE  Read(k)[d][m] \in {Unknown, map[k]}
    BY <1>1
  <2>2. Side(k, d) \in {"L", "R"}
    BY <1>3, Sides
  <2>3. /\ Half(m, Side(k, d)) \in NodeAt[d + 1]
        /\ Shown(map)[d + 1][Append(l, Side(k, d))][Half(m, Side(k, d))]
    BY <2>1, <2>2, KindOf, ShownKinds DEF Half
  <2>4. /\ Append(l, Side(k, d)) \in Location(d + 1)
        /\ Under(k, Append(l, Side(k, d)), d + 1)
    BY <1>3, <2>1, <2>2, Further, UnderFurther
  <2>5. Read(k)[d][m] = Read(k)[d + 1][Half(m, Side(k, d))]
    BY <2>1, ReadIs
  <2>. QED
    BY <1>3, <2>3, <2>4, <2>5
<1> HIDE DEF S
<1>4. Level \subseteq S
  BY <1>2, <1>3, LevelInduction
<1>. QED
  BY <1>4 DEF S

\* The records a node shows of a key: what is read, if the key is below its
\* location, and else none.
Told(k, v) == IF v \in {Nothing, Unknown} THEN {} ELSE {<<k, v>>}

Of(k, pairs) == { pair \in pairs : pair[1] = k }

LEMMA RecordsTrue ==
    ASSUME NEW map \in Map, NEW depth \in Level, NEW location \in Location(depth),
           NEW n \in NodeAt[depth], Shown(map)[depth][location][n], NEW k \in Key
    PROVE  Of(k, Records[depth][n]) =
                IF Under(k, location, depth) THEN Told(k, Read(k)[depth][n]) ELSE {}
<1> DEFINE Fine(d, l, m) == Of(k, Records[d][m]) =
                                IF Under(k, l, d) THEN Told(k, Read(k)[d][m]) ELSE {}
           S == { d \in Level : \A l \in Location(d), m \in NodeAt[d] :
                    Shown(map)[d][l][m] => Fine(d, l, m) }
<1>1. ASSUME NEW d \in Level, NEW l \in Location(d), NEW m \in NodeAt[d],
             Shown(map)[d][l][m], ~Is(m, "internal")
      PROVE  Fine(d, l, m)
  <2>1. CASE Is(m, "empty")
    <3>1. Records[d][m] = {} /\ Read(k)[d][m] = Nothing
      BY <2>1, RecordsIs, ReadIs
    <3>. QED
      BY <3>1 DEF Of, Told
  <2>2. CASE Is(m, "leaf")
    <3>1. /\ Records[d][m] = {<<m.key, m.value>>}
          /\ Read(k)[d][m] = IF k = m.key THEN m.value ELSE Nothing
      BY <2>2, RecordsIs, ReadIs DEF Reaches
    <3>2. m.value \notin {Nothing, Unknown}
      <4>1. m.value \in Value
        BY <2>2, KindOf
      <4>. QED
        BY <4>1, PathAssumption, NothingAssumption
    <3>3. Under(m.key, l, d)
      BY <1>1, <2>2, ShownKinds DEF Held
    <3>4. CASE k = m.key
      <4>1. Of(k, Records[d][m]) = {<<k, m.value>>}
        BY <3>1, <3>4 DEF Of
      <4>. QED
        BY <3>1, <3>2, <3>3, <3>4, <4>1 DEF Told
    <3>5. CASE k # m.key
      <4>1. Of(k, Records[d][m]) = {}
        BY <3>1, <3>5 DEF Of
      <4>. QED
        BY <3>1, <3>5, <4>1 DEF Told
    <3>. QED
      BY <3>4, <3>5
  <2>3. CASE Is(m, "stub")
    <3>1. Records[d][m] = {} /\ Read(k)[d][m] = Unknown
      BY <2>3, RecordsIs, ReadIs
    <3>. QED
      BY <3>1 DEF Of, Told
  <2>. QED
    BY <1>1, <2>1, <2>2, <2>3, KindOf
<1>2. PathLength \in S
  <2>1. \A m \in NodeAt[PathLength] : ~Is(m, "internal")
    BY KindOf, Levels
  <2> HIDE DEF Fine
  <2>. QED
    BY <1>1, <2>1, Levels
<1>3. ASSUME NEW d \in Level, d # PathLength, d + 1 \in S
      PROVE  d \in S
  <2>1. SUFFICES ASSUME NEW l \in Location(d), NEW m \in NodeAt[d],
                        Shown(map)[d][l][m], Is(m, "internal")
                 PROVE  Fine(d, l, m)
    <3> HIDE DEF Fine
    <3>. QED
      BY <1>1
  <2>2. \A side \in {"L", "R"} :
            /\ Half(m, side) \in NodeAt[d + 1]
            /\ Append(l, side) \in Location(d + 1)
            /\ Shown(map)[d + 1][Append(l, side)][Half(m, side)]
            /\ Under(k, Append(l, side), d + 1) <=> Under(k, l, d) /\ Side(k, d) = side
    BY <1>3, <2>1, KindOf, ShownKinds, Further, UnderFurther DEF Half
  <2>3. \A side \in {"L", "R"} : Fine(d + 1, Append(l, side), Half(m, side))
    <3> HIDE DEF Fine
    <3>. QED
      BY <1>3, <2>2
  <2>4. Of(k, Records[d][m]) =
            Of(k, Records[d + 1][Half(m, "L")]) \cup Of(k, Records[d + 1][Half(m, "R")])
    BY <2>1, RecordsIs DEF Of, Half
  <2>5. Side(k, d) \in {"L", "R"} /\ Read(k)[d][m] = Read(k)[d + 1][Half(m, Side(k, d))]
    BY <1>3, <2>1, Sides, ReadIs
  <2>. QED
    BY <2>2, <2>3, <2>4, <2>5
<1> HIDE DEF S
<1>4. Level \subseteq S
  BY <1>2, <1>3, LevelInduction
<1>. QED
  BY <1>4 DEF S

\* Two children of which one is a leaf and the other holds nothing are merged.
LEMMA ShownCompact ==
    ASSUME NEW map, NEW depth \in Level, NEW location \in Location(depth),
           NEW n \in NodeAt[depth], Shown(map)[depth][location][n], Is(n, "internal")
    PROVE  CompactInternal(n) /\ Merged(n.left, n.right) = n
<1>1. /\ depth # PathLength /\ depth + 1 \in Level
      /\ n.left \in NodeAt[depth + 1] /\ n.right \in NodeAt[depth + 1]
      /\ Append(location, "L") \in Location(depth + 1)
      /\ Append(location, "R") \in Location(depth + 1)
      /\ Shown(map)[depth + 1][Append(location, "L")][n.left]
      /\ Shown(map)[depth + 1][Append(location, "R")][n.right]
  BY KindOf, ShownKinds, Further
<1>2. PICK i, j \in Held(map, location, depth) : i # j
  BY ShownKinds
<1>3. Side(i, depth) \in {"L", "R"} /\ Side(j, depth) \in {"L", "R"} /\ i \in Key /\ j \in Key
  BY <1>1, Sides DEF Held
<1>4. /\ i \in Held(map, Append(location, Side(i, depth)), depth + 1)
      /\ j \in Held(map, Append(location, Side(j, depth)), depth + 1)
  BY <1>1, <1>3, HeldSplit DEF Split
<1>5. \A side \in {"L", "R"} :
        /\ Is(Half(n, side), "empty") => Held(map, Append(location, side), depth + 1) = {}
        /\ Is(Half(n, side), "leaf") =>
                Held(map, Append(location, side), depth + 1) = {Half(n, side).key}
  BY <1>1, ShownKinds DEF Half
<1>6. /\ Half(n, "L") = n.left /\ Half(n, "R") = n.right
      /\ \A side \in {"L", "R"} : side = "L" \/ side = "R"
  BY DEF Half
<1>7. CompactInternal(n)
  BY <1>2, <1>3, <1>4, <1>5, <1>6 DEF CompactInternal, Is
<1>8. Merged(n.left, n.right) = Internal(n.left, n.right)
  BY <1>7 DEF CompactInternal, Merged
<1>. QED
  BY <1>7, <1>8, ShownInternal

\* What shows a map passes the check of a receiver, which computes the hashes it
\* had.
LEMMA Sendable ==
    ASSUME NEW map, NEW depth \in Level, NEW location \in Location(depth),
           NEW n \in NodeAt[depth], Shown(map)[depth][location][n]
    PROVE  Checking[depth][location][n] /\ Deserializing[depth][n] = n
<1> DEFINE Fine(d, l, m) == Checking[d][l][m] /\ Deserializing[d][m] = m
           S == { d \in Level : \A l \in Location(d), m \in NodeAt[d] :
                    Shown(map)[d][l][m] => Fine(d, l, m) }
<1>1. ASSUME NEW d \in Level, NEW l \in Location(d), NEW m \in NodeAt[d],
             Shown(map)[d][l][m], ~Is(m, "internal")
      PROVE  Fine(d, l, m)
  <2>1. Deserializing[d][m] = m
    BY <1>1, DeserializingIs DEF DeserializeNode
  <2>2. Is(m, "leaf") => OnPath(m, l)
    BY <1>1, KindOf, ShownKinds, OnPathUnder DEF Held
  <2>3. CheckNode(Checking[d + 1], l, m)
    BY <1>1, <2>2 DEF CheckNode
  <2>. QED
    BY <2>1, <2>3, CheckingIs
<1>2. PathLength \in S
  <2>1. \A m \in NodeAt[PathLength] : ~Is(m, "internal")
    BY KindOf, Levels
  <2> HIDE DEF Fine
  <2>. QED
    BY <1>1, <2>1, Levels
<1>3. ASSUME NEW d \in Level, d # PathLength, d + 1 \in S
      PROVE  d \in S
  <2>1. SUFFICES ASSUME NEW l \in Location(d), NEW m \in NodeAt[d],
                        Shown(map)[d][l][m], Is(m, "internal")
                 PROVE  Fine(d, l, m)
    <3> HIDE DEF Fine
    <3>. QED
      BY <1>1
  <2>2. /\ m.left \in NodeAt[d + 1] /\ m.right \in NodeAt[d + 1]
        /\ Append(l, "L") \in Location(d + 1) /\ Append(l, "R") \in Location(d + 1)
        /\ Shown(map)[d + 1][Append(l, "L")][m.left]
        /\ Shown(map)[d + 1][Append(l, "R")][m.right]
    BY <1>3, <2>1, KindOf, ShownKinds, Further
  <2>3. Fine(d + 1, Append(l, "L"), m.left) /\ Fine(d + 1, Append(l, "R"), m.right)
    <3> HIDE DEF Fine
    <3>. QED
      BY <1>3, <2>2
  <2>4. Deserializing[d][m] = m
    BY <2>1, <2>3, DeserializingIs, ShownInternal DEF DeserializeNode
  <2>5. CompactInternal(m)
    BY <2>1, ShownCompact
  <2>6. Checking[d + 1][Append(l, "L")][m.left] /\ Checking[d + 1][Append(l, "R")][m.right]
    BY <2>3
  <2>7. CheckNode(Checking[d + 1], l, m)
    <3> HIDE DEF Fine, S
    <3>. QED
      BY <2>1, <2>5, <2>6 DEF CheckNode, Is
  <2>. QED
    BY <2>1, <2>4, <2>7, CheckingIs
<1> HIDE DEF S
<1>4. Level \subseteq S
  BY <1>2, <1>3, LevelInduction
<1>. QED
  BY <1>4 DEF S
-----------------------------------------------------------------------------
(***************************************************************************)
(* Updates.                                                                *)
(***************************************************************************)

\* The map after an update.
Changed(map, k, op) == Updated(map, [j \in Key |-> IF j = k THEN op ELSE Skip])

LEMMA ChangedIs ==
    ASSUME NEW map \in Map, NEW k \in Key, NEW op \in Updates
    PROVE  /\ Changed(map, k, op) \in Map
           /\ \A j \in Key \ {k} : Changed(map, k, op)[j] = map[j]
           /\ op.act = "set" => op.value \in Value /\ Changed(map, k, op)[k] = op.value
           /\ op.act # "set" => op.act = "remove" /\ Changed(map, k, op)[k] = Nothing
<1>1. op = Delete \/ \E v \in Value : op = Set(v)
  BY DEF Updates, Operation
<1>2. /\ op.act = "set" => op.value \in Value
      /\ op.act # "set" => op.act = "remove"
  BY <1>1 DEF Delete, Set
<1> DEFINE one == [j \in Key |-> IF j = k THEN op ELSE Skip]
<1>3. one[k] = op /\ \A j \in Key \ {k} : one[j] = Skip
  OBVIOUS
<1> HIDE DEF one
<1>4. Changed(map, k, op) = Updated(map, one)
  BY DEF Changed, one
<1>5. \A j \in Key \ {k} : Updated(map, one)[j] = map[j]
  <2>1. ASSUME NEW j \in Key \ {k}
        PROVE  Updated(map, one)[j] = map[j]
    <3>1. one[j].act = "skip"
      BY <1>3 DEF Skip
    <3>. QED
      BY <3>1 DEF Updated
  <2>. QED
    BY <2>1
<1>6. /\ op.act = "set" => Updated(map, one)[k] = op.value
      /\ op.act = "remove" => Updated(map, one)[k] = Nothing
  BY <1>3 DEF Updated
<1>7. \A j \in Key : Updated(map, one)[j] \in Value \cup {Nothing}
  BY <1>2, <1>5, <1>6 DEF Map
<1>8. Updated(map, one) = [j \in Key |-> Updated(map, one)[j]]
  BY DEF Updated
<1>9. Updated(map, one) \in Map
  BY <1>7, <1>8 DEF Map
<1>. QED
  BY <1>2, <1>4, <1>5, <1>6, <1>9

\* What is held below a node is held below its children.
LEMMA HeldSides ==
    ASSUME NEW map, NEW depth \in Level, depth # PathLength, NEW location \in Location(depth)
    PROVE  /\ Held(map, location, depth) = Held(map, Append(location, "L"), depth + 1)
                                            \cup Held(map, Append(location, "R"), depth + 1)
           /\ Held(map, Append(location, "L"), depth + 1)
                \cap Held(map, Append(location, "R"), depth + 1) = {}
<1>1. /\ Held(map, Append(location, "L"), depth + 1) = Split(Held(map, location, depth), depth, "L")
      /\ Held(map, Append(location, "R"), depth + 1) = Split(Held(map, location, depth), depth, "R")
  BY HeldSplit
<1>2. \A k \in Held(map, location, depth) : Side(k, depth) = "L" \/ Side(k, depth) = "R"
  BY Sides DEF Held
<1>. QED
  BY <1>1, <1>2 DEF Split

\* Two nodes that show the halves of a map merge into one that shows the map, but
\* for a stub that is left alone.
LEMMA MergedShows ==
    ASSUME NEW map, NEW depth \in Level, depth # PathLength, NEW location \in Location(depth),
           NEW left \in NodeAt[depth + 1], NEW right \in NodeAt[depth + 1],
           left # Stub(Empty), right # Stub(Empty),
           Shown(map)[depth + 1][Append(location, "L")][left],
           Shown(map)[depth + 1][Append(location, "R")][right],
           Is(left, "empty") /\ Is(right, "stub") => \E i, j \in Held(map, location, depth) : i # j,
           Is(left, "stub") /\ Is(right, "empty") => \E i, j \in Held(map, location, depth) : i # j
    PROVE  /\ Merged(left, right) \in NodeAt[depth]
           /\ Shown(map)[depth][location][Merged(left, right)]
           /\ ~Is(Merged(left, right), "stub")
<1> DEFINE here == Held(map, location, depth)
           onLeft == Held(map, Append(location, "L"), depth + 1)
           onRight == Held(map, Append(location, "R"), depth + 1)
<1>1. here = onLeft \cup onRight /\ onLeft \cap onRight = {}
  BY HeldSides
<1>2. /\ depth + 1 \in Level
      /\ Append(location, "L") \in Location(depth + 1)
      /\ Append(location, "R") \in Location(depth + 1)
  BY Levels, Further
<1>3. /\ Is(left, "empty") => onLeft = {}
      /\ Is(left, "leaf") => onLeft = {left.key} /\ left.value = map[left.key]
      /\ Is(left, "stub") => onLeft # {}
      /\ Is(left, "internal") => \E i, j \in onLeft : i # j
  BY <1>2, ShownKinds
<1>4. /\ Is(right, "empty") => onRight = {}
      /\ Is(right, "leaf") => onRight = {right.key} /\ right.value = map[right.key]
      /\ Is(right, "stub") => onRight # {}
      /\ Is(right, "internal") => \E i, j \in onRight : i # j
  BY <1>2, ShownKinds
<1>5. /\ Is(left, "leaf") => /\ left = Leaf(left.key, left.value)
                             /\ left.key \in Key /\ left.value \in Value
      /\ Is(right, "leaf") => /\ right = Leaf(right.key, right.value)
                              /\ right.key \in Key /\ right.value \in Value
      /\ Is(left, "empty") \/ Is(left, "leaf") \/ Is(left, "stub") \/ Is(left, "internal")
      /\ Is(right, "empty") \/ Is(right, "leaf") \/ Is(right, "stub") \/ Is(right, "internal")
  BY <1>2, KindOf
<1> HIDE DEF here, onLeft, onRight
<1>6. CASE Is(left, "empty") /\ Is(right, "empty")
  <2>1. Merged(left, right) = Empty
    BY <1>6 DEF Merged, Is
  <2>2. here = {}
    BY <1>1, <1>3, <1>4, <1>6
  <2>3. ~Is(Empty, "stub")
    BY DEF Is, Empty
  <2>. QED
    BY <2>1, <2>2, <2>3, ShownEmpty DEF here
<1>7. CASE Is(left, "leaf") /\ Is(right, "empty")
  <2>1. Merged(left, right) = left
    BY <1>7 DEF Merged, Is
  <2>2. here = {left.key}
    BY <1>1, <1>3, <1>4, <1>7
  <2>3. left = Leaf(left.key, map[left.key]) /\ map[left.key] \in Value /\ left.key \in Key
    BY <1>3, <1>5, <1>7
  <2>4. /\ Leaf(left.key, map[left.key]) \in NodeAt[depth]
        /\ Shown(map)[depth][location][Leaf(left.key, map[left.key])]
    BY <2>2, <2>3, ShownLeaf DEF here
  <2>5. ~Is(left, "stub")
    BY <1>7 DEF Is
  <2>. QED
    BY <2>1, <2>3, <2>4, <2>5
<1>8. CASE Is(left, "empty") /\ Is(right, "leaf")
  <2>1. Merged(left, right) = right
    BY <1>8 DEF Merged, Is
  <2>2. here = {right.key}
    BY <1>1, <1>3, <1>4, <1>8
  <2>3. right = Leaf(right.key, map[right.key]) /\ map[right.key] \in Value /\ right.key \in Key
    BY <1>4, <1>5, <1>8
  <2>4. /\ Leaf(right.key, map[right.key]) \in NodeAt[depth]
        /\ Shown(map)[depth][location][Leaf(right.key, map[right.key])]
    BY <2>2, <2>3, ShownLeaf DEF here
  <2>5. ~Is(right, "stub")
    BY <1>8 DEF Is
  <2>. QED
    BY <2>1, <2>3, <2>4, <2>5
<1>9. ASSUME ~(Is(left, "empty") /\ Is(right, "empty")),
             ~(Is(left, "leaf") /\ Is(right, "empty")),
             ~(Is(left, "empty") /\ Is(right, "leaf"))
      PROVE  /\ Merged(left, right) \in NodeAt[depth]
             /\ Shown(map)[depth][location][Merged(left, right)]
             /\ ~Is(Merged(left, right), "stub")
  <2>1. Merged(left, right) = Internal(left, right)
    BY <1>9 DEF Merged
  <2>2. \E i, j \in here : i # j
    <3>1. CASE Is(left, "empty")
      <4>1. Is(right, "stub") \/ Is(right, "internal")
        BY <1>5, <1>9, <3>1
      <4>. QED
        BY <1>1, <1>4, <3>1, <4>1 DEF here
    <3>2. CASE Is(right, "empty")
      <4>1. Is(left, "stub") \/ Is(left, "internal")
        BY <1>5, <1>9, <3>2
      <4>. QED
        BY <1>1, <1>3, <3>2, <4>1 DEF here
    <3>3. CASE ~Is(left, "empty") /\ ~Is(right, "empty")
      <4>1. onLeft # {} /\ onRight # {}
        BY <1>3, <1>4, <1>5, <3>3
      <4>. QED
        BY <1>1, <4>1
    <3>. QED
      BY <3>1, <3>2, <3>3
  <2>3. ~Is(Internal(left, right), "stub")
    BY DEF Internal, Raw, Is
  <2>. QED
    BY <2>1, <2>2, <2>3, ShownParent DEF here
<1>. QED
  BY <1>6, <1>7, <1>8, <1>9

\* An update changes the child on the path of its key and leaves the other alone.
Rejoined(k, depth, left, right, child) ==
    IF Side(k, depth) = "L" THEN Merged(child, right) ELSE Merged(left, child)

Beside(k, depth, left, right) == IF Side(k, depth) = "L" THEN right ELSE left

Towards(k, depth, left, right) == IF Side(k, depth) = "L" THEN left ELSE right

LEMMA RejoinedShows ==
    ASSUME NEW map, NEW new, NEW k \in Key, \A j \in Key \ {k} : new[j] = map[j],
           NEW depth \in Level, depth # PathLength, NEW location \in Location(depth),
           NEW left \in NodeAt[depth + 1], NEW right \in NodeAt[depth + 1],
           left # Stub(Empty), right # Stub(Empty),
           Shown(map)[depth + 1][Append(location, "L")][left],
           Shown(map)[depth + 1][Append(location, "R")][right],
           NEW child \in NodeAt[depth + 1], ~Is(child, "stub"),
           Shown(new)[depth + 1][Append(location, Side(k, depth))][child],
           Is(child, "empty") /\ Is(Beside(k, depth, left, right), "stub")
              => \E i, j \in Held(new, location, depth) : i # j
    PROVE  /\ Rejoined(k, depth, left, right, child) \in NodeAt[depth]
           /\ Shown(new)[depth][location][Rejoined(k, depth, left, right, child)]
           /\ ~Is(Rejoined(k, depth, left, right, child), "stub")
<1>1. /\ depth + 1 \in Level
      /\ Append(location, "L") \in Location(depth + 1)
      /\ Append(location, "R") \in Location(depth + 1)
      /\ Side(k, depth) \in {"L", "R"}
  BY Levels, Further, Sides
<1>2. \A d \in {"L", "R"} : d # Side(k, depth) => Agree(map, new, Append(location, d), depth + 1)
  BY UnderFurther DEF Agree
<1>3. child # Stub(Empty)
  BY DEF Is, Stub
<1>4. CASE Side(k, depth) = "L"
  <2>1. Agree(map, new, Append(location, "R"), depth + 1)
    BY <1>2, <1>4
  <2>2. Shown(new)[depth + 1][Append(location, "R")][right]
    BY <1>1, <2>1, ShownFrame
  <2>3. ~Is(child, "stub") /\ Beside(k, depth, left, right) = right
    BY <1>4 DEF Beside
  <2>4. Shown(new)[depth + 1][Append(location, "L")][child]
    BY <1>4
  <2>5. /\ Merged(child, right) \in NodeAt[depth]
        /\ Shown(new)[depth][location][Merged(child, right)]
        /\ ~Is(Merged(child, right), "stub")
    BY <1>3, <2>2, <2>3, <2>4, MergedShows
  <2>. QED
    BY <1>4, <2>5 DEF Rejoined
<1>5. CASE Side(k, depth) = "R"
  <2>1. Agree(map, new, Append(location, "L"), depth + 1)
    BY <1>2, <1>5
  <2>2. Shown(new)[depth + 1][Append(location, "L")][left]
    BY <1>1, <2>1, ShownFrame
  <2>3. ~Is(child, "stub") /\ Beside(k, depth, left, right) = left
    BY <1>5 DEF Beside
  <2>4. Shown(new)[depth + 1][Append(location, "R")][child]
    BY <1>5
  <2>5. /\ Merged(left, child) \in NodeAt[depth]
        /\ Shown(new)[depth][location][Merged(left, child)]
        /\ ~Is(Merged(left, child), "stub")
    BY <1>3, <2>2, <2>3, <2>4, MergedShows
  <2>. QED
    BY <1>5, <2>5 DEF Rejoined
<1>. QED
  BY <1>1, <1>4, <1>5

\* What an update comes to, kind by kind.
LEMMA RecurKinds ==
    ASSUME NEW k, NEW op, NEW depth \in Level, NEW n \in NodeAt[depth]
    PROVE  /\ Is(n, "empty") => Recur(k, op)[depth][n] =
                Outcome(IF op.act = "set" THEN Leaf(k, op.value) ELSE Empty, Nothing)
           /\ Is(n, "stub") => Recur(k, op)[depth][n] = Outcome(n, Unknown)
           /\ Is(n, "leaf") /\ n.key = k => Recur(k, op)[depth][n] =
                Outcome(IF op.act = "set" THEN Leaf(k, op.value) ELSE Empty, n.value)
           /\ Is(n, "leaf") /\ n.key # k /\ op.act = "remove" =>
                Recur(k, op)[depth][n] = Outcome(n, Nothing)
           /\ Is(n, "internal") => Recur(k, op)[depth][n] =
                Branch(Recur(k, op)[depth + 1], n.left, n.right, depth, k)
           /\ Is(n, "leaf") /\ n.key # k /\ op.act # "remove" /\ depth # PathLength =>
                Recur(k, op)[depth][n] =
                    IF Side(n.key, depth) = "L"
                    THEN Branch(Recur(k, op)[depth + 1], n, Empty, depth, k)
                    ELSE Branch(Recur(k, op)[depth + 1], Empty, n, depth, k)
<1> DEFINE below == Recur(k, op)[depth + 1]
<1>1. Recur(k, op)[depth][n] = UpdateNode(k, op, depth, below, n)
  BY RecurIs
<1> HIDE DEF below
<1>2. Is(n, "empty") => UpdateNode(k, op, depth, below, n) =
            Outcome(IF op.act = "set" THEN Leaf(k, op.value) ELSE Empty, Nothing)
  BY DEF UpdateNode, Is
<1>3. Is(n, "stub") => UpdateNode(k, op, depth, below, n) = Outcome(n, Unknown)
  BY DEF UpdateNode, Is
<1>4. Is(n, "leaf") /\ n.key = k => UpdateNode(k, op, depth, below, n) =
            Outcome(IF op.act = "set" THEN Leaf(k, op.value) ELSE Empty, n.value)
  BY DEF UpdateNode, Is, Reaches
<1>5. Is(n, "leaf") /\ n.key # k /\ op.act = "remove" =>
            UpdateNode(k, op, depth, below, n) = Outcome(n, Nothing)
  BY DEF UpdateNode, Is, Reaches
<1>6. Is(n, "internal") => UpdateNode(k, op, depth, below, n) =
            Branch(below, n.left, n.right, depth, k)
  BY DEF UpdateNode, Is
<1>7. Is(n, "leaf") /\ n.key # k /\ op.act # "remove" /\ depth # PathLength =>
            UpdateNode(k, op, depth, below, n) =
                IF Side(n.key, depth) = "L" THEN Branch(below, n, Empty, depth, k)
                ELSE Branch(below, Empty, n, depth, k)
  BY DEF UpdateNode, Is, Reaches
<1>. QED
  BY <1>1, <1>2, <1>3, <1>4, <1>5, <1>6, <1>7 DEF below

LEMMA BranchIs ==
    ASSUME NEW below, NEW left, NEW right, NEW depth, NEW k
    PROVE  LET out == below[Towards(k, depth, left, right)]
           IN  Branch(below, left, right, depth, k) =
                    Outcome(Rejoined(k, depth, left, right, out.node), out.answer)
BY DEF Branch, Towards, Rejoined

LEMMA OutcomeIs ==
    ASSUME NEW n, NEW answer
    PROVE  Outcome(n, answer).node = n /\ Outcome(n, answer).answer = answer
BY DEF Outcome

LEMMA HeldChanged ==
    ASSUME NEW map \in Map, NEW k \in Key, NEW op \in Updates, NEW depth, NEW location,
           Under(k, location, depth)
    PROVE  /\ op.act = "set" => Held(Changed(map, k, op), location, depth) =
                                    Held(map, location, depth) \cup {k}
           /\ op.act # "set" => Held(Changed(map, k, op), location, depth) =
                                    Held(map, location, depth) \ {k}
<1> DEFINE new == Changed(map, k, op)
<1>1. /\ \A j \in Key \ {k} : new[j] = map[j]
      /\ op.act = "set" => new[k] # Nothing
      /\ op.act # "set" => new[k] = Nothing
  BY ChangedIs, NothingAssumption
<1> HIDE DEF new
<1>2. /\ op.act = "set" => Held(new, location, depth) = Held(map, location, depth) \cup {k}
      /\ op.act # "set" => Held(new, location, depth) = Held(map, location, depth) \ {k}
  BY <1>1 DEF Held
<1>. QED
  BY <1>2 DEF new

\* What an update is to come to, at a location: the old value and a node that
\* shows the new map and is not a stub, or nothing at all.
Follows(map, k, op, depth, location, n) ==
    LET out == Recur(k, op)[depth][n]
    IN  /\ Is(n, "stub") \/ Is(n, "internal") \/ out.answer # Unknown
        /\ out.answer = Unknown => out.node = n
        /\ out.answer # Unknown =>
              /\ out.answer = map[k]
              /\ out.node \in NodeAt[depth] /\ ~Is(out.node, "stub")
              /\ Shown(Changed(map, k, op))[depth][location][out.node]

\* The node an update leaves where the search for its key ends.
LEMMA FollowsEnd ==
    ASSUME NEW map \in Map, NEW k \in Key, NEW op \in Updates,
           NEW depth \in Level, NEW location \in Location(depth), NEW n \in NodeAt[depth],
           Shown(map)[depth][location][n], Under(k, location, depth), ~Is(n, "internal"),
           Is(n, "leaf") /\ n.key # k /\ op.act # "remove" => depth = PathLength
    PROVE  Follows(map, k, op, depth, location, n)
<1> DEFINE new == Changed(map, k, op)
           out == Recur(k, op)[depth][n]
           made == IF op.act = "set" THEN Leaf(k, op.value) ELSE Empty
<1>1. /\ new \in Map
      /\ \A j \in Key \ {k} : new[j] = map[j]
      /\ op.act = "set" => op.value \in Value /\ new[k] = op.value
      /\ op.act # "set" => op.act = "remove" /\ new[k] = Nothing
  BY ChangedIs
<1>2. /\ op.act = "set" => Held(new, location, depth) = Held(map, location, depth) \cup {k}
      /\ op.act # "set" => Held(new, location, depth) = Held(map, location, depth) \ {k}
  BY HeldChanged
<1>3. map[k] \in Value \cup {Nothing} /\ map[k] # Unknown /\ Nothing # Unknown
  BY PathAssumption DEF Map
<1>4. k \in Held(map, location, depth) <=> map[k] # Nothing
  BY DEF Held
<1>5. ASSUME Held(map, location, depth) \subseteq {k}, out = Outcome(made, map[k])
      PROVE  Follows(map, k, op, depth, location, n)
  <2>1. out.node = made /\ out.answer = map[k]
    BY <1>5, OutcomeIs
  <2>2. made \in NodeAt[depth] /\ ~Is(made, "stub") /\ Shown(new)[depth][location][made]
    <3>1. CASE op.act = "set"
      <4>1. Held(new, location, depth) = {k}
        BY <1>2, <1>5, <3>1
      <4>2. made = Leaf(k, new[k]) /\ new[k] \in Value
        BY <1>1, <3>1
      <4>3. ~Is(made, "stub")
        BY <4>2 DEF Leaf, Is
      <4> HIDE DEF made, new
      <4>4. Leaf(k, new[k]) \in NodeAt[depth] /\ Shown(new)[depth][location][Leaf(k, new[k])]
        BY <4>1, <4>2, ShownLeaf
      <4>. QED
        BY <4>2, <4>3, <4>4
    <3>2. CASE op.act # "set"
      <4>1. Held(new, location, depth) = {}
        BY <1>2, <1>5, <3>2
      <4>2. made = Empty /\ ~Is(Empty, "stub")
        BY <3>2 DEF Empty, Is
      <4> HIDE DEF made, new
      <4>. QED
        BY <4>1, <4>2, ShownEmpty
    <3>. QED
      BY <3>1, <3>2
  <2> HIDE DEF made, new
  <2>3. out.answer # Unknown
    BY <1>3, <2>1
  <2>. QED
    BY <2>1, <2>2, <2>3 DEF Follows, new
<1>6. CASE Is(n, "empty")
  <2>1. Held(map, location, depth) = {} /\ map[k] = Nothing
    BY <1>4, <1>6, ShownKinds
  <2>2. out = Outcome(made, Nothing)
    BY <1>6, RecurKinds
  <2> HIDE DEF made, out
  <2>. QED
    BY <1>5, <2>1, <2>2
<1>7. CASE Is(n, "leaf") /\ n.key = k
  <2>1. Held(map, location, depth) = {k} /\ n.value = map[k]
    BY <1>7, ShownKinds
  <2>2. out = Outcome(made, n.value)
    BY <1>7, RecurKinds
  <2> HIDE DEF made, out
  <2>. QED
    BY <1>5, <2>1, <2>2
<1>8. CASE Is(n, "leaf") /\ n.key # k /\ op.act = "remove"
  <2>1. Held(map, location, depth) = {n.key}
    BY <1>8, ShownKinds
  <2>2. map[k] = Nothing
    BY <1>4, <1>8, <2>1
  <2>3. out = Outcome(n, Nothing)
    BY <1>8, RecurKinds
  <2>4. out.node = n /\ out.answer = Nothing
    BY <2>3, OutcomeIs
  <2>5. new[k] = Nothing
    BY <1>1, <1>8
  <2>6. Agree(map, new, location, depth)
    <3> HIDE DEF new
    <3>. QED
      BY <1>1, <2>2, <2>5 DEF Agree
  <2>7. Shown(new)[depth][location][n]
    BY <2>6, ShownFrame
  <2>8. ~Is(n, "stub")
    BY <1>8 DEF Is
  <2> HIDE DEF out
  <2>9. out.answer # Unknown
    BY <1>3, <2>4
  <2>. QED
    BY <2>2, <2>4, <2>7, <2>8, <2>9 DEF Follows, out
<1>9. CASE Is(n, "leaf") /\ n.key # k /\ op.act # "remove"
  <2>1. depth = PathLength
    BY <1>9
  <2>2. n.key \in Held(map, location, depth)
    BY <1>9, ShownKinds
  <2>3. n.key \in Key /\ Under(n.key, location, PathLength) /\ Under(k, location, PathLength)
    BY <2>1, <2>2 DEF Held
  <2>. QED
    BY <1>9, <2>3, UnderEnd
<1>10. CASE Is(n, "stub")
  <2>1. out.node = n /\ out.answer = Unknown
    BY <1>10, RecurKinds, OutcomeIs
  <2>. QED
    BY <1>10, <2>1 DEF Follows
<1>. QED
  BY <1>6, <1>7, <1>8, <1>9, <1>10, KindOf

\* A leaf of another key is pushed down.
LEMMA FollowsLeaf ==
    ASSUME NEW map \in Map, NEW k \in Key, NEW op \in Updates,
           NEW depth \in Level, NEW location \in Location(depth), NEW n \in NodeAt[depth],
           Shown(map)[depth][location][n], Under(k, location, depth),
           Is(n, "leaf"), n.key # k, op.act = "set", depth # PathLength,
           \A m \in NodeAt[depth + 1] :
                /\ ~Is(m, "internal")
                /\ Shown(map)[depth + 1][Append(location, Side(k, depth))][m]
                => Follows(map, k, op, depth + 1, Append(location, Side(k, depth)), m)
    PROVE  Follows(map, k, op, depth, location, n)
<1> DEFINE left == IF Side(n.key, depth) = "L" THEN n ELSE Empty
           right == IF Side(n.key, depth) = "L" THEN Empty ELSE n
           new == Changed(map, k, op)
           below == Recur(k, op)[depth + 1]
           out == below[Towards(k, depth, left, right)]
<1>1. depth + 1 \in Level /\ Side(k, depth) \in {"L", "R"}
  BY Levels, Sides
<1>2. /\ n = Leaf(n.key, n.value) /\ n.key \in Key /\ n.value \in Value
      /\ Held(map, location, depth) = {n.key} /\ n.value = map[n.key]
  BY KindOf, ShownKinds
<1>3. Side(n.key, depth) \in {"L", "R"}
  BY <1>2, Sides
<1>4. \A d \in {"L", "R"} :
        /\ Append(location, d) \in Location(depth + 1)
        /\ Held(map, Append(location, d), depth + 1) = IF Side(n.key, depth) = d THEN {n.key} ELSE {}
  <2>1. ASSUME NEW d \in {"L", "R"}
        PROVE  Held(map, Append(location, d), depth + 1) = Split({n.key}, depth, d)
    <3>1. Held(map, Append(location, d), depth + 1) = Split(Held(map, location, depth), depth, d)
      BY HeldSplit
    <3>. QED
      BY <1>2, <3>1
  <2>2. \A d : Split({n.key}, depth, d) = IF Side(n.key, depth) = d THEN {n.key} ELSE {}
    BY DEF Split
  <2>. QED
    BY <2>1, <2>2, Further
<1>5. ASSUME NEW d \in {"L", "R"}, Side(n.key, depth) = d
      PROVE  n \in NodeAt[depth + 1] /\ Shown(map)[depth + 1][Append(location, d)][n]
  <2>1. Held(map, Append(location, d), depth + 1) = {n.key} /\ map[n.key] \in Value
    BY <1>2, <1>4, <1>5
  <2>2. n = Leaf(n.key, map[n.key])
    BY <1>2
  <2>3. /\ Leaf(n.key, map[n.key]) \in NodeAt[depth + 1]
        /\ Shown(map)[depth + 1][Append(location, d)][Leaf(n.key, map[n.key])]
    BY <1>1, <1>2, <1>4, <2>1, ShownLeaf
  <2>. QED
    BY <2>2, <2>3
<1>6. ASSUME NEW d \in {"L", "R"}, Side(n.key, depth) # d
      PROVE  Empty \in NodeAt[depth + 1] /\ Shown(map)[depth + 1][Append(location, d)][Empty]
  BY <1>1, <1>4, <1>6, ShownEmpty
<1>7. /\ left \in NodeAt[depth + 1] /\ Shown(map)[depth + 1][Append(location, "L")][left]
      /\ right \in NodeAt[depth + 1] /\ Shown(map)[depth + 1][Append(location, "R")][right]
  BY <1>3, <1>5, <1>6
<1>8. /\ ~Is(left, "internal") /\ ~Is(left, "stub") /\ left # Stub(Empty)
      /\ ~Is(right, "internal") /\ ~Is(right, "stub") /\ right # Stub(Empty)
  BY DEF Is, Stub, Empty
<1>9. Recur(k, op)[depth][n] = Branch(below, left, right, depth, k)
  BY RecurKinds
<1> HIDE DEF left, right, new, below
<1>10. Recur(k, op)[depth][n] = Outcome(Rejoined(k, depth, left, right, out.node), out.answer)
  BY <1>9, BranchIs
<1>11. /\ Towards(k, depth, left, right) \in NodeAt[depth + 1]
       /\ ~Is(Towards(k, depth, left, right), "internal")
       /\ ~Is(Towards(k, depth, left, right), "stub")
       /\ ~Is(Beside(k, depth, left, right), "stub")
       /\ Shown(map)[depth + 1][Append(location, Side(k, depth))][Towards(k, depth, left, right)]
  BY <1>1, <1>7, <1>8 DEF Towards, Beside
<1>12. Follows(map, k, op, depth + 1, Append(location, Side(k, depth)), Towards(k, depth, left, right))
  BY <1>11
<1>13. /\ out.answer # Unknown /\ out.answer = map[k]
       /\ out.node \in NodeAt[depth + 1] /\ ~Is(out.node, "stub")
       /\ Shown(new)[depth + 1][Append(location, Side(k, depth))][out.node]
  BY <1>11, <1>12 DEF Follows, new, below
<1>14. \A j \in Key \ {k} : new[j] = map[j]
  BY ChangedIs DEF new
<1> HIDE DEF out
<1>15. /\ Rejoined(k, depth, left, right, out.node) \in NodeAt[depth]
       /\ Shown(new)[depth][location][Rejoined(k, depth, left, right, out.node)]
       /\ ~Is(Rejoined(k, depth, left, right, out.node), "stub")
  BY <1>7, <1>8, <1>11, <1>13, <1>14, RejoinedShows
<1>16. /\ Recur(k, op)[depth][n].node = Rejoined(k, depth, left, right, out.node)
       /\ Recur(k, op)[depth][n].answer = out.answer
  BY <1>10, OutcomeIs
<1>. QED
  BY <1>13, <1>15, <1>16 DEF Follows, new

\* Below an internal node the update goes on, and the halves are merged: a leaf that
\* goes leaves no stub alone, for it was not next to one.
LEMMA FollowsInternal ==
    ASSUME NEW map \in Map, NEW k \in Key, NEW op \in Updates,
           NEW depth \in Level, NEW location \in Location(depth), NEW n \in NodeAt[depth],
           Shown(map)[depth][location][n], Under(k, location, depth),
           Is(n, "internal"), op.act = "remove" => ~NextToStub(k)[depth][n],
           \A m \in NodeAt[depth + 1] :
                /\ op.act = "remove" => ~NextToStub(k)[depth + 1][m]
                /\ Shown(map)[depth + 1][Append(location, Side(k, depth))][m]
                => Follows(map, k, op, depth + 1, Append(location, Side(k, depth)), m)
    PROVE  Follows(map, k, op, depth, location, n)
<1> DEFINE new == Changed(map, k, op)
           below == Recur(k, op)[depth + 1]
           child == Towards(k, depth, n.left, n.right)
           beside == Beside(k, depth, n.left, n.right)
           further == Append(location, Side(k, depth))
           out == below[child]
<1>1. /\ depth # PathLength /\ depth + 1 \in Level
      /\ n.left \in NodeAt[depth + 1] /\ n.right \in NodeAt[depth + 1]
      /\ n.left # Stub(Empty) /\ n.right # Stub(Empty)
      /\ Shown(map)[depth + 1][Append(location, "L")][n.left]
      /\ Shown(map)[depth + 1][Append(location, "R")][n.right]
      /\ \E i, j \in Held(map, location, depth) : i # j
  BY KindOf, ShownKinds
<1>2. Side(k, depth) \in {"L", "R"}
  BY <1>1, Sides
<1>3. further \in Location(depth + 1) /\ Under(k, further, depth + 1)
  BY <1>1, <1>2, Further, UnderFurther
<1>4. child \in NodeAt[depth + 1] /\ child # Stub(Empty) /\ Shown(map)[depth + 1][further][child]
  BY <1>1, <1>2 DEF Towards
<1>5. op.act = "remove" =>
        /\ ~NextToStub(k)[depth + 1][child]
        /\ ~(Is(child, "leaf") /\ child.key = k /\ Is(beside, "stub"))
  <2>1. NextToStub(k)[depth][n] = NextToNode(k, depth, NextToStub(k)[depth + 1], n)
    BY NextToStubIs
  <2>. QED
    BY <2>1 DEF NextToNode, Towards, Beside, Reaches
<1>6. Recur(k, op)[depth][n] = Branch(below, n.left, n.right, depth, k)
  BY RecurKinds
<1>7. Branch(below, n.left, n.right, depth, k) =
        Outcome(Rejoined(k, depth, n.left, n.right, out.node), out.answer)
  BY BranchIs
<1>8. /\ Recur(k, op)[depth][n].node = Rejoined(k, depth, n.left, n.right, out.node)
      /\ Recur(k, op)[depth][n].answer = out.answer
  BY <1>6, <1>7, OutcomeIs
<1>9. Follows(map, k, op, depth + 1, further, child)
  BY <1>4, <1>5
<1>10. CASE out.answer = Unknown
  <2>1. out.node = child
    BY <1>9, <1>10 DEF Follows
  <2>2. Rejoined(k, depth, n.left, n.right, child) = Merged(n.left, n.right)
    BY DEF Rejoined, Towards
  <2>3. Merged(n.left, n.right) = n
    BY ShownCompact
  <2> HIDE DEF out, child
  <2>. QED
    BY <1>8, <1>10, <2>1, <2>2, <2>3 DEF Follows
<1>11. CASE out.answer # Unknown
  <2>1. /\ out.answer = map[k]
        /\ out.node \in NodeAt[depth + 1] /\ ~Is(out.node, "stub")
        /\ Shown(new)[depth + 1][further][out.node]
    BY <1>9, <1>11 DEF Follows
  <2>2. \A j \in Key \ {k} : new[j] = map[j]
    BY ChangedIs
  <2>3. ASSUME Is(out.node, "empty"), Is(beside, "stub")
        PROVE  \E i, j \in Held(new, location, depth) : i # j
    <3>1. Held(new, further, depth + 1) = {}
      <4> HIDE DEF new, out, further
      <4>. QED
        BY <1>1, <1>3, <2>1, <2>3, ShownKinds
    <3>2. /\ op.act = "set" => Held(new, further, depth + 1) = Held(map, further, depth + 1) \cup {k}
          /\ op.act # "set" => Held(new, further, depth + 1) = Held(map, further, depth + 1) \ {k}
      BY <1>3, HeldChanged
    <3>3. op.act # "set"
      BY <3>1, <3>2
    <3>4. op.act = "remove"
      BY <3>3, ChangedIs
    <3>5. Held(map, further, depth + 1) \subseteq {k}
      BY <3>1, <3>2, <3>3
    <3>6. /\ Is(child, "leaf") => Held(map, further, depth + 1) = {child.key}
          /\ Is(child, "stub") => Held(map, further, depth + 1) # {}
          /\ Is(child, "empty") => Held(map, further, depth + 1) = {}
          /\ Is(child, "internal") => \E i, j \in Held(map, further, depth + 1) : i # j
      BY <1>1, <1>3, <1>4, ShownKinds
    <3>7. ~Is(child, "internal")
      BY <3>5, <3>6
    <3>8. ~Is(child, "leaf")
      BY <1>5, <2>3, <3>4, <3>5, <3>6
    <3>9. ~Is(child, "stub")
      BY <1>1, <1>4, <1>11, RecurKinds, OutcomeIs
    <3>10. Held(map, further, depth + 1) = {}
      BY <1>1, <1>4, <3>6, <3>7, <3>8, <3>9, KindOf
    <3>11. k \notin Held(map, location, depth)
      <4>1. Held(map, further, depth + 1) = Split(Held(map, location, depth), depth, Side(k, depth))
        BY <1>1, <1>2, HeldSplit
      <4>. QED
        BY <3>10, <4>1 DEF Split
    <3>12. Held(new, location, depth) = Held(map, location, depth) \ {k}
      BY <3>3, HeldChanged
    <3>. QED
      BY <1>1, <3>11, <3>12
  <2> HIDE DEF out, child, new, below
  <2>4. /\ Rejoined(k, depth, n.left, n.right, out.node) \in NodeAt[depth]
        /\ Shown(new)[depth][location][Rejoined(k, depth, n.left, n.right, out.node)]
        /\ ~Is(Rejoined(k, depth, n.left, n.right, out.node), "stub")
    BY <1>1, <2>1, <2>2, <2>3, RejoinedShows
  <2>. QED
    BY <1>8, <1>11, <2>1, <2>4 DEF Follows, new
<1>. QED
  BY <1>10, <1>11

\* What an update answers and leaves, at every level.
LEMMA UpdateShows ==
    ASSUME NEW map \in Map, NEW k \in Key, NEW op \in Updates,
           NEW depth \in Level, NEW location \in Location(depth), NEW n \in NodeAt[depth],
           Shown(map)[depth][location][n], Under(k, location, depth),
           op.act = "remove" => ~NextToStub(k)[depth][n]
    PROVE  Follows(map, k, op, depth, location, n)
<1> DEFINE S == { d \in Level : \A l \in Location(d), m \in NodeAt[d] :
                    /\ Under(k, l, d) /\ Shown(map)[d][l][m]
                    /\ op.act = "remove" => ~NextToStub(k)[d][m]
                    => Follows(map, k, op, d, l, m) }
<1>1. PathLength \in S
  <2>1. \A m \in NodeAt[PathLength] : ~Is(m, "internal")
    BY KindOf, Levels
  <2>2. ASSUME NEW l \in Location(PathLength), NEW m \in NodeAt[PathLength],
               Under(k, l, PathLength), Shown(map)[PathLength][l][m]
        PROVE  Follows(map, k, op, PathLength, l, m)
    BY <2>1, <2>2, Levels, FollowsEnd
  <2>. QED
    BY <2>2, Levels
<1>2. ASSUME NEW d \in Level, d # PathLength, d + 1 \in S
      PROVE  d \in S
  <2>1. SUFFICES ASSUME NEW l \in Location(d), NEW m \in NodeAt[d],
                        Under(k, l, d), Shown(map)[d][l][m],
                        op.act = "remove" => ~NextToStub(k)[d][m]
                 PROVE  Follows(map, k, op, d, l, m)
    OBVIOUS
  <2>2. Side(k, d) \in {"L", "R"}
    BY <1>2, Sides
  <2>3. /\ Append(l, Side(k, d)) \in Location(d + 1)
        /\ Under(k, Append(l, Side(k, d)), d + 1)
    BY <1>2, <2>1, <2>2, Further, UnderFurther
  <2>4. ASSUME NEW child \in NodeAt[d + 1],
               op.act = "remove" => ~NextToStub(k)[d + 1][child],
               Shown(map)[d + 1][Append(l, Side(k, d))][child]
        PROVE  Follows(map, k, op, d + 1, Append(l, Side(k, d)), child)
    BY <1>2, <2>3, <2>4
  <2> HIDE DEF S
  <2>5. CASE Is(m, "internal")
    BY <2>1, <2>4, <2>5, FollowsInternal
  <2>6. CASE ~Is(m, "internal") /\ (Is(m, "leaf") /\ m.key # k /\ op.act # "remove" => d = PathLength)
    BY <2>1, <2>6, FollowsEnd
  <2>7. CASE Is(m, "leaf") /\ m.key # k /\ op.act # "remove"
    <3>1. op.act = "set"
      BY <2>7, ChangedIs
    <3>2. op.act # "remove"
      BY <3>1
    <3>3. \A child \in NodeAt[d + 1] :
            /\ ~Is(child, "internal")
            /\ Shown(map)[d + 1][Append(l, Side(k, d))][child]
            => Follows(map, k, op, d + 1, Append(l, Side(k, d)), child)
      BY <2>4, <3>2
    <3>. QED
      BY <1>2, <2>1, <2>7, <3>1, <3>3, FollowsLeaf
  <2>. QED
    BY <2>5, <2>6, <2>7
<1> HIDE DEF S
<1>3. Level \subseteq S
  BY <1>1, <1>2, LevelInduction
<1>. QED
  BY <1>3 DEF S

-----------------------------------------------------------------------------
(***************************************************************************)
(* Exports and imports.                                                    *)
(***************************************************************************)

\* What an export leaves, at a location: nothing, or a node that shows the same map
\* and has an answer for each of the keys.
LEMMA ExportShows ==
    ASSUME NEW map, NEW depth \in Level, NEW location \in Location(depth),
           NEW n \in NodeAt[depth], Shown(map)[depth][location][n], NEW keys \in SUBSET Key,
           Exporting[depth][keys][n] # Unknown
    PROVE  /\ Exporting[depth][keys][n] \in NodeAt[depth]
           /\ Shown(map)[depth][location][Exporting[depth][keys][n]]
           /\ n # Stub(Empty) => Exporting[depth][keys][n] # Stub(Empty)
           /\ \A k \in keys : Read(k)[depth][Exporting[depth][keys][n]] # Unknown
<1> DEFINE Fine(d, l, ks, m, out) ==
                /\ out \in NodeAt[d] /\ Shown(map)[d][l][out]
                /\ m # Stub(Empty) => out # Stub(Empty)
                /\ \A k \in ks : Read(k)[d][out] # Unknown
           S == { d \in Level : \A l \in Location(d), m \in NodeAt[d], ks \in SUBSET Key :
                    Shown(map)[d][l][m] /\ Exporting[d][ks][m] # Unknown
                        => Fine(d, l, ks, m, Exporting[d][ks][m]) }
<1>1. Nothing # Unknown /\ \A v \in Value : v # Unknown
  BY PathAssumption
<1>2. ASSUME NEW d \in Level, NEW l \in Location(d), NEW m \in NodeAt[d], NEW ks \in SUBSET Key,
             Shown(map)[d][l][m], Exporting[d][ks][m] # Unknown, ~Is(m, "internal") \/ ks = {}
      PROVE  Fine(d, l, ks, m, Exporting[d][ks][m])
  <2>1. Exporting[d][ks][m] = ExportNode(d, Exporting[d + 1], ks, m)
    BY <1>2, ExportingIs
  <2>2. CASE Is(m, "leaf") /\ ks # {}
    <3>1. Exporting[d][ks][m] = m
      BY <2>1, <2>2 DEF ExportNode, ExportsLeaf, Is
    <3>2. m.value \in Value
      BY <2>2, KindOf
    <3>3. \A k \in ks : Read(k)[d][m] \in {m.value, Nothing}
      BY <2>2, ReadIs
    <3>4. \A k \in ks : Read(k)[d][m] # Unknown
      BY <1>1, <3>2, <3>3
    <3>. QED
      BY <1>2, <3>1, <3>4
  <2>3. CASE Is(m, "stub") /\ ks # {}
    BY <1>2, <2>1, <2>3 DEF ExportNode, ExportsLeaf, Is
  <2>4. CASE Is(m, "empty")
    <3>1. ExportNode(d, Exporting[d + 1], ks, m) = Pruned(m)
      BY <2>4 DEF ExportNode, ExportsLeaf, Is
    <3>2. m = Empty /\ Pruned(m) = Empty
      BY <2>4, KindOf DEF Pruned
    <3>3. Exporting[d][ks][m] = m
      BY <2>1, <3>1, <3>2
    <3>4. \A k \in ks : Read(k)[d][m] # Unknown
      BY <1>1, <2>4, ReadIs
    <3>. QED
      BY <1>2, <3>3, <3>4
  <2>5. CASE ~Is(m, "empty") /\ ks = {}
    <3>1. ExportNode(d, Exporting[d + 1], ks, m) = Pruned(m)
      BY <2>5 DEF ExportNode, ExportsLeaf, Is
    <3>2. Exporting[d][ks][m] = Stub(Hash(m))
      BY <2>1, <2>5, <3>1 DEF Pruned
    <3>3. Stub(Hash(m)) \in NodeAt[d] /\ Shown(map)[d][l][Stub(Hash(m))]
      BY <1>2, ShownStub
    <3>4. m # Stub(Empty) => Hash(m) # Empty
      <4>1. Is(m, "leaf") => Hash(m) # Empty
        BY DEF Hash, Is, Empty
      <4>2. Is(m, "internal") => Hash(m) # Empty
        BY KindOf DEF Hash, Is, Empty, InternalHashes
      <4>3. Is(m, "stub") => m = Stub(Hash(m))
        BY KindOf DEF Hash
      <4>. QED
        BY <2>5, <4>1, <4>2, <4>3, KindOf
    <3>5. Hash(m) # Empty => Stub(Hash(m)) # Stub(Empty)
      BY DEF Stub
    <3>. QED
      BY <2>5, <3>2, <3>3, <3>4, <3>5
  <2> HIDE DEF Fine
  <2>. QED
    BY <1>2, <2>2, <2>3, <2>4, <2>5, KindOf
<1>3. PathLength \in S
  <2>1. \A m \in NodeAt[PathLength] : ~Is(m, "internal")
    BY KindOf, Levels
  <2> HIDE DEF Fine
  <2>. QED
    BY <1>2, <2>1, Levels
<1>4. ASSUME NEW d \in Level, d # PathLength, d + 1 \in S
      PROVE  d \in S
  <2>1. SUFFICES ASSUME NEW l \in Location(d), NEW m \in NodeAt[d], NEW ks \in SUBSET Key,
                        Shown(map)[d][l][m], Exporting[d][ks][m] # Unknown,
                        Is(m, "internal"), ks # {}
                 PROVE  Fine(d, l, ks, m, Exporting[d][ks][m])
    <3> HIDE DEF Fine
    <3>. QED
      BY <1>2
  <2> DEFINE left == Exporting[d + 1][Split(ks, d, "L")][m.left]
             right == Exporting[d + 1][Split(ks, d, "R")][m.right]
             out == Raw(m.hash, left, right)
  <2>2. /\ m.left \in NodeAt[d + 1] /\ m.right \in NodeAt[d + 1]
        /\ m.left # Stub(Empty) /\ m.right # Stub(Empty)
        /\ Append(l, "L") \in Location(d + 1) /\ Append(l, "R") \in Location(d + 1)
        /\ Shown(map)[d + 1][Append(l, "L")][m.left]
        /\ Shown(map)[d + 1][Append(l, "R")][m.right]
        /\ Split(ks, d, "L") \in SUBSET Key /\ Split(ks, d, "R") \in SUBSET Key
    BY <1>4, <2>1, KindOf, ShownKinds, Further DEF Split
  <2>3. Exporting[d][ks][m] = ExportNode(d, Exporting[d + 1], ks, m)
    BY <2>1, ExportingIs
  <2>4. Exporting[d][ks][m] = IF Unknown \in {left, right} THEN Unknown ELSE out
    BY <2>1, <2>3 DEF ExportNode, ExportsLeaf, Is
  <2>5. left # Unknown /\ right # Unknown /\ Exporting[d][ks][m] = out
    <3> HIDE DEF left, right, out
    <3>. QED
      BY <2>1, <2>4
  <2>6. /\ Fine(d + 1, Append(l, "L"), Split(ks, d, "L"), m.left, left)
        /\ Fine(d + 1, Append(l, "R"), Split(ks, d, "R"), m.right, right)
    <3> HIDE DEF Fine
    <3>. QED
      BY <1>4, <2>2, <2>5
  <2> HIDE DEF left, right
  <2>7. out \in NodeAt[d] /\ Shown(map)[d][l][out]
    BY <2>1, <2>2, <2>6, ShownRaw
  <2>8. Is(out, "internal") /\ out.left = left /\ out.right = right /\ out # Stub(Empty)
    BY DEF Is, Raw, Stub
  <2>9. ASSUME NEW k \in ks
        PROVE  Read(k)[d][out] # Unknown
    <3>1. Side(k, d) \in {"L", "R"} /\ k \in Split(ks, d, Side(k, d))
      BY <1>4, <2>9, Sides DEF Split
    <3>2. Read(k)[d + 1][Half(out, Side(k, d))] # Unknown
      BY <2>6, <2>8, <3>1 DEF Half
    <3> HIDE DEF out
    <3>. QED
      BY <2>7, <2>8, <3>2, ReadIs
  <2>. QED
    BY <2>5, <2>7, <2>8, <2>9
<1> HIDE DEF S
<1>5. Level \subseteq S
  BY <1>3, <1>4, LevelInduction
<1>. QED
  BY <1>5 DEF S

\* An import shows the same map, and knows what either of the two did.
LEMMA ImportShows ==
    ASSUME NEW map, NEW depth \in Level, NEW location \in Location(depth),
           NEW a \in NodeAt[depth], Shown(map)[depth][location][a],
           NEW b \in NodeAt[depth], Shown(map)[depth][location][b]
    PROVE  /\ Importing[depth][a][b] \in NodeAt[depth]
           /\ Shown(map)[depth][location][Importing[depth][a][b]]
           /\ a # Stub(Empty) /\ b # Stub(Empty) => Importing[depth][a][b] # Stub(Empty)
           /\ \A k \in Key : Read(k)[depth][Importing[depth][a][b]] # Unknown <=>
                    Read(k)[depth][a] # Unknown \/ Read(k)[depth][b] # Unknown
<1> DEFINE Fine(d, l, x, y, out) ==
                /\ out \in NodeAt[d] /\ Shown(map)[d][l][out]
                /\ x # Stub(Empty) /\ y # Stub(Empty) => out # Stub(Empty)
                /\ \A k \in Key : Read(k)[d][out] # Unknown <=>
                        Read(k)[d][x] # Unknown \/ Read(k)[d][y] # Unknown
           S == { d \in Level : \A l \in Location(d), x \in NodeAt[d], y \in NodeAt[d] :
                    Shown(map)[d][l][x] /\ Shown(map)[d][l][y]
                        => Fine(d, l, x, y, Importing[d][x][y]) }
<1>1. Nothing # Unknown /\ \A v \in Value : v # Unknown
  BY PathAssumption
<1>2. ASSUME NEW d \in Level, NEW l \in Location(d), NEW x \in NodeAt[d], NEW y \in NodeAt[d],
             Shown(map)[d][l][x], Shown(map)[d][l][y], ~Is(x, "internal") \/ ~Is(y, "internal")
      PROVE  Fine(d, l, x, y, Importing[d][x][y])
  <2>1. Importing[d][x][y] = ImportNode(Importing[d + 1], x, y)
    BY <1>2, ImportingIs
  <2>2. CASE Is(x, "stub")
    <3>1. Importing[d][x][y] = y
      BY <2>1, <2>2 DEF ImportNode, Is
    <3>2. \A k \in Key : Read(k)[d][x] = Unknown
      BY <2>2, ReadIs
    <3>. QED
      BY <1>2, <3>1, <3>2
  <2>3. CASE ~Is(x, "stub")
    <3>1. Importing[d][x][y] = x
      BY <1>2, <2>1, <2>3 DEF ImportNode
    <3>2. ASSUME NEW k \in Key
          PROVE  Read(k)[d][x] # Unknown \/ Read(k)[d][y] = Unknown
      <4>1. CASE Is(x, "empty")
        BY <1>1, <4>1, ReadIs
      <4>2. CASE Is(x, "leaf")
        <5>1. x.value \in Value
          BY <4>2, KindOf
        <5>2. Read(k)[d][x] \in {x.value, Nothing}
          BY <4>2, ReadIs
        <5>. QED
          BY <1>1, <5>1, <5>2
      <4>3. CASE Is(x, "internal")
        <5>1. \E i, j \in Held(map, l, d) : i # j
          BY <1>2, <4>3, ShownKinds
        <5>2. /\ Is(y, "empty") => Held(map, l, d) = {}
              /\ Is(y, "leaf") => Held(map, l, d) = {y.key}
          BY <1>2, ShownKinds
        <5>3. ~Is(y, "empty") /\ ~Is(y, "leaf")
          BY <5>1, <5>2
        <5>4. Is(y, "stub")
          BY <1>2, <4>3, <5>3, KindOf
        <5>. QED
          BY <5>4, ReadIs
      <4>. QED
        BY <2>3, <4>1, <4>2, <4>3, KindOf
    <3>. QED
      BY <1>2, <3>1, <3>2
  <2>. QED
    BY <2>2, <2>3
<1>3. PathLength \in S
  <2>1. \A m \in NodeAt[PathLength] : ~Is(m, "internal")
    BY KindOf, Levels
  <2> HIDE DEF Fine
  <2>. QED
    BY <1>2, <2>1, Levels
<1>4. ASSUME NEW d \in Level, d # PathLength, d + 1 \in S
      PROVE  d \in S
  <2>1. SUFFICES ASSUME NEW l \in Location(d), NEW x \in NodeAt[d], NEW y \in NodeAt[d],
                        Shown(map)[d][l][x], Shown(map)[d][l][y],
                        Is(x, "internal"), Is(y, "internal")
                 PROVE  Fine(d, l, x, y, Importing[d][x][y])
    <3> HIDE DEF Fine
    <3>. QED
      BY <1>2
  <2> DEFINE left == Importing[d + 1][x.left][y.left]
             right == Importing[d + 1][x.right][y.right]
             out == Raw(x.hash, left, right)
  <2>2. /\ x.left \in NodeAt[d + 1] /\ x.right \in NodeAt[d + 1]
        /\ y.left \in NodeAt[d + 1] /\ y.right \in NodeAt[d + 1]
        /\ x.left # Stub(Empty) /\ x.right # Stub(Empty)
        /\ y.left # Stub(Empty) /\ y.right # Stub(Empty)
        /\ Append(l, "L") \in Location(d + 1) /\ Append(l, "R") \in Location(d + 1)
    BY <1>4, <2>1, KindOf, ShownKinds, Further
  <2>3. /\ Shown(map)[d + 1][Append(l, "L")][x.left]
        /\ Shown(map)[d + 1][Append(l, "R")][x.right]
        /\ Shown(map)[d + 1][Append(l, "L")][y.left]
        /\ Shown(map)[d + 1][Append(l, "R")][y.right]
    BY <2>1, ShownKinds
  <2>4. Importing[d][x][y] = ImportNode(Importing[d + 1], x, y)
    BY <2>1, ImportingIs
  <2>5. Importing[d][x][y] = out
    BY <2>1, <2>4 DEF ImportNode, Is
  <2>6. /\ Fine(d + 1, Append(l, "L"), x.left, y.left, left)
        /\ Fine(d + 1, Append(l, "R"), x.right, y.right, right)
    <3> HIDE DEF Fine
    <3>. QED
      BY <1>4, <2>2, <2>3
  <2> HIDE DEF left, right
  <2>7. out \in NodeAt[d] /\ Shown(map)[d][l][out]
    BY <2>1, <2>2, <2>6, ShownRaw
  <2>8. Is(out, "internal") /\ out.left = left /\ out.right = right /\ out # Stub(Empty)
    BY DEF Is, Raw, Stub
  <2>9. ASSUME NEW k \in Key
        PROVE  Read(k)[d][out] # Unknown <=> Read(k)[d][x] # Unknown \/ Read(k)[d][y] # Unknown
    <3>1. /\ Read(k)[d][x] = Read(k)[d + 1][Half(x, Side(k, d))]
          /\ Read(k)[d][y] = Read(k)[d + 1][Half(y, Side(k, d))]
      BY <2>1, ReadIs
    <3>2. Read(k)[d][out] = Read(k)[d + 1][Half(out, Side(k, d))]
      <4> HIDE DEF out
      <4>. QED
        BY <2>7, <2>8, ReadIs
    <3>3. Read(k)[d + 1][Half(out, Side(k, d))] # Unknown <=>
                \/ Read(k)[d + 1][Half(x, Side(k, d))] # Unknown
                \/ Read(k)[d + 1][Half(y, Side(k, d))] # Unknown
      BY <2>6, <2>8 DEF Half
    <3>. QED
      BY <3>1, <3>2, <3>3
  <2>. QED
    BY <2>5, <2>7, <2>8, <2>9
<1> HIDE DEF S
<1>5. Level \subseteq S
  BY <1>3, <1>4, LevelInduction
<1>. QED
  BY <1>5 DEF S

LEMMA Fields ==
    /\ \A k, v : /\ Leaf(k, v).kind = "leaf"
                 /\ Leaf(k, v).key = k /\ Leaf(k, v).value = v
    /\ \A x, y : InternalHash(x, y).left = x /\ InternalHash(x, y).right = y
BY DEF Leaf, InternalHash

\* Maps of one hash are one map.
LEMMA SumTells ==
    ASSUME NEW a, NEW b, NEW depth \in Level, NEW location \in Location(depth),
           Sum(a, location, depth) = Sum(b, location, depth)
    PROVE  \A k \in Held(a, location, depth) \cup Held(b, location, depth) : a[k] = b[k]
<1> DEFINE Fine(d, l) == \A k \in Held(a, l, d) \cup Held(b, l, d) : a[k] = b[k]
           S == { d \in Level : \A l \in Location(d) : Sum(a, l, d) = Sum(b, l, d) => Fine(d, l) }
<1>1. ASSUME NEW map, NEW d \in Level, NEW l \in Location(d)
      PROVE  /\ Held(map, l, d) = {} <=> Sum(map, l, d).kind = "empty"
             /\ (\E k \in Key : Held(map, l, d) = {k}) <=> Sum(map, l, d).kind = "leaf"
             /\ (\E j, k \in Held(map, l, d) : j # k) <=> Sum(map, l, d).kind = "hash"
  <2> DEFINE keys == Held(map, l, d)
             sum == Sum(map, l, d)
  <2>1. keys = {} => sum.kind = "empty"
    BY SumIs DEF Empty
  <2>2. \A k \in Key : keys = {k} => sum.kind = "leaf"
    <3>1. ASSUME NEW k \in Key, keys = {k}
          PROVE  sum.kind = "leaf"
      <4>1. sum = Leaf(k, map[k])
        BY <3>1, SumIs
      <4> HIDE DEF sum
      <4>. QED
        BY <4>1, Fields
    <3>. QED
      BY <3>1
  <2>3. (\E j, k \in keys : j # k) => sum.kind = "hash"
    BY SumIs DEF InternalHash
  <2>4. keys \subseteq Key
    BY DEF Held
  <2> HIDE DEF keys, sum
  <2>5. keys = {} \/ (\E k \in Key : keys = {k}) \/ (\E j, k \in keys : j # k)
    BY <2>4, HowMany
  <2>6. /\ keys = {} <=> sum.kind = "empty"
        /\ (\E k \in Key : keys = {k}) <=> sum.kind = "leaf"
        /\ (\E j, k \in keys : j # k) <=> sum.kind = "hash"
    BY <2>1, <2>2, <2>3, <2>5
  <2>. QED
    BY <2>6 DEF keys, sum
<1>2. ASSUME NEW d \in Level, NEW l \in Location(d), Sum(a, l, d) = Sum(b, l, d),
             ~\E j, k \in Held(a, l, d) : j # k
      PROVE  Fine(d, l)
  <2>1. CASE Held(a, l, d) = {}
    <3>1. Held(b, l, d) = {}
      BY <1>1, <1>2, <2>1
    <3>. QED
      BY <2>1, <3>1
  <2>2. CASE \E k \in Held(a, l, d) : Held(a, l, d) = {k}
    <3>1. PICK k \in Held(a, l, d) : Held(a, l, d) = {k}
      BY <2>2
    <3>2. k \in Key
      BY DEF Held
    <3>3. PICK j \in Key : Held(b, l, d) = {j}
      BY <1>1, <1>2, <3>1, <3>2
    <3>4. Sum(a, l, d) = Leaf(k, a[k])
      BY <3>1, <3>2, SumIs
    <3>5. Sum(b, l, d) = Leaf(j, b[j])
      BY <3>3, SumIs
    <3>6. k = j /\ a[k] = b[j]
      <4>1. Leaf(k, a[k]) = Leaf(j, b[j])
        BY <1>2, <3>4, <3>5
      <4>2. /\ Leaf(k, a[k]).key = k /\ Leaf(k, a[k]).value = a[k]
            /\ Leaf(j, b[j]).key = j /\ Leaf(j, b[j]).value = b[j]
        BY Fields
      <4>. QED
        BY <4>1, <4>2
    <3>. QED
      BY <3>1, <3>3, <3>6
  <2>. QED
    BY <1>2, <2>1, <2>2, HowMany
<1>3. PathLength \in S
  <2>1. ASSUME NEW l \in Location(PathLength)
        PROVE  ~\E j, k \in Held(a, l, PathLength) : j # k
    BY UnderEnd DEF Held
  <2> HIDE DEF Fine
  <2>. QED
    BY <1>2, <2>1, Levels
<1>4. ASSUME NEW d \in Level, d # PathLength, d + 1 \in S
      PROVE  d \in S
  <2>1. SUFFICES ASSUME NEW l \in Location(d), Sum(a, l, d) = Sum(b, l, d),
                        \E j, k \in Held(a, l, d) : j # k
                 PROVE  Fine(d, l)
    <3> HIDE DEF Fine
    <3>. QED
      BY <1>2
  <2>2. \E j, k \in Held(b, l, d) : j # k
    BY <1>1, <2>1
  <2>3. Sum(a, l, d) = InternalHash(Sum(a, Append(l, "L"), d + 1), Sum(a, Append(l, "R"), d + 1))
    BY <2>1, SumIs
  <2>4. Sum(b, l, d) = InternalHash(Sum(b, Append(l, "L"), d + 1), Sum(b, Append(l, "R"), d + 1))
    BY <2>2, SumIs
  <2>5. /\ Sum(a, Append(l, "L"), d + 1) = Sum(b, Append(l, "L"), d + 1)
        /\ Sum(a, Append(l, "R"), d + 1) = Sum(b, Append(l, "R"), d + 1)
    <3>1. InternalHash(Sum(a, Append(l, "L"), d + 1), Sum(a, Append(l, "R"), d + 1)) =
            InternalHash(Sum(b, Append(l, "L"), d + 1), Sum(b, Append(l, "R"), d + 1))
      BY <2>1, <2>3, <2>4
    <3>. QED
      BY <3>1, Fields
  <2>6. Append(l, "L") \in Location(d + 1) /\ Append(l, "R") \in Location(d + 1)
    BY <1>4, Further
  <2>7. Fine(d + 1, Append(l, "L")) /\ Fine(d + 1, Append(l, "R"))
    <3> HIDE DEF Fine
    <3>. QED
      BY <1>4, <2>5, <2>6
  <2>8. /\ Held(a, l, d) = Held(a, Append(l, "L"), d + 1) \cup Held(a, Append(l, "R"), d + 1)
        /\ Held(b, l, d) = Held(b, Append(l, "L"), d + 1) \cup Held(b, Append(l, "R"), d + 1)
    BY <1>4, HeldSides
  <2>. QED
    BY <2>7, <2>8
<1> HIDE DEF S
<1>5. Level \subseteq S
  BY <1>3, <1>4, LevelInduction
<1>. QED
  BY <1>5 DEF S

-----------------------------------------------------------------------------
(***************************************************************************)
(* The invariant: every map shows, from its root, what it holds.           *)
(***************************************************************************)
Shows(root, holds) == root \in NodeAt[0] /\ holds \in Map /\ Shown(holds)[0][<<>>][root]

Showing ==
    /\ node = [m \in Maps |-> node[m]]
    /\ contents = [m \in Maps |-> contents[m]]
    /\ \A m \in Live : Shows(node[m], contents[m])

LEMMA SumRoot ==
    ASSUME NEW map
    PROVE  Sum(map, <<>>, 0) = Hash(Whole(map))
<1>1. Held(map, <<>>, 0) = { k \in Key : map[k] # Nothing }
  BY UnderRoot DEF Held
<1>. QED
  BY <1>1 DEF Sum, Whole

\* Assigning a map that shows what it holds.
LEMMA AssignShows ==
    ASSUME Showing, NEW m \in Maps, NEW root, NEW holds, Assign(m, root, holds),
           root # Absent => Shows(root, holds)
    PROVE  Showing'
<1>1. /\ node' = [node EXCEPT ![m] = root] /\ contents' = [contents EXCEPT ![m] = holds]
      /\ node = [i \in Maps |-> node[i]] /\ contents = [i \in Maps |-> contents[i]]
  BY DEF Assign, Showing
<1>2. /\ node' = [i \in Maps |-> node'[i]] /\ contents' = [i \in Maps |-> contents'[i]]
      /\ node'[m] = root /\ contents'[m] = holds
      /\ \A i \in Maps \ {m} : node'[i] = node[i] /\ contents'[i] = contents[i]
  BY <1>1
<1>3. ASSUME NEW i \in Maps, node'[i] # Absent
      PROVE  Shows(node'[i], contents'[i])
  <2>1. CASE i = m
    BY <1>2, <1>3, <2>1
  <2>2. CASE i # m
    BY <1>2, <1>3, <2>2 DEF Showing, Live
  <2>. QED
    BY <2>1, <2>2
<1>. QED
  BY <1>2, <1>3 DEF Showing, Live, Shows

LEMMA NewShows ==
    ASSUME Showing, NEW m \in Maps, New(m)
    PROVE  Showing'
<1>1. EmptyMap \in Map /\ \A k \in Key : EmptyMap[k] = Nothing
  BY DEF EmptyMap, Map
<1>2. Held(EmptyMap, <<>>, 0) = {}
  BY <1>1 DEF Held
<1>3. Shows(Empty, EmptyMap)
  BY <1>1, <1>2, Levels, UnderRoot, ShownEmpty DEF Shows
<1>. QED
  BY <1>3, AssignShows DEF New

LEMMA RootStubShows ==
    ASSUME Showing, NEW m \in Maps, NEW of \in Maps, RootStub(m, of)
    PROVE  Showing'
<1>1. Shows(node[of], contents[of])
  BY DEF Showing, RootStub
<1>2. Shows(Stub(Hash(node[of])), contents[of])
  BY <1>1, Levels, UnderRoot, ShownStub DEF Shows
<1>. QED
  BY <1>2, AssignShows DEF RootStub

LEMMA CloneShows ==
    ASSUME Showing, NEW m \in Maps, NEW to \in Maps, Clone(m, to)
    PROVE  Showing'
<1>1. Shows(node[m], contents[m])
  BY DEF Showing, Clone
<1>. QED
  BY <1>1, AssignShows DEF Clone

LEMMA TransferShows ==
    ASSUME Showing, NEW m \in Maps, NEW to \in Maps, Transfer(m, to)
    PROVE  Showing'
<1>1. Shows(node[m], contents[m])
  BY DEF Showing, Transfer
<1>2. Deserialized(node[m]) = node[m]
  BY <1>1, Levels, UnderRoot, Sendable DEF Shows, Deserialized
<1>. QED
  BY <1>1, <1>2, AssignShows DEF Transfer

\* What an update answers and leaves.
LEMMA UpdateDoes ==
    ASSUME Careful, Showing, NEW m \in Maps, NEW k \in Key, NEW op \in Updates, Update(m, k, op)
    PROVE  LET out == Applied(node[m], k, op)
           IN  /\ out.answer = Unknown => out.node = node[m]
               /\ out.answer # Unknown => /\ out.answer = contents[m][k]
                                          /\ Shows(out.node, Changed(contents[m], k, op))
<1> DEFINE out == Applied(node[m], k, op)
<1>1. Shows(node[m], contents[m])
  BY DEF Showing, Update
<1>2. op.act = "remove" => ~NextToStub(k)[0][node[m]]
  BY DEF Update
<1>3. 0 \in Level /\ <<>> \in Location(0) /\ Under(k, <<>>, 0)
  BY Levels, UnderRoot
<1>4. Follows(contents[m], k, op, 0, <<>>, node[m])
  BY <1>1, <1>2, <1>3, UpdateShows DEF Shows
<1>5. Changed(contents[m], k, op) \in Map
  BY <1>1, ChangedIs DEF Shows
<1>. QED
  BY <1>4, <1>5 DEF Follows, Applied, Shows

LEMMA UpdateKeeps ==
    ASSUME Careful, Showing, NEW m \in Maps, NEW k \in Key, NEW op \in Updates, Update(m, k, op)
    PROVE  Showing'
<1> DEFINE out == Applied(node[m], k, op)
           holds == IF out.answer = Unknown THEN contents[m] ELSE Changed(contents[m], k, op)
<1>1. Shows(node[m], contents[m])
  BY DEF Showing, Update
<1>2. Shows(out.node, holds)
  BY <1>1, UpdateDoes
<1>3. Assign(m, out.node, holds)
  BY DEF Update, Changed
<1> HIDE DEF out, holds
<1>. QED
  BY <1>2, <1>3, AssignShows

LEMMA ExportDoes ==
    ASSUME Showing, NEW m \in Maps, NEW keys \in SUBSET Key, NEW to \in Maps,
           Export(m, keys, to)
    PROVE  /\ Shows(Exported(node[m], keys), contents[m])
           /\ \A k \in keys : Knows(Exported(node[m], keys), k)
<1>1. Shows(node[m], contents[m]) /\ Exporting[0][keys][node[m]] # Unknown
  BY DEF Showing, Export, Exported
<1>2. 0 \in Level /\ <<>> \in Location(0)
  BY Levels, UnderRoot
<1>. QED
  BY <1>1, <1>2, ExportShows DEF Shows, Exported, Knows, Answer

LEMMA ExportKeeps ==
    ASSUME Showing, NEW m \in Maps, NEW keys \in SUBSET Key, NEW to \in Maps,
           Export(m, keys, to)
    PROVE  Showing'
BY ExportDoes, AssignShows DEF Export

\* Maps of one hash are one map, so an import shows what its destination does.
LEMMA ImportDoes ==
    ASSUME Showing, NEW m \in Maps, NEW other \in Maps, Import(m, other),
           Hash(node[other]) = Hash(node[m])
    PROVE  /\ Shows(Imported(node[m], node[other]), contents[m])
           /\ \A k \in Key : Knows(Imported(node[m], node[other]), k) <=>
                                Knows(node[m], k) \/ Knows(node[other], k)
<1> DEFINE a == contents[m]
           b == contents[other]
<1>1. Shows(node[m], a) /\ Shows(node[other], b)
  BY DEF Showing, Import
<1>2. 0 \in Level /\ <<>> \in Location(0) /\ \A k : Under(k, <<>>, 0)
  BY Levels, UnderRoot
<1> HIDE DEF a, b
<1>3. Hash(node[m]) = Sum(a, <<>>, 0)
  BY <1>1, <1>2, ShownKinds DEF Shows
<1>4. Hash(node[other]) = Sum(b, <<>>, 0)
  BY <1>1, <1>2, ShownKinds DEF Shows
<1>5. \A k \in Held(a, <<>>, 0) \cup Held(b, <<>>, 0) : a[k] = b[k]
  BY <1>2, <1>3, <1>4, SumTells
<1>6. \A k \in Key : a[k] = b[k]
  BY <1>2, <1>5 DEF Held
<1>7. Agree(b, a, <<>>, 0)
  BY <1>6 DEF Agree
<1>8. Shown(a)[0][<<>>][node[other]]
  BY <1>1, <1>2, <1>7, ShownFrame DEF Shows
<1>9. /\ Importing[0][node[m]][node[other]] \in NodeAt[0]
      /\ Shown(a)[0][<<>>][Importing[0][node[m]][node[other]]]
      /\ \A k \in Key : Read(k)[0][Importing[0][node[m]][node[other]]] # Unknown <=>
                Read(k)[0][node[m]] # Unknown \/ Read(k)[0][node[other]] # Unknown
  BY <1>1, <1>2, <1>8, ImportShows DEF Shows
<1>10. Shows(Imported(node[m], node[other]), a)
  BY <1>1, <1>9 DEF Shows, Imported
<1>11. \A k \in Key : Knows(Imported(node[m], node[other]), k) <=>
                                Knows(node[m], k) \/ Knows(node[other], k)
  BY <1>9 DEF Imported, Knows, Answer
<1>. QED
  BY <1>10, <1>11 DEF a

LEMMA ImportKeeps ==
    ASSUME Showing, NEW m \in Maps, NEW other \in Maps, Import(m, other)
    PROVE  Showing'
<1> DEFINE compatible == Hash(node[other]) = Hash(node[m])
           root == IF compatible THEN Imported(node[m], node[other]) ELSE node[m]
<1>1. /\ node' = [node EXCEPT ![other] = Absent, ![m] = root]
      /\ contents' = [contents EXCEPT ![other] = Absent]
      /\ m # other /\ m \in Live
  <2>1. other # m
    BY DEF Import
  <2>2. [node EXCEPT ![other] = Absent][m] = node[m]
    BY <2>1 DEF Showing
  <2>. QED
    BY <2>1, <2>2 DEF Import
<1>2. Shows(root, contents[m])
  <2>1. Shows(node[m], contents[m])
    BY <1>1 DEF Showing
  <2>. QED
    BY <2>1, ImportDoes
<1> HIDE DEF compatible, root
<1>3. /\ node' = [i \in Maps |-> node'[i]] /\ contents' = [i \in Maps |-> contents'[i]]
      /\ node'[m] = root /\ node'[other] = Absent /\ contents'[m] = contents[m]
      /\ \A i \in Maps \ {m, other} : node'[i] = node[i] /\ contents'[i] = contents[i]
  BY <1>1 DEF Showing
<1>4. ASSUME NEW i \in Maps, node'[i] # Absent
      PROVE  Shows(node'[i], contents'[i])
  <2>1. CASE i = m
    BY <1>2, <1>3, <2>1
  <2>2. CASE i \in Maps \ {m, other}
    BY <1>3, <1>4, <2>2 DEF Showing, Live
  <2>. QED
    BY <1>3, <1>4, <2>1, <2>2
<1>. QED
  BY <1>3, <1>4 DEF Showing, Live, Shows

-----------------------------------------------------------------------------
(***************************************************************************)
(* The theorems.                                                           *)
(***************************************************************************)
LEMMA ShowingInit == Init => Showing
BY DEF Init, Showing, Live

LEMMA ShowingNext ==
    ASSUME Careful, Showing, [Next]_vars
    PROVE  Showing'
<1>1. CASE UNCHANGED vars
  BY <1>1 DEF vars, Showing, Live, Shows
<1>2. ASSUME NEW m \in Maps, New(m)
      PROVE  Showing'
  BY <1>2, NewShows
<1>3. ASSUME NEW m \in Maps, NEW k \in Key, NEW op \in Updates, Update(m, k, op)
      PROVE  Showing'
  BY <1>3, UpdateKeeps
<1>4. ASSUME NEW m \in Maps, Unhashed(m)
      PROVE  Showing'
  BY <1>4 DEF Unhashed, Showing, Live, Shows
<1>5. ASSUME NEW m \in Maps, NEW other \in Maps, RootStub(m, other)
      PROVE  Showing'
  BY <1>5, RootStubShows
<1>6. ASSUME NEW m \in Maps, NEW other \in Maps, NEW keys \in SUBSET Key, Export(m, keys, other)
      PROVE  Showing'
  BY <1>6, ExportKeeps
<1>7. ASSUME NEW m \in Maps, NEW other \in Maps, Import(m, other)
      PROVE  Showing'
  BY <1>7, ImportKeeps
<1>8. ASSUME NEW m \in Maps, NEW other \in Maps, Clone(m, other)
      PROVE  Showing'
  BY <1>8, CloneShows
<1>9. ASSUME NEW m \in Maps, NEW other \in Maps, Transfer(m, other)
      PROVE  Showing'
  BY <1>9, TransferShows
<1>. QED
  BY <1>1, <1>2, <1>3, <1>4, <1>5, <1>6, <1>7, <1>8, <1>9 DEF Next

\* As long as nobody removes a leaf next to a stub, every map shows what it holds,
\* at each node it has: the inductive invariant of the module.
THEOREM MapsShow == Careful => (Spec => []Showing)
<1>. SUFFICES ASSUME Careful PROVE Spec => []Showing
  OBVIOUS
<1>1. Showing /\ [Next]_vars => Showing'
  BY ShowingNext
<1>. QED
  BY ShowingInit, <1>1, PTL DEF Spec

LEMMA ShowingCommits == Showing => CommitsToContents
<1>. SUFFICES ASSUME Showing, NEW m \in Live PROVE Hash(node[m]) = Hash(Whole(contents[m]))
  BY DEF CommitsToContents
<1>1. Shows(node[m], contents[m])
  BY DEF Showing
<1>2. Hash(node[m]) = Sum(contents[m], <<>>, 0)
  BY <1>1, Levels, UnderRoot, ShownKinds DEF Shows
<1>. QED
  BY <1>2, SumRoot

\* A map that knows a part of its tree has the commitment of the complete map,
\* whatever was inserted, removed, exported, imported and sent.
THEOREM MapsCommit == Careful => (Spec => []CommitsToContents)
<1>. SUFFICES ASSUME Careful PROVE Spec => []CommitsToContents
  OBVIOUS
<1>1. Spec => []Showing
  BY MapsShow
<1>. QED
  BY <1>1, ShowingCommits, PTL

LEMMA ShowingAnswers == Showing => AnswersSound
<1>. SUFFICES ASSUME Showing, NEW m \in Live, NEW k \in Key
              PROVE  /\ { pair \in Records[0][node[m]] : pair[1] = k } =
                            { <<k, v>> : v \in {Answer(node[m], k)} \ {Nothing, Unknown} }
                     /\ Answer(node[m], k) \in {Unknown, contents[m][k]}
                     /\ Contains(node[m], k) \in {Unknown, contents[m][k] # Nothing}
  BY DEF AnswersSound
<1>1. Shows(node[m], contents[m])
  BY DEF Showing
<1>2. 0 \in Level /\ <<>> \in Location(0) /\ Under(k, <<>>, 0)
  BY Levels, UnderRoot
<1>3. Of(k, Records[0][node[m]]) = Told(k, Answer(node[m], k))
  BY <1>1, <1>2, RecordsTrue DEF Shows, Answer
<1>4. Told(k, Answer(node[m], k)) =
            { <<k, v>> : v \in {Answer(node[m], k)} \ {Nothing, Unknown} }
  BY DEF Told
<1>5. Answer(node[m], k) \in {Unknown, contents[m][k]}
  BY <1>1, <1>2, ReadTrue DEF Shows, Answer
<1>6. Contains(node[m], k) \in {Unknown, contents[m][k] # Nothing}
  <2>1. CASE Answer(node[m], k) = Unknown
    BY <2>1 DEF Contains
  <2>2. CASE Answer(node[m], k) # Unknown
    <3>1. Answer(node[m], k) = contents[m][k]
      BY <1>5, <2>2
    <3>2. Contains(node[m], k) = (contents[m][k] # Nothing)
      BY <2>2, <3>1 DEF Contains
    <3>. QED
      BY <3>2
  <2>. QED
    BY <2>1, <2>2
<1>. QED
  BY <1>3, <1>4, <1>5, <1>6 DEF Of

\* A map answers for a key as the complete map would, or that it does not know.
THEOREM MapsAnswer == Careful => (Spec => []AnswersSound)
<1>. SUFFICES ASSUME Careful PROVE Spec => []AnswersSound
  OBVIOUS
<1>1. Spec => []Showing
  BY MapsShow
<1>. QED
  BY <1>1, ShowingAnswers, PTL

LEMMA ShowingPortable == Showing => Portable
<1>. SUFFICES ASSUME Showing, NEW m \in Live
              PROVE  Check(node[m]) /\ Deserialized(node[m]) = node[m]
  BY DEF Portable
<1>1. Shows(node[m], contents[m])
  BY DEF Showing
<1>. QED
  BY <1>1, Levels, UnderRoot, Sendable DEF Shows, Check, Deserialized

\* Every map passes the topology check of who receives it, and the hashes computed
\* there are those it had.
THEOREM MapsTravel == Careful => (Spec => []Portable)
<1>. SUFFICES ASSUME Careful PROVE Spec => []Portable
  OBVIOUS
<1>1. Spec => []Showing
  BY MapsShow
<1>. QED
  BY <1>1, ShowingPortable, PTL

\* Which action it was, by what `last` says of it.
LEMMA CalledUpdate ==
    ASSUME Next, last'.call = "update"
    PROVE  \E m \in Maps, k \in Key, op \in Updates : Update(m, k, op)
<1>1. \A m \in Maps : ~New(m) /\ ~Unhashed(m)
  BY DEF New, Unhashed
<1>2. \A m, other \in Maps, keys \in SUBSET Key :
        /\ ~RootStub(m, other) /\ ~Export(m, keys, other) /\ ~Import(m, other)
        /\ ~Clone(m, other) /\ ~Transfer(m, other)
  BY DEF RootStub, Export, Import, Clone, Transfer
<1>. QED
  BY <1>1, <1>2 DEF Next

LEMMA CalledExport ==
    ASSUME Next, last'.call = "export"
    PROVE  \E m, other \in Maps, keys \in SUBSET Key : Export(m, keys, other)
<1>1. \A m \in Maps : /\ ~New(m) /\ ~Unhashed(m)
                     /\ \A k \in Key, op \in Updates : ~Update(m, k, op)
  BY DEF New, Unhashed, Update
<1>2. \A m, other \in Maps :
        ~RootStub(m, other) /\ ~Import(m, other) /\ ~Clone(m, other) /\ ~Transfer(m, other)
  BY DEF RootStub, Import, Clone, Transfer
<1>. QED
  BY <1>1, <1>2 DEF Next

LEMMA CalledImport ==
    ASSUME Next, last'.call = "import"
    PROVE  \E m, other \in Maps : Import(m, other)
<1>1. \A m \in Maps : /\ ~New(m) /\ ~Unhashed(m)
                     /\ \A k \in Key, op \in Updates : ~Update(m, k, op)
  BY DEF New, Unhashed, Update
<1>2. \A m, other \in Maps, keys \in SUBSET Key :
        ~RootStub(m, other) /\ ~Export(m, keys, other) /\ ~Clone(m, other) /\ ~Transfer(m, other)
  BY DEF RootStub, Export, Clone, Transfer
<1>. QED
  BY <1>1, <1>2 DEF Next

Answered ==
    last'.call = "update" =>
        LET m == last'.map
            k == last'.key
        IN  /\ last'.answer \in {Unknown, contents[m][k]}
            /\ last'.answer = Unknown => node' = node
            /\ last'.answer # Unknown =>
                  (last'.changes <=> Has(k, contents[m]) # Has(k, contents'[m]))

LEMMA UpdateAnswers ==
    ASSUME Careful, Showing, Next
    PROVE  Answered
<1>. SUFFICES ASSUME last'.call = "update" PROVE Answered
  BY DEF Answered
<1>1. PICK m \in Maps, k \in Key, op \in Updates : Update(m, k, op)
  BY CalledUpdate
<1> DEFINE out == Applied(node[m], k, op)
           new == Changed(contents[m], k, op)
<1>2. /\ last'.map = m /\ last'.key = k
      /\ last'.answer = out.answer /\ last'.changes = Changes(op, out.answer)
  BY <1>1 DEF Update
<1>3. Assign(m, out.node, IF out.answer = Unknown THEN contents[m] ELSE new)
  BY <1>1 DEF Update, Changed
<1>4. /\ out.answer = Unknown => out.node = node[m]
      /\ out.answer # Unknown => out.answer = contents[m][k]
  BY <1>1, UpdateDoes
<1>5. /\ op.act = "set" => new[k] # Nothing
      /\ op.act # "set" => new[k] = Nothing
  <2>1. contents[m] \in Map
    BY <1>1 DEF Showing, Update, Shows
  <2>. QED
    BY <2>1, ChangedIs, NothingAssumption
<1> HIDE DEF out, new
<1>6. out.answer = Unknown => node' = node
  BY <1>3, <1>4 DEF Assign, Showing
<1>7. ASSUME out.answer # Unknown
      PROVE  Changes(op, out.answer) <=> Has(k, contents[m]) # Has(k, contents'[m])
  <2>1. contents'[m] = new
    BY <1>3, <1>7 DEF Assign, Showing
  <2>2. out.answer = contents[m][k]
    BY <1>4, <1>7
  <2>3. CASE op.act = "set"
    <3>1. Has(k, contents'[m]) = TRUE
      BY <1>5, <2>1, <2>3 DEF Has
    <3>2. Changes(op, out.answer) <=> contents[m][k] = Nothing
      BY <2>2, <2>3 DEF Changes
    <3>. QED
      BY <3>1, <3>2 DEF Has
  <2>4. CASE op.act # "set"
    <3>1. Has(k, contents'[m]) = FALSE
      BY <1>5, <2>1, <2>4 DEF Has
    <3>2. Changes(op, out.answer) <=> contents[m][k] # Nothing
      BY <2>2, <2>4 DEF Changes
    <3>. QED
      BY <3>1, <3>2 DEF Has
  <2>. QED
    BY <2>3, <2>4
<1>8. out.answer \in {Unknown, contents[m][k]}
  BY <1>4
<1>. QED
  BY <1>2, <1>6, <1>7, <1>8 DEF Answered

\* Insert and remove answer the old value, those of a set whether the item came or
\* went, and when they fail the map is as it was.
THEOREM UpdatesAnswer == Careful => (Spec => UpdatesSound)
<1>. SUFFICES ASSUME Careful PROVE Spec => UpdatesSound
  OBVIOUS
<1>1. Spec => []Showing
  BY MapsShow
<1>2. Showing /\ [Next]_vars => [Answered]_vars
  BY UpdateAnswers
<1>3. UpdatesSound <=> [][Answered]_vars
  BY DEF UpdatesSound, Answered
<1>. QED
  BY <1>1, <1>2, <1>3, PTL DEF Spec

Kept ==
    /\ last'.call = "export" => \A k \in last'.keys : Knows(node'[last'.to], k)
    /\ last'.call = "import" =>
            \A k \in Key : Knows(node'[last'.map], k) <=>
                            Knows(node[last'.map], k) \/ Knows(node[last'.other], k)

LEMMA NextKeeps ==
    ASSUME Showing, Next
    PROVE  Kept
<1>1. ASSUME last'.call = "export"
      PROVE  \A k \in last'.keys : Knows(node'[last'.to], k)
  <2>1. PICK m \in Maps, to \in Maps, keys \in SUBSET Key : Export(m, keys, to)
    BY <1>1, CalledExport
  <2>2. last'.keys = keys /\ last'.to = to
    BY <2>1 DEF Export
  <2>3. node'[to] = Exported(node[m], keys)
    BY <2>1 DEF Export, Assign, Showing
  <2>4. \A k \in keys : Knows(Exported(node[m], keys), k)
    BY <2>1, ExportDoes
  <2>. QED
    BY <2>2, <2>3, <2>4
<1>2. ASSUME last'.call = "import"
      PROVE  \A k \in Key : Knows(node'[last'.map], k) <=>
                            Knows(node[last'.map], k) \/ Knows(node[last'.other], k)
  <2>1. PICK m \in Maps, other \in Maps : Import(m, other)
    BY <1>2, CalledImport
  <2>2. Hash(node[other]) = Hash(node[m])
    BY <1>2, <2>1 DEF Import
  <2>3. last'.map = m /\ last'.other = other
    BY <2>1 DEF Import
  <2>4. node'[m] = Imported(node[m], node[other])
    <3>1. other # m
      BY <2>1 DEF Import
    <3>2. [node EXCEPT ![other] = Absent][m] = node[m]
      BY <3>1 DEF Showing
    <3>. QED
      BY <2>1, <2>2, <3>1, <3>2 DEF Import, Showing
  <2>5. \A k \in Key : Knows(Imported(node[m], node[other]), k) <=>
                            Knows(node[m], k) \/ Knows(node[other], k)
    BY <2>1, <2>2, ImportDoes
  <2>. QED
    BY <2>3, <2>4, <2>5
<1>. QED
  BY <1>1, <1>2 DEF Kept

\* An export has an answer for each of its keys, and an import knows exactly what
\* one of the two maps knew.
THEOREM KnowledgeTravels == Careful => (Spec => KnowledgeKept)
<1>. SUFFICES ASSUME Careful PROVE Spec => KnowledgeKept
  OBVIOUS
<1>1. Spec => []Showing
  BY MapsShow
<1>2. Showing /\ [Next]_vars => [Kept]_vars
  BY NextKeeps
<1>3. KnowledgeKept <=> [][Kept]_vars
  BY DEF KnowledgeKept, Kept
<1>. QED
  BY <1>1, <1>2, <1>3, PTL DEF Spec
=============================================================================

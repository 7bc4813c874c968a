----------------------------- MODULE PartialMap -----------------------------
(***************************************************************************)
(* Maps that may know only part of the tree they commit to: `Map` of the   *)
(* crate, and `Set`, which is a map to the unit value.                     *)
(*                                                                         *)
(* A complete map commits to its contents.  Its owner exports branches of  *)
(* it, or only its commitment; who receives them reads, updates, imports   *)
(* and exports the part it knows, and the commitments are to agree.        *)
(***************************************************************************)
EXTENDS MapNodes, TLC

CONSTANTS
    Maps,         \* the variables that hold a map
    Absent,       \* no map
    Unhashable,   \* the values that cannot be serialized, so have no hash
    Careful       \* whether nobody removes a leaf that is next to a stub

ASSUME MapAssumption ==
    Absent \notin Maps /\ Unhashable \subseteq Value /\ Careful \in BOOLEAN

-----------------------------------------------------------------------------
(***************************************************************************)
(* The maps.                                                               *)
(***************************************************************************)
VARIABLES
    node,      \* the root node of every map, or Absent
    contents,  \* what the complete map with the same commitment holds
    last       \* the last call and what it answered

vars == <<node, contents, last>>

Live == { m \in Maps : node[m] # Absent }

Init ==
    /\ node = [m \in Maps |-> Absent]
    /\ contents = [m \in Maps |-> Absent]
    /\ last = [call |-> "none"]

\* The map variable `m` is assigned a new map.
Assign(m, root, holds) ==
    /\ node' = [node EXCEPT ![m] = root]
    /\ contents' = [contents EXCEPT ![m] = holds]

New(m) ==
    /\ m \notin Live
    /\ Assign(m, Empty, EmptyMap)
    /\ last' = [call |-> "new"]

RootStub(m, of) ==
    /\ of \in Live
    /\ Assign(m, Stub(Hash(node[of])), contents[of])
    /\ last' = [call |-> "stub"]

\* The sibling of the leaf of a key is a stub.
NextToStub(k) ==
    LET recur[depth \in Level] == [root \in NodeAt[depth] |->
            /\ Is(root, "internal")
            /\ LET left == Side(k, depth) = "L"
                   child == IF left THEN root.left ELSE root.right
                   sibling == IF left THEN root.right ELSE root.left
               IN  \/ Is(child, "leaf") /\ Reaches(k, child) /\ Is(sibling, "stub")
                   \/ recur[depth + 1][child]]
    IN  recur

\* Update::insert hashes the key and the value, Update::remove the key.
Updates == { op \in Operation \ {Skip, Get} : op.act = "set" => op.value \notin Unhashable }

\* MapError::HashError, before the map is touched.
Unhashed(m) ==
    /\ m \in Live
    /\ Unhashable # {}
    /\ last' = [call |-> "unhashed"]
    /\ UNCHANGED <<node, contents>>

\* Set::insert and Set::remove, of what Map's answer: whether the set has changed.
Changes(op, answer) == IF op.act = "set" THEN answer = Nothing ELSE answer # Nothing

\* Map::insert and Map::remove.
Update(m, k, op) ==
    /\ m \in Live
    /\ (Careful /\ op.act = "remove") => ~NextToStub(k)[0][node[m]]
    /\ LET outcome == Applied(node[m], k, op)
           one == [j \in Key |-> IF j = k THEN op ELSE Skip]
       IN  /\ Assign(m, outcome.node,
                     IF outcome.answer = Unknown THEN contents[m] ELSE Updated(contents[m], one))
           /\ last' = [call |-> "update", map |-> m, key |-> k, answer |-> outcome.answer,
                       changes |-> Changes(op, outcome.answer)]

\* Map::export; the map may be replaced by what it exports.
Export(m, keys, to) ==
    /\ m \in Live
    /\ LET exported == Exported(node[m], keys)
       IN  /\ exported # Unknown
           /\ Assign(to, exported, contents[m])
           /\ last' = [call |-> "export", keys |-> keys, to |-> to]

\* Map::import consumes the map it imports, also when it refuses it.
Import(m, other) ==
    /\ m \in Live /\ other \in Live \ {m}
    /\ LET compatible == Hash(node[other]) = Hash(node[m])
       IN  /\ node' = [node EXCEPT ![other] = Absent,
                                   ![m] = IF compatible THEN Imported(@, node[other]) ELSE @]
           /\ last' = [call |-> IF compatible THEN "import" ELSE "refuse", map |-> m, other |-> other]
    /\ contents' = [contents EXCEPT ![other] = Absent]

Clone(m, to) ==
    /\ m \in Live
    /\ Assign(to, node[m], contents[m])
    /\ last' = [call |-> "clone"]

\* Serialized by its owner and deserialized by another.
Transfer(m, to) ==
    /\ m \in Live
    /\ Check(node[m])
    /\ Assign(to, Deserialized(node[m]), contents[m])
    /\ last' = [call |-> "transfer"]

Next ==
    \/ \E m \in Maps :
        \/ New(m)
        \/ \E k \in Key, op \in Updates : Update(m, k, op)
        \/ Unhashed(m)
    \/ \E m, other \in Maps :
        \/ RootStub(m, other)
        \/ \E keys \in SUBSET Key : Export(m, keys, other)
        \/ Import(m, other)
        \/ Clone(m, other)
        \/ Transfer(m, other)

Spec == Init /\ [][Next]_vars

-----------------------------------------------------------------------------
(***************************************************************************)
(* Properties.                                                             *)
(***************************************************************************)
\* However a map came to be, and however little of it is known, it commits to
\* what it holds as a complete map would: updates of a partial map lead to the
\* commitment the same updates of the complete map lead to.
CommitsToContents ==
    \A m \in Live :
        Hash(node[m]) = Hash(Whole(contents[m]))

\* A map answers for a key as the complete map does, or not at all, and the leaves
\* it has are the pairs it answers with.
AnswersSound ==
    \A m \in Live, k \in Key :
        /\ { pair \in Records[0][node[m]] : pair[1] = k } =
                { <<k, v>> : v \in {Answer(node[m], k)} \ {Nothing, Unknown} }
        /\ Answer(node[m], k) \in {Unknown, contents[m][k]}
        /\ Contains(node[m], k) \in {Unknown, contents[m][k] # Nothing}

\* Every map can be sent: the topology check of the receiver accepts it, and
\* the hashes it computes again are those the map had cached, at every node.
Portable ==
    \A m \in Live : Check(node[m]) /\ Deserialized(node[m]) = node[m]

Has(k, holds) == holds[k] # Nothing

\* What insert and remove answer is the old value, and what those of a set answer
\* is whether the item came or went; when they fail they leave the map as it was.
UpdatesSound ==
    [][last'.call = "update" =>
        LET m == last'.map
            k == last'.key
        IN  /\ last'.answer \in {Unknown, contents[m][k]}
            /\ last'.answer = Unknown => node' = node
            /\ last'.answer # Unknown =>
                  (last'.changes <=> Has(k, contents[m]) # Has(k, contents'[m]))]_vars

Knows(root, k) == Answer(root, k) # Unknown

\* What is known goes where it is sent: an export tells of each of its keys, also
\* of those that are not in the map; an import adds what the other map knows and
\* forgets nothing.
KnowledgeKept ==
    [][/\ last'.call = "export" => \A k \in last'.keys : Knows(node'[last'.to], k)
       /\ last'.call = "import" =>
            \A k \in Key : Knows(node'[last'.map], k) <=>
                            Knows(node[last'.map], k) \/ Knows(node[last'.other], k)]_vars
=============================================================================

------------------------------ MODULE Queries ------------------------------
(***************************************************************************)
(* What can be asked of tables between transactions: the commitment of a   *)
(* table, the map it exports, and the difference between two tables.       *)
(*                                                                         *)
(* A query walks the trees in the store of module Apply, split as there,   *)
(* and gives the store back as it took it: it is an operator of the state. *)
(* A walk that asks a part of the store for a label it does not have, the  *)
(* `unreachable!` of `get`, yields Panicked.                               *)
(*                                                                         *)
(* The walks are functions of the depth, of the location, and of the       *)
(* labels that can be met there; a digest has PathLength directions, and a *)
(* walk that goes on beyond them panics as well.                           *)
(***************************************************************************)
EXTENDS Apply

CONSTANTS Unknown, Panicked

M == INSTANCE MapNodes

Record == [key : Key, value : Value]

Level == 0..PathLength

ASSUME QueriesAssumption ==
    /\ Panicked \notin [lho : SUBSET Record, rho : SUBSET Record]
    /\ \A depth \in Level : Panicked \notin M!NodeAt[depth]

LocationsAt(depth) == [1..depth -> Direction]

\* No label: where one of two trees has no node any more, the other one goes on.
None == NoLabel

\* What can be met in the trees of the tables: a root, a label that is stored, a
\* child of one.
LabelsMet ==
    LET stored == { root[h] : h \in Handle } \cup DOMAIN store.refs
        internal == { label \in stored : IsInternal(label) }
    IN  {Empty, None} \cup stored
            \cup { label.left : label \in internal } \cup { label.right : label \in internal }

\* Whether `get` finds a label in the part of the store a walk has at a location.
Found(location, label) ==
    label = Empty \/ (InRange(Scope(location), label) /\ Occupied(store, label))

Half(location, keys, d) == { k \in keys : Holds(Append(location, d), k) }

\* Label::hash: what is left of a label without the map it is kept in.
HashOf[depth \in Level] == [label \in LabelsMet |->
    CASE IsInternal(label) ->
            IF depth = PathLength THEN Panicked
            ELSE M!InternalHash(HashOf[depth + 1][label.left], HashOf[depth + 1][label.right])
      [] IsLeaf(label) -> M!Leaf(label.key, label.value)
      [] OTHER -> M!Empty]

\* Handle::commit.
Commitment(h) == HashOf[0][root[h]]

-----------------------------------------------------------------------------
(***************************************************************************)
(* Table::export: a map that knows what concerns the given keys.           *)
(***************************************************************************)

\* Fault: a leaf that none of the paths ends on is left out, though it proves
\* that the table has no record there.
ExportsReached(label, keys) == IsLeaf(label) /\ label.key \in keys

ExportsLeaf(label, keys) == IsLeaf(label) /\ keys # {}

Exports[depth \in Level] == [location \in LocationsAt(depth) |-> [label \in LabelsMet |-> [keys \in SUBSET Key |->
    CASE ~Found(location, label) -> Panicked
      [] Found(location, label) /\ IsInternal(label) /\ keys # {} ->
            LET below(d) == Exports[depth + 1][Append(location, d)][Child(label, d)]
                                [Half(location, keys, d)]
            IN  IF depth = PathLength \/ Panicked \in {below("L"), below("R")} THEN Panicked
                ELSE M!Raw(HashOf[depth][label], below("L"), below("R"))
      [] Found(location, label) /\ ExportsLeaf(label, keys) -> M!Leaf(label.key, label.value)
      [] label = Empty -> M!Empty
      [] OTHER -> M!Stub(HashOf[depth][label])]]]

Exported(h, keys) == Exports[0][Root][root[h]][keys]

-----------------------------------------------------------------------------
(***************************************************************************)
(* Table::diff: both trees are walked at once, and only where they differ. *)
(* Where one has no node any more the walk goes on with None in its place. *)
(***************************************************************************)
Below(label, d) == IF IsInternal(label) THEN Child(label, d) ELSE None

Records(label) == IF IsLeaf(label) THEN {[key |-> label.key, value |-> label.value]} ELSE {}

GoesOn(lho, rho) == IsInternal(lho) \/ IsInternal(rho)

Differences[depth \in Level] == [location \in LocationsAt(depth) |-> [lho \in LabelsMet |-> [rho \in LabelsMet |->
    LET here == [lho |-> Records(lho), rho |-> Records(rho)]
        below(d) == Differences[depth + 1][Append(location, d)][Below(lho, d)][Below(rho, d)]
    IN  CASE lho = rho -> [lho |-> {}, rho |-> {}]
          [] lho # rho /\ \E label \in {lho, rho} \ {None} : ~Found(location, label) -> Panicked
          [] OTHER ->
                IF ~GoesOn(lho, rho) THEN here
                ELSE IF depth = PathLength \/ Panicked \in {below("L"), below("R")} THEN Panicked
                ELSE [lho |-> here.lho \cup below("L").lho \cup below("R").lho,
                      rho |-> here.rho \cup below("L").rho \cup below("R").rho]]]]

\* Fault: a record that both walks met, at different depths, is reported.
DifferingAll(lho, rho, k) == TRUE

Differing(lho, rho, k) == ~\E record \in lho \cap rho : record.key = k

\* Handle::diff: the value each table has for the keys they differ on.
Difference(h, other) ==
    LET found == Differences[0][Root][root[h]][root[other]]
        keys == { record.key : record \in found.lho \cup found.rho }
        value(records, k) ==
            IF \E record \in records : record.key = k
            THEN (CHOOSE record \in records : record.key = k).value ELSE Nothing
    IN  IF found = Panicked THEN Panicked
        ELSE [k \in { k \in keys : Differing(found.lho, found.rho, k) } |->
                <<value(found.lho, k), value(found.rho, k)>>]

\* Collection::diff, of tables whose records all have the one value of a collection.
CollectionDifference(h, other) ==
    LET difference == Difference(h, other)
        first == { k \in DOMAIN difference : difference[k][1] # Nothing }
    IN  <<first, DOMAIN difference \ first>>

Items(h) == { k \in Key : Lookup(root[h], k) # Nothing }

IsCollection(h, unit) == \A k \in Items(h) : Lookup(root[h], k) = unit

-----------------------------------------------------------------------------
(***************************************************************************)
(* Properties: of every query a caller can make when no call runs.         *)
(***************************************************************************)

\* A table's export, asked for any keys, is a map with the commitment of the
\* table that tells of each of these keys what the table holds, and of any other
\* key the truth or nothing; it passes the check a receiver makes.
ExportTrue ==
    Idle => \A h \in Live, keys \in SUBSET Key :
        LET map == Exported(h, keys)
        IN  /\ map # Panicked
            /\ M!Hash(map) = Commitment(h)
            /\ M!Hash(map) = M!Hash(M!Deserialized(map))
            /\ M!Check(map)
            /\ \A k \in Key : M!Answer(map, k) \in
                    {Lookup(root[h], k)} \cup (IF k \in keys THEN {} ELSE {Unknown})

\* The difference of two tables has exactly the keys on which they differ, with
\* both values, although the walk skips what they share and may meet one record
\* at two depths; the difference of two collections is what each has alone.
DiffTrue ==
    Idle => \A h, other \in Live :
        LET holds(k) == <<Lookup(root[h], k), Lookup(root[other], k)>>
        IN  /\ Difference(h, other) =
                    [k \in { k \in Key : holds(k)[1] # holds(k)[2] } |-> holds(k)]
            /\ \A unit \in Value : IsCollection(h, unit) /\ IsCollection(other, unit) =>
                    CollectionDifference(h, other) =
                        <<Items(h) \ Items(other), Items(other) \ Items(h)>>
=============================================================================

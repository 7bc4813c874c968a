------------------------------- MODULE Apply -------------------------------
(***************************************************************************)
(* Transactions on the tables of one database: the recursion that applies  *)
(* a batch to a tree of the shared store, and the cloning and dropping of  *)
(* the handles that root the trees.                                        *)
(*                                                                         *)
(* An activation of the recursion is a frame, kept at the location of the  *)
(* node it works on; each arm of `recur` and the epilogue of `branch` is   *)
(* one action.  While the store can still be split the two halves of a     *)
(* branch are two threads (rayon::join), and their actions interleave;     *)
(* below that the left half runs before the right one.                     *)
(*                                                                         *)
(* The store is lent to one call at a time, which is what `mode` says;     *)
(* module Table models the threads that compete for it.                    *)
(***************************************************************************)
EXTENDS Store

CONSTANTS
    Handle,       \* the handles of the database's tables
    Absent,       \* no handle, no answer yet
    Batch         \* the batches a transaction may hold

ASSUME ApplyAssumption ==
    /\ Batch \subseteq [Key -> Operation]
    /\ IsFiniteSet(Handle)
    /\ Absent \notin Handle \cup Map \cup [handle : Handle, batch : Batch]

\* What stands in the place of the root's label where there is no handle.
NoLabel == [kind |-> "none"]

VARIABLES
    store,    \* the store of the database
    root,     \* the root label of each handle, or NoLabel
    mode,     \* what the store is lent to: "idle" when it is in its cell
    caller,   \* the handle of the running transaction, or Absent
    batch,    \* the batch of the running transaction
    frames,   \* the activations of recur, by location
    reply,    \* the holders of the batch's Get operations
    doomed    \* the labels a running drop has yet to release

vars == <<store, root, mode, caller, batch, frames, reply, doomed>>

Live == { h \in Handle : root[h] # NoLabel }

NoBatch == [k \in Key |-> Skip]
NoReply == [k \in Key |-> Nothing]

Init ==
    /\ store = EmptyStore
    /\ root = [h \in Handle |-> NoLabel]
    /\ mode = "idle"
    /\ caller = Absent
    /\ batch = NoBatch
    /\ frames = <<>>
    /\ reply = NoReply
    /\ doomed = <<>>

-----------------------------------------------------------------------------
(***************************************************************************)
(* Frames.  An entry is what `get` captured of a node: its label and, if   *)
(* it is not empty, its references at that moment.                         *)
(***************************************************************************)
NotApplicable == 0

References(s, label) ==
    IF label = Empty THEN NotApplicable ELSE s.refs[label]

Frame(label, references, preserve) ==
    [stage |-> "recur", label |-> label, references |-> references,
     preserve |-> preserve, original |-> FALSE]

Done(label) ==
    [stage |-> "done", label |-> label, references |-> NotApplicable,
     preserve |-> FALSE, original |-> FALSE]

IsDone(location) == location \in DOMAIN frames /\ frames[location].stage = "done"

\* The keys of the batch's operations in the chunk of a location.
Task(location) == { k \in Key : batch[k] # Skip /\ Holds(location, k) }

\* A sequential right half starts when the left one has returned.
Ready(location) ==
    /\ mode = "apply"
    /\ ~store.panicked
    /\ location \in DOMAIN frames
    /\ frames[location].stage = "recur"
    /\ (location # Root /\ ~Splittable(Front(location)) /\ Last(location) = "R")
            => IsDone(Left(Front(location)))

Finish(location, label) == frames' = [frames EXCEPT ![location] = Done(label)]

Branching(frame, original) ==
    [stage |-> "branch", label |-> frame.label, references |-> frame.references,
     preserve |-> frame.preserve, original |-> original]

\* The two activations of `recur` that a branch calls.
Calls(location, original, left, right) ==
    [place \in DOMAIN frames \cup {Left(location), Right(location)} |->
        CASE place = Left(location) -> left
          [] place = Right(location) -> right
          [] place = location -> Branching(frames[location], original)
          [] OTHER -> frames[place]]

\* Fault: a shared ancestor no longer shields the nodes below the next level.
PreserveOfOriginalOnly(frame, original) == original /\ frame.references > 1

\* The children of a node that more than one parent or handle shares, or that
\* has such an ancestor, are not this transaction's to release.
PreserveBranches(frame, original) ==
    frame.preserve \/ (original /\ frame.references > 1)

\* `branch` up to the two calls of `recur`, with or without an original.
Branch(location, original, left, leftReferences, right, rightReferences) ==
    LET preserve == PreserveBranches(frames[location], original)
    IN  frames' = Calls(location, original, Frame(left, leftReferences, preserve),
                        Frame(right, rightReferences, preserve))

Elsewhere == UNCHANGED <<root, mode, caller, batch, doomed>>

-----------------------------------------------------------------------------
(***************************************************************************)
(* The arms of `recur`.                                                    *)
(***************************************************************************)

\* No operation of the batch concerns this subtree.
Pass(location) ==
    /\ Ready(location)
    /\ Task(location) = {}
    /\ Finish(location, frames[location].label)
    /\ UNCHANGED <<store, reply>> /\ Elsewhere

\* One operation on an empty subtree: a Set leaves a leaf, not yet referenced.
DoOnEmpty(location) ==
    /\ Ready(location)
    /\ frames[location].label = Empty
    /\ \E k \in Key :
        /\ Task(location) = {k}
        /\ LET label == IF batch[k].act = "set" THEN Leaf(k, batch[k].value) ELSE Empty
           IN  /\ store' = Populate(store, Scope(location), label)
               /\ Finish(location, label)
    /\ UNCHANGED reply /\ Elsewhere

SplitEmpty(location) ==
    /\ Ready(location)
    /\ frames[location].label = Empty
    /\ \E j, k \in Task(location) : j # k
    /\ Branch(location, FALSE, Empty, NotApplicable, Empty, NotApplicable)
    /\ UNCHANGED <<store, reply>> /\ Elsewhere

\* Fault: the holder of a Get is filled from the wrong half of the leaf.
AnswerKey(label) == label.key

Answer(label) == label.value

\* One operation, on the very key of a leaf.
DoOnLeaf(location) ==
    /\ Ready(location)
    /\ LET label == frames[location].label
       IN  /\ IsLeaf(label)
           /\ Task(location) = {label.key}
           /\ LET op == batch[label.key]
                  new == CASE op.act = "set" -> Leaf(label.key, op.value)
                           [] op.act = "remove" -> Empty
                           [] op.act = "get" -> label
              IN  /\ reply' = IF op.act = "get"
                              THEN [reply EXCEPT ![label.key] = Answer(label)]
                              ELSE reply
                  /\ store' = IF new = label THEN store
                              ELSE Populate(store, Scope(location), new)
                  /\ Finish(location, new)
    /\ Elsewhere

\* Fault: every operation on another key misses, the writes too.
IsAnyMiss(label, task) ==
    IsLeaf(label) /\ \E k \in Key \ {label.key} : task = {k}

IsMiss(label, task) ==
    /\ IsLeaf(label)
    /\ \E k \in Key \ {label.key} : task = {k} /\ batch[k] = Get

\* A Get that ends on the leaf of another key.
MissLeaf(location) ==
    /\ Ready(location)
    /\ IsMiss(frames[location].label, Task(location))
    /\ Finish(location, frames[location].label)
    /\ UNCHANGED <<store, reply>> /\ Elsewhere

\* Any other work on a leaf pushes the leaf one level down.
SplitLeaf(location) ==
    /\ Ready(location)
    /\ LET frame == frames[location]
       IN  /\ IsLeaf(frame.label)
           /\ Task(location) \notin {{}, {frame.label.key}}
           /\ ~IsMiss(frame.label, Task(location))
           /\ IF Path[frame.label.key][Len(location) + 1] = "L"
              THEN Branch(location, FALSE, frame.label, frame.references, Empty, NotApplicable)
              ELSE Branch(location, FALSE, Empty, NotApplicable, frame.label, frame.references)
    /\ UNCHANGED <<store, reply>> /\ Elsewhere

\* Both children of an internal node are fetched before either is worked on;
\* a child that is not in the store is the `unreachable!` of `get`.
SplitInternal(location) ==
    /\ Ready(location)
    /\ Task(location) # {}
    /\ LET label == frames[location].label
       IN  /\ IsInternal(label)
           /\ IF \A child \in {label.left, label.right} \ {Empty} :
                    Occupied(store, child) /\ InRange(Scope(location), child)
              THEN /\ Branch(location, TRUE,
                             label.left, References(store, label.left),
                             label.right, References(store, label.right))
                   /\ UNCHANGED store
              ELSE /\ store' = Panic(store)
                   /\ UNCHANGED frames
    /\ UNCHANGED reply /\ Elsewhere

-----------------------------------------------------------------------------
(***************************************************************************)
(* The epilogue of `branch`: the node its two halves make, the references  *)
(* it takes on them, and those its original gives back.                    *)
(***************************************************************************)
\* Fault: a leaf that is left alone on the right is not pulled up.
MergedLeftOnly(scope, left, right) ==
    CASE left = Empty /\ right = Empty -> Empty
      [] IsLeaf(left) /\ right = Empty -> left
      [] OTHER -> Internal(scope, left, right)

Merged(scope, left, right) ==
    CASE left = Empty /\ right = Empty -> Empty
      [] left = Empty /\ IsLeaf(right) -> right
      [] IsLeaf(left) /\ right = Empty -> left
      [] OTHER -> Internal(scope, left, right)

\* Fault: an unchanged original is treated as changed.
ChangedAlways(frame, new) == TRUE

\* `None` changes implicitly.
Changed(frame, new) == frame.original => new # frame.label

\* Fault: the children are adopted again by a node that was already stored.
AdoptTwice(s, scope, frame, left, right) ==
    LET new == Merged(scope, left, right)
        stored == IF IsInternal(new) THEN Populate(s, scope, new) ELSE s
    IN  IF Changed(frame, new) /\ IsInternal(new)
        THEN Incref(Incref(stored, scope, left), scope, right)
        ELSE stored

\* The new node is stored and, if it was not there yet, adopts its children.
Adopt(s, scope, frame, left, right) ==
    LET new == Merged(scope, left, right)
        stored == IF IsInternal(new) THEN Populate(s, scope, new) ELSE s
    IN  IF Changed(frame, new) /\ IsInternal(new) /\ Adopts(s, new)
        THEN Incref(Incref(stored, scope, left), scope, right)
        ELSE stored

\* Fault: the leaf being pulled up is removed with its parent.
ReleaseAll(s, scope, frame, new) ==
    IF Changed(frame, new) /\ frame.original /\ ~frame.preserve /\ frame.references = 1
    THEN Decref(Decref(s, scope, frame.label.left, FALSE), scope, frame.label.right, FALSE)
    ELSE s

\* An original about to lose its last reference lets its children go; the one
\* that is being pulled up stays, even unreferenced, for its next parent.
Release(s, scope, frame, new) ==
    IF Changed(frame, new) /\ frame.original /\ ~frame.preserve /\ frame.references = 1
    THEN Decref(Decref(s, scope, frame.label.left, new = frame.label.left),
                scope, frame.label.right, new = frame.label.right)
    ELSE s

Join(location) ==
    /\ mode = "apply"
    /\ ~store.panicked
    /\ location \in DOMAIN frames
    /\ frames[location].stage = "branch"
    /\ IsDone(Left(location)) /\ IsDone(Right(location))
    /\ LET scope == Scope(location)
           left == frames[Left(location)].label
           right == frames[Right(location)].label
           new == Merged(scope, left, right)
       IN  /\ store' = Release(Adopt(store, scope, frames[location], left, right),
                             scope, frames[location], new)
           /\ frames' = Restrict([frames EXCEPT ![location] = Done(new)],
                                 DOMAIN frames \ {Left(location), Right(location)})
    /\ UNCHANGED reply /\ Elsewhere

-----------------------------------------------------------------------------
(***************************************************************************)
(* The calls: a transaction from `get` of the root to the new root, the    *)
(* answers handed to the caller, and the life of handles.                  *)
(***************************************************************************)
Idle == mode = "idle" /\ ~store.panicked

Begin(h, b) ==
    /\ Idle
    /\ h \in Live
    /\ mode' = "apply"
    /\ caller' = h
    /\ batch' = b
    /\ IF root[h] = Empty \/ Occupied(store, root[h])
       THEN /\ frames' = [place \in {Root} |-> Frame(root[h], References(store, root[h]), FALSE)]
            /\ UNCHANGED store
       ELSE /\ store' = Panic(store)
            /\ UNCHANGED frames
    /\ UNCHANGED <<root, reply, doomed>>

Commit ==
    /\ mode = "apply"
    /\ ~store.panicked
    /\ IsDone(Root)
    /\ LET new == frames[Root].label
           old == root[caller]
       IN  /\ store' = IF new = old THEN store
                       ELSE Decref(Incref(store, Root, new), Root, old, FALSE)
           /\ root' = [root EXCEPT ![caller] = new]
    /\ mode' = "reply"
    /\ caller' = Absent
    /\ batch' = NoBatch
    /\ frames' = <<>>
    /\ UNCHANGED <<reply, doomed>>

Return ==
    /\ mode = "reply"
    /\ mode' = "idle"
    /\ reply' = NoReply
    /\ UNCHANGED <<store, root, caller, batch, frames, doomed>>

Open(h) ==
    /\ Idle
    /\ h \notin Live
    /\ root' = [root EXCEPT ![h] = Empty]
    /\ UNCHANGED <<store, mode, caller, batch, frames, reply, doomed>>

Clone(h, copy) ==
    /\ Idle
    /\ h \in Live
    /\ copy \notin Live
    /\ store' = Incref(store, Root, root[h])
    /\ root' = [root EXCEPT ![copy] = root[h]]
    /\ UNCHANGED <<mode, caller, batch, frames, reply, doomed>>

Drop(h) ==
    /\ Idle
    /\ h \in Live
    /\ mode' = "drop"
    /\ doomed' = <<root[h]>>
    /\ root' = [root EXCEPT ![h] = NoLabel]
    /\ UNCHANGED <<store, caller, batch, frames, reply>>

\* One call of `drop`: a removed internal node drops its left, then its right.
DropNode ==
    /\ mode = "drop"
    /\ ~store.panicked
    /\ LET label == Head(doomed)
           after == Decref(store, Root, label, FALSE)
           children == IF IsInternal(label) /\ ~Occupied(after, label)
                       THEN <<label.left, label.right>> ELSE <<>>
       IN  /\ store' = after
           /\ doomed' = children \o Tail(doomed)
           /\ mode' = IF children \o Tail(doomed) = <<>> THEN "idle" ELSE "drop"
    /\ UNCHANGED <<root, caller, batch, frames, reply>>

Recur(location) ==
    \/ Pass(location)
    \/ DoOnEmpty(location)
    \/ SplitEmpty(location)
    \/ DoOnLeaf(location)
    \/ MissLeaf(location)
    \/ SplitLeaf(location)
    \/ SplitInternal(location)
    \/ Join(location)

Next ==
    \/ \E location \in DOMAIN frames : Recur(location)
    \/ \E h \in Handle, b \in Batch : Begin(h, b)
    \/ Commit
    \/ Return
    \/ \E h \in Handle : Open(h)
    \/ \E h, copy \in Handle : Clone(h, copy)
    \/ \E h \in Handle : Drop(h)
    \/ DropNode

Spec == Init /\ [][Next]_vars

-----------------------------------------------------------------------------
(***************************************************************************)
(* Properties.                                                             *)
(***************************************************************************)

\* The shape of the state: counts are naturals, the store is lent out exactly
\* while a call runs, frames form a tree that hangs from the root.
TypeOK ==
    /\ \A label \in DOMAIN store.refs : store.refs[label] \in Nat
    /\ store.panicked \in BOOLEAN
    /\ mode \in {"idle", "apply", "reply", "drop"}
    /\ caller \in Handle \cup {Absent}
    /\ batch \in Batch \cup {NoBatch}
    /\ reply \in [Key -> Value \cup {Nothing}]
    /\ \A location \in DOMAIN frames :
          /\ location = Root \/ frames[Front(location)].stage = "branch"
          /\ frames[location].references \in Nat
    /\ mode # "apply" => frames = <<>> /\ caller = Absent

\* No call reaches one of the code's panics: the `unreachable!` of `get` on a
\* node that is not in the store, `incref` and `decref` of a node that is not
\* there, a count below zero, an index outside the maps of a split store.
NoPanic == ~store.panicked

\* The references there are on a node: of nodes whose left child it is, of nodes
\* whose right child it is, of handles whose root it is.
LeftParents(label) ==
    { parent \in DOMAIN store.refs : IsInternal(parent) /\ parent.left = label }

RightParents(label) ==
    { parent \in DOMAIN store.refs : IsInternal(parent) /\ parent.right = label }

Holders(label) == { h \in Handle : root[h] = label }

\* Between calls every count is the number of parents and handles that refer to
\* the node, and no node is kept that nothing refers to: nothing leaks, nothing
\* is freed early (what the tests' check_leaks and check_references examine).
ReferencesExact ==
    mode \in {"idle", "reply"} =>
        \A label \in DOMAIN store.refs :
            /\ store.refs[label] > 0
            /\ store.refs[label] = Cardinality(LeftParents(label))
                  + Cardinality(RightParents(label)) + Cardinality(Holders(label))

\* At every step, even halfway through another table's transaction or drop,
\* the whole tree of every handle that is not being worked on is in the store.
SnapshotsIntact ==
    \A h \in Live \ {caller} : Nodes(root[h]) \subseteq DOMAIN store.refs

\* The keys of a map below a location.
KeysBelow(map, location) == { k \in Key : map[k] # Nothing /\ Holds(location, k) }

\* The node a map has at a location, given those of the two halves.
NodeOf(map, location, left, right) ==
    LET keys == KeysBelow(map, location)
    IN  CASE keys = {} -> Empty
          [] \E k \in keys : keys = {k} ->
                LET k == CHOOSE k \in keys : TRUE IN Leaf(k, map[k])
          [] OTHER -> Internal(Scope(location), left, right)

\* The tree a map has: a subtree with no key is empty, with one key it is the
\* leaf, with more it is the internal node of its two halves.
Tree(map) ==
    LET tree[location \in {Root} \cup Locations] ==
            NodeOf(map, location,
                   IF KeysBelow(map, Left(location)) = {} THEN Empty ELSE tree[Left(location)],
                   IF KeysBelow(map, Right(location)) = {} THEN Empty ELSE tree[Right(location)])
    IN  tree[Root]

\* The root commits to what the table holds and to nothing else: however the
\* table got there, equal contents have equal roots (README: authenticated).
Canonical == \A h \in Live : root[h] = Tree(Contents(root[h]))

\* The recursion over the shared, split, reference counted store implements a
\* set of independent maps with atomic transactions and snapshots.
Maps == INSTANCE KeyValue WITH
    Caller <- {"caller"},
    table <- [h \in Handle |-> IF h \in Live THEN Contents(root[h]) ELSE Absent],
    call <- [t \in {"caller"} |->
                IF mode = "apply" THEN [handle |-> caller, batch |-> batch] ELSE Absent],
    reply <- [t \in {"caller"} |-> IF mode = "reply" THEN reply ELSE Absent]

ImplementsKeyValue == Maps!Spec
=============================================================================

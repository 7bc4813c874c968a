------------------------------- MODULE Store -------------------------------
(***************************************************************************)
(* The node store all the tables of a database share: a reference counted  *)
(* map from labels to nodes, cut into 2^Depth maps that a tree operation   *)
(* may split between threads.                                              *)
(*                                                                         *)
(* A store is a record: `refs` gives the reference count of every occupied *)
(* label, `panicked` is raised by whatever makes the code panic.  The      *)
(* scope argument is the prefix the (possibly split) store covers.         *)
(***************************************************************************)
EXTENDS Tree, TLC

\* Store::new, before anything is restored into it.
EmptyStore == [refs |-> <<>>, panicked |-> FALSE]

Occupied(store, label) == label \in DOMAIN store.refs

Panic(store) == [store EXCEPT !.panicked = TRUE]

\* The part of the store a branch at `location` works on: splitting stops at
\* Depth levels, where the rest of the recursion is sequential.
Scope(location) == SubSeq(location, 1, IF Len(location) < Depth THEN Len(location) ELSE Depth)
Splittable(location) == Len(location) < Depth

\* Store::entry indexes the maps of the scope: any other label is out of range.
InRange(scope, label) == IsPrefix(scope, label.map)

Populate(store, scope, label) ==
    CASE label = Empty -> store
      [] label # Empty /\ ~InRange(scope, label) -> Panic(store)
      [] label # Empty /\ InRange(scope, label) ->
            IF Occupied(store, label)
            THEN store
            ELSE [store EXCEPT !.refs = [l \in DOMAIN @ \cup {label} |->
                                            IF l = label THEN 0 ELSE store.refs[l]]]

\* The label Populate finds vacant, and reports as new, is the one to adopt for.
Adopts(store, label) == label # Empty /\ ~Occupied(store, label)

Incref(store, scope, label) ==
    CASE label = Empty -> store
      [] label # Empty /\ InRange(scope, label) /\ Occupied(store, label) ->
            [store EXCEPT !.refs[label] = @ + 1]
      [] OTHER -> Panic(store)

\* A node whose last reference goes is removed, unless it is preserved for an
\* adoption to come.  Counting below zero is an overflow of the usize.
Decref(store, scope, label, preserve) ==
    CASE label = Empty -> store
      [] label # Empty /\ InRange(scope, label) /\ Occupied(store, label)
                       /\ store.refs[label] > 0 ->
            IF store.refs[label] = 1 /\ ~preserve
            THEN [store EXCEPT !.refs = Restrict(@, DOMAIN @ \ {label})]
            ELSE [store EXCEPT !.refs[label] = @ - 1]
      [] OTHER -> Panic(store)
=============================================================================

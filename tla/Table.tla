------------------------------- MODULE Table -------------------------------
(***************************************************************************)
(* Threads that call the tables of one database.  All the tables share one *)
(* store, which a lender hands to one call at a time; each table has a     *)
(* handle with the label of its root behind a lock of its own.             *)
(*                                                                         *)
(* The tree a label roots is abstracted to the map it holds: module Apply  *)
(* checks that the two determine each other, and that a call on a root the *)
(* store holds computes the map below.  What is kept is when the label is  *)
(* read, when it is written, and who owns a reference to which root.       *)
(***************************************************************************)
EXTENDS Operations, Integers, FiniteSets

CONSTANTS
    Thread,         \* the threads that make calls
    Handle,         \* the handles of the tables
    Absent,         \* no handle, no call, no result
    Available,      \* the lender holds the store
    Lost,           \* the store went down with the thread that had it
    Batch,          \* the batches transactions may hold
    MaxCalls,       \* bound: the calls a thread makes
    Exclusive,      \* the callers serialize their calls on one handle
    BackupMayFail   \* writing to the backup may return an error

VARIABLES
    lender,     \* Available, Lost, or the thread the store is lent to
    root,       \* the label behind each handle's lock, or Absent
    held,       \* the references the handles hold on each root
    pc,         \* where each thread is in its call
    op,         \* the call of each thread
    result,     \* the root, and the answers, a call has computed
    calls,      \* how many calls each thread has made
    owned       \* history: the root each handle owns a reference of

vars == <<lender, root, held, pc, op, result, calls, owned>>

Execute(h, batch) == [kind |-> "execute", handle |-> h, batch |-> batch]
CloneOf(h, copy) == [kind |-> "clone", handle |-> h, copy |-> copy]
DropOf(h) == [kind |-> "drop", handle |-> h]
Export(h) == [kind |-> "export", handle |-> h]

Call ==
    { Execute(h, batch) : h \in Handle, batch \in Batch }
    \cup { CloneOf(h, copy) : h \in Handle, copy \in Handle }
    \cup { DropOf(h) : h \in Handle }
    \cup { Export(h) : h \in Handle }

ASSUME TableAssumption ==
    /\ Batch \subseteq [Key -> Operation]
    /\ MaxCalls \in Nat
    /\ {Exclusive, BackupMayFail} \subseteq BOOLEAN
    /\ Absent \notin Map
    /\ Absent \notin Call
    /\ Absent \notin [root : Map, answers : Map] \cup [handle : Handle, batch : Batch]
    /\ IsFiniteSet(Handle)
    /\ Available \notin Thread
    /\ Lost \notin Thread
    /\ Available # Lost

Init ==
    /\ lender = Available
    /\ root = [h \in Handle |-> Absent]
    /\ held = [map \in Map |-> 0]
    /\ pc = [t \in Thread |-> "idle"]
    /\ op = [t \in Thread |-> Absent]
    /\ result = [t \in Thread |-> Absent]
    /\ calls = [t \in Thread |-> 0]
    /\ owned = [h \in Handle |-> Absent]

-----------------------------------------------------------------------------
(***************************************************************************)
(* The references on roots.  A root is in the store while a handle holds   *)
(* it; a root that is a single leaf also while it is part of a held tree.  *)
(***************************************************************************)
Present(map) == { k \in Key : map[k] # Nothing }

Stored(map) ==
    \/ map = EmptyMap
    \/ held[map] > 0
    \/ \E k \in Key : /\ Present(map) = {k}
                      /\ \E tree \in Map : held[tree] > 0 /\ tree[k] = map[k]

\* The empty root has no node and is not counted.
Plus(count, map) ==
    IF map = EmptyMap THEN count ELSE [count EXCEPT ![map] = @ + 1]

\* Fault: the reference of the root is given back by the branch and again by
\* its caller.
MinusTwice(count, map) ==
    IF map = EmptyMap THEN count ELSE [count EXCEPT ![map] = @ - 2]

Minus(count, map) ==
    IF map = EmptyMap THEN count ELSE [count EXCEPT ![map] = @ - 1]

-----------------------------------------------------------------------------
Live == { h \in Handle : root[h] # Absent }

Uses(t, h) == op[t] # Absent /\ op[t].handle = h
Copies(t, h) == op[t] # Absent /\ op[t].kind = "clone" /\ op[t].copy = h
Goto(t, label) == pc' = [pc EXCEPT ![t] = label]

\* A panic unwinds through the call: the store is never given back, and every
\* later `take` waits for good.
PanicOf(t) ==
    /\ lender' = Lost
    /\ Goto(t, "panicked")
    /\ UNCHANGED <<root, held, op, result, calls, owned>>

\* Database::empty_table: a new handle on the empty root.
Open(h) ==
    /\ h \notin Live
    /\ \A t \in Thread : ~Copies(t, h)
    /\ root' = [root EXCEPT ![h] = EmptyMap]
    /\ owned' = [owned EXCEPT ![h] = EmptyMap]
    /\ UNCHANGED <<lender, held, pc, op, result, calls>>

\* Ownership lets a handle be dropped by its last user only, and gives the
\* copy of a clone to nobody else; anything beyond that is up to the callers.
Allowed(t, call) ==
    /\ call.handle \in Live
    /\ \A u \in Thread \ {t} : Uses(u, call.handle) =>
          ~Exclusive /\ call.kind # "drop" /\ op[u].kind # "drop"
    /\ call.kind = "clone" =>
          /\ call.copy \notin Live
          /\ \A u \in Thread : ~Copies(u, call.copy)

Begin(t, call) ==
    /\ pc[t] = "idle"
    /\ calls[t] < MaxCalls
    /\ Allowed(t, call)
    /\ op' = [op EXCEPT ![t] = call]
    /\ calls' = [calls EXCEPT ![t] = @ + 1]
    /\ Goto(t, "take")
    /\ UNCHANGED <<lender, root, held, result, owned>>

Take(t) ==
    /\ pc[t] = "take"
    /\ lender = Available
    /\ lender' = t
    /\ Goto(t, IF op[t].kind = "execute" THEN "backup" ELSE "work")
    /\ UNCHANGED <<root, held, op, result, calls, owned>>

Backup(t) ==
    /\ pc[t] = "backup"
    /\ Goto(t, "work")
    /\ UNCHANGED <<lender, root, held, op, result, calls, owned>>

\* Fault: the reference of the root that is replaced is never given back.
ApplyLeaking(t) ==
    /\ pc[t] = "work"
    /\ op[t].kind = "execute"
    /\ LET old == root[op[t].handle]
           new == Updated(old, op[t].batch)
       IN  /\ Stored(old)
           /\ held' = IF new = old THEN held ELSE Plus(held, new)
           /\ result' = [result EXCEPT ![t] =
                            [root |-> new, answers |-> Answers(old, op[t].batch)]]
           /\ owned' = [owned EXCEPT ![op[t].handle] = new]
    /\ Goto(t, "restore")
    /\ UNCHANGED <<lender, root, op, calls>>

\* Fault: the holders are filled from the tree the batch leaves behind.
ApplyThenRead(t) ==
    /\ pc[t] = "work"
    /\ op[t].kind = "execute"
    /\ LET old == root[op[t].handle]
           new == Updated(old, op[t].batch)
       IN  /\ Stored(old)
           /\ held' = IF new = old THEN held ELSE Minus(Plus(held, new), old)
           /\ result' = [result EXCEPT ![t] =
                            [root |-> new, answers |-> new]]
           /\ owned' = [owned EXCEPT ![op[t].handle] = new]
    /\ Goto(t, "restore")
    /\ UNCHANGED <<lender, root, op, calls>>

\* apply::apply on the root read from the lock.
Apply(t) ==
    /\ pc[t] = "work"
    /\ op[t].kind = "execute"
    /\ LET old == root[op[t].handle]
           new == Updated(old, op[t].batch)
       IN  /\ Stored(old)
           /\ held' = IF new = old THEN held ELSE Minus(Plus(held, new), old)
           /\ result' = [result EXCEPT ![t] =
                            [root |-> new, answers |-> Answers(old, op[t].batch)]]
           /\ owned' = [owned EXCEPT ![op[t].handle] = new]
    /\ Goto(t, "restore")
    /\ UNCHANGED <<lender, root, op, calls>>

\* Fault: the clone takes no reference of its own.
CloneUncounted(t) ==
    /\ pc[t] = "work"
    /\ op[t].kind = "clone"
    /\ owned' = [owned EXCEPT ![op[t].copy] = root[op[t].handle]]
    /\ Goto(t, "restore")
    /\ UNCHANGED <<lender, root, held, op, result, calls>>

\* Handle::clone up to its restore: a reference for the root read now.
CloneRoot(t) ==
    /\ pc[t] = "work"
    /\ op[t].kind = "clone"
    /\ LET label == root[op[t].handle]
       IN  /\ Stored(label)
           /\ held' = Plus(held, label)
           /\ owned' = [owned EXCEPT ![op[t].copy] = label]
    /\ Goto(t, "restore")
    /\ UNCHANGED <<lender, root, op, result, calls>>

DropRoot(t) ==
    /\ pc[t] = "work"
    /\ op[t].kind = "drop"
    /\ LET h == op[t].handle
       IN  /\ Stored(root[h])
           /\ held' = Minus(held, root[h])
           /\ root' = [root EXCEPT ![h] = Absent]
           /\ owned' = [owned EXCEPT ![h] = Absent]
    /\ Goto(t, "restore")
    /\ UNCHANGED <<lender, op, result, calls>>

\* Handle::export reads the nodes and changes none.
ExportRoot(t) ==
    /\ pc[t] = "work"
    /\ op[t].kind = "export"
    /\ Stored(root[op[t].handle])
    /\ Goto(t, "restore")
    /\ UNCHANGED <<lender, root, held, op, result, calls, owned>>

\* The backup has failed; or the root read from the lock is not in the store any
\* more, `unreachable!` in apply and export, a panic in incref and decref.
Panics(t) ==
    /\ \/ pc[t] = "backup" /\ BackupMayFail
       \/ pc[t] = "work" /\ ~Stored(root[op[t].handle])
    /\ PanicOf(t)

\* Fault: a call that changed nothing forgets to give the store back.
RestoreChanged(t) ==
    /\ pc[t] = "restore"
    /\ lender' = IF op[t].kind = "export" THEN lender ELSE Available
    /\ Goto(t, CASE op[t].kind = "execute" -> "write"
                 [] op[t].kind = "clone" -> "copy"
                 [] OTHER -> "return")
    /\ UNCHANGED <<root, held, op, result, calls, owned>>

Restore(t) ==
    /\ pc[t] = "restore"
    /\ lender' = Available
    /\ Goto(t, CASE op[t].kind = "execute" -> "write"
                 [] op[t].kind = "clone" -> "copy"
                 [] OTHER -> "return")
    /\ UNCHANGED <<root, held, op, result, calls, owned>>

\* Fault: an emptied table keeps the root it had.
WriteNonEmpty(t) ==
    /\ pc[t] = "write"
    /\ root' = IF result[t].root = EmptyMap THEN root
               ELSE [root EXCEPT ![op[t].handle] = result[t].root]
    /\ Goto(t, "return")
    /\ UNCHANGED <<lender, held, op, result, calls, owned>>

\* The store is back in its cell by the time the new root is written ...
Write(t) ==
    /\ pc[t] = "write"
    /\ root' = [root EXCEPT ![op[t].handle] = result[t].root]
    /\ Goto(t, "return")
    /\ UNCHANGED <<lender, held, op, result, calls, owned>>

\* ... and by the time a clone reads the root it copies, a second time.
Copy(t) ==
    /\ pc[t] = "copy"
    /\ root' = [root EXCEPT ![op[t].copy] = root[op[t].handle]]
    /\ Goto(t, "return")
    /\ UNCHANGED <<lender, held, op, result, calls, owned>>

Return(t) ==
    /\ pc[t] = "return"
    /\ op' = [op EXCEPT ![t] = Absent]
    /\ result' = [result EXCEPT ![t] = Absent]
    /\ Goto(t, "idle")
    /\ UNCHANGED <<lender, root, held, calls, owned>>

Step(t) ==
    \/ Take(t)
    \/ Backup(t)
    \/ Apply(t)
    \/ CloneRoot(t)
    \/ DropRoot(t)
    \/ ExportRoot(t)
    \/ Panics(t)
    \/ Restore(t)
    \/ Write(t)
    \/ Copy(t)
    \/ Return(t)

Next ==
    \/ \E h \in Handle : Open(h)
    \/ \E t \in Thread, call \in Call : Begin(t, call)
    \/ \E t \in Thread : Step(t)

Spec == Init /\ [][Next]_vars

\* A thread inside a call is scheduled again; nobody has to make a call.
FairSpec == Spec /\ \A t \in Thread : WF_vars(Step(t))

-----------------------------------------------------------------------------
(***************************************************************************)
(* Properties.                                                             *)
(***************************************************************************)
Label == Map \cup {Absent}

\* The values the variables range over; counts never go below zero.
TypeOK ==
    /\ lender \in Thread \cup {Available, Lost}
    /\ root \in [Handle -> Label]
    /\ held \in [Map -> Nat]
    /\ pc \in [Thread -> {"idle", "take", "backup", "work", "restore", "write",
                          "copy", "return", "panicked"}]
    /\ op \in [Thread -> Call \cup {Absent}]
    /\ result \in [Thread -> [root : Map, answers : Map] \cup {Absent}]
    /\ calls \in [Thread -> 0..MaxCalls]
    /\ owned \in [Handle -> Label]

\* No call finds that the root it read has been removed from the store, what
\* the `unreachable!` of `get` asserts.
NoUnreachable ==
    \A t \in Thread : pc[t] = "work" => Stored(root[op[t].handle])

\* The references counted for a root are those of the handles that own it:
\* none is leaked by a replaced root, none is given back twice.
HeldByOwners ==
    \A map \in Map \ {EmptyMap} :
        held[map] = Cardinality({ h \in Handle : owned[h] = map })

\* A handle at rest shows the root it owns a reference of, and no other.
RootsOwned ==
    \A h \in Handle :
        (\A t \in Thread : ~Uses(t, h) /\ ~Copies(t, h)) => root[h] = owned[h]

\* Every call comes back, unless the store was lost to a panic: no two calls
\* wait for each other.
CallsReturn ==
    \A t \in Thread : pc[t] = "take" ~> pc[t] = "idle" \/ lender = Lost

\* The threads see maps of their own with atomic transactions: what a call
\* that returned has done, no other call undoes.
Maps == INSTANCE KeyValue WITH
    Caller <- Thread,
    table <- owned,
    call <- [t \in Thread |->
                IF /\ op[t] # Absent /\ op[t].kind = "execute"
                   /\ pc[t] \in {"take", "backup", "work", "panicked"}
                THEN [handle |-> op[t].handle, batch |-> op[t].batch]
                ELSE Absent],
    reply <- [t \in Thread |-> IF result[t] = Absent THEN Absent ELSE result[t].answers]

ImplementsKeyValue == Maps!Spec
=============================================================================

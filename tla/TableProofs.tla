---------------------------- MODULE TableProofs ----------------------------
(***************************************************************************)
(* Proofs about Table, for any threads, handles, keys, values and number   *)
(* of calls: if callers serialize their calls on one handle, references    *)
(* are counted exactly and no call meets a root that left the store.       *)
(***************************************************************************)
EXTENDS Table, FiniteSetTheorems, TLAPS

-----------------------------------------------------------------------------
(***************************************************************************)
(* What the operators return.                                              *)
(***************************************************************************)

\* A batch turns a map into a map, and its answers are one too.
LEMMA UpdatedType ==
    ASSUME NEW map \in Map, NEW batch \in Batch
    PROVE  Updated(map, batch) \in Map /\ Answers(map, batch) \in Map
<1>1. batch \in [Key -> Operation]
  BY TableAssumption
<1>2. \A k \in Key : batch[k].act = "set" => batch[k].value \in Value
  BY <1>1 DEF Operation, Skip, Get, Delete, Set
<1>3. \A k \in Key : map[k] \in Value \cup {Nothing}
  BY DEF Map
<1>. QED
  BY <1>2, <1>3 DEF Updated, Answers, Map

\* The empty map is a map.
LEMMA EmptyMapType == EmptyMap \in Map
  BY DEF EmptyMap, Map

\* The fields of a call, by its kind.
LEMMA CallFields ==
    ASSUME NEW call \in Call
    PROVE  /\ call.handle \in Handle
           /\ call.kind \in {"execute", "clone", "drop", "export"}
           /\ call.kind = "execute" => call.batch \in Batch
           /\ call.kind = "clone" => call.copy \in Handle
  BY DEF Call, Execute, CloneOf, DropOf, Export

-----------------------------------------------------------------------------
(***************************************************************************)
(* Counting the owners of a root when one handle changes what it owns.     *)
(***************************************************************************)
Owners(own, map) == { h \in Handle : own[h] = map }

\* The owners of a root are finitely many, and one owner makes them more than 0.
LEMMA OwnersFinite ==
    ASSUME NEW own \in [Handle -> Label], NEW map
    PROVE  /\ IsFiniteSet(Owners(own, map))
           /\ Cardinality(Owners(own, map)) \in Nat
           /\ \A h \in Handle : own[h] = map => Cardinality(Owners(own, map)) > 0
<1>1. IsFiniteSet(Owners(own, map))
  BY TableAssumption, FS_Subset DEF Owners
<1>2. Cardinality(Owners(own, map)) \in Nat
  BY <1>1, FS_CardinalityType
<1>3. ASSUME NEW h \in Handle, own[h] = map
      PROVE  Cardinality(Owners(own, map)) > 0
  <2>1. Owners(own, map) # {}
    BY <1>3 DEF Owners
  <2>. QED
    BY <2>1, <1>1, <1>2, FS_EmptySet
<1>. QED
  BY <1>1, <1>2, <1>3

\* A handle that starts to own a root adds one to its owners ...
LEMMA OwnersGain ==
    ASSUME NEW own \in [Handle -> Label], NEW h \in Handle, NEW map \in Label,
           own[h] # map
    PROVE  Cardinality(Owners([own EXCEPT ![h] = map], map))
             = Cardinality(Owners(own, map)) + 1
<1>1. Owners([own EXCEPT ![h] = map], map) = Owners(own, map) \cup {h}
  BY DEF Owners
<1>2. h \notin Owners(own, map)
  BY DEF Owners
<1>. QED
  BY <1>1, <1>2, OwnersFinite, FS_AddElement

\* ... one that stops takes one away.
LEMMA OwnersLose ==
    ASSUME NEW own \in [Handle -> Label], NEW h \in Handle, NEW new \in Label,
           own[h] # new
    PROVE  Cardinality(Owners([own EXCEPT ![h] = new], own[h]))
             = Cardinality(Owners(own, own[h])) - 1
<1>1. Owners([own EXCEPT ![h] = new], own[h]) = Owners(own, own[h]) \ {h}
  BY DEF Owners
<1>2. h \in Owners(own, own[h])
  BY DEF Owners
<1>. QED
  BY <1>1, <1>2, OwnersFinite, FS_RemoveElement

-----------------------------------------------------------------------------
(***************************************************************************)
(* The inductive invariant.                                                *)
(***************************************************************************)

\* Between apply and the write of its result a handle owns the result, not the
\* root it shows; between the two reads of a clone the copy owns a root it does
\* not show yet.
Writing(t, h) ==
    pc[t] \in {"restore", "write"} /\ op[t].kind = "execute" /\ op[t].handle = h

Copying(t, h) ==
    pc[t] \in {"restore", "copy"} /\ op[t].kind = "clone" /\ op[t].copy = h

\* The places of a call from which its handle is still read or written.
Needs(t) ==
    \/ pc[t] \in {"take", "backup", "work", "write", "copy"}
    \/ pc[t] = "restore" /\ op[t].kind # "drop"

CallInv ==
    \A t \in Thread :
        /\ op[t] = Absent <=> pc[t] = "idle"
        /\ pc[t] \in {"backup", "write"} => op[t].kind = "execute"
        /\ pc[t] = "copy" => op[t].kind = "clone"

ExclusiveInv ==
    \A t, u \in Thread : t # u =>
        /\ \A h \in Handle : ~(Uses(t, h) /\ Uses(u, h))
        /\ \A h \in Handle : ~(Copies(t, h) /\ Copies(u, h))

LiveInv == \A t \in Thread : Needs(t) => root[op[t].handle] # Absent

CopyInv ==
    \A t \in Thread, h \in Handle :
        Copies(t, h) /\ pc[t] # "return" => root[h] = Absent

RootsInv ==
    \A h \in Handle :
        /\ (\A t \in Thread : ~Writing(t, h) /\ ~Copying(t, h)) => root[h] = owned[h]
        /\ \A t \in Thread : Writing(t, h) =>
              result[t] \in [root : Map, answers : Map] /\ result[t].root = owned[h]
        /\ \A t \in Thread : Copying(t, h) => owned[h] = root[op[t].handle]

IInv ==
    /\ TypeOK
    /\ HeldByOwners
    /\ CallInv
    /\ ExclusiveInv
    /\ LiveInv
    /\ CopyInv
    /\ RootsInv

\* What IInv is for: the root a call reads is the one its handle owns.
LEMMA WorkOnOwned ==
    ASSUME IInv, NEW t \in Thread, pc[t] = "work"
    PROVE  /\ op[t] \in Call
           /\ root[op[t].handle] \in Map
           /\ root[op[t].handle] = owned[op[t].handle]
<1>1. op[t] \in Call
  BY DEF IInv, TypeOK, CallInv
<1>2. PICK h \in Handle : h = op[t].handle
  BY <1>1, CallFields
<1>3. root[h] \in Map
  BY <1>2 DEF IInv, TypeOK, Label, LiveInv, Needs
<1>4. \A u \in Thread : ~Writing(u, h)
  BY <1>1, <1>2 DEF IInv, ExclusiveInv, Writing, Uses, CallInv
<1>5. \A u \in Thread : ~Copying(u, h)
  BY <1>3, TableAssumption DEF IInv, CopyInv, Copying, Copies, CallInv
<1>. QED
  BY <1>1, <1>2, <1>3, <1>4, <1>5 DEF IInv, RootsInv

\* The invariant is what NoUnreachable needs.
LEMMA OwnedIsStored ==
    ASSUME IInv
    PROVE  NoUnreachable
<1>. SUFFICES ASSUME NEW t \in Thread, pc[t] = "work"
              PROVE  Stored(root[op[t].handle])
  BY DEF NoUnreachable
<1>1. PICK h \in Handle : h = op[t].handle
  BY WorkOnOwned, CallFields
<1>2. root[h] \in Map /\ root[h] = owned[h]
  BY <1>1, WorkOnOwned
<1>3. CASE root[h] = EmptyMap
  BY <1>1, <1>3 DEF Stored
<1>4. CASE root[h] # EmptyMap
  <2>1. held[root[h]] = Cardinality(Owners(owned, root[h]))
    BY <1>2, <1>4 DEF IInv, HeldByOwners, Owners
  <2>2. Cardinality(Owners(owned, root[h])) > 0
    BY <1>2, OwnersFinite DEF IInv, TypeOK
  <2>. QED
    BY <1>1, <2>1, <2>2 DEF Stored
<1>. QED
  BY <1>3, <1>4

-----------------------------------------------------------------------------
(***************************************************************************)
(* Init and every step keep the inductive invariant.                       *)
(***************************************************************************)

\* A database starts without tables, threads without calls.
LEMMA InitInv == Init => IInv
<1>. SUFFICES ASSUME Init PROVE IInv
  OBVIOUS
<1>1. TypeOK
  BY EmptyMapType, TableAssumption DEF Init, TypeOK, Label
<1>2. HeldByOwners
  <2>. SUFFICES ASSUME NEW map \in Map \ {EmptyMap}
                PROVE  held[map] = Cardinality({ h \in Handle : owned[h] = map })
    BY DEF HeldByOwners
  <2>1. { h \in Handle : owned[h] = map } = {}
    BY TableAssumption DEF Init
  <2>. QED
    BY <2>1, FS_EmptySet DEF Init
<1>3. CallInv /\ ExclusiveInv /\ LiveInv /\ CopyInv /\ RootsInv
  BY DEF Init, CallInv, ExclusiveInv, LiveInv, CopyInv, RootsInv, Uses, Copies,
         Needs, Writing, Copying
<1>. QED
  BY <1>1, <1>2, <1>3 DEF IInv

\* If the counts move with the root one handle owns, they stay the counts of
\* the owners, and stay above zero.
LEMMA CountsFollow ==
    ASSUME TypeOK, HeldByOwners, NEW h \in Handle, NEW new \in Label,
           new # owned[h],
           owned' = [owned EXCEPT ![h] = new],
           held' \in [Map -> Int],
           held'[EmptyMap] = held[EmptyMap],
           \A map \in Map \ {EmptyMap} :
               held'[map] = IF map = new THEN held[map] + 1
                            ELSE IF map = owned[h] THEN held[map] - 1
                            ELSE held[map]
    PROVE  HeldByOwners' /\ held' \in [Map -> Nat]
<1>1. owned \in [Handle -> Label] /\ owned' \in [Handle -> Label]
  BY DEF TypeOK
<1>2. ASSUME NEW map \in Map \ {EmptyMap}
      PROVE  held'[map] = Cardinality(Owners(owned', map))
  <2>. map \in Label
    BY DEF Label
  <2>1. held[map] = Cardinality(Owners(owned, map))
    BY DEF HeldByOwners, Owners
  <2>2. CASE map = new
    <3>1. Cardinality(Owners(owned', map)) = Cardinality(Owners(owned, map)) + 1
      BY <1>1, <2>2, OwnersGain
    <3>. QED
      BY <2>1, <2>2, <3>1
  <2>3. CASE map = owned[h]
    <3>1. Cardinality(Owners(owned', map)) = Cardinality(Owners(owned, map)) - 1
      <4>1. Cardinality(Owners([owned EXCEPT ![h] = new], owned[h]))
              = Cardinality(Owners(owned, owned[h])) - 1
        BY <1>1, OwnersLose
      <4>. QED
        BY <2>3, <4>1
    <3>2. held'[map] = held[map] - 1
      BY <2>3
    <3>. QED
      BY <2>1, <3>1, <3>2
  <2>4. CASE map # new /\ map # owned[h]
    <3>1. Owners(owned', map) = Owners(owned, map)
      BY <1>1, <2>4 DEF Owners
    <3>. QED
      BY <2>1, <2>4, <3>1
  <2>. QED
    BY <2>2, <2>3, <2>4
<1>3. HeldByOwners'
  BY <1>2 DEF HeldByOwners, Owners
<1>4. \A map \in Map : held'[map] \in Nat
  <2>. SUFFICES ASSUME NEW map \in Map PROVE held'[map] \in Nat
    OBVIOUS
  <2>1. CASE map = EmptyMap
    BY <2>1 DEF TypeOK
  <2>2. CASE map # EmptyMap
    <3>1. Cardinality(Owners(owned', map)) \in Nat
      BY <1>1, OwnersFinite
    <3>. QED
      BY <1>2, <2>2, <3>1
  <2>. QED
    BY <2>1, <2>2
<1>. QED
  BY <1>3, <1>4

\* A handle that shows no root owns none, unless a clone is about to fill it.
LEMMA AbsentUnowned ==
    ASSUME IInv, NEW h \in Handle, root[h] = Absent,
           \A t \in Thread : ~Copying(t, h)
    PROVE  owned[h] = Absent
<1>1. \A t \in Thread : ~Writing(t, h)
  BY DEF IInv, LiveInv, Needs, Writing
<1>. QED
  BY <1>1 DEF IInv, RootsInv

\* Taking the store moves a call to its work.
LEMMA TakeInv ==
    ASSUME IInv, NEW t \in Thread, Take(t)
    PROVE  IInv'
<1>1. TypeOK'
  BY DEF IInv, TypeOK, Label, Take, Goto
<1>2. HeldByOwners'
  BY DEF IInv, HeldByOwners, Take, Goto
<1>3. CallInv'
  BY DEF IInv, CallInv, TypeOK, Take, Goto
<1>4. ExclusiveInv'
  BY DEF IInv, ExclusiveInv, Uses, Copies, Take, Goto
<1>5. LiveInv'
  BY DEF IInv, LiveInv, CallInv, TypeOK, Needs, Take, Goto
<1>6. CopyInv'
  BY DEF IInv, CopyInv, CallInv, TypeOK, Copies, Take, Goto
<1>7. RootsInv'
  BY DEF IInv, RootsInv, CallInv, TypeOK, Writing, Copying, Take, Goto
<1>. QED
  BY <1>1, <1>2, <1>3, <1>4, <1>5, <1>6, <1>7 DEF IInv

\* Writing the backup moves a call to its work.
LEMMA BackupInv ==
    ASSUME IInv, NEW t \in Thread, Backup(t)
    PROVE  IInv'
<1>1. TypeOK'
  BY DEF IInv, TypeOK, Label, Backup, Goto
<1>2. HeldByOwners'
  BY DEF IInv, HeldByOwners, Backup, Goto
<1>3. CallInv'
  BY DEF IInv, CallInv, TypeOK, Backup, Goto
<1>4. ExclusiveInv'
  BY DEF IInv, ExclusiveInv, Uses, Copies, Backup, Goto
<1>5. LiveInv'
  BY DEF IInv, LiveInv, CallInv, TypeOK, Needs, Backup, Goto
<1>6. CopyInv'
  BY DEF IInv, CopyInv, CallInv, TypeOK, Copies, Backup, Goto
<1>7. RootsInv'
  BY DEF IInv, RootsInv, CallInv, TypeOK, Writing, Copying, Backup, Goto
<1>. QED
  BY <1>1, <1>2, <1>3, <1>4, <1>5, <1>6, <1>7 DEF IInv

\* A panic freezes a call whose handle has nothing pending.
LEMMA PanicInv ==
    ASSUME IInv, NEW t \in Thread, pc[t] \in {"backup", "work"}, PanicOf(t)
    PROVE  IInv'
<1>1. TypeOK'
  BY DEF IInv, TypeOK, Label, PanicOf, Goto
<1>2. HeldByOwners'
  BY DEF IInv, HeldByOwners, PanicOf, Goto
<1>3. CallInv'
  BY DEF IInv, CallInv, TypeOK, PanicOf, Goto
<1>4. ExclusiveInv'
  BY DEF IInv, ExclusiveInv, Uses, Copies, PanicOf, Goto
<1>5. LiveInv'
  BY DEF IInv, LiveInv, CallInv, TypeOK, Needs, PanicOf, Goto
<1>6. CopyInv'
  BY DEF IInv, CopyInv, CallInv, TypeOK, Copies, PanicOf, Goto
<1>7. RootsInv'
  BY DEF IInv, RootsInv, CallInv, TypeOK, Writing, Copying, PanicOf, Goto
<1>. QED
  BY <1>1, <1>2, <1>3, <1>4, <1>5, <1>6, <1>7 DEF IInv

\* An export changes no reference.
LEMMA ExportInv ==
    ASSUME IInv, NEW t \in Thread, ExportRoot(t)
    PROVE  IInv'
<1>1. TypeOK'
  BY DEF IInv, TypeOK, Label, ExportRoot, Goto
<1>2. HeldByOwners'
  BY DEF IInv, HeldByOwners, ExportRoot, Goto
<1>3. CallInv'
  BY DEF IInv, CallInv, TypeOK, ExportRoot, Goto
<1>4. ExclusiveInv'
  BY DEF IInv, ExclusiveInv, Uses, Copies, ExportRoot, Goto
<1>5. LiveInv'
  BY DEF IInv, LiveInv, CallInv, TypeOK, Needs, ExportRoot, Goto
<1>6. CopyInv'
  BY DEF IInv, CopyInv, CallInv, TypeOK, Copies, ExportRoot, Goto
<1>7. RootsInv'
  BY DEF IInv, RootsInv, CallInv, TypeOK, Writing, Copying, ExportRoot, Goto
<1>. QED
  BY <1>1, <1>2, <1>3, <1>4, <1>5, <1>6, <1>7 DEF IInv

\* Giving the store back leaves to a call what it has yet to write.
LEMMA RestoreInv ==
    ASSUME IInv, NEW t \in Thread, Restore(t)
    PROVE  IInv'
<1>1. TypeOK'
  BY DEF IInv, TypeOK, Label, Restore, Goto
<1>2. HeldByOwners'
  BY DEF IInv, HeldByOwners, Restore, Goto
<1>3. CallInv'
  BY DEF IInv, CallInv, TypeOK, Restore, Goto
<1>4. ExclusiveInv'
  BY DEF IInv, ExclusiveInv, Uses, Copies, Restore, Goto
<1>5. LiveInv'
  BY DEF IInv, LiveInv, CallInv, TypeOK, Needs, Restore, Goto
<1>6. CopyInv'
  BY DEF IInv, CopyInv, CallInv, TypeOK, Copies, Restore, Goto
<1>7. RootsInv'
  BY DEF IInv, RootsInv, CallInv, TypeOK, Writing, Copying, Restore, Goto
<1>. QED
  BY <1>1, <1>2, <1>3, <1>4, <1>5, <1>6, <1>7 DEF IInv

\* A call that returns leaves nothing pending.
LEMMA ReturnInv ==
    ASSUME IInv, NEW t \in Thread, Return(t)
    PROVE  IInv'
<1>1. TypeOK'
  BY DEF IInv, TypeOK, Label, Return, Goto
<1>2. HeldByOwners'
  BY DEF IInv, HeldByOwners, Return, Goto
<1>3. CallInv'
  BY DEF IInv, CallInv, TypeOK, Return, Goto
<1>4. ExclusiveInv'
  BY DEF IInv, ExclusiveInv, Uses, Copies, Return, Goto
<1>5. LiveInv'
  BY DEF IInv, LiveInv, CallInv, TypeOK, Needs, Return, Goto
<1>6. CopyInv'
  BY DEF IInv, CopyInv, CallInv, TypeOK, Copies, Return, Goto
<1>7. RootsInv'
  BY DEF IInv, RootsInv, CallInv, TypeOK, Writing, Copying, Return, Goto
<1>. QED
  BY <1>1, <1>2, <1>3, <1>4, <1>5, <1>6, <1>7 DEF IInv

\* The write of a new root shows the root the handle owns.
LEMMA WriteInv ==
    ASSUME IInv, NEW t \in Thread, Write(t)
    PROVE  IInv'
<1>. PICK h \in Handle : h = op[t].handle /\ op[t].kind = "execute"
  BY CallFields DEF IInv, TypeOK, CallInv, Write
<1>a. Writing(t, h) /\ Uses(t, h) /\ root[h] # Absent
  BY DEF IInv, Write, Writing, Uses, CallInv, LiveInv, Needs
<1>b. result[t].root \in Map /\ result[t].root = owned[h]
  BY <1>a DEF IInv, RootsInv
<1>1. TypeOK'
  BY <1>a, <1>b DEF IInv, TypeOK, Label, Write, Goto
<1>2. HeldByOwners'
  BY <1>a, <1>b DEF IInv, HeldByOwners, Write, Goto
<1>3. CallInv'
  BY <1>a, <1>b DEF IInv, CallInv, TypeOK, Write, Goto
<1>4. ExclusiveInv'
  BY <1>a, <1>b DEF IInv, ExclusiveInv, Uses, Copies, Write, Goto
<1>5. LiveInv'
  BY <1>a, <1>b, TableAssumption DEF IInv, LiveInv, CallInv, TypeOK, Needs, Write, Goto
<1>6. CopyInv'
  BY <1>a, <1>b DEF IInv, CopyInv, CallInv, TypeOK, Copies, Write, Goto
<1>7. RootsInv'
  <2>1. ASSUME NEW u \in Thread, NEW g \in Handle, Writing(u, g)'
        PROVE  u # t /\ Writing(u, g)
    BY <2>1 DEF IInv, TypeOK, Write, Goto, Writing
  <2>2. ASSUME NEW u \in Thread, NEW g \in Handle, Copying(u, g)'
        PROVE  u # t /\ Copying(u, g) /\ root'[op[u].handle] = root[op[u].handle]
    <3>1. u # t /\ Copying(u, g)
      BY <2>2 DEF IInv, TypeOK, Write, Goto, Copying
    <3>2. PICK f \in Handle : f = op[u].handle
      BY <3>1, CallFields DEF IInv, TypeOK, CallInv, Copying
    <3>3. f # h
      BY <1>a, <3>1, <3>2 DEF IInv, ExclusiveInv, CallInv, Uses, Copying
    <3>. QED
      BY <3>1, <3>2, <3>3 DEF Write
  <2>3. ASSUME NEW g \in Handle, \A u \in Thread : ~Writing(u, g)' /\ ~Copying(u, g)'
        PROVE  root'[g] = owned'[g]
    <3>1. CASE g = h
      BY <1>b, <3>1 DEF IInv, TypeOK, Write
    <3>2. CASE g # h
      <4>1. \A u \in Thread : ~Writing(u, g) /\ ~Copying(u, g)
        BY <1>a, <2>3, <3>2 DEF IInv, TypeOK, Write, Goto, Writing, Copying
      <4>. QED
        BY <3>2, <4>1 DEF IInv, TypeOK, RootsInv, Write
    <3>. QED
      BY <3>1, <3>2
  <2>. QED
    BY <2>1, <2>2, <2>3 DEF IInv, RootsInv, Write, Writing, Copying
<1>. QED
  BY <1>1, <1>2, <1>3, <1>4, <1>5, <1>6, <1>7 DEF IInv

\* The second read of a clone shows the root the copy owns.
LEMMA CopyRootInv ==
    ASSUME IInv, NEW t \in Thread, Copy(t)
    PROVE  IInv'
<1>. PICK h, copy \in Handle : h = op[t].handle /\ copy = op[t].copy
  BY CallFields DEF IInv, TypeOK, CallInv, Copy
<1>a. Copying(t, copy) /\ Copies(t, copy) /\ root[h] # Absent /\ root[copy] = Absent
  BY DEF IInv, Copy, Copying, Copies, CallInv, CopyInv, LiveInv, Needs
<1>b. root[h] = owned[copy]
  BY <1>a DEF IInv, RootsInv
<1>1. TypeOK'
  BY <1>a, <1>b DEF IInv, TypeOK, Label, Copy, Goto
<1>2. HeldByOwners'
  BY <1>a, <1>b DEF IInv, HeldByOwners, Copy, Goto
<1>3. CallInv'
  BY <1>a, <1>b DEF IInv, CallInv, TypeOK, Copy, Goto
<1>4. ExclusiveInv'
  BY <1>a, <1>b DEF IInv, ExclusiveInv, Uses, Copies, Copy, Goto
<1>5. LiveInv'
  BY <1>a, <1>b DEF IInv, LiveInv, CallInv, TypeOK, Needs, Copy, Goto
<1>6. CopyInv'
  <2>. SUFFICES ASSUME NEW u \in Thread, NEW g \in Handle, Copies(u, g)', pc'[u] # "return"
                PROVE  root'[g] = Absent
    BY DEF CopyInv
  <2>1. u # t /\ Copies(u, g)
    BY DEF IInv, TypeOK, Copy, Goto, Copies
  <2>2. g # copy
    BY <1>a, <2>1 DEF IInv, ExclusiveInv
  <2>3. root[g] = Absent
    BY <2>1 DEF IInv, TypeOK, CopyInv, Copy, Goto
  <2>. QED
    BY <2>2, <2>3 DEF IInv, TypeOK, Copy
<1>7. RootsInv'
  <2>1. ASSUME NEW u \in Thread, NEW g \in Handle, Writing(u, g)'
        PROVE  u # t /\ Writing(u, g)
    BY <2>1 DEF IInv, TypeOK, Copy, Goto, Writing
  <2>2. ASSUME NEW u \in Thread, NEW g \in Handle, Copying(u, g)'
        PROVE  u # t /\ Copying(u, g) /\ root'[op[u].handle] = root[op[u].handle]
    <3>1. u # t /\ Copying(u, g)
      BY <2>2 DEF IInv, TypeOK, Copy, Goto, Copying
    <3>2. PICK f \in Handle : f = op[u].handle
      BY <3>1, CallFields DEF IInv, TypeOK, CallInv, Copying
    <3>3. f # copy
      BY <1>a, <3>1, <3>2 DEF IInv, LiveInv, Needs, Copying
    <3>. QED
      BY <3>1, <3>2, <3>3 DEF Copy
  <2>3. ASSUME NEW g \in Handle, \A u \in Thread : ~Writing(u, g)' /\ ~Copying(u, g)'
        PROVE  root'[g] = owned'[g]
    <3>1. CASE g = copy
      BY <1>b, <3>1 DEF IInv, TypeOK, Copy
    <3>2. CASE g # copy
      <4>1. \A u \in Thread : ~Writing(u, g) /\ ~Copying(u, g)
        BY <1>a, <2>3, <3>2 DEF IInv, TypeOK, Copy, Goto, Writing, Copying
      <4>. QED
        BY <3>2, <4>1 DEF IInv, TypeOK, RootsInv, Copy
    <3>. QED
      BY <3>1, <3>2
  <2>. QED
    BY <2>1, <2>2, <2>3 DEF IInv, RootsInv, Copy, Writing, Copying
<1>. QED
  BY <1>1, <1>2, <1>3, <1>4, <1>5, <1>6, <1>7 DEF IInv

\* A new handle on the empty root owns what it shows.
LEMMA OpenInv ==
    ASSUME IInv, NEW h \in Handle, Open(h)
    PROVE  IInv'
<1>a. root[h] = Absent /\ owned[h] = Absent /\ \A t \in Thread : ~Copies(t, h)
  <2>1. root[h] = Absent /\ \A t \in Thread : ~Copies(t, h)
    BY DEF Open, Live
  <2>2. \A t \in Thread : ~Copying(t, h)
    BY <2>1 DEF IInv, CallInv, Copying, Copies
  <2>. QED
    BY <2>1, <2>2, AbsentUnowned
<1>1. TypeOK'
  BY EmptyMapType DEF IInv, TypeOK, Label, Open
<1>2. HeldByOwners'
  <2>. SUFFICES ASSUME NEW map \in Map \ {EmptyMap}
                PROVE  held'[map] = Cardinality({ g \in Handle : owned'[g] = map })
    BY DEF HeldByOwners
  <2>1. { g \in Handle : owned'[g] = map } = { g \in Handle : owned[g] = map }
    BY <1>a, TableAssumption DEF IInv, TypeOK, Open
  <2>. QED
    BY <2>1 DEF IInv, HeldByOwners, Open
<1>3. CallInv'
  BY <1>a DEF IInv, CallInv, TypeOK, Open
<1>4. ExclusiveInv'
  BY <1>a DEF IInv, ExclusiveInv, Uses, Copies, Open
<1>5. LiveInv'
  BY EmptyMapType, TableAssumption DEF IInv, LiveInv, CallInv, TypeOK, Needs, Open
<1>6. CopyInv'
  BY <1>a DEF IInv, CopyInv, CallInv, TypeOK, Copies, Open
<1>7. RootsInv'
  <2>1. ASSUME NEW t \in Thread, NEW g \in Handle, Writing(t, g)
        PROVE  g # h
    BY <1>a, <2>1 DEF IInv, LiveInv, Needs, Writing
  <2>2. ASSUME NEW t \in Thread, NEW g \in Handle, Copying(t, g)
        PROVE  g # h /\ root'[op[t].handle] = root[op[t].handle]
    <3>1. op[t].handle \in Handle /\ root[op[t].handle] # Absent
      BY <2>2, CallFields DEF IInv, TypeOK, CallInv, LiveInv, Needs, Copying
    <3>2. g # h
      BY <1>a, <2>2 DEF IInv, CallInv, Copying, Copies
    <3>. QED
      BY <1>a, <3>1, <3>2 DEF IInv, TypeOK, Open
  <2>. QED
    BY <2>1, <2>2 DEF IInv, TypeOK, RootsInv, Open, Writing, Copying
<1>. QED
  BY <1>1, <1>2, <1>3, <1>4, <1>5, <1>6, <1>7 DEF IInv

\* A call that begins finds its handle at rest, since calls on it are serialized.
LEMMA BeginInv ==
    ASSUME IInv, NEW t \in Thread, NEW call \in Call, Exclusive, Begin(t, call)
    PROVE  IInv'
<1>a. /\ call.handle \in Handle
      /\ root[call.handle] # Absent
      /\ \A u \in Thread \ {t} : ~Uses(u, call.handle)
  BY CallFields DEF Begin, Allowed, Live
<1>b. ASSUME call.kind = "clone"
      PROVE  root[call.copy] = Absent /\ \A u \in Thread : ~Copies(u, call.copy)
  BY <1>b, CallFields DEF Begin, Allowed, Live
<1>c. call # Absent /\ pc[t] = "idle" /\ op' = [op EXCEPT ![t] = call]
  BY TableAssumption DEF Begin
<1>1. TypeOK'
  BY TableAssumption DEF IInv, TypeOK, Begin, Goto
<1>2. HeldByOwners'
  BY <1>a, <1>b, <1>c DEF IInv, HeldByOwners, Begin, Goto
<1>3. CallInv'
  BY <1>a, <1>b, <1>c DEF IInv, CallInv, TypeOK, Begin, Goto
<1>4. ExclusiveInv'
  <2>1. ASSUME NEW u \in Thread, NEW g \in Handle
        PROVE  /\ u # t => Uses(u, g)' = Uses(u, g) /\ Copies(u, g)' = Copies(u, g)
               /\ Uses(t, g)' => g = call.handle
               /\ Copies(t, g)' => g = call.copy /\ call.kind = "clone"
    BY <1>c DEF IInv, TypeOK, Uses, Copies
  <2>2. ASSUME NEW u \in Thread, NEW w \in Thread, u # w, NEW g \in Handle
        PROVE  ~(Uses(u, g)' /\ Uses(w, g)') /\ ~(Copies(u, g)' /\ Copies(w, g)')
    <3>1. CASE u # t /\ w # t
      BY <2>1, <2>2, <3>1 DEF IInv, ExclusiveInv
    <3>2. CASE u = t
      BY <1>a, <1>b, <2>1, <2>2, <3>2
    <3>3. CASE w = t
      BY <1>a, <1>b, <2>1, <2>2, <3>3
    <3>. QED
      BY <3>1, <3>2, <3>3
  <2>. QED
    BY <2>2 DEF ExclusiveInv
<1>5. LiveInv'
  BY <1>a, <1>b, <1>c DEF IInv, LiveInv, CallInv, TypeOK, Needs, Begin, Goto
<1>6. CopyInv'
  BY <1>a, <1>b, <1>c DEF IInv, CopyInv, CallInv, TypeOK, Copies, Begin, Goto
<1>7. RootsInv'
  BY <1>a, <1>b, <1>c DEF IInv, RootsInv, CallInv, TypeOK, Writing, Copying, Begin, Goto
<1>. QED
  BY <1>1, <1>2, <1>3, <1>4, <1>5, <1>6, <1>7 DEF IInv

\* Applying a batch moves the reference of the handle to the new root.
LEMMA ApplyInv ==
    ASSUME IInv, NEW t \in Thread, Apply(t)
    PROVE  IInv'
<1>. PICK h \in Handle : h = op[t].handle
  BY WorkOnOwned, CallFields DEF Apply
<1>. DEFINE old == root[h]
            new == Updated(old, op[t].batch)
<1>a. old \in Map /\ old = owned[h] /\ op[t] \in Call /\ op[t].kind = "execute" /\ pc[t] = "work"
  BY WorkOnOwned DEF Apply
<1>b. new \in Map /\ Answers(old, op[t].batch) \in Map
  BY <1>a, CallFields, UpdatedType
<1>c. /\ held' = IF new = old THEN held ELSE Minus(Plus(held, new), old)
      /\ result' = [result EXCEPT ![t] = [root |-> new, answers |-> Answers(old, op[t].batch)]]
      /\ owned' = [owned EXCEPT ![h] = new]
      /\ pc' = [pc EXCEPT ![t] = "restore"]
      /\ UNCHANGED <<lender, root, op, calls>>
  BY DEF Apply, Goto
<1>. HIDE DEF old, new
<1>d. HeldByOwners' /\ held' \in [Map -> Nat]
  <2>1. CASE new = old
    <3>1. held' = held /\ owned' = owned
      BY <1>a, <1>c, <2>1 DEF IInv, TypeOK
    <3>. QED
      BY <3>1 DEF IInv, TypeOK, HeldByOwners
  <2>2. CASE new # old
    <3>1. held' = Minus(Plus(held, new), old) /\ held \in [Map -> Nat] /\ EmptyMap \in Map
      BY <1>c, <2>2, EmptyMapType DEF IInv, TypeOK
    <3>2. held' \in [Map -> Int] /\ held'[EmptyMap] = held[EmptyMap]
      BY <1>a, <1>b, <2>2, <3>1 DEF Minus, Plus
    <3>3. \A map \in Map \ {EmptyMap} :
             held'[map] = IF map = new THEN held[map] + 1
                          ELSE IF map = owned[h] THEN held[map] - 1
                          ELSE held[map]
      BY <1>a, <1>b, <2>2, <3>1 DEF Minus, Plus
    <3>. QED
      <4>1. TypeOK /\ HeldByOwners /\ new \in Label /\ new # owned[h]
        BY <1>a, <1>b, <2>2 DEF IInv, Label
      <4>2. owned' = [owned EXCEPT ![h] = new]
        BY <1>c
      <4>. QED
        BY <3>2, <3>3, <4>1, <4>2, CountsFollow
  <2>. QED
    BY <2>1, <2>2
<1>1. TypeOK'
  BY <1>b, <1>c, <1>d DEF IInv, TypeOK, Label
<1>2. HeldByOwners'
  BY <1>d
<1>3. CallInv'
  BY <1>a, <1>c DEF IInv, CallInv, TypeOK
<1>4. ExclusiveInv'
  BY <1>c DEF IInv, ExclusiveInv, Uses, Copies
<1>5. LiveInv'
  BY <1>a, <1>c DEF IInv, LiveInv, CallInv, TypeOK, Needs
<1>6. CopyInv'
  BY <1>a, <1>c DEF IInv, CopyInv, CallInv, TypeOK, Copies
<1>7. RootsInv'
  <2>1. Writing(t, h)' /\ result'[t] \in [root : Map, answers : Map]
        /\ result'[t].root = owned'[h]
    BY <1>a, <1>b, <1>c DEF IInv, TypeOK, Writing
  <2>2. ASSUME NEW u \in Thread, NEW g \in Handle, Writing(u, g)', u # t
        PROVE  g # h /\ Writing(u, g) /\ result'[u] = result[u]
    <3>1. Writing(u, g)
      BY <1>c, <2>2 DEF IInv, TypeOK, Writing
    <3>2. Uses(u, g) /\ Uses(t, h)
      BY <1>a, <3>1, TableAssumption DEF IInv, CallInv, Uses, Writing
    <3>. QED
      BY <1>c, <2>2, <3>1, <3>2 DEF IInv, TypeOK, ExclusiveInv
  <2>3. ASSUME NEW u \in Thread, NEW g \in Handle, Copying(u, g)'
        PROVE  g # h /\ Copying(u, g)
    <3>1. Copying(u, g)
      BY <1>a, <1>c, <2>3 DEF IInv, TypeOK, Copying
    <3>2. root[g] = Absent
      BY <3>1 DEF IInv, CallInv, CopyInv, Copying, Copies
    <3>. QED
      BY <1>a, <3>1, <3>2, TableAssumption DEF old
  <2>4. ASSUME NEW g \in Handle, g # h, \A u \in Thread : ~Writing(u, g)' /\ ~Copying(u, g)'
        PROVE  root'[g] = owned'[g]
    <3>1. \A u \in Thread : ~Writing(u, g) /\ ~Copying(u, g)
      BY <1>a, <1>c, <2>4 DEF IInv, TypeOK, Writing, Copying
    <3>. QED
      BY <1>c, <2>4, <3>1 DEF IInv, TypeOK, RootsInv
  <2>. QED
    <3>1. \A g \in Handle : Writing(t, g)' => g = h
      BY <1>c DEF Writing
    <3>2. ASSUME NEW g \in Handle, \A u \in Thread : ~Writing(u, g)' /\ ~Copying(u, g)'
          PROVE  root'[g] = owned'[g]
      BY <2>1, <2>4, <3>2
    <3>3. ASSUME NEW g \in Handle, NEW u \in Thread, Writing(u, g)'
          PROVE  result'[u] \in [root : Map, answers : Map] /\ result'[u].root = owned'[g]
      BY <1>c, <2>1, <2>2, <3>1, <3>3 DEF IInv, TypeOK, RootsInv
    <3>4. ASSUME NEW g \in Handle, NEW u \in Thread, Copying(u, g)'
          PROVE  owned'[g] = root'[op'[u].handle]
      BY <1>c, <2>3, <3>4 DEF IInv, TypeOK, RootsInv
    <3>. QED
      BY <3>2, <3>3, <3>4 DEF RootsInv
<1>. QED
  BY <1>1, <1>2, <1>3, <1>4, <1>5, <1>6, <1>7 DEF IInv

\* A clone takes a reference for its copy, which owned none.
LEMMA CloneInv ==
    ASSUME IInv, NEW t \in Thread, CloneRoot(t)
    PROVE  IInv'
<1>. PICK h, copy \in Handle : h = op[t].handle /\ copy = op[t].copy
  BY WorkOnOwned, CallFields DEF CloneRoot
<1>. DEFINE label == root[h]
<1>a. label \in Map /\ op[t] \in Call /\ op[t].kind = "clone" /\ pc[t] = "work"
  BY WorkOnOwned DEF CloneRoot
<1>b. /\ held' = Plus(held, label)
      /\ owned' = [owned EXCEPT ![copy] = label]
      /\ pc' = [pc EXCEPT ![t] = "restore"]
      /\ UNCHANGED <<lender, root, op, result, calls>>
  BY DEF CloneRoot, Goto
<1>c. root[copy] = Absent /\ owned[copy] = Absent
  <2>1. Copies(t, copy)
    BY <1>a, TableAssumption DEF Copies
  <2>2. root[copy] = Absent
    BY <1>a, <2>1 DEF IInv, CopyInv
  <2>3. \A u \in Thread : ~Copying(u, copy)
    BY <1>a, <2>1, TableAssumption DEF IInv, ExclusiveInv, CallInv, Copies, Copying
  <2>. QED
    BY <2>2, <2>3, AbsentUnowned
<1>. HIDE DEF label
<1>d. HeldByOwners' /\ held' \in [Map -> Nat]
  <2>1. held \in [Map -> Nat] /\ EmptyMap \in Map /\ TypeOK /\ HeldByOwners
    BY EmptyMapType DEF IInv, TypeOK
  <2>2. held' \in [Map -> Int] /\ held'[EmptyMap] = held[EmptyMap]
    BY <1>a, <1>b, <2>1 DEF Plus
  <2>3. \A map \in Map \ {EmptyMap} :
           held'[map] = IF map = label THEN held[map] + 1
                        ELSE IF map = owned[copy] THEN held[map] - 1
                        ELSE held[map]
    BY <1>a, <1>b, <1>c, <2>1, TableAssumption DEF Plus
  <2>4. label \in Label /\ label # owned[copy]
    BY <1>a, <1>c, TableAssumption DEF Label
  <2>. QED
    BY <1>b, <2>1, <2>2, <2>3, <2>4, CountsFollow
<1>1. TypeOK'
  BY <1>a, <1>b, <1>d DEF IInv, TypeOK, Label
<1>2. HeldByOwners'
  BY <1>d
<1>3. CallInv'
  BY <1>a, <1>b DEF IInv, CallInv, TypeOK
<1>4. ExclusiveInv'
  BY <1>b DEF IInv, ExclusiveInv, Uses, Copies
<1>5. LiveInv'
  BY <1>a, <1>b DEF IInv, LiveInv, CallInv, TypeOK, Needs
<1>6. CopyInv'
  BY <1>a, <1>b DEF IInv, CopyInv, CallInv, TypeOK, Copies
<1>7. RootsInv'
  <2>1. Copying(t, copy)' /\ owned'[copy] = root'[op'[t].handle]
    BY <1>a, <1>b DEF IInv, TypeOK, Copying, label
  <2>2. ASSUME NEW u \in Thread, NEW g \in Handle, Writing(u, g)'
        PROVE  g # copy /\ Writing(u, g)
    <3>1. Writing(u, g)
      BY <1>a, <1>b, <2>2 DEF IInv, TypeOK, Writing
    <3>. QED
      BY <1>c, <3>1 DEF IInv, LiveInv, Needs, Writing
  <2>3. ASSUME NEW u \in Thread, NEW g \in Handle, Copying(u, g)', u # t
        PROVE  g # copy /\ Copying(u, g)
    <3>1. Copying(u, g)
      BY <1>b, <2>3 DEF IInv, TypeOK, Copying
    <3>2. Copies(u, g) /\ Copies(t, copy)
      BY <1>a, <3>1, TableAssumption DEF IInv, CallInv, Copies, Copying
    <3>. QED
      BY <2>3, <3>1, <3>2 DEF IInv, ExclusiveInv
  <2>4. ASSUME NEW g \in Handle, g # copy, \A u \in Thread : ~Writing(u, g)' /\ ~Copying(u, g)'
        PROVE  root'[g] = owned'[g]
    <3>1. \A u \in Thread : ~Writing(u, g) /\ ~Copying(u, g)
      BY <1>a, <1>b, <2>4 DEF IInv, TypeOK, Writing, Copying
    <3>. QED
      BY <1>b, <2>4, <3>1 DEF IInv, TypeOK, RootsInv
  <2>. QED
    <3>1. \A g \in Handle : Copying(t, g)' => g = copy
      BY <1>b DEF Copying
    <3>2. ASSUME NEW g \in Handle, \A u \in Thread : ~Writing(u, g)' /\ ~Copying(u, g)'
          PROVE  root'[g] = owned'[g]
      BY <2>1, <2>4, <3>2
    <3>3. ASSUME NEW g \in Handle, NEW u \in Thread, Writing(u, g)'
          PROVE  result'[u] \in [root : Map, answers : Map] /\ result'[u].root = owned'[g]
      BY <1>b, <2>2, <3>3 DEF IInv, TypeOK, RootsInv
    <3>4. ASSUME NEW g \in Handle, NEW u \in Thread, Copying(u, g)'
          PROVE  owned'[g] = root'[op'[u].handle]
      BY <1>b, <2>1, <2>3, <3>1, <3>4 DEF IInv, TypeOK, RootsInv
    <3>. QED
      BY <3>2, <3>3, <3>4 DEF RootsInv
<1>. QED
  BY <1>1, <1>2, <1>3, <1>4, <1>5, <1>6, <1>7 DEF IInv

\* A drop gives back the reference its handle owned.
LEMMA DropInv ==
    ASSUME IInv, NEW t \in Thread, DropRoot(t)
    PROVE  IInv'
<1>. PICK h \in Handle : h = op[t].handle
  BY WorkOnOwned, CallFields DEF DropRoot
<1>a. root[h] \in Map /\ root[h] = owned[h] /\ op[t] \in Call /\ op[t].kind = "drop" /\ pc[t] = "work"
  BY WorkOnOwned DEF DropRoot
<1>b. /\ held' = Minus(held, owned[h])
      /\ root' = [root EXCEPT ![h] = Absent]
      /\ owned' = [owned EXCEPT ![h] = Absent]
      /\ pc' = [pc EXCEPT ![t] = "restore"]
      /\ UNCHANGED <<lender, op, result, calls>>
  BY <1>a DEF DropRoot, Goto
<1>c. \A u \in Thread \ {t} : ~Uses(u, h)
  BY <1>a, TableAssumption DEF IInv, ExclusiveInv, Uses
<1>d. HeldByOwners' /\ held' \in [Map -> Nat]
  <2>1. held \in [Map -> Nat] /\ EmptyMap \in Map /\ TypeOK /\ HeldByOwners
    BY EmptyMapType DEF IInv, TypeOK
  <2>2. held' \in [Map -> Int] /\ held'[EmptyMap] = held[EmptyMap]
    BY <1>a, <1>b, <2>1 DEF Minus
  <2>3. \A map \in Map \ {EmptyMap} :
           held'[map] = IF map = Absent THEN held[map] + 1
                        ELSE IF map = owned[h] THEN held[map] - 1
                        ELSE held[map]
    BY <1>a, <1>b, <2>1, TableAssumption DEF Minus
  <2>4. Absent \in Label /\ Absent # owned[h]
    BY <1>a, TableAssumption DEF Label
  <2>. QED
    BY <1>b, <2>1, <2>2, <2>3, <2>4, CountsFollow
<1>1. TypeOK'
  BY <1>a, <1>b, <1>d DEF IInv, TypeOK, Label
<1>2. HeldByOwners'
  BY <1>d
<1>3. CallInv'
  BY <1>a, <1>b DEF IInv, CallInv, TypeOK
<1>4. ExclusiveInv'
  BY <1>b DEF IInv, ExclusiveInv, Uses, Copies
<1>5. LiveInv'
  <2>. SUFFICES ASSUME NEW u \in Thread, Needs(u)' PROVE root'[op'[u].handle] # Absent
    BY DEF LiveInv
  <2>1. u # t /\ Needs(u)
    BY <1>a, <1>b DEF IInv, TypeOK, Needs
  <2>2. op[u].handle # h
    BY <1>c, <2>1 DEF IInv, CallInv, Needs, Uses
  <2>3. root[op[u].handle] # Absent
    BY <2>1 DEF IInv, LiveInv
  <2>. QED
    BY <1>b, <2>2, <2>3 DEF IInv, TypeOK
<1>6. CopyInv'
  BY <1>a, <1>b DEF IInv, CopyInv, CallInv, TypeOK, Copies
<1>7. RootsInv'
  <2>1. ASSUME NEW u \in Thread, NEW g \in Handle, Writing(u, g)'
        PROVE  g # h /\ Writing(u, g)
    <3>1. Writing(u, g) /\ u # t
      BY <1>a, <1>b, <2>1 DEF IInv, TypeOK, Writing
    <3>. QED
      BY <1>c, <3>1 DEF IInv, CallInv, Uses, Writing
  <2>2. ASSUME NEW u \in Thread, NEW g \in Handle, Copying(u, g)'
        PROVE  g # h /\ Copying(u, g) /\ root'[op[u].handle] = root[op[u].handle]
    <3>1. Copying(u, g) /\ u # t
      BY <1>a, <1>b, <2>2 DEF IInv, TypeOK, Copying
    <3>2. root[g] = Absent /\ op[u].handle # h
      BY <1>c, <3>1 DEF IInv, CallInv, CopyInv, Copying, Copies, Uses
    <3>. QED
      BY <1>a, <1>b, <3>1, <3>2, TableAssumption DEF IInv, TypeOK
  <2>3. ASSUME NEW g \in Handle, \A u \in Thread : ~Writing(u, g)' /\ ~Copying(u, g)'
        PROVE  root'[g] = owned'[g]
    <3>1. CASE g = h
      BY <1>b, <3>1 DEF IInv, TypeOK
    <3>2. CASE g # h
      <4>1. \A u \in Thread : ~Writing(u, g) /\ ~Copying(u, g)
        BY <1>a, <1>b, <2>3 DEF IInv, TypeOK, Writing, Copying
      <4>. QED
        BY <1>b, <3>2, <4>1 DEF IInv, TypeOK, RootsInv
    <3>. QED
      BY <3>1, <3>2
  <2>. QED
    <3>1. ASSUME NEW g \in Handle, NEW u \in Thread, Writing(u, g)'
          PROVE  result'[u] \in [root : Map, answers : Map] /\ result'[u].root = owned'[g]
      BY <1>b, <2>1, <3>1 DEF IInv, TypeOK, RootsInv
    <3>2. ASSUME NEW g \in Handle, NEW u \in Thread, Copying(u, g)'
          PROVE  owned'[g] = root'[op'[u].handle]
      BY <1>b, <2>2, <3>2 DEF IInv, TypeOK, RootsInv
    <3>. QED
      BY <2>3, <3>1, <3>2 DEF RootsInv
<1>. QED
  BY <1>1, <1>2, <1>3, <1>4, <1>5, <1>6, <1>7 DEF IInv

-----------------------------------------------------------------------------
(***************************************************************************)
(* The theorems.                                                           *)
(***************************************************************************)

\* Every step of a thread keeps the invariant; a call never meets the panic of
\* a root that is gone.
LEMMA StepInv ==
    ASSUME IInv, NEW t \in Thread, Step(t)
    PROVE  IInv'
<1>1. CASE Take(t)
  BY <1>1, TakeInv
<1>2. CASE Backup(t)
  BY <1>2, BackupInv
<1>3. CASE Apply(t)
  BY <1>3, ApplyInv
<1>4. CASE CloneRoot(t)
  BY <1>4, CloneInv
<1>5. CASE DropRoot(t)
  BY <1>5, DropInv
<1>6. CASE ExportRoot(t)
  BY <1>6, ExportInv
<1>7. CASE Panics(t)
  BY <1>7, PanicInv DEF Panics
<1>8. CASE Restore(t)
  BY <1>8, RestoreInv
<1>9. CASE Write(t)
  BY <1>9, WriteInv
<1>10. CASE Copy(t)
  BY <1>10, CopyRootInv
<1>11. CASE Return(t)
  BY <1>11, ReturnInv
<1>. QED
  BY <1>1, <1>2, <1>3, <1>4, <1>5, <1>6, <1>7, <1>8, <1>9, <1>10, <1>11
     DEF Step

\* The inductive invariant holds as long as calls on one handle are serialized.
THEOREM Inductive == Exclusive => (Spec => []IInv)
<1>. SUFFICES ASSUME Exclusive PROVE Spec => []IInv
  OBVIOUS
<1>1. Init => IInv
  BY InitInv
<1>2. IInv /\ [Next]_vars => IInv'
  <2>. SUFFICES ASSUME IInv, [Next]_vars PROVE IInv'
    OBVIOUS
  <2>1. ASSUME NEW h \in Handle, Open(h) PROVE IInv'
    BY <2>1, OpenInv
  <2>2. ASSUME NEW t \in Thread, NEW call \in Call, Begin(t, call) PROVE IInv'
    BY <2>2, BeginInv
  <2>3. ASSUME NEW t \in Thread, Step(t) PROVE IInv'
    BY <2>3, StepInv
  <2>4. CASE UNCHANGED vars
    BY <2>4 DEF vars, IInv, TypeOK, HeldByOwners, CallInv, ExclusiveInv, LiveInv,
                CopyInv, RootsInv, Uses, Copies, Needs, Writing, Copying
  <2>. QED
    BY <2>1, <2>2, <2>3, <2>4 DEF Next
<1>. QED
  BY <1>1, <1>2, PTL DEF Spec

\* Type correctness; in particular no count is taken below zero, where the
\* unsigned subtraction of Store::decref would wrap around.
THEOREM TypeCorrect == Exclusive => (Spec => []TypeOK)
<1>1. IInv => TypeOK
  BY DEF IInv
<1>. QED
  BY <1>1, Inductive, PTL

\* If calls on one handle are serialized, no thread reaches the `unreachable!`
\* of apply::get, nor the panics of Store::incref and Store::decref, however
\* many tables and threads share the store.
THEOREM NeverUnreachable == Exclusive => (Spec => []NoUnreachable)
<1>1. IInv => NoUnreachable
  BY OwnedIsStored
<1>. QED
  BY <1>1, Inductive, PTL

\* The count of every root is the number of handles that own it: dropping
\* all of them empties the store, and no earlier drop removes a root.
THEOREM CountsExact == Exclusive => (Spec => []HeldByOwners)
<1>1. IInv => HeldByOwners
  BY DEF IInv
<1>. QED
  BY <1>1, Inductive, PTL

\* A handle at rest shows the root it owns.
THEOREM RestShowsOwned == Exclusive => (Spec => []RootsOwned)
<1>1. IInv => RootsOwned
  BY DEF IInv, CallInv, RootsInv, RootsOwned, Writing, Copying, Uses, Copies
<1>. QED
  BY <1>1, Inductive, PTL

-----------------------------------------------------------------------------
(***************************************************************************)
(* What the lender guarantees whatever the callers do.                     *)
(***************************************************************************)
Borrows(t) == pc[t] \in {"backup", "work", "restore"}

LenderInv ==
    /\ pc \in [Thread -> {"idle", "take", "backup", "work", "restore", "write",
                          "copy", "return", "panicked"}]
    /\ \A t \in Thread : Borrows(t) <=> lender = t

\* Even for callers that share a handle, the thread between its `take` and its
\* `restore` is the only one to touch the store, and a store lost to a panic
\* stays lost.
THEOREM OneBorrower == Spec => []LenderInv /\ [][lender = Lost => lender' = Lost]_lender
<1>1. Init => LenderInv
  BY TableAssumption DEF Init, LenderInv, Borrows
<1>2. LenderInv /\ [Next]_vars => LenderInv'
  <2>. SUFFICES ASSUME LenderInv, [Next]_vars PROVE LenderInv'
    OBVIOUS
  <2>1. ASSUME NEW h \in Handle, Open(h) PROVE LenderInv'
    BY <2>1 DEF LenderInv, Borrows, Open
  <2>2. ASSUME NEW t \in Thread, NEW call \in Call, Begin(t, call) PROVE LenderInv'
    BY <2>2 DEF LenderInv, Borrows, Begin, Goto
  <2>3. ASSUME NEW t \in Thread, Take(t) PROVE LenderInv'
    BY <2>3, TableAssumption DEF LenderInv, Borrows, Take, Goto
  <2>4. ASSUME NEW t \in Thread, Restore(t) PROVE LenderInv'
    BY <2>4, TableAssumption DEF LenderInv, Borrows, Restore, Goto
  <2>5. ASSUME NEW t \in Thread, Panics(t) PROVE LenderInv'
    BY <2>5, TableAssumption DEF LenderInv, Borrows, Panics, PanicOf, Goto
  <2>6. ASSUME NEW t \in Thread,
               Backup(t) \/ Apply(t) \/ CloneRoot(t) \/ DropRoot(t) \/ ExportRoot(t)
        PROVE  LenderInv'
    BY <2>6 DEF LenderInv, Borrows, Backup, Apply, CloneRoot, DropRoot, ExportRoot, Goto
  <2>7. ASSUME NEW t \in Thread, Write(t) \/ Copy(t) \/ Return(t) PROVE LenderInv'
    BY <2>7 DEF LenderInv, Borrows, Write, Copy, Return, Goto
  <2>8. CASE UNCHANGED vars
    BY <2>8 DEF vars, LenderInv, Borrows
  <2>. QED
    BY <2>1, <2>2, <2>3, <2>4, <2>5, <2>6, <2>7, <2>8 DEF Next, Step
<1>3. LenderInv /\ [Next]_vars => [lender = Lost => lender' = Lost]_lender
  <2>. SUFFICES ASSUME LenderInv, Next, lender = Lost PROVE lender' = Lost
    BY DEF vars
  <2>1. \A t \in Thread : ~Borrows(t)
    BY TableAssumption DEF LenderInv
  <2>. QED
    BY <2>1, TableAssumption
       DEF Next, Step, Open, Begin, Take, Backup, Panics, Apply, CloneRoot,
           DropRoot, ExportRoot, Restore, Write, Copy, Return,
           Borrows, PanicOf
<1>. QED
  BY <1>1, <1>2, <1>3, PTL DEF Spec

-----------------------------------------------------------------------------
(***************************************************************************)
(* Table implements KeyValue, for every value of its constants, as long as *)
(* calls on one handle are serialized: a transaction takes effect when its *)
(* batch is applied, a clone when its reference is taken.                  *)
(***************************************************************************)

\* A result waits for its caller from the end of apply to the return.
ResultInv ==
    /\ \A t \in Thread : result[t] # Absent => pc[t] \in {"restore", "write", "return"}
    /\ \A t \in Thread : pc[t] = "restore" /\ op[t].kind # "execute" => result[t] = Absent

RInv == IInv /\ ResultInv

\* The variables of KeyValue, as Table has them.
Waiting(t) ==
    /\ op[t] # Absent
    /\ op[t].kind = "execute"
    /\ pc[t] \in {"take", "backup", "work", "panicked"}

callBar == [t \in Thread |->
    IF Waiting(t) THEN [handle |-> op[t].handle, batch |-> op[t].batch] ELSE Absent]

replyBar == [t \in Thread |-> IF result[t] = Absent THEN Absent ELSE result[t].answers]

Mapped == Maps!Next \/ UNCHANGED Maps!vars

\* A step that neither moves a reference nor starts or ends a transaction is a
\* step of KeyValue that changes nothing.
LEMMA Stutter ==
    ASSUME UNCHANGED owned, callBar' = callBar, replyBar' = replyBar
    PROVE  Mapped
  BY DEF Mapped, Maps!vars, callBar, replyBar, Waiting

\* Opening a handle opens a table.
LEMMA OpenMaps ==
    ASSUME RInv, NEW h \in Handle, Open(h)
    PROVE  Mapped
<1>1. owned[h] = Absent
  <2>1. root[h] = Absent /\ \A t \in Thread : ~Copies(t, h)
    BY DEF Open, Live
  <2>2. \A t \in Thread : ~Copying(t, h)
    BY <2>1 DEF RInv, IInv, CallInv, Copying, Copies
  <2>. QED
    BY <2>1, <2>2, AbsentUnowned DEF RInv
<1>2. Maps!Open(h)
  BY <1>1 DEF Open, Maps!Open, Maps!Live, Maps!EmptyMap, EmptyMap
<1>. QED
  BY <1>2 DEF Mapped, Maps!Next

\* A call that begins submits its transaction, if it has one, to a table that
\* is there.
LEMMA BeginMaps ==
    ASSUME Exclusive, RInv, NEW t \in Thread, NEW call \in Call, Begin(t, call)
    PROVE  Mapped
<1>. DEFINE h == call.handle
<1>1. h \in Handle /\ op[t] = Absent /\ result[t] = Absent /\ pc[t] = "idle"
  BY CallFields DEF RInv, ResultInv, IInv, CallInv, Begin
<1>2. op' = [op EXCEPT ![t] = call] /\ pc' = [pc EXCEPT ![t] = "take"]
      /\ UNCHANGED <<owned, result>>
  BY DEF Begin, Goto
<1>3. call # Absent
  BY TableAssumption
<1>4. CASE call.kind # "execute"
  <2>1. \A u \in Thread : Waiting(u)' = Waiting(u) /\ (Waiting(u) => op'[u] = op[u])
    BY <1>1, <1>2, <1>4 DEF RInv, IInv, TypeOK, Waiting
  <2>2. callBar' = callBar /\ replyBar' = replyBar
    BY <1>2, <2>1 DEF callBar, replyBar
  <2>. QED
    BY <1>2, <2>2, Stutter
<1>5. CASE call.kind = "execute"
  <2>1. owned[h] # Absent
    <3>1. root[h] # Absent /\ \A u \in Thread : ~Uses(u, h)
      BY <1>1 DEF Begin, Allowed, Live, Uses
    <3>2. \A u \in Thread : ~Writing(u, h) /\ ~Copying(u, h)
      BY <1>1, <3>1 DEF RInv, IInv, CallInv, CopyInv, Uses, Copies, Writing, Copying
    <3>. QED
      BY <1>1, <3>1, <3>2 DEF RInv, IInv, RootsInv
  <2>2. callBar' = [callBar EXCEPT ![t] = [handle |-> h, batch |-> call.batch]]
    <3>1. \A u \in Thread : u # t => Waiting(u)' = Waiting(u) /\ op'[u] = op[u]
      BY <1>2 DEF RInv, IInv, TypeOK, Waiting
    <3>2. Waiting(t)' /\ op'[t] = call
      BY <1>2, <1>3, <1>5 DEF RInv, IInv, TypeOK, Waiting
    <3>. QED
      BY <3>1, <3>2 DEF callBar
  <2>3. callBar[t] = Absent /\ replyBar[t] = Absent /\ replyBar' = replyBar
    BY <1>1, <1>2 DEF callBar, replyBar, Waiting
  <2>4. Maps!Submit(t, h, call.batch)
    BY <1>1, <1>2, <2>1, <2>2, <2>3
       DEF Maps!Submit, Maps!Live, callBar, replyBar, Waiting
  <2>5. call.batch \in Batch
    BY <1>5, CallFields
  <2>. QED
    BY <1>1, <2>4, <2>5 DEF Mapped, Maps!Next
<1>. QED
  BY <1>4, <1>5

\* Applying the batch executes the transaction on the map the handle owns.
LEMMA ApplyMaps ==
    ASSUME RInv, NEW t \in Thread, Apply(t)
    PROVE  Mapped
<1>. PICK h \in Handle : h = op[t].handle
  BY WorkOnOwned, CallFields DEF RInv, Apply
<1>. DEFINE batch == op[t].batch
<1>1. /\ op[t] \in Call /\ op[t].kind = "execute" /\ pc[t] = "work"
      /\ root[h] \in Map /\ root[h] = owned[h]
  BY WorkOnOwned DEF RInv, Apply
<1>2. /\ result' = [result EXCEPT ![t] = [root |-> Updated(owned[h], batch),
                                          answers |-> Answers(owned[h], batch)]]
      /\ owned' = [owned EXCEPT ![h] = Updated(owned[h], batch)]
      /\ pc' = [pc EXCEPT ![t] = "restore"]
      /\ op' = op
  BY <1>1 DEF Apply, Goto
<1>3. batch \in Batch /\ Updated(owned[h], batch) \in Map /\ Answers(owned[h], batch) \in Map
  BY <1>1, CallFields, UpdatedType
<1>4. callBar[t] = [handle |-> h, batch |-> batch]
  BY <1>1, TableAssumption DEF callBar, Waiting
<1>5. callBar' = [callBar EXCEPT ![t] = Absent]
  <2>1. \A u \in Thread : u # t => Waiting(u)' = Waiting(u)
    BY <1>2 DEF RInv, IInv, TypeOK, Waiting
  <2>2. ~Waiting(t)'
    BY <1>2 DEF RInv, IInv, TypeOK, Waiting
  <2>. QED
    BY <1>2, <2>1, <2>2 DEF callBar
<1>6. replyBar' = [replyBar EXCEPT ![t] = Answers(owned[h], batch)]
  <2>1. result'[t] # Absent /\ result'[t].answers = Answers(owned[h], batch)
    <3>1. result'[t] \in [root : Map, answers : Map]
      BY <1>2, <1>3 DEF RInv, IInv, TypeOK
    <3>. QED
      BY <1>2, <3>1, TableAssumption DEF RInv, IInv, TypeOK
  <2>2. \A u \in Thread : u # t => result'[u] = result[u]
    BY <1>2 DEF RInv, IInv, TypeOK
  <2>. QED
    BY <2>1, <2>2 DEF replyBar
<1>7. /\ Maps!Updated(owned[h], batch) = Updated(owned[h], batch)
      /\ Maps!Answers(owned[h], batch) = Answers(owned[h], batch)
  BY DEF Maps!Updated, Updated, Maps!Answers, Answers
<1>8. callBar[t] # Absent
  <2>1. callBar[t] \in [handle : Handle, batch : Batch]
    BY <1>3, <1>4
  <2>. QED
    BY <2>1, TableAssumption
<1>9. Maps!Execute(t)
  BY <1>2, <1>4, <1>5, <1>6, <1>7, <1>8
     DEF Maps!Execute, callBar, replyBar, Waiting
<1>. QED
  BY <1>9 DEF Mapped, Maps!Next

\* Taking the reference of a clone makes the copy a table of its own.
LEMMA CloneMaps ==
    ASSUME RInv, NEW t \in Thread, CloneRoot(t)
    PROVE  Mapped
<1>. PICK h, copy \in Handle : h = op[t].handle /\ copy = op[t].copy
  BY WorkOnOwned, CallFields DEF RInv, CloneRoot
<1>1. /\ op[t] \in Call /\ op[t].kind = "clone" /\ pc[t] = "work"
      /\ root[h] \in Map /\ root[h] = owned[h]
  BY WorkOnOwned DEF RInv, CloneRoot
<1>2. Copies(t, copy) /\ root[copy] = Absent
  BY <1>1, TableAssumption DEF RInv, IInv, CopyInv, Copies
<1>3. \A u \in Thread : ~Copying(u, copy)
  BY <1>1, <1>2, TableAssumption DEF RInv, IInv, ExclusiveInv, CallInv, Copies, Copying
<1>4. owned[copy] = Absent /\ owned[h] # Absent
  BY <1>1, <1>2, <1>3, AbsentUnowned, TableAssumption DEF RInv
<1>5. callBar' = callBar /\ replyBar' = replyBar
  <2>1. \A u \in Thread : Waiting(u)' = Waiting(u)
    BY <1>1 DEF RInv, IInv, TypeOK, CloneRoot, Goto, Waiting
  <2>. QED
    BY <2>1 DEF CloneRoot, callBar, replyBar
<1>6. Maps!Clone(h, copy)
  BY <1>1, <1>4, <1>5 DEF CloneRoot, Maps!Clone, Maps!Live, callBar, replyBar, Waiting
<1>. QED
  BY <1>6 DEF Mapped, Maps!Next

\* Dropping a handle drops its table, which nobody waits for.
LEMMA DropMaps ==
    ASSUME RInv, NEW t \in Thread, DropRoot(t)
    PROVE  Mapped
<1>. PICK h \in Handle : h = op[t].handle
  BY WorkOnOwned, CallFields DEF RInv, DropRoot
<1>1. /\ op[t] \in Call /\ op[t].kind = "drop" /\ pc[t] = "work"
      /\ root[h] \in Map /\ root[h] = owned[h]
  BY WorkOnOwned DEF RInv, DropRoot
<1>2. owned[h] # Absent
  BY <1>1, TableAssumption
<1>3. \A u \in Thread : Waiting(u) => op[u].handle # h
  BY <1>1, TableAssumption DEF RInv, IInv, ExclusiveInv, Uses, Waiting
<1>4. \A u \in Thread : callBar[u] # Absent => callBar[u].handle # h
  BY <1>3 DEF callBar
<1>5. callBar' = callBar /\ replyBar' = replyBar
  <2>1. \A u \in Thread : Waiting(u)' = Waiting(u)
    BY <1>1 DEF RInv, IInv, TypeOK, DropRoot, Goto, Waiting
  <2>. QED
    BY <2>1 DEF DropRoot, callBar, replyBar
<1>6. Maps!Drop(h)
  BY <1>1, <1>2, <1>4, <1>5 DEF DropRoot, Maps!Drop, Maps!Live, callBar, replyBar, Waiting
<1>. QED
  BY <1>6 DEF Mapped, Maps!Next

\* A call that returns hands its answers over, if it has any.
LEMMA ReturnMaps ==
    ASSUME RInv, NEW t \in Thread, Return(t)
    PROVE  Mapped
<1>1. callBar' = callBar
  <2>1. \A u \in Thread : Waiting(u)' = Waiting(u) /\ (Waiting(u) => op'[u] = op[u])
    BY DEF RInv, IInv, TypeOK, Return, Goto, Waiting
  <2>. QED
    BY <2>1 DEF callBar
<1>2. CASE result[t] = Absent
  <2>1. result' = result /\ owned' = owned
    BY <1>2 DEF RInv, IInv, TypeOK, Return
  <2>2. replyBar' = replyBar
    BY <2>1 DEF replyBar
  <2>. QED
    BY <1>1, <2>1, <2>2, Stutter
<1>3. CASE result[t] # Absent
  <2>1. replyBar[t] \in Map
    BY <1>3 DEF RInv, IInv, TypeOK, replyBar
  <2>2. replyBar[t] # Absent
    BY <2>1, TableAssumption
  <2>3. replyBar' = [replyBar EXCEPT ![t] = Absent]
    BY DEF RInv, IInv, TypeOK, Return, replyBar
  <2>4. Maps!Return(t)
    BY <1>1, <2>2, <2>3 DEF Return, Maps!Return, callBar, replyBar, Waiting
  <2>. QED
    BY <2>4 DEF Mapped, Maps!Next
<1>. QED
  BY <1>2, <1>3

\* The other steps of a call are internal to it.
LEMMA InternalMaps ==
    ASSUME RInv, NEW t \in Thread,
           \/ Take(t) \/ Backup(t) \/ ExportRoot(t) \/ Panics(t)
           \/ Restore(t) \/ Write(t) \/ Copy(t)
    PROVE  Mapped
<1>1. owned' = owned /\ op' = op /\ result' = result
  BY DEF Take, Backup, ExportRoot, Panics, PanicOf, Restore, Write, Copy
<1>2. \A u \in Thread : Waiting(u)' = Waiting(u)
  <2>1. CASE Take(t)
    BY <2>1 DEF RInv, IInv, TypeOK, Take, Goto, Waiting
  <2>2. CASE Backup(t)
    BY <2>2 DEF RInv, IInv, TypeOK, Backup, Goto, Waiting
  <2>3. CASE ExportRoot(t)
    BY <2>3 DEF RInv, IInv, TypeOK, ExportRoot, Goto, Waiting
  <2>4. CASE Panics(t)
    BY <2>4 DEF RInv, IInv, TypeOK, Panics, PanicOf, Goto, Waiting
  <2>5. CASE Restore(t)
    BY <2>5 DEF RInv, IInv, TypeOK, Restore, Goto, Waiting
  <2>6. CASE Write(t)
    BY <2>6 DEF RInv, IInv, TypeOK, Write, Goto, Waiting
  <2>7. CASE Copy(t)
    BY <2>7 DEF RInv, IInv, TypeOK, Copy, Goto, Waiting
  <2>. QED
    BY <2>1, <2>2, <2>3, <2>4, <2>5, <2>6, <2>7
<1>3. callBar' = callBar /\ replyBar' = replyBar
  BY <1>1, <1>2 DEF callBar, replyBar
<1>. QED
  BY <1>1, <1>3, Stutter

-----------------------------------------------------------------------------
\* The invariant of TableProofs, together with where results may be.
LEMMA ResultInductive == Exclusive => (Spec => []RInv)
<1>. SUFFICES ASSUME Exclusive PROVE Spec => []RInv
  OBVIOUS
<1>1. Init => ResultInv
  BY DEF Init, ResultInv
<1>2. IInv /\ ResultInv /\ [Next]_vars => ResultInv'
  <2>. SUFFICES ASSUME IInv, ResultInv, [Next]_vars PROVE ResultInv'
    OBVIOUS
  <2>1. ASSUME NEW h \in Handle, Open(h) PROVE ResultInv'
    BY <2>1 DEF ResultInv, Open
  <2>2. ASSUME NEW t \in Thread, NEW call \in Call, Begin(t, call) PROVE ResultInv'
    BY <2>2 DEF IInv, TypeOK, ResultInv, Begin, Goto
  <2>3. ASSUME NEW t \in Thread, Apply(t) PROVE ResultInv'
    BY <2>3 DEF IInv, TypeOK, ResultInv, Apply, Goto
  <2>4. ASSUME NEW t \in Thread, Restore(t) PROVE ResultInv'
    BY <2>4 DEF IInv, TypeOK, ResultInv, Restore, Goto
  <2>5. ASSUME NEW t \in Thread, Write(t) \/ Copy(t) \/ Return(t) PROVE ResultInv'
    BY <2>5 DEF IInv, TypeOK, ResultInv, Write, Copy, Return, Goto
  <2>6. ASSUME NEW t \in Thread, Take(t) \/ Backup(t) \/ Panics(t) PROVE ResultInv'
    BY <2>6 DEF IInv, TypeOK, ResultInv, Take, Backup, Panics, PanicOf, Goto
  <2>7. ASSUME NEW t \in Thread, CloneRoot(t) \/ DropRoot(t) \/ ExportRoot(t)
        PROVE  ResultInv'
    BY <2>7 DEF IInv, TypeOK, ResultInv, CloneRoot, DropRoot, ExportRoot, Goto
  <2>8. CASE UNCHANGED vars
    BY <2>8 DEF vars, ResultInv
  <2>. QED
    BY <2>1, <2>2, <2>3, <2>4, <2>5, <2>6, <2>7, <2>8 DEF Next, Step
<1>3. Spec => []IInv
  BY Inductive
<1>. QED
  BY <1>1, <1>2, <1>3, PTL DEF Spec, RInv

\* Callers that serialize their calls on each handle see independent maps with
\* atomic transactions, whatever the interleaving of take, restore and the
\* accesses to the roots: no update is lost, no answer mixes two states.
THEOREM TableImplementsKeyValue == Exclusive => (Spec => ImplementsKeyValue)
<1>. SUFFICES ASSUME Exclusive PROVE Spec => Maps!Spec
  BY DEF ImplementsKeyValue
<1>1. Init => Maps!Init
  BY DEF Init, Maps!Init
<1>2. RInv /\ [Next]_vars => [Maps!Next]_(Maps!vars)
  <2>. SUFFICES ASSUME RInv, [Next]_vars PROVE Mapped
    BY DEF Mapped
  <2>1. ASSUME NEW h \in Handle, Open(h) PROVE Mapped
    BY <2>1, OpenMaps
  <2>2. ASSUME NEW t \in Thread, NEW call \in Call, Begin(t, call) PROVE Mapped
    BY <2>2, BeginMaps
  <2>3. ASSUME NEW t \in Thread, Step(t) PROVE Mapped
    BY <2>3, ApplyMaps, CloneMaps, DropMaps, ReturnMaps, InternalMaps DEF Step
  <2>4. CASE UNCHANGED vars
    BY <2>4, Stutter DEF vars, callBar, replyBar, Waiting
  <2>. QED
    BY <2>1, <2>2, <2>3, <2>4 DEF Next
<1>. QED
  BY <1>1, <1>2, ResultInductive, PTL DEF Spec, Maps!Spec
=============================================================================

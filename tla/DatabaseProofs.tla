--------------------------- MODULE DatabaseProofs ---------------------------
(***************************************************************************)
(* Proofs about Database, for any names, objects, threads, keys, values    *)
(* and batches and any number of stops: what the file of names lists, what *)
(* the rows hold, and that the database opens again.  Each theorem says    *)
(* which part of the callers' discipline it needs.                         *)
(***************************************************************************)
EXTENDS Database, FiniteSetTheorems, TLAPS

-----------------------------------------------------------------------------
(***************************************************************************)
(* The invariants.                                                         *)
(***************************************************************************)

\* Tables are created one after the other, through the one instance, and the
\* process does not stop inside the rewriting of the file.
Serial == Careless \cap {"torn", "overlap", "clone"} = {}

\* Besides, only listed tables are given transactions, and received ones.
Listed == Careless \subseteq {"receive"}

Disciplined == Careless = {}

\* What a call is about, by where it is; what is there while a process is not.
ArgInv ==
    /\ \A t \in Thread :
          /\ pc[t] \in {"push", "collect"} =>
                arg[t] \in Adding /\ arg[t].database \in opened
          /\ pc[t] \in {"truncate", "write"} => arg[t] \in Listing
          /\ pc[t] \in {"backup", "apply", "panicked"} => arg[t] \in Executing
          /\ pc[t] \in {"restore", "root", "return"} => arg[t] \in Returning
          /\ pc[t] = "idle" <=> arg[t] = Absent
          /\ pc[t] # "idle" => Exists(arg[t].object)
    /\ arg = [t \in Thread |-> arg[t]]
    /\ \A d \in Instance \ opened : tables[d] = {}
    /\ status = "running" => First \in opened
    /\ status # "running" => opened = {} /\ \A t \in Thread : pc[t] = "idle"

TypeInv == TypeOK /\ ArgInv

\* The names of the tables the database lists.
Names == { name[o] : o \in tables[First] }

\* How far the file is behind the list: what a creation has yet to write.
ListInv ==
    /\ \A t, u \in Thread : Creating(t) /\ Creating(u) => t = u
    /\ \A t \in Thread :
          /\ pc[t] \in {"push", "collect"} => arg[t].database = First
          /\ pc[t] \in {"collect", "truncate", "write"} => arg[t].object \in tables[First]
          /\ pc[t] \in {"truncate", "write"} => arg[t].names = Names
          /\ pc[t] = "write" => confirmed \subseteq Names
    /\ status = "running" => file \subseteq Names
    /\ ConfirmedListed

\* The object of a creation, of a transaction that has written its rows, and of one
\* that has computed its root and has not shown it yet.
Created(t, o) == Creating(t) /\ arg[t].object = o
Applies(t, o) == pc[t] = "apply" /\ arg[t].object = o
Shows(t, o) == pc[t] \in {"restore", "root"} /\ arg[t].object = o

\* Names of listed tables differ, every list is a part of the first one, and what
\* is not in the file yet is the table that is being created.
NamesInv ==
    /\ \A o, p \in tables[First] : name[o] = name[p] => o = p
    /\ \A d \in opened : tables[d] \subseteq tables[First]
    /\ Unnamed \notin file \cup Names
    /\ status = "running" =>
          \A n \in Names \ file :
             \E t \in Thread : Creating(t) /\ (pc[t] = "write" \/ n = name[arg[t].object])

\* A table that is being created has no rows and nobody uses it.
CreationInv ==
    \A t \in Thread, o \in Object : Created(t, o) =>
        /\ name[o] # Unnamed
        /\ name[o] \notin file
        /\ contents[o] = EmptyMap
        /\ rows[name[o]] = EmptyMap
        /\ pc[t] = "push" => name[o] \notin Names
        /\ \A u \in Thread : ~Executes(u, o)

\* Transactions are for listed tables, and a table has one at a time.
ExecuteInv ==
    /\ \A t \in Thread, o \in Object : Executes(t, o) =>
          name[o] = Unnamed \/ o \in tables[First]
    /\ \A t, u \in Thread, o \in Object : Executes(t, o) /\ Executes(u, o) => t = u

\* What the rows hold: of a listed table what it shows, or will show, and of no
\* other name anything.
ContentsInv ==
    /\ \A o \in tables[First] :
          /\ (\A t \in Thread : ~Applies(t, o) /\ ~Shows(t, o)) =>
                rows[name[o]] = contents[o]
          /\ \A t \in Thread :
                /\ Applies(t, o) => rows[name[o]] = Updated(contents[o], arg[t].batch)
                /\ Shows(t, o) => rows[name[o]] = arg[t].root
    /\ \A n \in Name \ {Unnamed} : rows[n] # EmptyMap =>
          n \in file \/ \E t \in Thread : pc[t] = "write" /\ n \in Names

RowsInv == ListInv /\ NamesInv /\ CreationInv /\ ExecuteInv /\ ContentsInv

\* Without transactions on received tables there is no row without a name.
NoUnnamed ==
    /\ rows[Unnamed] = EmptyMap
    /\ \A t \in Thread, o \in Object : Executes(t, o) => name[o] # Unnamed
    /\ Reopens

-----------------------------------------------------------------------------
(***************************************************************************)
(* What the operators return.                                              *)
(***************************************************************************)

\* A batch turns a map into a map, and its answers are one too.
LEMMA UpdatedType ==
    ASSUME NEW map \in Map, NEW batch \in Batch
    PROVE  Updated(map, batch) \in Map /\ Answers(map, batch) \in Map
<1>1. batch \in [Key -> Operation]
  BY DatabaseAssumption
<1>2. \A k \in Key : batch[k].act = "set" => batch[k].value \in Value
  BY <1>1 DEF Operation, Skip, Get, Delete, Set
<1>3. \A k \in Key : map[k] \in Value \cup {Nothing}
  BY DEF Map
<1>. QED
  BY <1>2, <1>3 DEF Updated, Answers, Map

\* The empty map is a map.
LEMMA EmptyMapType == EmptyMap \in Map
  BY DEF EmptyMap, Map

\* No call is about nothing.
LEMMA Records ==
    /\ \A r \in Adding : r # Absent /\ r.database \in Instance /\ r.object \in Object
    /\ \A r \in Listing : r # Absent /\ r.object \in Object /\ r.names \subseteq Name
    /\ \A r \in Executing : r # Absent /\ r.object \in Object /\ r.batch \in Batch
    /\ \A r \in Returning : r # Absent /\ r.object \in Object /\ r.root \in Map /\ r.answers \in Map
  BY DatabaseAssumption DEF Adding, Listing, Executing, Returning

\* The object of a call is one of the objects there are.
LEMMA ArgObject ==
    ASSUME TypeInv, NEW t \in Thread, pc[t] # "idle"
    PROVE  arg[t] # Absent /\ arg[t].object \in Object /\ Exists(arg[t].object)
  BY Records DEF TypeInv, TypeOK, ArgInv

-----------------------------------------------------------------------------
(***************************************************************************)
(* Types.                                                                  *)
(***************************************************************************)

\* Nothing is there before the first process.
LEMMA TypeInit == Init => TypeInv
  BY DatabaseAssumption, EmptyMapType
     DEF Init, disk, memory, TypeInv, TypeOK, ArgInv, Exists

\* A new process makes the objects of the names in the file.
LEMMA TypeNew ==
    ASSUME TypeInv, New
    PROVE  TypeInv'
<1> USE DEF TypeInv
<1>1. CASE UNCHANGED <<name, contents, tables, opened>> /\ status' = "broken"
  BY <1>1 DEF New, TypeOK, ArgInv, Exists, disk
<1>2. CASE Recover /\ status' = "running"
  <2>1. PICK objects \in SUBSET Object :
           \E names \in [objects -> file] :
              /\ name' = [o \in Object |-> IF o \in objects THEN names[o] ELSE Absent]
              /\ contents' = [o \in Object |->
                                 IF o \in objects THEN rows[names[o]] ELSE EmptyMap]
              /\ tables' = [tables EXCEPT ![First] = objects]
    BY <1>2 DEF Recover, Recovered
  <2>2. PICK names \in [objects -> file] :
              /\ name' = [o \in Object |-> IF o \in objects THEN names[o] ELSE Absent]
              /\ contents' = [o \in Object |->
                                 IF o \in objects THEN rows[names[o]] ELSE EmptyMap]
              /\ tables' = [tables EXCEPT ![First] = objects]
    BY <2>1
  <2>3. \A o \in objects : names[o] \in Name /\ names[o] # Absent /\ rows[names[o]] \in Map
    BY DatabaseAssumption DEF TypeOK
  <2>4. opened' = {First} /\ First \in Instance
    BY <1>2, DatabaseAssumption DEF Recover
  <2>5. UNCHANGED <<file, rows, pc, arg, confirmed>> /\ status = "down"
    BY DEF New, disk
  <2>6. name' \in [Object -> Name \cup {Absent}] /\ contents' \in [Object -> Map]
    BY <2>2, <2>3, EmptyMapType
  <2>7. tables \in [Instance -> SUBSET Object] /\ \A d \in Instance : tables[d] = {}
    BY <2>5 DEF TypeOK, ArgInv
  <2>8. tables' \in [Instance -> SUBSET { o \in Object : name'[o] # Absent }]
    BY <2>2, <2>3, <2>4, <2>7
  <2>9. TypeOK'
    BY <1>2, <2>4, <2>5, <2>6, <2>8 DEF TypeOK, Exists
  <2>10. ArgInv'
    BY <1>2, <2>2, <2>4, <2>5, <2>7 DEF ArgInv, TypeOK, Exists
  <2>. QED
    BY <2>9, <2>10
<1>. QED
  BY <1>1, <1>2 DEF New

\* The end of a process leaves nothing but the disk.
LEMMA TypeStop ==
    ASSUME TypeInv, Stop
    PROVE  TypeInv'
  BY EmptyMapType DEF TypeInv, TypeOK, ArgInv, Stop, disk, Exists

\* An object comes or goes: what is listed or in use stays.
LEMMA TypeObjects ==
    ASSUME TypeInv, NEW o \in Object, NEW n \in Name \cup {Absent}, NEW map \in Map,
           name' = [name EXCEPT ![o] = n], contents' = [contents EXCEPT ![o] = map],
           \/ ~Exists(o)
           \/ /\ \A d \in Instance : o \notin tables[d]
              /\ \A t \in Thread : arg[t] # Absent => arg[t].object # o,
           UNCHANGED <<status, disk, tables, opened, pc, arg, confirmed>>
    PROVE  TypeInv'
<1>1. \A p \in Object : p # o => name'[p] = name[p]
  BY DEF TypeInv, TypeOK
<1>2. \A p \in Object : Exists(p) /\ (p # o \/ ~Exists(o)) => name'[p] # Absent
  BY <1>1 DEF Exists
<1>3. tables' \in [Instance -> SUBSET { p \in Object : name'[p] # Absent }]
  BY <1>2 DEF TypeInv, TypeOK, Exists
<1>4. \A t \in Thread : pc[t] # "idle" => name'[arg[t].object] # Absent
  BY <1>2, ArgObject
<1>5. TypeOK'
  BY <1>3 DEF TypeInv, TypeOK, Exists, disk
<1>6. ArgInv'
  BY <1>4 DEF TypeInv, ArgInv, Exists, disk
<1>. QED
  BY <1>5, <1>6 DEF TypeInv

\* A call takes its next step: its record is the one of where it is then.
LEMMA TypeCall ==
    ASSUME TypeInv, NEW t \in Thread, NEW label, NEW record,
           status = "running",
           pc' = [pc EXCEPT ![t] = label], arg' = [arg EXCEPT ![t] = record],
           UNCHANGED <<status, opened, name>>,
           tables' \in [Instance -> SUBSET { o \in Object : Exists(o) }],
           \A d \in Instance \ opened : tables'[d] = {},
           file' \subseteq Name, rows' \in [Name -> Map],
           contents' \in [Object -> Map], confirmed' \subseteq Name,
           \/ label = "idle" /\ record = Absent
           \/ label \in {"push", "collect"} /\ record \in Adding /\ record.database \in opened
           \/ label \in {"truncate", "write"} /\ record \in Listing
           \/ label \in {"backup", "apply", "panicked"} /\ record \in Executing
           \/ label \in {"restore", "root", "return"} /\ record \in Returning,
           label # "idle" => Exists(record.object)
    PROVE  TypeInv'
<1>1. record = Absent <=> label = "idle"
  BY Records
<1>2. pc' \in [Thread -> {"idle", "push", "collect", "truncate", "write",
                          "backup", "apply", "restore", "root", "return", "panicked"}]
  BY DEF TypeInv, TypeOK
<1>3. /\ pc'[t] = label /\ arg'[t] = record
      /\ \A u \in Thread \ {t} : pc'[u] = pc[u] /\ arg'[u] = arg[u]
  BY DEF TypeInv, TypeOK, ArgInv
<1>4. TypeOK'
  <2>1. \A u \in Thread : arg'[u] # Absent <=> pc'[u] # "idle"
    BY <1>1, <1>3 DEF TypeInv, TypeOK
  <2>. QED
    BY <1>2, <2>1 DEF TypeInv, TypeOK, Exists
<1>5. ArgInv'
  <2>1. arg' = [u \in Thread |-> arg'[u]]
    BY DEF TypeInv, ArgInv
  <2>2. \A u \in Thread \ {t} :
          /\ pc[u] \in {"push", "collect"} => arg[u] \in Adding /\ arg[u].database \in opened
          /\ pc[u] \in {"truncate", "write"} => arg[u] \in Listing
          /\ pc[u] \in {"backup", "apply", "panicked"} => arg[u] \in Executing
          /\ pc[u] \in {"restore", "root", "return"} => arg[u] \in Returning
          /\ pc[u] = "idle" <=> arg[u] = Absent
          /\ pc[u] # "idle" => Exists(arg[u].object)
    BY DEF TypeInv, ArgInv
  <2>3. status = "running" => First \in opened
    BY DEF TypeInv, ArgInv
  <2>. QED
    BY <1>1, <1>3, <2>1, <2>2, <2>3 DEF ArgInv, Exists
<1>. QED
  BY <1>4, <1>5 DEF TypeInv

\* Likewise, when no list of tables changes.
LEMMA TypeCallHere ==
    ASSUME TypeInv, NEW t \in Thread, NEW label, NEW record,
           status = "running",
           pc' = [pc EXCEPT ![t] = label], arg' = [arg EXCEPT ![t] = record],
           UNCHANGED <<status, opened, name, tables>>,
           file' \subseteq Name, rows' \in [Name -> Map],
           contents' \in [Object -> Map], confirmed' \subseteq Name,
           \/ label = "idle" /\ record = Absent
           \/ label \in {"truncate", "write"} /\ record \in Listing
           \/ label \in {"backup", "apply", "panicked"} /\ record \in Executing
           \/ label \in {"restore", "root", "return"} /\ record \in Returning,
           label # "idle" => Exists(record.object)
    PROVE  TypeInv'
<1>1. tables' \in [Instance -> SUBSET { o \in Object : Exists(o) }]
      /\ \A d \in Instance \ opened : tables'[d] = {}
  BY DEF TypeInv, TypeOK, ArgInv
<1>. QED
  BY <1>1, TypeCall

\* What a step leaves alone keeps its type.
LEMMA Types ==
    ASSUME TypeInv
    PROVE  /\ file \subseteq Name /\ rows \in [Name -> Map]
           /\ contents \in [Object -> Map] /\ confirmed \subseteq Name
  BY DEF TypeInv, TypeOK

\* A call that is not idle has a process.
LEMMA Running ==
    ASSUME TypeInv, NEW t \in Thread, pc[t] # "idle"
    PROVE  status = "running"
  BY DEF TypeInv, ArgInv

\* Every step keeps the types.
LEMMA TypeStep ==
    ASSUME TypeInv, [Next]_vars
    PROVE  TypeInv'
<1>1. CASE UNCHANGED vars
  BY <1>1 DEF vars, memory, disk, TypeInv, TypeOK, ArgInv, Exists
<1>2. CASE New
  BY <1>2, TypeNew
<1>3. CASE Stop
  BY <1>3, TypeStop
<1>4. ASSUME NEW d \in Instance, NEW copy \in Instance, Clone(d, copy)
      PROVE  TypeInv'
  BY <1>4 DEF Clone, TypeInv, TypeOK, ArgInv, disk, Exists
<1>5. ASSUME NEW o \in Object, NEW copy \in Object, CloneTable(o, copy)
      PROVE  TypeInv'
  BY <1>5, TypeObjects DEF CloneTable, TypeInv, TypeOK
<1>6. ASSUME NEW o \in Object, NEW batch \in Batch, Receive(o, Updated(EmptyMap, batch))
      PROVE  TypeInv'
  BY <1>6, TypeObjects, UpdatedType, EmptyMapType, DatabaseAssumption DEF Receive
<1>7. ASSUME NEW o \in Object, Drop(o)
      PROVE  TypeInv'
  <2>1. \A d \in Instance : o \notin tables[d]
    BY <1>7 DEF Drop, Registered, TypeInv, ArgInv
  <2>. QED
    BY <1>7, <2>1, TypeObjects, EmptyMapType DEF Drop
<1>8. ASSUME NEW t \in Thread, NEW d \in Instance, NEW n \in Name, NEW o \in Object,
             EmptyTable(t, d, n, o)
      PROVE  TypeInv'
  <2>1. CASE UNCHANGED <<pc, arg>>
    BY <1>8, <2>1, TypeObjects, EmptyMapType DEF EmptyTable
  <2> DEFINE record == [database |-> d, object |-> o]
  <2>2. CASE arg' = [arg EXCEPT ![t] = record] /\ pc' = [pc EXCEPT ![t] = "push"]
    <3>1. record \in Adding /\ record.database \in opened /\ record.object = o
      BY <1>8 DEF Adding, EmptyTable
    <3>2. /\ name' = [name EXCEPT ![o] = n] /\ n # Absent /\ ~Exists(o)
          /\ contents' = [contents EXCEPT ![o] = EmptyMap]
          /\ pc[t] = "idle" /\ UNCHANGED <<status, file, rows, tables, opened, confirmed>>
      BY <1>8, DatabaseAssumption DEF EmptyTable, disk
    <3>3. \A p \in Object : Exists(p) => name'[p] # Absent
      BY <3>2 DEF TypeInv, TypeOK, Exists
    <3>4. \A u \in Thread : pc[u] # "idle" => name'[arg[u].object] # Absent
      BY <3>3, ArgObject
    <3>5. tables' \in [Instance -> SUBSET { p \in Object : name'[p] # Absent }]
      BY <3>2, <3>3 DEF TypeInv, TypeOK
    <3>6. name' \in [Object -> Name \cup {Absent}] /\ contents' \in [Object -> Map]
          /\ name'[o] # Absent
      BY <3>2, EmptyMapType DEF TypeInv, TypeOK
    <3>7. pc'[t] = "push" /\ arg'[t] = record
          /\ \A u \in Thread \ {t} : pc'[u] = pc[u] /\ arg'[u] = arg[u]
      BY <2>2 DEF TypeInv, TypeOK, ArgInv
    <3>8. TypeOK'
      BY <2>2, <3>1, <3>2, <3>5, <3>6, <3>7, Records DEF TypeInv, TypeOK, Exists
    <3>9. ArgInv'
      <4>1. arg' = [u \in Thread |-> arg'[u]] /\ status = "running"
        BY <1>8, <2>2 DEF TypeInv, ArgInv, EmptyTable
      <4>2. \A u \in Thread \ {t} :
              /\ pc[u] \in {"push", "collect"} => arg[u] \in Adding /\ arg[u].database \in opened
              /\ pc[u] \in {"truncate", "write"} => arg[u] \in Listing
              /\ pc[u] \in {"backup", "apply", "panicked"} => arg[u] \in Executing
              /\ pc[u] \in {"restore", "root", "return"} => arg[u] \in Returning
              /\ pc[u] = "idle" <=> arg[u] = Absent
        BY DEF TypeInv, ArgInv
      <4>3. record # Absent
        BY <3>1, Records
      <4>4. (\A e \in Instance \ opened : tables[e] = {}) /\ (status = "running" => First \in opened)
        BY DEF TypeInv, ArgInv
      <4>. QED
        BY <3>1, <3>2, <3>4, <3>6, <3>7, <4>1, <4>2, <4>3, <4>4 DEF ArgInv, Exists
    <3>. QED
      BY <3>8, <3>9 DEF TypeInv
  <2>. QED
    BY <1>8, <2>1, <2>2 DEF EmptyTable, Goto
<1>9. ASSUME NEW t \in Thread, NEW o \in Object, NEW batch \in Batch, Execute(t, o, batch)
      PROVE  TypeInv'
  <2>1. [object |-> o, batch |-> batch] \in Executing
    BY DEF Executing
  <2>. QED
    BY <1>9, <2>1, Types, TypeCallHere DEF Execute, Goto, disk, MayExecute
<1>10. ASSUME NEW t \in Thread, Push(t)
       PROVE  TypeInv'
  <2>1. arg[t] \in Adding /\ arg[t].database \in opened /\ arg[t].object \in Object
        /\ Exists(arg[t].object) /\ status = "running"
    BY <1>10, ArgObject, Running DEF Push, TypeInv, ArgInv
  <2>2. arg' = [arg EXCEPT ![t] = arg[t]] /\ pc' = [pc EXCEPT ![t] = "collect"]
    BY <1>10 DEF Push, Goto, TypeInv, ArgInv
  <2>3. tables' \in [Instance -> SUBSET { o \in Object : Exists(o) }]
        /\ \A d \in Instance \ opened : tables'[d] = {}
    BY <1>10, <2>1 DEF Push, TypeInv, TypeOK, ArgInv
  <2>. QED
    BY <1>10, <2>1, <2>2, <2>3, TypeCall DEF Push, TypeInv, TypeOK, disk
<1>11. ASSUME NEW t \in Thread, Collect(t)
       PROVE  TypeInv'
  <2> DEFINE record == [object |-> arg[t].object,
                        names |-> { name[o] : o \in tables[arg[t].database] }]
  <2>1. arg[t] \in Adding /\ arg[t].object \in Object
        /\ Exists(arg[t].object) /\ status = "running"
    BY <1>11, ArgObject, Running DEF Collect, TypeInv, ArgInv
  <2>2. tables[arg[t].database] \subseteq { o \in Object : Exists(o) }
    BY <2>1, Records DEF TypeInv, TypeOK
  <2>3. { name[o] : o \in tables[arg[t].database] } \subseteq Name
    BY <2>2 DEF TypeInv, TypeOK, Exists
  <2>4. record \in Listing
    BY <2>1, <2>3 DEF Listing
  <2>5. arg' = [arg EXCEPT ![t] = record] /\ pc' = [pc EXCEPT ![t] = "truncate"]
    BY <1>11 DEF Collect, Goto, TypeInv, ArgInv
  <2>. QED
    BY <1>11, <2>1, <2>4, <2>5, Types, TypeCallHere DEF Collect, disk
<1>12. ASSUME NEW t \in Thread, Truncate(t)
       PROVE  TypeInv'
  <2>1. arg[t] \in Listing /\ Exists(arg[t].object) /\ status = "running"
    BY <1>12, ArgObject, Running DEF Truncate, TypeInv, ArgInv
  <2>2. arg' = [arg EXCEPT ![t] = arg[t]] /\ pc' = [pc EXCEPT ![t] = "write"]
    BY <1>12 DEF Truncate, Goto, TypeInv, ArgInv
  <2>. QED
    BY <1>12, <2>1, <2>2, Types, TypeCallHere DEF Truncate
<1>13. ASSUME NEW t \in Thread, Write(t)
       PROVE  TypeInv'
  <2>1. arg[t] \in Listing /\ Exists(arg[t].object) /\ status = "running"
        /\ arg[t].names \subseteq Name /\ arg[t].object \in Object
    BY <1>13, ArgObject, Running, Records DEF Write, TypeInv, ArgInv
  <2>2. name[arg[t].object] \in Name
    BY <2>1 DEF TypeInv, TypeOK, Exists
  <2>. QED
    BY <1>13, <2>1, <2>2, Types, TypeCallHere DEF Write, Goto
<1>14. ASSUME NEW t \in Thread, Backup(t)
       PROVE  TypeInv'
  <2>1. arg[t] \in Executing /\ Exists(arg[t].object) /\ status = "running"
        /\ arg[t].batch \in Batch /\ arg[t].object \in Object
    BY <1>14, ArgObject, Running, Records DEF Backup, TypeInv, ArgInv
  <2>2. arg' = [arg EXCEPT ![t] = arg[t]] /\ pc' = [pc EXCEPT ![t] = "apply"]
    BY <1>14 DEF Backup, Goto, TypeInv, ArgInv
  <2>3. name[arg[t].object] \in Name
    BY <2>1 DEF TypeInv, TypeOK, Exists
  <2>4. rows' \in [Name -> Map]
    BY <1>14, <2>1, <2>3, UpdatedType DEF Backup, TypeInv, TypeOK
  <2>. QED
    BY <1>14, <2>1, <2>2, <2>4, Types, TypeCallHere DEF Backup
<1>15. ASSUME NEW t \in Thread, Apply(t)
       PROVE  TypeInv'
  <2> DEFINE old == contents[arg[t].object]
             record == [object |-> arg[t].object,
                        root |-> Updated(old, arg[t].batch),
                        answers |-> Answers(old, arg[t].batch)]
  <2>1. arg[t] \in Executing /\ Exists(arg[t].object) /\ status = "running"
        /\ arg[t].batch \in Batch /\ arg[t].object \in Object
    BY <1>15, ArgObject, Running, Records DEF Apply, TypeInv, ArgInv
  <2>2. arg' = [arg EXCEPT ![t] = record] /\ pc' = [pc EXCEPT ![t] = "restore"]
    BY <1>15 DEF Apply, Goto
  <2>3. old \in Map
    BY <2>1 DEF TypeInv, TypeOK
  <2>4. record \in Returning
    BY <2>1, <2>3, UpdatedType DEF Returning
  <2>. QED
    BY <1>15, <2>1, <2>2, <2>4, Types, TypeCallHere DEF Apply, disk
<1>16. ASSUME NEW t \in Thread, Return(t)
       PROVE  TypeInv'
  <2>1. status = "running"
    BY <1>16, Running DEF Return
  <2>. QED
    BY <1>16, <2>1, Types, TypeCallHere DEF Return, Goto, disk
<1>17. ASSUME NEW t \in Thread, Panics(t)
       PROVE  TypeInv'
  <2>1. arg[t] \in Executing /\ Exists(arg[t].object) /\ status = "running"
    BY <1>17, ArgObject, Running DEF Panics, TypeInv, ArgInv
  <2>2. arg' = [arg EXCEPT ![t] = arg[t]] /\ pc' = [pc EXCEPT ![t] = "panicked"]
    BY <1>17 DEF Panics, Goto, TypeInv, ArgInv
  <2>. QED
    BY <1>17, <2>1, <2>2, Types, TypeCallHere DEF Panics, disk
<1>18. ASSUME NEW t \in Thread, Restore(t)
       PROVE  TypeInv'
  <2>1. arg[t] \in Returning /\ Exists(arg[t].object) /\ status = "running"
    BY <1>18, ArgObject, Running DEF Restore, TypeInv, ArgInv
  <2>2. arg' = [arg EXCEPT ![t] = arg[t]] /\ pc' = [pc EXCEPT ![t] = "root"]
    BY <1>18 DEF Restore, Goto, TypeInv, ArgInv
  <2>. QED
    BY <1>18, <2>1, <2>2, Types, TypeCallHere DEF Restore, disk
<1>19. ASSUME NEW t \in Thread, WriteRoot(t)
       PROVE  TypeInv'
  <2>1. arg[t] \in Returning /\ Exists(arg[t].object) /\ status = "running"
        /\ arg[t].root \in Map
    BY <1>19, ArgObject, Running, Records DEF WriteRoot, TypeInv, ArgInv
  <2>2. arg' = [arg EXCEPT ![t] = arg[t]] /\ pc' = [pc EXCEPT ![t] = "return"]
    BY <1>19 DEF WriteRoot, Goto, TypeInv, ArgInv
  <2>3. contents' \in [Object -> Map]
    BY <1>19, <2>1 DEF WriteRoot, TypeInv, TypeOK
  <2>. QED
    BY <1>19, <2>1, <2>2, <2>3, Types, TypeCallHere DEF WriteRoot, disk
<1>. QED
  BY <1>1, <1>2, <1>3, <1>4, <1>5, <1>6, <1>7, <1>8, <1>9, <1>10, <1>11, <1>12,
     <1>13, <1>14, <1>15, <1>16, <1>17, <1>18, <1>19 DEF Next

\* The variables keep their types, and a listed table is never gone, whatever
\* the callers do.
THEOREM DatabaseTypes == Spec => []TypeOK
<1>1. Spec => []TypeInv
  BY TypeInit, TypeStep, PTL DEF Spec
<1>2. TypeInv => TypeOK
  BY DEF TypeInv
<1>. QED
  BY <1>1, <1>2, PTL

-----------------------------------------------------------------------------
(***************************************************************************)
(* The file and the list.                                                  *)
(***************************************************************************)

\* While a process runs, the list of the database it opened is there, and what
\* it lists exists.
LEMMA FirstList ==
    ASSUME TypeInv
    PROVE  /\ First \in Instance
           /\ tables[First] \subseteq Object
           /\ \A o \in tables[First] : Exists(o) /\ name[o] \in Name
           /\ status = "running" => First \in opened /\ tables[First] \subseteq Registered
  BY DatabaseAssumption DEF TypeInv, TypeOK, ArgInv, Registered, Exists

\* Names of listed tables stay when other objects come or go.
LEMMA NamesSame ==
    ASSUME TypeInv, NEW o \in Object, NEW n, o \notin tables[First],
           name' = [name EXCEPT ![o] = n], UNCHANGED tables
    PROVE  Names' = Names /\ \A p \in tables[First] : name'[p] = name[p]
<1>1. \A p \in tables[First] : name'[p] = name[p]
  BY FirstList DEF TypeInv, TypeOK
<1>. QED
  BY <1>1 DEF Names

\* Objects that are not listed do not matter.
LEMMA ListObjects ==
    ASSUME TypeInv, ListInv, NEW o \in Object, NEW n, o \notin tables[First],
           name' = [name EXCEPT ![o] = n],
           UNCHANGED <<status, disk, tables, opened, pc, arg, confirmed>>
    PROVE  ListInv'
<1>1. Names' = Names
  BY NamesSame
<1>. QED
  BY <1>1 DEF ListInv, Creating, ConfirmedListed, disk

\* Neither do the steps of transactions.
LEMMA ListCalls ==
    ASSUME TypeInv, ListInv, NEW t \in Thread, NEW label, NEW record,
           ~Creating(t),
           label \in {"idle", "backup", "apply", "restore", "root", "return", "panicked"},
           pc' = [pc EXCEPT ![t] = label],
           \A u \in Thread \ {t} : arg'[u] = arg[u],
           UNCHANGED <<status, file, tables, name, confirmed>>
    PROVE  ListInv'
<1>1. pc'[t] = label /\ \A u \in Thread \ {t} : pc'[u] = pc[u]
  BY DEF TypeInv, TypeOK
<1>2. Names' = Names
  BY DEF Names
<1>3. \A u \in Thread : pc'[u] \in {"push", "collect", "truncate", "write"} =>
          u # t /\ pc'[u] = pc[u] /\ arg'[u] = arg[u]
  BY <1>1
<1>4. pc[t] # "write"
  BY DEF Creating
<1>. QED
  BY <1>1, <1>2, <1>3, <1>4 DEF ListInv, Creating, ConfirmedListed

\* A new process lists what the file does.
LEMMA ListNew ==
    ASSUME TypeInv, ListInv, New
    PROVE  ListInv'
<1>1. /\ \A t \in Thread : pc[t] = "idle"
      /\ UNCHANGED <<file, pc, arg, confirmed>>
  BY DEF New, TypeInv, ArgInv, disk
<1>2. status' = "running" => file' \subseteq Names'
  <2>1. SUFFICES ASSUME status' = "running"
                 PROVE  file \subseteq Names'
    BY <1>1
  <2>2. Recover
    BY <2>1 DEF New
  <2>3. PICK objects \in SUBSET Object : \E names \in [objects -> file] :
          /\ { names[o] : o \in objects } = file
          /\ name' = [o \in Object |-> IF o \in objects THEN names[o] ELSE Absent]
          /\ tables' = [tables EXCEPT ![First] = objects]
    BY <2>2 DEF Recover, Recovered
  <2>4. PICK names \in [objects -> file] :
          /\ { names[o] : o \in objects } = file
          /\ name' = [o \in Object |-> IF o \in objects THEN names[o] ELSE Absent]
          /\ tables' = [tables EXCEPT ![First] = objects]
    BY <2>3
  <2>5. tables'[First] = objects
    BY <2>4, FirstList DEF TypeInv, TypeOK
  <2>6. \A o \in objects : name'[o] = names[o]
    BY <2>4
  <2>. QED
    BY <2>4, <2>5, <2>6 DEF Names
<1>. QED
  BY <1>1, <1>2 DEF ListInv, Creating, ConfirmedListed

\* No process ends with the file truncated.
LEMMA ListStop ==
    ASSUME Serial, TypeInv, ListInv, Stop
    PROVE  ListInv'
<1>1. \A t \in Thread : pc[t] # "write"
  BY DEF Serial, Stop
<1>2. confirmed \subseteq file
  BY <1>1 DEF ListInv, ConfirmedListed
<1>3. status' = "down" /\ \A t \in Thread : pc'[t] = "idle"
  BY DEF Stop
<1>. QED
  BY <1>2, <1>3 DEF Stop, ListInv, Creating, ConfirmedListed, disk

\* A creation begins when no other is under way.
LEMMA ListCreate ==
    ASSUME Serial, TypeInv, ListInv, NEW t \in Thread, NEW d \in Instance, NEW n \in Name,
           NEW o \in Object, EmptyTable(t, d, n, o)
    PROVE  ListInv'
<1>1. o \notin tables[First]
  BY FirstList DEF EmptyTable
<1>2. CASE UNCHANGED <<pc, arg>>
  BY <1>1, <1>2, ListObjects DEF EmptyTable
<1>3. CASE arg' = [arg EXCEPT ![t] = [database |-> d, object |-> o]]
           /\ pc' = [pc EXCEPT ![t] = "push"]
  <2>1. d = First /\ \A u \in Thread : ~Creating(u)
    BY DEF EmptyTable, MayCreate, Serial
  <2>2. /\ pc'[t] = "push" /\ arg'[t].database = First
        /\ \A u \in Thread \ {t} : pc'[u] = pc[u]
    BY <1>3, <2>1 DEF TypeInv, TypeOK, ArgInv
  <2>3. Names' = Names
    BY <1>1, NamesSame DEF EmptyTable
  <2>4. \A u \in Thread : pc'[u] \in {"push", "collect", "truncate", "write"} => u = t
    BY <2>1, <2>2 DEF Creating
  <2>5. confirmed \subseteq file
    BY <2>1 DEF ListInv, ConfirmedListed, Creating
  <2>6. UNCHANGED <<status, file, confirmed>>
    BY DEF EmptyTable, disk
  <2>. QED
    BY <2>2, <2>3, <2>4, <2>5, <2>6 DEF ListInv, Creating, ConfirmedListed
<1>. QED
  BY <1>2, <1>3 DEF EmptyTable, Goto

\* Only one thread is creating a table.
LEMMA OneCreation ==
    ASSUME ListInv, NEW t \in Thread, Creating(t)
    PROVE  \A u \in Thread \ {t} : pc[u] \notin {"push", "collect", "truncate", "write"}
  BY DEF ListInv, Creating

\* The table becomes the last of the list.
LEMMA ListPush ==
    ASSUME TypeInv, ListInv, NEW t \in Thread, Push(t)
    PROVE  /\ ListInv'
           /\ tables'[First] = tables[First] \cup {arg[t].object}
           /\ Names' = Names \cup {name[arg[t].object]}
<1>1. arg[t].database = First /\ status = "running"
  BY Running DEF Push, ListInv
<1>2. tables'[First] = tables[First] \cup {arg[t].object}
  BY <1>1, FirstList DEF Push, TypeInv, TypeOK
<1>3. Names' = Names \cup {name[arg[t].object]}
  BY <1>2 DEF Names, Push
<1>4. /\ pc'[t] = "collect" /\ \A u \in Thread \ {t} : pc'[u] = pc[u]
      /\ UNCHANGED <<status, file, arg, confirmed>>
  BY DEF Push, Goto, TypeInv, TypeOK, disk
<1>5. \A u \in Thread \ {t} : pc[u] \notin {"push", "collect", "truncate", "write"}
  BY OneCreation DEF Push, Creating
<1>6. confirmed \subseteq file
  BY <1>5 DEF ListInv, ConfirmedListed, Push
<1>7. ListInv'
  BY <1>1, <1>2, <1>3, <1>4, <1>5, <1>6 DEF ListInv, Creating, ConfirmedListed
<1>. QED
  BY <1>2, <1>3, <1>7

\* The names that are collected are those of the list.
LEMMA ListCollect ==
    ASSUME TypeInv, ListInv, NEW t \in Thread, Collect(t)
    PROVE  ListInv' /\ arg'[t].object = arg[t].object /\ Names' = Names
<1>1. /\ pc'[t] = "truncate" /\ \A u \in Thread \ {t} : pc'[u] = pc[u]
      /\ UNCHANGED <<status, file, tables, name, confirmed>>
  BY DEF Collect, Goto, TypeInv, TypeOK, disk
<1>2. Names' = Names
  BY <1>1 DEF Names
<1>3. arg[t].database = First
  BY DEF ListInv, Collect
<1>4. arg'[t].object = arg[t].object /\ arg'[t].names = Names
  BY <1>3 DEF Collect, TypeInv, ArgInv, Names
<1>5. \A u \in Thread \ {t} : pc[u] \notin {"push", "collect", "truncate", "write"}
  BY OneCreation DEF Collect, Creating
<1>6. confirmed \subseteq file /\ arg[t].object \in tables[First]
  BY <1>5 DEF ListInv, ConfirmedListed, Collect
<1>7. ListInv'
  BY <1>1, <1>2, <1>4, <1>5, <1>6 DEF ListInv, Creating, ConfirmedListed
<1>. QED
  BY <1>2, <1>4, <1>7

\* What the file listed is among them when it is truncated.
LEMMA ListTruncate ==
    ASSUME TypeInv, ListInv, NEW t \in Thread, Truncate(t)
    PROVE  ListInv' /\ Names' = Names
<1>1. /\ pc'[t] = "write" /\ \A u \in Thread \ {t} : pc'[u] = pc[u]
      /\ UNCHANGED <<status, tables, name, arg, confirmed>> /\ file' = {}
  BY DEF Truncate, Goto, TypeInv, TypeOK
<1>2. Names' = Names
  BY <1>1 DEF Names
<1>3. \A u \in Thread \ {t} : pc[u] \notin {"push", "collect", "truncate", "write"}
  BY OneCreation DEF Truncate, Creating
<1>4. confirmed \subseteq file /\ file \subseteq Names
      /\ arg[t].object \in tables[First] /\ arg[t].names = Names
  BY <1>3, Running DEF ListInv, ConfirmedListed, Truncate
<1>5. ListInv'
  BY <1>1, <1>2, <1>3, <1>4 DEF ListInv, Creating, ConfirmedListed
<1>. QED
  BY <1>2, <1>5

\* Then all are written.
LEMMA ListWrite ==
    ASSUME TypeInv, ListInv, NEW t \in Thread, Write(t)
    PROVE  ListInv' /\ Names' = Names /\ file' = Names /\ arg[t].object \in tables[First]
<1>1. /\ pc'[t] = "idle" /\ \A u \in Thread \ {t} : pc'[u] = pc[u] /\ arg'[u] = arg[u]
      /\ UNCHANGED <<status, tables, name>>
      /\ file' = arg[t].names /\ confirmed' = confirmed \cup {name[arg[t].object]}
  BY DEF Write, Goto, TypeInv, TypeOK, ArgInv
<1>2. Names' = Names
  BY <1>1 DEF Names
<1>3. \A u \in Thread \ {t} : pc[u] \notin {"push", "collect", "truncate", "write"}
  BY OneCreation DEF Write, Creating
<1>4. confirmed \subseteq Names /\ arg[t].object \in tables[First] /\ arg[t].names = Names
  BY DEF ListInv, Write
<1>5. confirmed' \subseteq Names
  BY <1>1, <1>4 DEF Names
<1>6. ListInv'
  BY <1>1, <1>2, <1>3, <1>4, <1>5 DEF ListInv, Creating, ConfirmedListed
<1>. QED
  BY <1>1, <1>2, <1>4, <1>6

\* Every step keeps the file close enough behind the list.
LEMMA ListStep ==
    ASSUME Serial, TypeInv, ListInv, [Next]_vars
    PROVE  ListInv'
<1>1. CASE UNCHANGED vars
  BY <1>1 DEF vars, memory, disk, ListInv, Creating, ConfirmedListed, Names
<1>2. CASE New
  BY <1>2, ListNew
<1>3. CASE Stop
  BY <1>3, ListStop
<1>4. ASSUME NEW d \in Instance, NEW copy \in Instance, Clone(d, copy)
      PROVE  ListInv'
  <2>1. tables'[First] = tables[First]
    BY <1>4, FirstList DEF Clone, TypeInv, TypeOK
  <2>. QED
    BY <1>4, <2>1 DEF Clone, ListInv, Creating, ConfirmedListed, Names, disk
<1>5. ASSUME NEW o \in Object, NEW copy \in Object, CloneTable(o, copy)
      PROVE  ListInv'
  BY <1>5, FirstList, ListObjects DEF CloneTable
<1>6. ASSUME NEW o \in Object, NEW batch \in Batch, Receive(o, Updated(EmptyMap, batch))
      PROVE  ListInv'
  BY <1>6, FirstList, ListObjects DEF Receive
<1>7. ASSUME NEW o \in Object, Drop(o)
      PROVE  ListInv'
  BY <1>7, FirstList, ListObjects DEF Drop
<1>8. ASSUME NEW t \in Thread, NEW d \in Instance, NEW n \in Name, NEW o \in Object,
             EmptyTable(t, d, n, o)
      PROVE  ListInv'
  BY <1>8, ListCreate
<1>9. ASSUME NEW t \in Thread, NEW o \in Object, NEW batch \in Batch, Execute(t, o, batch)
      PROVE  ListInv'
  BY <1>9, ListCalls DEF Execute, Goto, Creating, disk, TypeInv, ArgInv
<1>10. ASSUME NEW t \in Thread, Push(t) \/ Collect(t) \/ Truncate(t) \/ Write(t)
       PROVE  ListInv'
  BY <1>10, ListPush, ListCollect, ListTruncate, ListWrite
<1>11. ASSUME NEW t \in Thread, Backup(t)
       PROVE  ListInv'
  BY <1>11, ListCalls DEF Backup, Goto, Creating
<1>12. ASSUME NEW t \in Thread, Apply(t)
       PROVE  ListInv'
  BY <1>12, ListCalls DEF Apply, Goto, Creating, disk, TypeInv, ArgInv
<1>13. ASSUME NEW t \in Thread, Return(t)
       PROVE  ListInv'
  BY <1>13, ListCalls DEF Return, Goto, Creating, disk, TypeInv, ArgInv
<1>14. ASSUME NEW t \in Thread, Panics(t) \/ Restore(t) \/ WriteRoot(t)
       PROVE  ListInv'
  BY <1>14, ListCalls DEF Panics, Restore, WriteRoot, Goto, Creating, disk
<1>. QED
  BY <1>1, <1>2, <1>3, <1>4, <1>5, <1>6, <1>7, <1>8, <1>9, <1>10, <1>11, <1>12, <1>13, <1>14
     DEF Next

\* A table whose creation has returned stays listed in the file, also when callers
\* execute on clones of tables or on received ones: creations must not overlap or
\* go through clones of the database, and the process must not stop halfway
\* through the rewriting of the file.
THEOREM ConfirmedStay == Serial => (Spec => []ConfirmedListed)
<1> SUFFICES ASSUME Serial
             PROVE  Spec => []ConfirmedListed
  OBVIOUS
<1>1. Init => TypeInv /\ ListInv
  BY TypeInit DEF Init, ListInv, Creating, ConfirmedListed, disk
<1>2. TypeInv /\ ListInv /\ [Next]_vars => (TypeInv /\ ListInv)'
  BY TypeStep, ListStep
<1>3. TypeInv /\ ListInv => ConfirmedListed
  BY DEF ListInv
<1>. QED
  BY <1>1, <1>2, <1>3, PTL DEF Spec

-----------------------------------------------------------------------------
(***************************************************************************)
(* The rows.                                                               *)
(***************************************************************************)

\* A call on an object knows that it is there.
LEMMA CallObjects ==
    ASSUME TypeInv, NEW t \in Thread, NEW o \in Object, Created(t, o) \/ Executes(t, o)
    PROVE  Exists(o) /\ arg[t].object = o /\ status = "running"
  BY ArgObject, Running DEF Created, Executes, Creating

\* Objects that are neither listed nor in use do not matter.
LEMMA RowsObjects ==
    ASSUME TypeInv, RowsInv, NEW o \in Object, NEW n, NEW map, o \notin tables[First],
           name' = [name EXCEPT ![o] = n], contents' = [contents EXCEPT ![o] = map],
           \A t \in Thread : pc[t] # "idle" => arg[t].object # o,
           UNCHANGED <<status, disk, tables, opened, pc, arg, confirmed>>
    PROVE  RowsInv'
<1>1. ListInv' /\ Names' = Names
  BY ListObjects, NamesSame DEF RowsInv
<1>2. UNCHANGED <<status, file, rows, tables, opened, pc, arg>>
  BY DEF disk
<1>3. \A p \in Object : p # o => name'[p] = name[p] /\ contents'[p] = contents[p]
  BY DEF TypeInv, TypeOK
<1>4. \A p \in tables[First] : p \in Object /\ p # o
  BY FirstList
<1>5. \A t \in Thread, p \in Object :
          /\ Created(t, p)' <=> Created(t, p)
          /\ Executes(t, p)' <=> Executes(t, p)
          /\ Applies(t, p)' <=> Applies(t, p)
          /\ Shows(t, p)' <=> Shows(t, p)
          /\ Created(t, p) \/ Executes(t, p) => p # o
  BY <1>2 DEF Created, Creating, Executes, Applies, Shows
<1>6. NamesInv'
  <2>1. \A p, q \in tables'[First] : name'[p] = name'[q] => p = q
    BY <1>2, <1>3, <1>4 DEF RowsInv, NamesInv
  <2>2. \A t \in Thread : Creating(t) => arg[t].object \in Object /\ arg[t].object # o
    BY ArgObject DEF Creating
  <2>3. \A t \in Thread : Creating(t) => name'[arg'[t].object] = name[arg[t].object]
    BY <1>2, <1>3, <2>2
  <2>. QED
    BY <1>1, <1>2, <2>1, <2>3 DEF RowsInv, NamesInv, Creating
<1>7. CreationInv'
  BY <1>1, <1>2, <1>3, <1>5 DEF RowsInv, CreationInv
<1>8. ExecuteInv'
  BY <1>2, <1>3, <1>5 DEF RowsInv, ExecuteInv
<1>9. ContentsInv'
  BY <1>1, <1>2, <1>3, <1>4, <1>5 DEF RowsInv, ContentsInv
<1>. QED
  BY <1>1, <1>6, <1>7, <1>8, <1>9 DEF RowsInv

\* A new process finds the rows of the tables it makes, one for each name.
LEMMA RowsNew ==
    ASSUME TypeInv, RowsInv, New
    PROVE  RowsInv'
<1>1. /\ \A t \in Thread : pc[t] = "idle"
      /\ UNCHANGED <<file, rows, pc, arg, confirmed>>
      /\ opened = {} /\ tables[First] = {}
  BY FirstList DEF New, TypeInv, ArgInv, disk
<1>2. ListInv'
  BY ListNew DEF RowsInv
<1>3. CreationInv' /\ ExecuteInv'
  BY <1>1 DEF CreationInv, ExecuteInv, Created, Creating, Executes
<1>4. \A m \in Name \ {Unnamed} : rows[m] # EmptyMap => m \in file
  BY <1>1 DEF RowsInv, ContentsInv
<1>5. CASE UNCHANGED <<name, contents, tables, opened>> /\ status' = "broken"
  BY <1>1, <1>2, <1>3, <1>4, <1>5
     DEF RowsInv, NamesInv, ContentsInv, Names, Creating, Applies, Shows
<1>6. CASE Recover /\ status' = "running"
  <2>1. PICK objects \in SUBSET Object :
          /\ Cardinality(objects) = Cardinality(file)
          /\ \E names \in [objects -> file] :
               /\ { names[o] : o \in objects } = file
               /\ name' = [o \in Object |-> IF o \in objects THEN names[o] ELSE Absent]
               /\ contents' = [o \in Object |->
                                 IF o \in objects THEN rows[names[o]] ELSE EmptyMap]
               /\ tables' = [tables EXCEPT ![First] = objects]
    BY <1>6 DEF Recover, Recovered
  <2>2. PICK names \in [objects -> file] :
               /\ { names[o] : o \in objects } = file
               /\ name' = [o \in Object |-> IF o \in objects THEN names[o] ELSE Absent]
               /\ contents' = [o \in Object |->
                                 IF o \in objects THEN rows[names[o]] ELSE EmptyMap]
               /\ tables' = [tables EXCEPT ![First] = objects]
    BY <2>1
  <2>3. tables'[First] = objects /\ opened' = {First}
    BY <1>6, <2>2, FirstList DEF TypeInv, TypeOK, Recover
  <2>4. \A o \in objects : name'[o] = names[o] /\ contents'[o] = rows[names[o]]
    BY <2>2
  <2>5. Names' = file
    BY <2>2, <2>3, <2>4 DEF Names
  <2>6. \A o, p \in objects : names[o] = names[p] => o = p
    <3>1. IsFiniteSet(objects)
      BY DatabaseAssumption, FS_Subset
    <3>2. names \in Surjection(objects, file)
      BY <2>2 DEF Surjection
    <3>3. names \in Injection(objects, file)
      BY <2>1, <3>1, <3>2, FS_SurjSameCardinalityImpliesInj
    <3>. QED
      BY <3>3 DEF Injection, IsInjective
  <2>7. NamesInv'
    BY <1>1, <2>3, <2>4, <2>5, <2>6 DEF RowsInv, NamesInv
  <2>8. ContentsInv'
    BY <1>1, <1>4, <2>3, <2>4 DEF ContentsInv, Applies, Shows
  <2>. QED
    BY <1>2, <1>3, <2>7, <2>8 DEF RowsInv
<1>. QED
  BY <1>5, <1>6 DEF New

\* A process ends with every row in the file.
LEMMA RowsStop ==
    ASSUME Listed, TypeInv, RowsInv, Stop
    PROVE  RowsInv'
<1>1. /\ \A t \in Thread : pc[t] # "write" /\ pc'[t] = "idle"
      /\ UNCHANGED <<file, rows>> /\ status' = "down"
      /\ opened' = {} /\ tables'[First] = {}
  BY FirstList DEF Stop, disk, Listed
<1>2. ListInv'
  BY ListStop DEF RowsInv, Listed, Serial
<1>3. Names' = {}
  BY <1>1 DEF Names
<1>. QED
  BY <1>1, <1>2, <1>3 DEF RowsInv, NamesInv, CreationInv, ExecuteInv, ContentsInv, Created,
     Creating, Executes, Applies, Shows

\* The name of a creation that begins is new: it is not listed and has no row.
LEMMA RowsCreate ==
    ASSUME Listed, TypeInv, RowsInv, NEW t \in Thread, NEW d \in Instance, NEW n \in Name,
           NEW o \in Object, EmptyTable(t, d, n, o)
    PROVE  RowsInv'
<1>1. o \notin tables[First] /\ \A u \in Thread : pc[u] # "idle" => arg[u].object # o
  BY FirstList, ArgObject DEF EmptyTable
<1>2. CASE UNCHANGED <<pc, arg>>
  BY <1>1, <1>2, RowsObjects DEF EmptyTable
<1>3. CASE /\ arg' = [arg EXCEPT ![t] = [database |-> d, object |-> o]]
           /\ pc' = [pc EXCEPT ![t] = "push"]
           /\ ~\E listed \in tables[d] : name[listed] = n
  <2>1. d = First /\ n # Unnamed /\ \A u \in Thread : ~Creating(u)
    BY DEF EmptyTable, MayCreate, Listed
  <2>2. /\ pc'[t] = "push" /\ arg'[t].object = o
        /\ \A u \in Thread \ {t} : pc'[u] = pc[u] /\ arg'[u] = arg[u]
        /\ pc[t] = "idle" /\ status = "running"
    BY <1>3 DEF TypeInv, TypeOK, ArgInv, EmptyTable
  <2>3. UNCHANGED <<status, file, rows, tables, opened, confirmed>>
    BY DEF EmptyTable, disk
  <2>4. /\ name'[o] = n /\ contents'[o] = EmptyMap
        /\ \A p \in Object : p # o => name'[p] = name[p] /\ contents'[p] = contents[p]
    BY DEF EmptyTable, TypeInv, TypeOK
  <2>5. ListInv' /\ Names' = Names
    BY <1>1, NamesSame, ListCreate DEF RowsInv, Listed, Serial, EmptyTable
  <2>6. n \notin Names
    BY <1>3, <2>1 DEF Names
  <2>7. Names \subseteq file /\ file \subseteq Names
    BY <2>1, <2>2 DEF RowsInv, ListInv, NamesInv
  <2>8. rows[n] = EmptyMap
    BY <2>1, <2>6, <2>7 DEF RowsInv, ContentsInv, Creating
  <2>9. \A u \in Thread, p \in Object :
          /\ Created(u, p)' => u = t /\ p = o
          /\ Executes(u, p)' <=> Executes(u, p)
          /\ Applies(u, p)' <=> Applies(u, p)
          /\ Shows(u, p)' <=> Shows(u, p)
          /\ Executes(u, p) => p # o /\ u # t
    BY <1>1, <2>1, <2>2 DEF Created, Creating, Executes, Applies, Shows
  <2>10. \A p \in tables[First] : p \in Object /\ p # o
    BY <1>1, FirstList
  <2>11. NamesInv'
    BY <2>3, <2>4, <2>5, <2>7, <2>10 DEF RowsInv, NamesInv
  <2>12. CreationInv'
    BY <2>1, <2>2, <2>3, <2>4, <2>5, <2>6, <2>7, <2>8, <2>9 DEF CreationInv
  <2>13. ExecuteInv'
    BY <2>3, <2>4, <2>9 DEF RowsInv, ExecuteInv
  <2>14. ContentsInv'
    <3>1. \A p \in tables'[First] :
            /\ (\A u \in Thread : ~Applies(u, p)' /\ ~Shows(u, p)') =>
                  rows'[name'[p]] = contents'[p]
            /\ \A u \in Thread :
                /\ Applies(u, p)' => rows'[name'[p]] = Updated(contents'[p], arg'[u].batch)
                /\ Shows(u, p)' => rows'[name'[p]] = arg'[u].root
      <4>1. \A u \in Thread, p \in Object : Applies(u, p) \/ Shows(u, p) => arg'[u] = arg[u]
        BY <2>2 DEF Applies, Shows
      <4>. QED
        BY <2>3, <2>4, <2>9, <2>10, <4>1 DEF RowsInv, ContentsInv
    <3>2. \A m \in Name \ {Unnamed} : rows'[m] # EmptyMap =>
            m \in file' \/ \E u \in Thread : pc'[u] = "write" /\ m \in Names'
      BY <2>1, <2>3 DEF RowsInv, ContentsInv, Creating
    <3>. QED
      BY <3>1, <3>2 DEF ContentsInv
  <2>. QED
    BY <2>5, <2>11, <2>12, <2>13, <2>14 DEF RowsInv
<1>. QED
  BY <1>2, <1>3 DEF EmptyTable, Goto

\* The table that is being created is listed: empty, like its row.
LEMMA RowsPush ==
    ASSUME TypeInv, RowsInv, NEW t \in Thread, Push(t)
    PROVE  RowsInv'
<1> DEFINE o == arg[t].object
<1>1. o \in Object /\ Created(t, o) /\ status = "running" /\ arg[t].database = First
  BY ArgObject, Running DEF Push, Created, Creating, RowsInv, ListInv
<1>2. /\ pc'[t] = "collect" /\ \A u \in Thread \ {t} : pc'[u] = pc[u]
      /\ UNCHANGED <<status, file, rows, opened, name, contents, arg, confirmed>>
      /\ pc[t] = "push"
  BY DEF Push, Goto, TypeInv, TypeOK, disk
<1>3. ListInv' /\ tables'[First] = tables[First] \cup {o} /\ Names' = Names \cup {name[o]}
  BY ListPush DEF RowsInv
<1>4. /\ name[o] # Unnamed /\ name[o] \notin Names /\ contents[o] = EmptyMap
      /\ rows[name[o]] = EmptyMap /\ \A u \in Thread : ~Executes(u, o)
  BY <1>1, <1>2 DEF RowsInv, CreationInv
<1>5. \A u \in Thread \ {t} : ~Creating(u)
  BY <1>1, OneCreation DEF RowsInv, Creating, Created
<1>6. \A u \in Thread, p \in Object :
          /\ Created(u, p)' <=> Created(u, p)
          /\ Executes(u, p)' <=> Executes(u, p)
          /\ Applies(u, p)' <=> Applies(u, p)
          /\ Shows(u, p)' <=> Shows(u, p)
  BY <1>2 DEF Created, Creating, Executes, Applies, Shows
<1>7. NamesInv'
  <2>1. \A p, q \in tables'[First] : name'[p] = name'[q] => p = q
    BY <1>2, <1>3, <1>4 DEF RowsInv, NamesInv, Names
  <2>2. \A e \in opened' : tables'[e] \subseteq tables'[First]
    BY <1>1, <1>2, <1>3 DEF RowsInv, NamesInv, Push, TypeInv, TypeOK
  <2>3. Unnamed \notin file' \cup Names'
    BY <1>2, <1>3, <1>4 DEF RowsInv, NamesInv
  <2>4. \A n \in Names' \ file' : n = name[o]
    BY <1>1, <1>2, <1>3, <1>5 DEF RowsInv, NamesInv, Creating
  <2>5. Creating(t)'
    BY <1>2 DEF Creating
  <2>. QED
    BY <1>2, <2>1, <2>2, <2>3, <2>4, <2>5 DEF NamesInv
<1>8. CreationInv'
  <2>1. \A u \in Thread, p \in Object : Created(u, p) => u = t /\ p = o
    BY <1>5 DEF Created
  <2>. QED
    BY <1>1, <1>2, <1>6, <2>1 DEF RowsInv, CreationInv
<1>9. ExecuteInv'
  BY <1>2, <1>3, <1>6 DEF RowsInv, ExecuteInv
<1>10. ContentsInv'
  <2>1. \A u \in Thread : ~Applies(u, o) /\ ~Shows(u, o)
    BY <1>4 DEF Executes, Applies, Shows
  <2>2. \A p \in tables[First] : p \in Object
    BY FirstList
  <2>3. \A m \in Name \ {Unnamed} : rows'[m] # EmptyMap => m \in file'
    BY <1>2, <1>5 DEF RowsInv, ContentsInv, Creating
  <2>. QED
    BY <1>1, <1>2, <1>3, <1>4, <1>6, <2>1, <2>2, <2>3 DEF RowsInv, ContentsInv
<1>. QED
  BY <1>3, <1>7, <1>8, <1>9, <1>10 DEF RowsInv

\* Creations that go on move no row and no table.
LEMMA RowsCreating ==
    ASSUME TypeInv, RowsInv, NEW t \in Thread, Creating(t), Creating(t)', ListInv',
           Names' = Names, arg'[t].object = arg[t].object,
           \A u \in Thread \ {t} : pc'[u] = pc[u] /\ arg'[u] = arg[u],
           pc'[t] # "push", file' \subseteq file, pc'[t] # "write" => file' = file,
           pc[t] # "write",
           UNCHANGED <<status, rows, tables, opened, name, contents>>
    PROVE  RowsInv'
<1>1. \A u \in Thread \ {t} : ~Creating(u) /\ ~Creating(u)'
  BY OneCreation DEF RowsInv, Creating
<1>2. \A u \in Thread, p \in Object :
          /\ Created(u, p)' <=> Created(u, p)
          /\ Executes(u, p)' <=> Executes(u, p)
          /\ Applies(u, p)' <=> Applies(u, p)
          /\ Shows(u, p)' <=> Shows(u, p)
          /\ Applies(u, p) \/ Shows(u, p) => arg'[u] = arg[u]
          /\ Created(u, p) => u = t
  BY <1>1 DEF Created, Creating, Executes, Applies, Shows
<1>3. \A n \in Names \ file : n = name[arg[t].object]
  BY <1>1, ArgObject, Running DEF RowsInv, NamesInv, Creating
<1>4. NamesInv'
  BY <1>3 DEF RowsInv, NamesInv
<1>5. CreationInv'
  BY <1>2 DEF RowsInv, CreationInv
<1>6. ExecuteInv'
  BY <1>2 DEF RowsInv, ExecuteInv
<1>7. ContentsInv'
  <2>1. \A p \in tables[First] : p \in Object
    BY FirstList
  <2>2. status = "running"
    BY Running DEF Creating
  <2>3. \A m \in Name \ {Unnamed} : rows[m] # EmptyMap => m \in file
    BY <1>1 DEF RowsInv, ContentsInv, Creating
  <2>4. file \subseteq Names
    BY <2>2 DEF RowsInv, ListInv
  <2>. QED
    BY <1>2, <2>1, <2>3, <2>4 DEF RowsInv, ContentsInv
<1>. QED
  BY <1>4, <1>5, <1>6, <1>7 DEF RowsInv

\* So does the collecting of the names.
LEMMA RowsCollect ==
    ASSUME TypeInv, RowsInv, NEW t \in Thread, Collect(t)
    PROVE  RowsInv'
<1>1. ListInv' /\ arg'[t].object = arg[t].object /\ Names' = Names
  BY ListCollect DEF RowsInv
<1>2. /\ pc[t] = "collect" /\ pc'[t] = "truncate"
      /\ \A u \in Thread \ {t} : pc'[u] = pc[u] /\ arg'[u] = arg[u]
  BY DEF Collect, Goto, TypeInv, TypeOK, ArgInv
<1>. QED
  BY <1>1, <1>2, RowsCreating DEF Collect, Creating, disk

\* While the file is truncated, what was listed will be written.
LEMMA RowsTruncate ==
    ASSUME TypeInv, RowsInv, NEW t \in Thread, Truncate(t)
    PROVE  RowsInv'
<1>1. ListInv' /\ Names' = Names
  BY ListTruncate DEF RowsInv
<1>2. /\ pc[t] = "truncate" /\ pc'[t] = "write"
      /\ \A u \in Thread \ {t} : pc'[u] = pc[u]
  BY DEF Truncate, Goto, TypeInv, TypeOK
<1>. QED
  BY <1>1, <1>2, RowsCreating DEF Truncate, Creating

\* The file is written: it lists what the database does.
LEMMA RowsWrite ==
    ASSUME TypeInv, RowsInv, NEW t \in Thread, Write(t)
    PROVE  RowsInv'
<1>1. ListInv' /\ Names' = Names /\ file' = Names
  BY ListWrite DEF RowsInv
<1>2. /\ pc[t] = "write" /\ pc'[t] = "idle"
      /\ \A u \in Thread \ {t} : pc'[u] = pc[u] /\ arg'[u] = arg[u]
      /\ UNCHANGED <<status, rows, tables, opened, name, contents>>
  BY DEF Write, Goto, TypeInv, TypeOK, ArgInv
<1>3. \A u \in Thread : ~Creating(u)'
  BY <1>2, OneCreation DEF RowsInv, Creating
<1>4. \A u \in Thread, p \in Object :
          /\ ~Created(u, p)'
          /\ Executes(u, p)' <=> Executes(u, p)
          /\ Applies(u, p)' <=> Applies(u, p)
          /\ Shows(u, p)' <=> Shows(u, p)
          /\ Applies(u, p) \/ Shows(u, p) => arg'[u] = arg[u]
  BY <1>2, <1>3 DEF Created, Executes, Applies, Shows
<1>5. \A p \in tables[First] : p \in Object
  BY FirstList
<1>6. NamesInv'
  BY <1>1, <1>2 DEF RowsInv, NamesInv
<1>7. CreationInv' /\ ExecuteInv'
  BY <1>2, <1>4 DEF RowsInv, CreationInv, ExecuteInv
<1>8. ContentsInv'
  <2>1. file \subseteq Names
    BY <1>2, Running DEF RowsInv, ListInv
  <2>. QED
    BY <1>1, <1>2, <1>4, <1>5, <2>1 DEF RowsInv, ContentsInv
<1>. QED
  BY <1>1, <1>6, <1>7, <1>8 DEF RowsInv

\* What the steps of transactions leave alone of the names.
LEMMA RowsCalls ==
    ASSUME TypeInv, RowsInv, NEW t \in Thread, ~Creating(t), ~Creating(t)',
           \A u \in Thread \ {t} : pc'[u] = pc[u] /\ arg'[u] = arg[u],
           UNCHANGED <<status, file, tables, opened, name>>
    PROVE  /\ NamesInv'
           /\ Names' = Names
           /\ \A u \in Thread, o \in Object :
                 /\ Created(u, o)' <=> Created(u, o)
                 /\ u # t => /\ Executes(u, o)' <=> Executes(u, o)
                             /\ Applies(u, o)' <=> Applies(u, o)
                             /\ Shows(u, o)' <=> Shows(u, o)
<1>1. Names' = Names
  BY DEF Names
<1>2. \A u \in Thread : Creating(u)' => Creating(u) /\ u # t
  BY DEF Creating
<1>3. \A u \in Thread : Creating(u) => u # t /\ Creating(u)'
  BY DEF Creating
<1>4. NamesInv'
  BY <1>1, <1>2, <1>3 DEF RowsInv, NamesInv
<1>. QED
  BY <1>1, <1>2, <1>3, <1>4 DEF Created, Executes, Applies, Shows

\* A transaction is given to a table the database lists, or to a received one.
LEMMA RowsExecute ==
    ASSUME Listed, TypeInv, RowsInv, NEW t \in Thread, NEW o \in Object, NEW batch \in Batch,
           Execute(t, o, batch)
    PROVE  RowsInv'
<1>1. /\ pc[t] = "idle" /\ pc'[t] = "backup" /\ arg'[t].object = o
      /\ \A u \in Thread \ {t} : pc'[u] = pc[u] /\ arg'[u] = arg[u]
      /\ UNCHANGED <<status, file, rows, tables, opened, name, contents, confirmed>>
  BY DEF Execute, Goto, TypeInv, TypeOK, ArgInv, disk
<1>2. ~Creating(t) /\ ~Creating(t)'
  BY <1>1 DEF Creating
<1>3. ListInv'
  BY <1>1, <1>2, ListCalls DEF RowsInv, Execute, Goto
<1>4. /\ NamesInv' /\ Names' = Names
      /\ \A u \in Thread, p \in Object :
            /\ Created(u, p)' <=> Created(u, p)
            /\ Applies(u, p)' <=> Applies(u, p)
            /\ Shows(u, p)' <=> Shows(u, p)
            /\ Applies(u, p) \/ Shows(u, p) => arg'[u] = arg[u]
            /\ Executes(u, p)' <=> Executes(u, p) \/ (u = t /\ p = o)
  BY <1>1, <1>2, RowsCalls DEF Executes, Applies, Shows
<1>5. \A u \in Thread : Creating(u) => arg[u].object # o
  BY DEF Execute, MayExecute, Listed
<1>6. name[o] = Unnamed \/ o \in tables[First]
  BY DEF Execute, MayExecute, Listed, Registered, RowsInv, NamesInv
<1>7. CreationInv'
  <2>1. \A u \in Thread : Created(u, o) => FALSE
    BY <1>5 DEF Created
  <2>2. \A u \in Thread : Creating(u) => pc'[u] = pc[u]
    BY <1>1, <1>2
  <2>. QED
    BY <1>1, <1>4, <2>1, <2>2 DEF RowsInv, CreationInv, Created
<1>8. ExecuteInv'
  <2>1. /\ \A u \in Thread : ~Executes(u, o)
        /\ \A p \in Object : ~Executes(t, p)
    BY <1>1 DEF Execute, MayExecute, Unused, Listed, Executes
  <2>. QED
    BY <1>1, <1>4, <1>6, <2>1 DEF RowsInv, ExecuteInv
<1>9. ContentsInv'
  <2>1. \A p \in tables[First] : p \in Object
    BY FirstList
  <2>. QED
    BY <1>1, <1>4, <2>1 DEF RowsInv, ContentsInv
<1>. QED
  BY <1>3, <1>4, <1>7, <1>8, <1>9 DEF RowsInv

\* Nobody else is between the rows and the root of a table that is executed on.
LEMMA Alone ==
    ASSUME RowsInv, NEW t \in Thread, NEW o \in Object, Executes(t, o)
    PROVE  /\ \A u \in Thread \ {t} : ~Executes(u, o) /\ ~Applies(u, o) /\ ~Shows(u, o)
           /\ o \in tables[First] /\ pc[t] \notin {"apply", "restore", "root"} =>
                 rows[name[o]] = contents[o]
<1>1. \A u \in Thread \ {t} : ~Executes(u, o)
  BY DEF RowsInv, ExecuteInv
<1>2. \A u \in Thread \ {t} : ~Applies(u, o) /\ ~Shows(u, o)
  BY <1>1 DEF Executes, Applies, Shows
<1>3. pc[t] \notin {"apply", "restore", "root"} => ~Applies(t, o) /\ ~Shows(t, o)
  BY DEF Applies, Shows
<1>. QED
  BY <1>1, <1>2, <1>3 DEF RowsInv, ContentsInv

\* Its rows are written before the table changes: of its table, and no other.
LEMMA RowsBackup ==
    ASSUME TypeInv, RowsInv, NEW t \in Thread, Backup(t)
    PROVE  RowsInv'
<1> DEFINE o == arg[t].object
           n == name[o]
<1>1. /\ pc[t] = "backup" /\ pc'[t] = "apply"
      /\ \A u \in Thread \ {t} : pc'[u] = pc[u]
      /\ UNCHANGED <<status, file, tables, opened, name, contents, arg, confirmed>>
  BY DEF Backup, Goto, TypeInv, TypeOK
<1>2. o \in Object /\ Executes(t, o) /\ n \in Name /\ status = "running"
      /\ arg[t] \in Executing /\ arg[t].batch \in Batch
  BY <1>1, ArgObject, Running, Records DEF Executes, TypeInv, TypeOK, ArgInv, Exists
<1>3. rows'[n] = Updated(rows[n], arg[t].batch) /\ \A m \in Name \ {n} : rows'[m] = rows[m]
  BY <1>2 DEF Backup, TypeInv, TypeOK
<1>4. ~Creating(t) /\ ~Creating(t)'
  BY <1>1 DEF Creating
<1>5. ListInv'
  BY <1>1, <1>4, ListCalls DEF RowsInv, Backup, Goto
<1>6. /\ NamesInv' /\ Names' = Names
      /\ \A u \in Thread, p \in Object :
            /\ Created(u, p)' <=> Created(u, p)
            /\ Applies(u, p)' <=> Applies(u, p) \/ (u = t /\ p = o)
            /\ Shows(u, p)' <=> Shows(u, p)
            /\ Executes(u, p)' <=> Executes(u, p)
  BY <1>1, <1>4, RowsCalls DEF Executes, Applies, Shows
<1>7. \A p \in tables[First] : p \in Object /\ name[p] \in Name /\ name[p] # Unnamed
  BY FirstList DEF RowsInv, NamesInv, Names
<1>8. n = Unnamed \/ o \in tables[First]
  BY <1>2 DEF RowsInv, ExecuteInv
<1>9. CreationInv'
  <2>1. ASSUME NEW u \in Thread, NEW p \in Object, Created(u, p)
        PROVE  name[p] # n /\ name[p] \in Name /\ pc'[u] = pc[u]
    <3>1. name[p] # Unnamed /\ p # o /\ name[p] \notin file /\ (pc[u] = "push" => name[p] \notin Names)
      BY <1>2, <2>1 DEF RowsInv, CreationInv
    <3>2. name[p] \in Name /\ u # t
      BY <1>4, <2>1, CallObjects DEF TypeInv, TypeOK, Exists, Created
    <3>3. pc[u] # "push" => p \in tables[First]
      BY <2>1 DEF RowsInv, ListInv, Created, Creating
    <3>4. o \in tables[First] => n \in Names
      BY DEF Names
    <3>. QED
      BY <1>1, <1>8, <3>1, <3>2, <3>3, <3>4 DEF RowsInv, NamesInv
  <2>. QED
    BY <1>1, <1>3, <1>6, <2>1 DEF RowsInv, CreationInv
<1>10. ExecuteInv'
  BY <1>1, <1>6 DEF RowsInv, ExecuteInv
<1>11. ContentsInv'
  <2>1. /\ o \in tables[First] => rows[n] = contents[o]
        /\ \A u \in Thread \ {t} : ~Applies(u, o) /\ ~Shows(u, o)
        /\ ~Shows(t, o)
    BY <1>1, <1>2, Alone DEF Shows
  <2>2. \A p \in tables[First] : p # o => name[p] # n
    BY <1>7, <1>8 DEF RowsInv, NamesInv
  <2>3. n # Unnamed => n \in file
        \/ \E u \in Thread : pc'[u] = "write" /\ n \in Names'
    <3>1. SUFFICES ASSUME n # Unnamed, n \notin file
                   PROVE  \E u \in Thread : pc'[u] = "write" /\ n \in Names'
      OBVIOUS
    <3>2. n \in Names /\ o \in tables[First]
      BY <1>8, <3>1 DEF Names
    <3>3. PICK u \in Thread : Creating(u) /\ (pc[u] = "write" \/ n = name[arg[u].object])
      BY <1>2, <3>1, <3>2 DEF RowsInv, NamesInv
    <3>4. CASE pc[u] = "write"
      BY <1>1, <1>6, <3>2, <3>4
    <3>5. CASE pc[u] # "write" /\ n = name[arg[u].object]
      <4>1. arg[u].object \in Object /\ Created(u, arg[u].object)
        BY <3>3, ArgObject DEF Created, Creating
      <4>2. arg[u].object # o /\ (pc[u] = "push" => n \notin Names)
        BY <1>2, <3>5, <4>1 DEF RowsInv, CreationInv
      <4>3. arg[u].object \in tables[First]
        BY <3>2, <3>3, <4>2 DEF RowsInv, ListInv, Creating
      <4>. QED
        BY <3>2, <3>5, <4>2, <4>3 DEF RowsInv, NamesInv
    <3>. QED
      BY <3>3, <3>4, <3>5
  <2>4. \A m \in Name \ {Unnamed} : rows'[m] # EmptyMap =>
            m \in file' \/ \E u \in Thread : pc'[u] = "write" /\ m \in Names'
    <3>1. \A u \in Thread : pc[u] = "write" => pc'[u] = "write"
      BY <1>1
    <3>. QED
      BY <1>1, <1>3, <1>6, <2>3, <3>1 DEF RowsInv, ContentsInv
  <2>5. ASSUME NEW p \in tables[First]
        PROVE  /\ (\A u \in Thread : ~Applies(u, p)' /\ ~Shows(u, p)') =>
                     rows'[name[p]] = contents[p]
               /\ \A u \in Thread :
                     /\ Applies(u, p)' => rows'[name[p]] = Updated(contents[p], arg[u].batch)
                     /\ Shows(u, p)' => rows'[name[p]] = arg[u].root
    <3>1. CASE p = o
      <4>1. \A u \in Thread : (Applies(u, p)' <=> u = t) /\ ~Shows(u, p)'
        BY <1>6, <1>7, <2>1, <3>1
      <4>2. rows'[name[p]] = Updated(contents[p], arg[t].batch)
        BY <1>3, <2>1, <3>1
      <4>. QED
        BY <4>1, <4>2
    <3>2. CASE p # o
      <4>1. rows'[name[p]] = rows[name[p]]
        BY <1>3, <1>7, <2>2, <3>2
      <4>. QED
        BY <1>6, <1>7, <3>2, <4>1 DEF RowsInv, ContentsInv
    <3>. QED
      BY <3>1, <3>2
  <2>. QED
    BY <1>1, <2>4, <2>5 DEF ContentsInv
<1>. QED
  BY <1>5, <1>6, <1>9, <1>10, <1>11 DEF RowsInv

\* A transaction goes on inside its table: its rows stay what the table shows, or
\* what it has computed and not shown yet.
LEMMA RowsInside ==
    ASSUME TypeInv, RowsInv, NEW t \in Thread, NEW o \in Object, NEW label, Executes(t, o),
           label \in {"idle", "restore", "root", "return", "panicked"},
           pc' = [pc EXCEPT ![t] = label],
           label # "idle" => arg'[t].object = o,
           \A u \in Thread \ {t} : arg'[u] = arg[u],
           \A p \in Object \ {o} : contents'[p] = contents[p],
           UNCHANGED <<status, file, rows, tables, opened, name, confirmed>>,
           o \in tables[First] =>
              rows[name[o]] = IF label \in {"restore", "root"} THEN arg'[t].root
                              ELSE contents'[o]
    PROVE  RowsInv'
<1>1. pc'[t] = label /\ arg[t].object = o
      /\ \A u \in Thread \ {t} : pc'[u] = pc[u] /\ arg'[u] = arg[u]
  BY DEF TypeInv, TypeOK, Executes
<1>2. ~Creating(t) /\ ~Creating(t)'
  BY <1>1 DEF Creating, Executes
<1>3. ListInv'
  BY <1>1, <1>2, ListCalls DEF RowsInv
<1>4. NamesInv' /\ Names' = Names
  BY <1>1, <1>2, RowsCalls
<1>5. \A u \in Thread, p \in Object :
         /\ Created(u, p)' <=> Created(u, p)
         /\ u # t => /\ Executes(u, p)' <=> Executes(u, p)
                     /\ Applies(u, p)' <=> Applies(u, p)
                     /\ Shows(u, p)' <=> Shows(u, p)
  BY <1>1, <1>2, RowsCalls
<1>6. \A p \in Object :
         /\ Executes(t, p) \/ Applies(t, p) \/ Shows(t, p) => p = o
         /\ Executes(t, p)' \/ Shows(t, p)' => p = o
         /\ ~Applies(t, p)'
         /\ Shows(t, p)' <=> label \in {"restore", "root"} /\ p = o
  BY <1>1 DEF Executes, Applies, Shows
<1>7. CreationInv'
  <2>1. \A u \in Thread, p \in Object : Created(u, p) =>
           p # o /\ pc'[u] = pc[u] /\ contents'[p] = contents[p]
    BY <1>1, <1>2 DEF RowsInv, CreationInv, Created
  <2>2. \A u \in Thread, p \in Object : Executes(u, p)' => Executes(u, p)
    BY <1>5, <1>6
  <2>. QED
    BY <1>4, <1>5, <2>1, <2>2 DEF RowsInv, CreationInv
<1>8. ExecuteInv'
  <2>1. \A u \in Thread, p \in Object : Executes(u, p)' => Executes(u, p)
    BY <1>5, <1>6
  <2>. QED
    BY <2>1 DEF RowsInv, ExecuteInv
<1>9. ContentsInv'
  <2>1. \A p \in tables[First] : p \in Object
    BY FirstList
  <2>2. ASSUME NEW p \in tables[First]
        PROVE  /\ (\A u \in Thread : ~Applies(u, p)' /\ ~Shows(u, p)') =>
                     rows[name[p]] = contents'[p]
               /\ \A u \in Thread :
                     /\ Applies(u, p)' => rows[name[p]] = Updated(contents'[p], arg'[u].batch)
                     /\ Shows(u, p)' => rows[name[p]] = arg'[u].root
    <3>1. CASE p = o
      <4>1. \A u \in Thread \ {t} : ~Applies(u, o)' /\ ~Shows(u, o)'
        BY <1>5, Alone
      <4>. QED
        BY <1>6, <3>1, <4>1
    <3>2. CASE p # o
      <4>1. \A u \in Thread :
               /\ Applies(u, p)' <=> Applies(u, p)
               /\ Shows(u, p)' <=> Shows(u, p)
               /\ Applies(u, p) \/ Shows(u, p) => arg'[u] = arg[u]
        BY <1>1, <1>5, <1>6, <2>1, <3>2
      <4>2. contents'[p] = contents[p]
        BY <2>1, <3>2
      <4>. QED
        BY <4>1, <4>2 DEF RowsInv, ContentsInv
    <3>. QED
      BY <3>1, <3>2
  <2>3. \A m \in Name \ {Unnamed} : rows[m] # EmptyMap =>
            m \in file \/ \E u \in Thread : pc'[u] = "write" /\ m \in Names
    BY <1>1, <1>2 DEF RowsInv, ContentsInv, Creating
  <2>. QED
    BY <1>4, <2>2, <2>3 DEF ContentsInv
<1>. QED
  BY <1>3, <1>4, <1>7, <1>8, <1>9 DEF RowsInv

\* The new root is what the rows hold.
LEMMA RowsApply ==
    ASSUME TypeInv, RowsInv, NEW t \in Thread, Apply(t)
    PROVE  RowsInv'
<1> DEFINE o == arg[t].object
<1>1. o \in Object /\ Executes(t, o) /\ Applies(t, o)
  BY ArgObject DEF Apply, Executes, Applies
<1>2. /\ pc' = [pc EXCEPT ![t] = "restore"]
      /\ arg'[t].object = o /\ arg'[t].root = Updated(contents[o], arg[t].batch)
      /\ \A u \in Thread \ {t} : arg'[u] = arg[u]
      /\ UNCHANGED <<status, file, rows, tables, opened, name, contents, confirmed>>
  BY DEF Apply, Goto, TypeInv, ArgInv, disk
<1>3. o \in tables[First] => rows[name[o]] = arg'[t].root
  BY <1>1, <1>2 DEF RowsInv, ContentsInv
<1>. QED
  BY <1>1, <1>2, <1>3, RowsInside

\* It still is when the store is given back.
LEMMA RowsRestore ==
    ASSUME TypeInv, RowsInv, NEW t \in Thread, Restore(t)
    PROVE  RowsInv'
<1> DEFINE o == arg[t].object
<1>1. o \in Object /\ Executes(t, o) /\ Shows(t, o)
  BY ArgObject DEF Restore, Executes, Shows
<1>2. /\ pc' = [pc EXCEPT ![t] = "root"]
      /\ UNCHANGED <<status, file, rows, tables, opened, name, contents, arg, confirmed>>
  BY DEF Restore, Goto, disk
<1>3. o \in tables[First] => rows[name[o]] = arg[t].root
  BY <1>1 DEF RowsInv, ContentsInv
<1>. QED
  BY <1>1, <1>2, <1>3, RowsInside

\* The table follows its rows.
LEMMA RowsWriteRoot ==
    ASSUME TypeInv, RowsInv, NEW t \in Thread, WriteRoot(t)
    PROVE  RowsInv'
<1> DEFINE o == arg[t].object
<1>1. o \in Object /\ Executes(t, o) /\ Shows(t, o)
  BY ArgObject DEF WriteRoot, Executes, Shows
<1>2. /\ pc' = [pc EXCEPT ![t] = "return"]
      /\ UNCHANGED <<status, file, rows, tables, opened, name, arg, confirmed>>
      /\ contents'[o] = arg[t].root
      /\ \A p \in Object \ {o} : contents'[p] = contents[p]
  BY <1>1 DEF WriteRoot, Goto, disk, TypeInv, TypeOK
<1>3. o \in tables[First] => rows[name[o]] = contents'[o]
  BY <1>1, <1>2 DEF RowsInv, ContentsInv
<1>. QED
  BY <1>1, <1>2, <1>3, RowsInside

\* A write to RocksDB that fails leaves the rows to the table.
LEMMA RowsPanics ==
    ASSUME Listed, TypeInv, RowsInv, NEW t \in Thread, Panics(t)
    PROVE  RowsInv'
<1> DEFINE o == arg[t].object
<1>1. pc[t] = "backup"
  BY DEF Panics, Listed
<1>2. o \in Object /\ Executes(t, o)
  BY <1>1, ArgObject DEF Executes
<1>3. /\ pc' = [pc EXCEPT ![t] = "panicked"]
      /\ UNCHANGED <<status, file, rows, tables, opened, name, contents, arg, confirmed>>
  BY DEF Panics, Goto, disk
<1>4. o \in tables[First] => rows[name[o]] = contents[o]
  BY <1>1, <1>2, Alone
<1>. QED
  BY <1>2, <1>3, <1>4, RowsInside

\* A transaction that returns leaves everything as it is.
LEMMA RowsReturn ==
    ASSUME TypeInv, RowsInv, NEW t \in Thread, Return(t)
    PROVE  RowsInv'
<1> DEFINE o == arg[t].object
<1>1. pc[t] = "return" /\ o \in Object /\ Executes(t, o)
  BY ArgObject DEF Return, Executes
<1>2. /\ pc' = [pc EXCEPT ![t] = "idle"]
      /\ \A u \in Thread \ {t} : arg'[u] = arg[u]
      /\ UNCHANGED <<status, file, rows, tables, opened, name, contents, confirmed>>
  BY DEF Return, Goto, TypeInv, ArgInv, disk
<1>3. o \in tables[First] => rows[name[o]] = contents[o]
  BY <1>1, Alone
<1>. QED
  BY <1>1, <1>2, <1>3, RowsInside

\* Every step keeps the rows and the tables together.
LEMMA RowsStep ==
    ASSUME Listed, TypeInv, RowsInv, [Next]_vars
    PROVE  RowsInv'
<1>1. CASE UNCHANGED vars
  <2>1. UNCHANGED <<status, file, rows, tables, opened, name, contents, pc, arg, confirmed>>
    BY <1>1 DEF vars, memory, disk
  <2>. QED
    BY <2>1 DEF RowsInv, ListInv, ConfirmedListed, NamesInv, CreationInv, ExecuteInv,
       ContentsInv, Created, Creating, Executes, Applies, Shows, Names
<1>2. CASE New
  BY <1>2, RowsNew
<1>3. CASE Stop
  BY <1>3, RowsStop
<1>4. ASSUME NEW d \in Instance, NEW copy \in Instance, Clone(d, copy)
      PROVE  RowsInv'
  <2>1. tables'[First] = tables[First] /\ tables'[copy] = tables[d] /\ d \in opened
        /\ \A e \in opened : tables'[e] = tables[e]
    BY <1>4, FirstList DEF Clone, TypeInv, TypeOK
  <2>2. UNCHANGED <<status, file, rows, name, contents, pc, arg, confirmed>>
        /\ opened' = opened \cup {copy}
    BY <1>4 DEF Clone, disk
  <2>3. ListInv' /\ Names' = Names
    BY <2>1, <2>2 DEF RowsInv, ListInv, Creating, ConfirmedListed, Names
  <2>4. NamesInv'
    BY <2>1, <2>2, <2>3 DEF RowsInv, NamesInv, Creating
  <2>5. CreationInv' /\ ExecuteInv'
    BY <2>1, <2>2, <2>3 DEF RowsInv, CreationInv, ExecuteInv, Created, Creating, Executes
  <2>6. ContentsInv'
    BY <2>1, <2>2, <2>3 DEF RowsInv, ContentsInv, Applies, Shows
  <2>. QED
    BY <2>3, <2>4, <2>5, <2>6 DEF RowsInv
<1>5. ASSUME NEW o \in Object, NEW copy \in Object, CloneTable(o, copy)
      PROVE  RowsInv'
  <2>1. copy \notin tables[First] /\ \A t \in Thread : pc[t] # "idle" => arg[t].object # copy
    BY <1>5, FirstList, ArgObject DEF CloneTable
  <2>2. /\ name' = [name EXCEPT ![copy] = name[o]]
        /\ contents' = [contents EXCEPT ![copy] = contents[o]]
        /\ UNCHANGED <<status, disk, tables, opened, pc, arg, confirmed>>
    BY <1>5 DEF CloneTable
  <2>. QED
    BY <2>1, <2>2, RowsObjects
<1>6. ASSUME NEW o \in Object, NEW batch \in Batch, Receive(o, Updated(EmptyMap, batch))
      PROVE  RowsInv'
  BY <1>6, FirstList, ArgObject, RowsObjects DEF Receive
<1>7. ASSUME NEW o \in Object, Drop(o)
      PROVE  RowsInv'
  BY <1>7, FirstList, ArgObject, RowsObjects DEF Drop
<1>8. ASSUME NEW t \in Thread, NEW d \in Instance, NEW n \in Name, NEW o \in Object,
             EmptyTable(t, d, n, o)
      PROVE  RowsInv'
  BY <1>8, RowsCreate
<1>9. ASSUME NEW t \in Thread, NEW o \in Object, NEW batch \in Batch, Execute(t, o, batch)
      PROVE  RowsInv'
  BY <1>9, RowsExecute
<1>10. ASSUME NEW t \in Thread, Push(t) \/ Collect(t) \/ Truncate(t) \/ Write(t)
       PROVE  RowsInv'
  BY <1>10, RowsPush, RowsCollect, RowsTruncate, RowsWrite
<1>11. ASSUME NEW t \in Thread, Backup(t) \/ Apply(t) \/ Restore(t) \/ WriteRoot(t) \/ Return(t)
       PROVE  RowsInv'
  BY <1>11, RowsBackup, RowsApply, RowsRestore, RowsWriteRoot, RowsReturn
<1>12. ASSUME NEW t \in Thread, Panics(t)
       PROVE  RowsInv'
  BY <1>12, RowsPanics
<1>. QED
  BY <1>1, <1>2, <1>3, <1>4, <1>5, <1>6, <1>7, <1>8, <1>9, <1>10, <1>11, <1>12 DEF Next

\* At first there are neither rows nor tables.
LEMMA RowsInit == Init => RowsInv
<1> SUFFICES ASSUME Init
             PROVE  RowsInv
  OBVIOUS
<1>1. /\ status = "down" /\ file = {} /\ confirmed = {} /\ opened = {}
      /\ tables[First] = {} /\ rows = [n \in Name |-> EmptyMap]
      /\ \A t \in Thread : pc[t] = "idle"
  BY DatabaseAssumption DEF Init, disk
<1>. QED
  BY <1>1 DEF RowsInv, ListInv, ConfirmedListed, NamesInv, CreationInv, ExecuteInv,
     ContentsInv, Created, Creating, Executes, Applies, Shows, Names

\* The two halves of what the rows are for: of a table any instance lists, they
\* are what it shows.
LEMMA RowsAre == TypeInv /\ RowsInv => RowsMatch
<1> SUFFICES ASSUME TypeInv, RowsInv, NEW o \in Registered, rows[name[o]] # contents[o]
             PROVE  \E t \in Thread :
                       /\ arg[t] # Absent /\ arg[t].object = o
                       /\ \/ pc[t] = "apply"
                             /\ rows[name[o]] = Updated(contents[o], arg[t].batch)
                          \/ pc[t] \in {"restore", "root"} /\ rows[name[o]] = arg[t].root
  BY DEF RowsMatch
<1>1. o \in tables[First]
  BY DEF Registered, RowsInv, NamesInv
<1>2. PICK t \in Thread : Applies(t, o) \/ Shows(t, o)
  BY <1>1 DEF RowsInv, ContentsInv
<1>3. arg[t] # Absent
  BY <1>2, ArgObject DEF Applies, Shows
<1>. QED
  BY <1>1, <1>2, <1>3 DEF RowsInv, ContentsInv, Applies, Shows

\* At every step the rows of a table that any instance lists are what the table
\* shows, or will show when the transaction that has written them is applied and its
\* root is written; this also if received tables are given transactions, but only as
\* long as no two threads call one table at a time.
THEOREM RowsStayMatched == Listed => (Spec => []RowsMatch)
<1> SUFFICES ASSUME Listed
             PROVE  Spec => []RowsMatch
  OBVIOUS
<1>1. Init => TypeInv /\ RowsInv
  BY TypeInit, RowsInit
<1>2. TypeInv /\ RowsInv /\ [Next]_vars => (TypeInv /\ RowsInv)'
  BY TypeStep, RowsStep
<1>. QED
  BY <1>1, <1>2, RowsAre, PTL DEF Spec

-----------------------------------------------------------------------------
(***************************************************************************)
(* Opening the database again.                                             *)
(***************************************************************************)

\* Objects with a name, or with none that is in use, make no row.
LEMMA UnnamedStep ==
    ASSUME Disciplined, TypeInv, RowsInv, NoUnnamed, [Next]_vars
    PROVE  NoUnnamed'
<1> USE DEF NoUnnamed, Reopens
<1>1. CASE UNCHANGED vars
  BY <1>1 DEF vars, memory, disk, Executes
<1>2. CASE New
  <2>1. UNCHANGED <<rows, pc, arg>> /\ (\A t \in Thread : pc[t] = "idle") /\ status = "down"
    BY <1>2 DEF New, disk, TypeInv, ArgInv
  <2>2. RowsHaveTables
    BY <2>1 DEF RowsHaveTables, RowsInv, ContentsInv
  <2>. QED
    BY <1>2, <2>1, <2>2 DEF New, Executes
<1>3. CASE Stop
  BY <1>3 DEF Stop, disk, Executes
<1>4. ASSUME NEW d \in Instance, NEW copy \in Instance, Clone(d, copy)
      PROVE  NoUnnamed'
  BY <1>4 DEF Clone, disk, Executes
<1>5. ASSUME NEW o \in Object, ~Exists(o) \/ \A t \in Thread : arg[t] # Absent => arg[t].object # o,
             \E n : name' = [name EXCEPT ![o] = n],
             UNCHANGED <<status, rows, pc, arg>>
      PROVE  NoUnnamed'
  <2>1. \A t \in Thread, p \in Object : Executes(t, p) => p # o
    BY <1>5, CallObjects, ArgObject DEF Executes
  <2>2. \A p \in Object : p # o => name'[p] = name[p]
    BY <1>5 DEF TypeInv, TypeOK
  <2>. QED
    BY <1>5, <2>1, <2>2 DEF Executes
<1>6. ASSUME NEW o \in Object, NEW copy \in Object, CloneTable(o, copy)
      PROVE  NoUnnamed'
  BY <1>5, <1>6 DEF CloneTable, disk
<1>7. ASSUME NEW o \in Object, NEW batch \in Batch, Receive(o, Updated(EmptyMap, batch))
      PROVE  NoUnnamed'
  BY <1>5, <1>7 DEF Receive, disk
<1>8. ASSUME NEW o \in Object, Drop(o)
      PROVE  NoUnnamed'
  BY <1>5, <1>8 DEF Drop, disk
<1>9. ASSUME NEW t \in Thread, NEW d \in Instance, NEW n \in Name, NEW o \in Object,
             EmptyTable(t, d, n, o)
      PROVE  NoUnnamed'
  <2>1. /\ \A p \in Object : p # o => name'[p] = name[p]
        /\ \A u \in Thread : pc'[u] # pc[u] => pc'[u] = "push"
        /\ \A u \in Thread : pc'[u] # "push" => arg'[u] = arg[u]
        /\ UNCHANGED <<status, rows>>
    BY <1>9 DEF EmptyTable, Goto, disk, TypeInv, TypeOK, ArgInv
  <2>2. \A u \in Thread, p \in Object : Executes(u, p)' => Executes(u, p)
    BY <2>1 DEF Executes
  <2>3. \A u \in Thread, p \in Object : Executes(u, p) => p # o
    BY <1>9, CallObjects DEF EmptyTable
  <2>. QED
    BY <2>1, <2>2, <2>3
<1>10. ASSUME NEW t \in Thread, NEW o \in Object, NEW batch \in Batch, Execute(t, o, batch)
       PROVE  NoUnnamed'
  <2>1. name[o] # Unnamed
    BY <1>10 DEF Execute, MayExecute, Disciplined
  <2>2. /\ \A u \in Thread, p \in Object : Executes(u, p)' => Executes(u, p) \/ p = o
        /\ UNCHANGED <<status, rows, name>>
    BY <1>10 DEF Execute, Goto, Executes, TypeInv, TypeOK, ArgInv, disk
  <2>. QED
    BY <2>1, <2>2
<1>11. ASSUME NEW t \in Thread, Push(t) \/ Collect(t) \/ Truncate(t) \/ Write(t)
       PROVE  NoUnnamed'
  <2>1. /\ pc'[t] \notin {"backup", "apply", "restore", "root", "return", "panicked"}
        /\ \A u \in Thread \ {t} : pc'[u] = pc[u] /\ arg'[u] = arg[u]
        /\ UNCHANGED <<status, rows, name>>
    BY <1>11 DEF Push, Collect, Truncate, Write, Goto, TypeInv, TypeOK, ArgInv, disk
  <2>. QED
    BY <2>1 DEF Executes
<1>12. ASSUME NEW t \in Thread, Backup(t)
       PROVE  NoUnnamed'
  <2>1. name[arg[t].object] # Unnamed
    BY <1>12, ArgObject DEF Backup, Executes
  <2>2. /\ \A u \in Thread, p \in Object : Executes(u, p)' <=> Executes(u, p)
        /\ UNCHANGED <<status, name>>
    BY <1>12 DEF Backup, Goto, Executes, TypeInv, TypeOK
  <2>3. rows'[Unnamed] = rows[Unnamed]
    BY <1>12, <2>1, DatabaseAssumption DEF Backup, TypeInv, TypeOK
  <2>. QED
    BY <2>2, <2>3
<1>13. ASSUME NEW t \in Thread,
              Apply(t) \/ Panics(t) \/ Restore(t) \/ WriteRoot(t) \/ Return(t)
       PROVE  NoUnnamed'
  <2>1. /\ pc[t] \in {"backup", "apply", "restore", "root", "return"}
        /\ pc'[t] # "idle" => arg'[t].object = arg[t].object
        /\ \A u \in Thread \ {t} : pc'[u] = pc[u] /\ arg'[u] = arg[u]
        /\ UNCHANGED <<status, rows, name>>
    BY <1>13 DEF Apply, Panics, Restore, WriteRoot, Return, Goto, TypeInv, TypeOK, ArgInv, disk
  <2>2. \A u \in Thread, p \in Object : Executes(u, p)' => Executes(u, p)
    BY <2>1 DEF Executes
  <2>. QED
    BY <2>1, <2>2
<1>. QED
  BY <1>1, <1>2, <1>3, <1>4, <1>6, <1>7, <1>8, <1>9, <1>10, <1>11, <1>12, <1>13 DEF Next

\* A database used with discipline opens again after every stop: each row has a
\* table in the file of names.
THEOREM AlwaysReopens == Disciplined => (Spec => []Reopens)
<1> SUFFICES ASSUME Disciplined
             PROVE  Spec => []Reopens
  OBVIOUS
<1>1. Listed
  BY DEF Disciplined, Listed
<1>2. Init => TypeInv /\ RowsInv /\ NoUnnamed
  BY TypeInit, RowsInit, DatabaseAssumption DEF Init, disk, NoUnnamed, Executes, Reopens
<1>3. TypeInv /\ RowsInv /\ NoUnnamed /\ [Next]_vars => (TypeInv /\ RowsInv /\ NoUnnamed)'
  BY <1>1, TypeStep, RowsStep, UnnamedStep
<1>4. TypeInv /\ RowsInv /\ NoUnnamed => Reopens
  BY DEF NoUnnamed
<1>. QED
  BY <1>2, <1>3, <1>4, PTL DEF Spec

-----------------------------------------------------------------------------
(***************************************************************************)
(* Database implements Durable, for every value of its constants, when it  *)
(* is used with discipline: a table comes to be when its name is in the    *)
(* file, a transaction takes effect when RocksDB has taken its batch, and  *)
(* a stop of the process forgets the calls in progress and nothing else.   *)
(***************************************************************************)

\* The names whose creation has returned are those of the list, but for the one
\* that is being created.
ConfirmedInv ==
    /\ file \subseteq confirmed
    /\ \A n \in Names \ confirmed :
          \E t \in Thread : Creating(t) /\ n = name[arg[t].object]
    /\ \A t \in Thread : Creating(t) => name[arg[t].object] \notin confirmed

DInv == TypeInv /\ RowsInv /\ NoUnnamed /\ ConfirmedInv

\* The variables of Durable, as Database has them.
tableBar == [n \in Name |-> IF n \in confirmed THEN rows[n] ELSE Absent]

callBar == [t \in Thread |->
    IF pc[t] \in {"backup", "panicked"}
    THEN [handle |-> name[arg[t].object], batch |-> arg[t].batch]
    ELSE Absent]

replyBar == [t \in Thread |->
    CASE pc[t] = "apply" -> Answers(contents[arg[t].object], arg[t].batch)
      [] pc[t] \in {"restore", "root", "return"} -> arg[t].answers
      [] OTHER -> Absent]

\* Where a transaction may be.
Inside == {"backup", "apply", "restore", "root", "return", "panicked"}

Mapped == Tables!Next \/ Tables!Crash \/ UNCHANGED Tables!vars

-----------------------------------------------------------------------------
(***************************************************************************)
(* The names that are confirmed.                                           *)
(***************************************************************************)

\* A listed table is confirmed unless it is the one that is being created.
LEMMA ListedConfirmed ==
    ASSUME DInv, NEW o \in tables[First],
           \A u \in Thread : Creating(u) => arg[u].object # o
    PROVE  name[o] \in confirmed /\ name[o] \in Name
<1>1. name[o] \in Names /\ name[o] \in Name
  BY FirstList DEF Names, DInv
<1>2. ASSUME NEW u \in Thread, Creating(u), name[o] = name[arg[u].object]
      PROVE  FALSE
  <2>1. arg[u].object \in Object /\ Created(u, arg[u].object)
    BY <1>2, ArgObject DEF DInv, Created, Creating
  <2>2. arg[u].object # o /\ (pc[u] = "push" => name[arg[u].object] \notin Names)
    BY <1>2, <2>1 DEF DInv, RowsInv, CreationInv
  <2>3. arg[u].object \in tables[First]
    BY <1>1, <1>2, <2>2 DEF DInv, RowsInv, ListInv, Creating
  <2>. QED
    BY <1>2, <2>2, <2>3 DEF DInv, RowsInv, NamesInv
<1>. QED
  BY <1>1, <1>2 DEF DInv, ConfirmedInv

\* A transaction's table is listed, and confirmed.
LEMMA ExecutesConfirmed ==
    ASSUME DInv, NEW t \in Thread, pc[t] \in Inside
    PROVE  /\ arg[t].object \in tables[First]
           /\ name[arg[t].object] \in confirmed /\ name[arg[t].object] \in Name
<1> DEFINE o == arg[t].object
<1>1. o \in Object /\ Executes(t, o)
  BY ArgObject DEF DInv, Executes, Inside
<1>2. o \in tables[First]
  BY <1>1 DEF DInv, NoUnnamed, RowsInv, ExecuteInv
<1>3. \A u \in Thread : Creating(u) => arg[u].object # o
  BY <1>1 DEF DInv, RowsInv, CreationInv, Created
<1>. QED
  BY <1>2, <1>3, ListedConfirmed

\* Steps that neither list nor confirm a name.
LEMMA ConfirmedSame ==
    ASSUME DInv, Names' = Names, file' \subseteq file, UNCHANGED confirmed,
           \A t \in Thread :
              /\ Creating(t)' <=> Creating(t)
              /\ Creating(t) => name'[arg'[t].object] = name[arg[t].object]
    PROVE  ConfirmedInv'
  BY DEF DInv, ConfirmedInv

\* Objects that come or go are not being created.
LEMMA ConfirmedObjects ==
    ASSUME DInv, NEW o \in Object, NEW n, o \notin tables[First],
           \A t \in Thread : pc[t] # "idle" => arg[t].object # o,
           name' = [name EXCEPT ![o] = n],
           UNCHANGED <<file, tables, pc, arg, confirmed>>
    PROVE  ConfirmedInv'
<1>1. Names' = Names
  BY NamesSame DEF DInv
<1>2. \A t \in Thread : Creating(t) => name'[arg[t].object] = name[arg[t].object]
  BY ArgObject DEF DInv, Creating, TypeInv, TypeOK
<1>. QED
  BY <1>1, <1>2, ConfirmedSame DEF Creating

\* Every step keeps the confirmed names those of the list.
LEMMA ConfirmedStep ==
    ASSUME Disciplined, DInv, [Next]_vars
    PROVE  ConfirmedInv'
<1>1. CASE UNCHANGED vars
  BY <1>1, ConfirmedSame DEF vars, memory, disk, Names, Creating
<1>2. CASE New
  <2>1. /\ \A t \in Thread : pc[t] = "idle" /\ pc'[t] = "idle"
        /\ UNCHANGED <<file, confirmed>> /\ Names = {}
    BY <1>2, FirstList DEF New, disk, DInv, TypeInv, ArgInv, Names
  <2>2. Names' \subseteq file
    <3>1. CASE UNCHANGED <<name, tables>>
      BY <2>1, <3>1 DEF Names
    <3>2. CASE Recover
      <4>1. PICK objects \in SUBSET Object : \E names \in [objects -> file] :
              /\ name' = [o \in Object |-> IF o \in objects THEN names[o] ELSE Absent]
              /\ tables' = [tables EXCEPT ![First] = objects]
        BY <3>2 DEF Recover, Recovered
      <4>2. PICK names \in [objects -> file] :
              /\ name' = [o \in Object |-> IF o \in objects THEN names[o] ELSE Absent]
              /\ tables' = [tables EXCEPT ![First] = objects]
        BY <4>1
      <4>3. tables'[First] = objects /\ \A o \in objects : name'[o] \in file
        BY <4>2, FirstList DEF DInv, TypeInv, TypeOK
      <4>. QED
        BY <4>3 DEF Names
    <3>. QED
      BY <1>2, <3>1, <3>2 DEF New
  <2>. QED
    BY <2>1, <2>2 DEF DInv, ConfirmedInv, Creating
<1>3. CASE Stop
  <2>1. /\ \A t \in Thread : pc'[t] = "idle"
        /\ UNCHANGED <<file, confirmed>> /\ Names' = {}
    BY <1>3, FirstList DEF Stop, disk, DInv, Names
  <2>. QED
    BY <2>1 DEF DInv, ConfirmedInv, Creating
<1>4. ASSUME NEW d \in Instance, NEW copy \in Instance, Clone(d, copy)
      PROVE  ConfirmedInv'
  <2>1. tables'[First] = tables[First]
    BY <1>4, FirstList DEF Clone, DInv, TypeInv, TypeOK
  <2>. QED
    BY <1>4, <2>1, ConfirmedSame DEF Clone, disk, Names, Creating
<1>5. ASSUME NEW o \in Object, NEW copy \in Object, CloneTable(o, copy)
      PROVE  ConfirmedInv'
  <2>1. copy \notin tables[First] /\ \A t \in Thread : pc[t] # "idle" => arg[t].object # copy
    BY <1>5, FirstList, ArgObject DEF CloneTable, DInv
  <2>. QED
    BY <1>5, <2>1, ConfirmedObjects DEF CloneTable, disk
<1>6. ASSUME NEW o \in Object, NEW batch \in Batch, Receive(o, Updated(EmptyMap, batch))
      PROVE  ConfirmedInv'
  BY <1>6, FirstList, ArgObject, ConfirmedObjects DEF Receive, DInv, disk
<1>7. ASSUME NEW o \in Object, Drop(o)
      PROVE  ConfirmedInv'
  BY <1>7, FirstList, ArgObject, ConfirmedObjects DEF Drop, DInv, disk
<1>8. ASSUME NEW t \in Thread, NEW d \in Instance, NEW n \in Name, NEW o \in Object,
             EmptyTable(t, d, n, o)
      PROVE  ConfirmedInv'
  <2>1. o \notin tables[First] /\ \A u \in Thread : pc[u] # "idle" => arg[u].object # o
    BY <1>8, FirstList, ArgObject DEF EmptyTable, DInv
  <2>2. CASE UNCHANGED <<pc, arg>>
    BY <1>8, <2>1, <2>2, ConfirmedObjects DEF EmptyTable, disk
  <2>3. CASE /\ arg' = [arg EXCEPT ![t] = [database |-> d, object |-> o]]
             /\ pc' = [pc EXCEPT ![t] = "push"]
             /\ ~\E listed \in tables[d] : name[listed] = n
    <3>1. d = First /\ (\A u \in Thread : ~Creating(u)) /\ status = "running"
      BY <1>8 DEF EmptyTable, MayCreate, Disciplined
    <3>2. /\ \A u \in Thread : Creating(u)' => u = t
          /\ arg'[t].object = o /\ name'[o] = n
      BY <1>8, <2>3, <3>1 DEF Creating, EmptyTable, DInv, TypeInv, TypeOK, ArgInv
    <3>3. confirmed \subseteq file /\ file \subseteq Names
      BY <3>1 DEF DInv, RowsInv, ListInv, ConfirmedListed, Creating
    <3>4. n \notin Names
      BY <2>3, <3>1 DEF Names
    <3>5. Names' = Names /\ UNCHANGED <<file, confirmed>>
      BY <1>8, <2>1, NamesSame DEF EmptyTable, DInv, disk
    <3>6. Names \subseteq confirmed
      BY <3>1 DEF DInv, ConfirmedInv
    <3>. QED
      BY <3>2, <3>3, <3>4, <3>5, <3>6 DEF DInv, ConfirmedInv
  <2>. QED
    BY <1>8, <2>2, <2>3 DEF EmptyTable, Goto
<1>9. ASSUME NEW t \in Thread, NEW o \in Object, NEW batch \in Batch, Execute(t, o, batch)
      PROVE  ConfirmedInv'
  <2>1. /\ ~Creating(t) /\ ~Creating(t)'
        /\ \A u \in Thread \ {t} : pc'[u] = pc[u] /\ arg'[u] = arg[u]
        /\ UNCHANGED <<file, tables, name, confirmed>>
    BY <1>9 DEF Execute, Goto, Creating, DInv, TypeInv, TypeOK, ArgInv, disk
  <2>. QED
    BY <2>1, ConfirmedSame DEF Names, Creating
<1>10. ASSUME NEW t \in Thread, Push(t)
       PROVE  ConfirmedInv'
  <2>1. Names' = Names \cup {name[arg[t].object]}
    BY <1>10, ListPush DEF DInv, RowsInv
  <2>2. /\ UNCHANGED <<file, name, arg, confirmed>> /\ Creating(t) /\ Creating(t)'
        /\ \A u \in Thread \ {t} : pc'[u] = pc[u]
    BY <1>10 DEF Push, Goto, Creating, DInv, TypeInv, TypeOK, disk
  <2>3. \A u \in Thread : Creating(u)' <=> Creating(u)
    BY <2>2 DEF Creating
  <2>. QED
    BY <2>1, <2>2, <2>3 DEF DInv, ConfirmedInv
<1>11. ASSUME NEW t \in Thread, Collect(t)
       PROVE  ConfirmedInv'
  <2>1. Names' = Names /\ arg'[t].object = arg[t].object
    BY <1>11, ListCollect DEF DInv, RowsInv
  <2>2. /\ UNCHANGED <<file, name, confirmed>> /\ Creating(t) /\ Creating(t)'
        /\ \A u \in Thread \ {t} : pc'[u] = pc[u] /\ arg'[u] = arg[u]
    BY <1>11 DEF Collect, Goto, Creating, DInv, TypeInv, TypeOK, ArgInv, disk
  <2>. QED
    BY <2>1, <2>2, ConfirmedSame DEF Creating
<1>12. ASSUME NEW t \in Thread, Truncate(t)
       PROVE  ConfirmedInv'
  <2>1. Names' = Names
    BY <1>12, ListTruncate DEF DInv, RowsInv
  <2>2. /\ UNCHANGED <<name, confirmed, arg>> /\ Creating(t) /\ Creating(t)' /\ file' = {}
        /\ \A u \in Thread \ {t} : pc'[u] = pc[u]
    BY <1>12 DEF Truncate, Goto, Creating, DInv, TypeInv, TypeOK
  <2>. QED
    BY <2>1, <2>2, ConfirmedSame DEF Creating
<1>13. ASSUME NEW t \in Thread, Write(t)
       PROVE  ConfirmedInv'
  <2>1. Names' = Names /\ file' = Names
    BY <1>13, ListWrite DEF DInv, RowsInv
  <2>2. \A u \in Thread \ {t} : ~Creating(u)
    BY <1>13, OneCreation DEF DInv, RowsInv, Creating, Write
  <2>3. /\ confirmed' = confirmed \cup {name[arg[t].object]}
        /\ \A u \in Thread : ~Creating(u)'
    BY <1>13, <2>2 DEF Write, Goto, Creating, DInv, TypeInv, TypeOK
  <2>4. Names \subseteq confirmed'
    BY <2>2, <2>3 DEF DInv, ConfirmedInv
  <2>. QED
    BY <2>1, <2>3, <2>4 DEF ConfirmedInv
<1>14. ASSUME NEW t \in Thread,
              \/ Backup(t) \/ Apply(t) \/ Panics(t)
              \/ Restore(t) \/ WriteRoot(t) \/ Return(t)
       PROVE  ConfirmedInv'
  <2>1. /\ ~Creating(t) /\ ~Creating(t)'
        /\ \A u \in Thread \ {t} : pc'[u] = pc[u] /\ arg'[u] = arg[u]
        /\ UNCHANGED <<file, tables, name, confirmed>>
    BY <1>14 DEF Backup, Apply, Panics, Restore, WriteRoot, Return, Goto, Creating, DInv, TypeInv, TypeOK, ArgInv, disk
  <2>. QED
    BY <2>1, ConfirmedSame DEF Names, Creating
<1>. QED
  BY <1>1, <1>2, <1>3, <1>4, <1>5, <1>6, <1>7, <1>8, <1>9, <1>10, <1>11, <1>12, <1>13, <1>14
     DEF Next

-----------------------------------------------------------------------------
(***************************************************************************)
(* Every step is one of Durable's, or changes nothing it knows of.         *)
(***************************************************************************)

\* The variables of Durable are the ones above.
LEMMA Bars == Tables!vars = <<tableBar, callBar, replyBar>>
  BY DEF Tables!vars, tableBar, callBar, replyBar

\* A step that changes none of them is a stutter.
LEMMA Stutter ==
    ASSUME tableBar' = tableBar, callBar' = callBar, replyBar' = replyBar
    PROVE  Mapped
  BY DEF Mapped, Tables!vars, tableBar, callBar, replyBar

\* What objects and lists do while no transaction sees it.
LEMMA QuietStep ==
    ASSUME UNCHANGED <<rows, confirmed>>,
           \A t \in Thread :
              /\ pc[t] \in Inside =>
                    /\ pc'[t] = pc[t] /\ arg'[t] = arg[t]
                    /\ name'[arg[t].object] = name[arg[t].object]
                    /\ contents'[arg[t].object] = contents[arg[t].object]
              /\ pc[t] \notin Inside => pc'[t] \notin Inside
    PROVE  Mapped
<1>1. tableBar' = tableBar
  BY DEF tableBar
<1>2. callBar' = callBar
  BY DEF callBar, Inside
<1>3. replyBar' = replyBar
  BY DEF replyBar, Inside
<1>. QED
  BY <1>1, <1>2, <1>3, Stutter

\* Objects that come or go are in no transaction.
LEMMA ObjectsMap ==
    ASSUME DInv, NEW o \in Object, NEW n, NEW map,
           \A t \in Thread : pc[t] # "idle" => arg[t].object # o,
           name' = [name EXCEPT ![o] = n], contents' = [contents EXCEPT ![o] = map],
           UNCHANGED <<rows, confirmed>>,
           \A t \in Thread :
              /\ pc[t] \in Inside =>
                    pc'[t] = pc[t] /\ arg'[t] = arg[t]
              /\ pc[t] \notin Inside => pc'[t] \notin Inside
    PROVE  Mapped
<1>1. \A t \in Thread : pc[t] # "idle" =>
         /\ name'[arg[t].object] = name[arg[t].object]
         /\ contents'[arg[t].object] = contents[arg[t].object]
  BY ArgObject DEF DInv, TypeInv, TypeOK
<1>. QED
  BY <1>1, QuietStep DEF Inside

\* A creation is seen when the file is written: the table was not there, and
\* is empty then.
LEMMA WriteMaps ==
    ASSUME DInv, NEW t \in Thread, Write(t)
    PROVE  Mapped
<1>1. PICK n \in Name : /\ n = name[arg[t].object]
                       /\ n \notin confirmed /\ rows[n] = EmptyMap
  <2>1. arg[t].object \in Object /\ Created(t, arg[t].object)
    BY ArgObject DEF DInv, Created, Creating, Write
  <2>2. name[arg[t].object] \in Name
    BY <2>1, ArgObject DEF DInv, TypeInv, TypeOK, Exists, Write
  <2>. QED
    BY <2>1, <2>2 DEF DInv, RowsInv, CreationInv, ConfirmedInv, Created
<1>2. /\ confirmed' = confirmed \cup {n} /\ UNCHANGED <<rows, name, contents>>
      /\ pc' = [pc EXCEPT ![t] = "idle"] /\ pc[t] = "write"
      /\ arg' = [arg EXCEPT ![t] = Absent]
  BY <1>1 DEF Write, Goto
<1>3. callBar' = callBar
  <2>1. \A u \in Thread : pc'[u] \in {"backup", "panicked"} <=> pc[u] \in {"backup", "panicked"}
    BY <1>2 DEF DInv, TypeInv, TypeOK
  <2>2. \A u \in Thread : pc[u] \in {"backup", "panicked"} => arg'[u] = arg[u]
    BY <1>2 DEF DInv, TypeInv, ArgInv
  <2>. QED
    BY <1>2, <2>1, <2>2 DEF callBar
<1>4. replyBar' = replyBar
  <2>1. \A u \in Thread : pc[u] \in {"apply", "restore", "root", "return"} => pc'[u] = pc[u] /\ arg'[u] = arg[u]
    BY <1>2 DEF DInv, TypeInv, TypeOK, ArgInv
  <2>2. \A u \in Thread : pc[u] \notin {"apply", "restore", "root", "return"} => pc'[u] \notin {"apply", "restore", "root", "return"}
    BY <1>2 DEF DInv, TypeInv, TypeOK
  <2>. QED
    BY <1>2, <2>1, <2>2 DEF replyBar
<1>5. tableBar' = [tableBar EXCEPT ![n] = EmptyMap] /\ tableBar[n] = Absent
  BY <1>1, <1>2 DEF tableBar
<1>6. Tables!Open(n)
  BY <1>1, <1>3, <1>4, <1>5
     DEF Tables!Open, Tables!Live, Tables!EmptyMap, EmptyMap, tableBar, callBar, replyBar
<1>. QED
  BY <1>6 DEF Mapped, Tables!Next

\* A transaction is submitted to a table that is there.
LEMMA ExecuteMaps ==
    ASSUME Disciplined, DInv, NEW t \in Thread, NEW o \in Object, NEW batch \in Batch,
           Execute(t, o, batch)
    PROVE  Mapped
<1>1. name[o] \in confirmed /\ name[o] \in Name
  <2>1. o \in Registered /\ \A u \in Thread : Creating(u) => arg[u].object # o
    BY DEF Execute, MayExecute, Disciplined
  <2>2. o \in tables[First]
    BY <2>1 DEF Registered, DInv, RowsInv, NamesInv
  <2>. QED
    BY <2>1, <2>2, ListedConfirmed
<1>2. /\ arg' = [arg EXCEPT ![t] = [object |-> o, batch |-> batch]]
      /\ pc' = [pc EXCEPT ![t] = "backup"] /\ pc[t] = "idle"
      /\ UNCHANGED <<rows, confirmed, name, contents>>
  BY DEF Execute, Goto, disk
<1>3. /\ arg'[t] = [object |-> o, batch |-> batch] /\ pc'[t] = "backup"
      /\ \A u \in Thread \ {t} : pc'[u] = pc[u] /\ arg'[u] = arg[u]
  BY <1>2 DEF DInv, TypeInv, TypeOK, ArgInv
<1>4. tableBar' = tableBar
  BY <1>2 DEF tableBar
<1>5. /\ callBar[t] = Absent
      /\ callBar' = [callBar EXCEPT ![t] = [handle |-> name[o], batch |-> batch]]
  <2>1. callBar[t] = Absent
    BY <1>2 DEF callBar
  <2>2. callBar'[t] = [handle |-> name[o], batch |-> batch]
    BY <1>2, <1>3 DEF callBar
  <2>3. \A u \in Thread \ {t} : callBar'[u] = callBar[u]
    BY <1>2, <1>3 DEF callBar
  <2>. QED
    BY <2>1, <2>2, <2>3 DEF callBar
<1>6. replyBar[t] = Absent /\ replyBar' = replyBar
  <2>1. \A u \in Thread : pc[u] \in {"apply", "restore", "root", "return"} => pc'[u] = pc[u] /\ arg'[u] = arg[u]
    BY <1>2, <1>3
  <2>2. \A u \in Thread : pc[u] \notin {"apply", "restore", "root", "return"} => pc'[u] \notin {"apply", "restore", "root", "return"}
    BY <1>3
  <2>. QED
    BY <1>2, <2>1, <2>2 DEF replyBar
<1>7. tableBar[name[o]] # Absent
  <2>1. rows[name[o]] \in Map
    BY <1>1 DEF DInv, TypeInv, TypeOK
  <2>. QED
    BY <1>1, <2>1, DatabaseAssumption DEF tableBar
<1>8. Tables!Submit(t, name[o], batch)
  BY <1>1, <1>4, <1>5, <1>6, <1>7
     DEF Tables!Submit, Tables!Live, tableBar, callBar, replyBar
<1>. QED
  BY <1>1, <1>8 DEF Mapped, Tables!Next

\* RocksDB takes the batch: the transaction has happened, and its answers are
\* those of the table in memory, which still is what the rows were.
LEMMA BackupMaps ==
    ASSUME DInv, NEW t \in Thread, Backup(t)
    PROVE  Mapped
<1> DEFINE o == arg[t].object
           n == name[o]
           batch == arg[t].batch
<1>1. o \in tables[First] /\ n \in confirmed /\ n \in Name
  BY ExecutesConfirmed DEF Backup, Inside
<1>2. /\ rows' = [rows EXCEPT ![n] = Updated(@, batch)]
      /\ pc' = [pc EXCEPT ![t] = "apply"] /\ pc[t] = "backup"
      /\ UNCHANGED <<confirmed, name, contents, arg>>
  BY DEF Backup, Goto
<1>3. rows[n] = contents[o] /\ rows[n] \in Map
  <2>1. Executes(t, o) /\ o \in Object
    BY <1>2, ArgObject DEF Executes, DInv
  <2>. QED
    BY <1>1, <1>2, <2>1, Alone DEF DInv, TypeInv, TypeOK
<1>4. pc'[t] = "apply" /\ \A u \in Thread \ {t} : pc'[u] = pc[u]
  BY <1>2 DEF DInv, TypeInv, TypeOK
<1>5. /\ tableBar[n] = rows[n]
      /\ tableBar' = [tableBar EXCEPT ![n] = Updated(@, batch)]
  <2>1. \A m \in Name : rows'[m] = IF m = n THEN Updated(rows[n], batch) ELSE rows[m]
    BY <1>1, <1>2 DEF DInv, TypeInv, TypeOK
  <2>. QED
    BY <1>1, <1>2, <2>1 DEF tableBar
<1>6. callBar[t] = [handle |-> n, batch |-> batch]
      /\ callBar' = [callBar EXCEPT ![t] = Absent]
  BY <1>2, <1>4 DEF callBar
<1>7. callBar[t] # Absent
  <2>1. batch \in Batch
    BY <1>2, Records DEF DInv, TypeInv, ArgInv
  <2>. QED
    BY <1>1, <1>6, <2>1, DatabaseAssumption
<1>8. replyBar' = [replyBar EXCEPT ![t] = Answers(contents[o], batch)]
  <2>1. replyBar'[t] = Answers(contents[o], batch)
    BY <1>2, <1>4 DEF replyBar
  <2>2. \A u \in Thread \ {t} : replyBar'[u] = replyBar[u]
    BY <1>2, <1>4 DEF replyBar
  <2>. QED
    BY <2>1, <2>2 DEF replyBar
<1>9. /\ Tables!Answers(rows[n], batch) = Answers(rows[n], batch)
      /\ Tables!Updated(rows[n], batch) = Updated(rows[n], batch)
  BY DEF Tables!Answers, Tables!Updated, Answers, Updated
<1>10. /\ callBar[t].handle = n /\ callBar[t].batch = batch
  BY <1>6
<1>11. /\ callBar[t] # Absent
       /\ callBar' = [callBar EXCEPT ![t] = Absent]
       /\ replyBar' = [replyBar EXCEPT ![t] =
             Tables!Answers(tableBar[callBar[t].handle], callBar[t].batch)]
       /\ tableBar' = [tableBar EXCEPT ![callBar[t].handle] =
             Tables!Updated(@, callBar[t].batch)]
  BY <1>3, <1>5, <1>6, <1>7, <1>8, <1>9, <1>10
<1>12. Tables!Execute(t)
  BY <1>11 DEF Tables!Execute, tableBar, callBar, replyBar
<1>. QED
  BY <1>12 DEF Mapped, Tables!Next

\* What a call computes, the store it gives back and the root it writes then change
\* nothing that Durable knows of: the rows have it already.
LEMMA ApplyMaps ==
    ASSUME DInv, NEW t \in Thread, Apply(t)
    PROVE  Mapped
<1>1. /\ UNCHANGED <<rows, confirmed, name, contents>>
      /\ pc[t] = "apply" /\ pc'[t] = "restore"
      /\ arg'[t].answers = Answers(contents[arg[t].object], arg[t].batch)
      /\ \A u \in Thread \ {t} : pc'[u] = pc[u] /\ arg'[u] = arg[u]
  BY DEF Apply, Goto, disk, DInv, TypeInv, TypeOK, ArgInv
<1>2. tableBar' = tableBar
  BY <1>1 DEF tableBar
<1>3. callBar' = callBar
  BY <1>1 DEF callBar
<1>4. replyBar' = replyBar
  <2>1. \A u \in Thread \ {t} : replyBar'[u] = replyBar[u]
    BY <1>1 DEF replyBar
  <2>2. replyBar'[t] = replyBar[t]
    BY <1>1 DEF replyBar
  <2>. QED
    BY <2>1, <2>2 DEF replyBar
<1>. QED
  BY <1>2, <1>3, <1>4, Stutter

LEMMA RestoreMaps ==
    ASSUME DInv, NEW t \in Thread, Restore(t)
    PROVE  Mapped
<1>1. /\ UNCHANGED <<rows, confirmed, name, contents, arg>>
      /\ pc[t] = "restore" /\ pc'[t] = "root"
      /\ \A u \in Thread \ {t} : pc'[u] = pc[u]
  BY DEF Restore, Goto, disk, DInv, TypeInv, TypeOK
<1>2. tableBar' = tableBar
  BY <1>1 DEF tableBar
<1>3. callBar' = callBar
  BY <1>1 DEF callBar
<1>4. replyBar' = replyBar
  BY <1>1 DEF replyBar
<1>. QED
  BY <1>2, <1>3, <1>4, Stutter

\* No other transaction on the table is about to read the root that changes.
LEMMA WriteRootMaps ==
    ASSUME DInv, NEW t \in Thread, WriteRoot(t)
    PROVE  Mapped
<1> DEFINE o == arg[t].object
<1>1. /\ UNCHANGED <<rows, confirmed, name, arg>>
      /\ pc[t] = "root" /\ pc'[t] = "return"
      /\ \A u \in Thread \ {t} : pc'[u] = pc[u]
      /\ \A p \in Object \ {o} : contents'[p] = contents[p]
  BY DEF WriteRoot, Goto, disk, DInv, TypeInv, TypeOK
<1>2. \A u \in Thread : pc[u] = "apply" => contents'[arg[u].object] = contents[arg[u].object]
  <2>1. o \in Object /\ Executes(t, o)
    BY <1>1, ArgObject DEF DInv, Executes
  <2>2. \A u \in Thread : pc[u] = "apply" => u # t /\ arg[u].object \in Object /\ arg[u].object # o
    BY <1>1, <2>1, ArgObject, Alone DEF DInv, Executes
  <2>. QED
    BY <1>1, <2>2
<1>3. tableBar' = tableBar
  BY <1>1 DEF tableBar
<1>4. callBar' = callBar
  BY <1>1 DEF callBar
<1>5. replyBar' = replyBar
  BY <1>1, <1>2 DEF replyBar
<1>. QED
  BY <1>3, <1>4, <1>5, Stutter

\* The call of a thread that panics before its rows are written stays submitted.
LEMMA PanicsMaps ==
    ASSUME Disciplined, DInv, NEW t \in Thread, Panics(t)
    PROVE  Mapped
<1>1. /\ UNCHANGED <<rows, confirmed, name, contents, arg>>
      /\ pc[t] = "backup" /\ pc'[t] = "panicked"
      /\ \A u \in Thread \ {t} : pc'[u] = pc[u]
  BY DEF Panics, Disciplined, Goto, disk, DInv, TypeInv, TypeOK
<1>2. tableBar' = tableBar
  BY <1>1 DEF tableBar
<1>3. callBar' = callBar
  BY <1>1 DEF callBar
<1>4. replyBar' = replyBar
  BY <1>1 DEF replyBar
<1>. QED
  BY <1>2, <1>3, <1>4, Stutter

\* The answers go to the caller.
LEMMA ReturnMaps ==
    ASSUME DInv, NEW t \in Thread, Return(t)
    PROVE  Mapped
<1>1. /\ arg' = [arg EXCEPT ![t] = Absent] /\ pc[t] = "return"
      /\ pc' = [pc EXCEPT ![t] = "idle"]
      /\ UNCHANGED <<rows, confirmed, name, contents>>
  BY DEF Return, Goto, disk
<1>2. pc'[t] = "idle" /\ \A u \in Thread \ {t} : pc'[u] = pc[u] /\ arg'[u] = arg[u]
  BY <1>1 DEF DInv, TypeInv, TypeOK, ArgInv
<1>3. tableBar' = tableBar
  BY <1>1 DEF tableBar
<1>4. callBar' = callBar
  BY <1>1, <1>2 DEF callBar
<1>5. replyBar' = [replyBar EXCEPT ![t] = Absent]
  <2>1. \A u \in Thread \ {t} : replyBar'[u] = replyBar[u]
    BY <1>1, <1>2 DEF replyBar
  <2>2. replyBar'[t] = Absent
    BY <1>2 DEF replyBar
  <2>. QED
    BY <2>1, <2>2 DEF replyBar
<1>6. replyBar[t] # Absent
  <2>1. arg[t].answers \in Map
    BY <1>1, Records DEF DInv, TypeInv, ArgInv
  <2>. QED
    BY <1>1, <2>1, DatabaseAssumption DEF replyBar
<1>7. Tables!Return(t)
  BY <1>3, <1>4, <1>5, <1>6 DEF Tables!Return, tableBar, callBar, replyBar
<1>. QED
  BY <1>7 DEF Mapped, Tables!Next

\* The end of a process is a crash: calls are forgotten, tables are not.
LEMMA StopMaps ==
    ASSUME Stop
    PROVE  Mapped
<1>1. \A t \in Thread : pc'[t] = "idle"
  BY DEF Stop
<1>2. callBar' = [t \in Thread |-> Absent]
  BY <1>1 DEF callBar
<1>3. replyBar' = [t \in Thread |-> Absent]
  BY <1>1 DEF replyBar
<1>4. tableBar' = tableBar
  BY DEF Stop, disk, tableBar
<1>. QED
  BY <1>2, <1>3, <1>4 DEF Mapped, Tables!Crash, tableBar, callBar, replyBar

\* Every step maps to a step or to a stutter.
LEMMA StepMaps ==
    ASSUME Disciplined, DInv, [Next]_vars
    PROVE  Mapped
<1>1. CASE UNCHANGED vars
  BY <1>1, Stutter DEF vars, memory, disk, tableBar, callBar, replyBar
<1>2. CASE New
  <2>1. /\ \A t \in Thread : pc[t] = "idle" /\ pc'[t] = "idle"
        /\ UNCHANGED <<rows, confirmed>>
    BY <1>2 DEF New, disk, DInv, TypeInv, ArgInv
  <2>. QED
    BY <2>1, QuietStep DEF Inside
<1>3. CASE Stop
  BY <1>3, StopMaps
<1>4. ASSUME NEW d \in Instance, NEW copy \in Instance, Clone(d, copy)
      PROVE  Mapped
  BY <1>4, QuietStep DEF Clone, disk, Inside
<1>5. ASSUME NEW o \in Object, NEW copy \in Object, CloneTable(o, copy)
      PROVE  Mapped
  <2>1. \A t \in Thread : pc[t] # "idle" => arg[t].object # copy
    BY <1>5, ArgObject DEF CloneTable, DInv
  <2>. QED
    BY <1>5, <2>1, ObjectsMap DEF CloneTable, disk, Inside
<1>6. ASSUME NEW o \in Object, NEW batch \in Batch, Receive(o, Updated(EmptyMap, batch))
      PROVE  Mapped
  <2>1. \A t \in Thread : pc[t] # "idle" => arg[t].object # o
    BY <1>6, ArgObject DEF Receive, DInv
  <2>. QED
    BY <1>6, <2>1, ObjectsMap DEF Receive, disk, Inside
<1>7. ASSUME NEW o \in Object, Drop(o)
      PROVE  Mapped
  <2>1. \A t \in Thread : pc[t] # "idle" => arg[t].object # o
    BY <1>7, ArgObject DEF Drop, DInv
  <2>. QED
    BY <1>7, <2>1, ObjectsMap DEF Drop, disk, Inside
<1>8. ASSUME NEW t \in Thread, NEW d \in Instance, NEW n \in Name, NEW o \in Object,
             EmptyTable(t, d, n, o)
      PROVE  Mapped
  <2>1. \A u \in Thread : pc[u] # "idle" => arg[u].object # o
    BY <1>8, ArgObject DEF EmptyTable, DInv
  <2>2. \A u \in Thread :
          /\ pc[u] \in Inside => pc'[u] = pc[u] /\ arg'[u] = arg[u]
          /\ pc[u] \notin Inside => pc'[u] \notin Inside
    BY <1>8 DEF EmptyTable, Goto, DInv, TypeInv, TypeOK, ArgInv, Inside
  <2>. QED
    BY <1>8, <2>1, <2>2, ObjectsMap DEF EmptyTable, disk
<1>9. ASSUME NEW t \in Thread, Push(t) \/ Collect(t) \/ Truncate(t)
      PROVE  Mapped
  <2>1. /\ pc[t] \in {"push", "collect", "truncate"}
        /\ pc'[t] \in {"collect", "truncate", "write"}
        /\ \A u \in Thread \ {t} : pc'[u] = pc[u] /\ arg'[u] = arg[u]
        /\ UNCHANGED <<rows, confirmed, name, contents>>
    BY <1>9 DEF Push, Collect, Truncate, Goto, DInv, TypeInv, TypeOK, ArgInv, disk
  <2>. QED
    BY <2>1, QuietStep DEF Inside
<1>. QED
  BY <1>1, <1>2, <1>3, <1>4, <1>5, <1>6, <1>7, <1>8, <1>9,
     ExecuteMaps, WriteMaps, BackupMaps, ApplyMaps, RestoreMaps, WriteRootMaps, PanicsMaps,
     ReturnMaps
     DEF Next

-----------------------------------------------------------------------------
\* A database that is used with discipline, which has no two threads call one table at
\* a time, never loses or half applies a
\* transaction whose call has returned, nor forgets a table whose creation has,
\* wherever its processes stop.
THEOREM DatabaseImplementsDurable == Disciplined => (Spec => ImplementsDurable)
<1>. SUFFICES ASSUME Disciplined PROVE Spec => Tables!DurableSpec
  BY DEF ImplementsDurable
<1>1. Listed
  BY DEF Disciplined, Listed
<1>2. Init => DInv
  <2>. SUFFICES ASSUME Init PROVE DInv
    OBVIOUS
  <2>1. NoUnnamed
    BY DatabaseAssumption DEF Init, disk, NoUnnamed, Executes, Reopens
  <2>2. ConfirmedInv
    <3>1. Names = {} /\ file = {} /\ \A t \in Thread : ~Creating(t)
      BY DatabaseAssumption DEF Init, Names, Creating, disk
    <3>. QED
      BY <3>1 DEF ConfirmedInv
  <2>. QED
    BY <2>1, <2>2, TypeInit, RowsInit DEF DInv
<1>3. DInv /\ [Next]_vars => DInv'
  BY <1>1, TypeStep, RowsStep, UnnamedStep, ConfirmedStep DEF DInv
<1>4. Init => Tables!Init
  BY DEF Init, Tables!Init
<1>5. DInv /\ [Next]_vars => [Tables!Next \/ Tables!Crash]_(Tables!vars)
  BY StepMaps DEF Mapped
<1>. QED
  BY <1>2, <1>3, <1>4, <1>5, PTL DEF Spec, Tables!DurableSpec
=============================================================================

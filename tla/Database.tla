------------------------------ MODULE Database ------------------------------
(***************************************************************************)
(* The persistence of a database: the rows its tables write to RocksDB     *)
(* before they change in memory, the file that lists the names of its      *)
(* tables, and the next process, which finds nothing else.                 *)
(*                                                                         *)
(* A name is deserialized from a row and looked up among the names of the  *)
(* file; a row of a name that is not there stops Database::new.            *)
(***************************************************************************)
EXTENDS Operations, FiniteSets

CONSTANTS
    Name,       \* the names of tables
    Unnamed,    \* the name of every received table, the empty string
    Object,     \* the Table objects of a process
    Instance,   \* the Database objects of a process: one opened, and its clones
    First,      \* the one Database::new returns
    Thread,     \* the threads of a process
    Absent,     \* no name, no call
    Batch,      \* the batches transactions may hold
    Careless    \* what callers do beyond the discipline below

(***************************************************************************)
(* The discipline under which the database keeps its promises.  Each of    *)
(* the exceptions breaks one part of it:                                   *)
(*   "torn"     the process stops while the file is truncated              *)
(*   "overlap"  a table is created while another one is, or is used before *)
(*              its creation has returned                                  *)
(*   "clone"    tables are created through clones of the database          *)
(*   "alias"    a table that is not the one the database lists under its   *)
(*              name is given transactions                                 *)
(*   "receive"  a received table is given transactions                     *)
(*   "share"    a table is called by a thread while another one's          *)
(*              transaction on it is under way                             *)
(* What a call is about is a record whose fields depend on where it is.    *)
(***************************************************************************)
Adding == [database : Instance, object : Object]
Listing == [object : Object, names : SUBSET Name]
Executing == [object : Object, batch : Batch]
Returning == [object : Object, root : Map, answers : Map]

ASSUME DatabaseAssumption ==
    /\ Batch \subseteq [Key -> Operation]
    /\ Unnamed \in Name
    /\ First \in Instance
    /\ IsFiniteSet(Object)
    /\ Absent \notin Name \cup Map \cup [handle : Name, batch : Batch]
    /\ Absent \notin Adding \cup Listing \cup Executing \cup Returning
    /\ Careless \subseteq {"torn", "overlap", "clone", "alias", "receive", "share"}

VARIABLES
    status,     \* whether a process has the database open
    file,       \* the names the file lists; none when it is new or truncated
    rows,       \* the rows of each name in RocksDB
    tables,     \* the tables each instance lists
    opened,     \* the instances of the process
    name,       \* the name of each object, or Absent
    contents,   \* the map behind each object's handle
    pc,         \* where each thread is in its call
    arg,        \* what its call is about
    confirmed   \* history: the names whose creation has reached the file

memory == <<tables, opened, name, contents, pc, arg>>
disk == <<file, rows>>
vars == <<status, disk, memory, confirmed>>

Init ==
    /\ status = "down"
    /\ file = {}
    /\ rows = [n \in Name |-> EmptyMap]
    /\ tables = [d \in Instance |-> {}]
    /\ opened = {}
    /\ name = [o \in Object |-> Absent]
    /\ contents = [o \in Object |-> EmptyMap]
    /\ pc = [t \in Thread |-> "idle"]
    /\ arg = [t \in Thread |-> Absent]
    /\ confirmed = {}

-----------------------------------------------------------------------------
Exists(o) == name[o] # Absent
Registered == UNION { tables[d] : d \in opened }
Creating(t) == pc[t] \in {"push", "collect", "truncate", "write"}
Goto(t, label) == pc' = [pc EXCEPT ![t] = label]

\* A thread that executes a transaction on a table.
Executes(t, o) ==
    /\ pc[t] \in {"backup", "apply", "restore", "root", "return", "panicked"}
    /\ arg[t].object = o

\* AtomicLender::take: all tables have the one store, and who panics keeps it.
StoreFree == \A t \in Thread : pc[t] \notin {"apply", "restore", "panicked"}

\* Nobody locks a table: that no thread calls it while another one's transaction is
\* under way is up to the callers.
Unused(o) == "share" \in Careless \/ \A t \in Thread : ~Executes(t, o)

\* The table objects Database::new makes: one for each name of the file.
Recovered ==
    { objects \in SUBSET Object :
        Cardinality(objects) = Cardinality(file) }

\* A row is looked up among the tables of the file, and the result unwrapped;
\* no row is read at all when the file is empty.
RowsHaveTables ==
    file # {} => \A n \in Name : rows[n] # EmptyMap => n \in file

\* Executing the recovered rows writes them to RocksDB again, as they were.
Recover ==
    /\ \E objects \in Recovered :
       \E names \in [objects -> file] :
          /\ { names[o] : o \in objects } = file
          /\ name' = [o \in Object |-> IF o \in objects THEN names[o] ELSE Absent]
          /\ contents' = [o \in Object |->
                             IF o \in objects THEN rows[names[o]] ELSE EmptyMap]
          /\ tables' = [tables EXCEPT ![First] = objects]
    /\ opened' = {First}

New ==
    /\ status = "down"
    /\ IF RowsHaveTables
       THEN status' = "running" /\ Recover
       ELSE status' = "broken" /\ UNCHANGED <<name, contents, tables, opened>>
    /\ UNCHANGED <<disk, pc, arg, confirmed>>

\* The process ends, or is killed, wherever its threads are.
Stop ==
    /\ status = "running"
    /\ "torn" \in Careless \/ \A t \in Thread : pc[t] # "write"
    /\ status' = "down"
    /\ tables' = [d \in Instance |-> {}]
    /\ opened' = {}
    /\ name' = [o \in Object |-> Absent]
    /\ contents' = [o \in Object |-> EmptyMap]
    /\ pc' = [t \in Thread |-> "idle"]
    /\ arg' = [t \in Thread |-> Absent]
    /\ UNCHANGED <<disk, confirmed>>

-----------------------------------------------------------------------------
(***************************************************************************)
(* Creating a table: Database::empty_table, and add_table in it.           *)
(***************************************************************************)
MayCreate(d, n) ==
    /\ n # Unnamed
    /\ d = First \/ "clone" \in Careless
    /\ "overlap" \in Careless \/ \A t \in Thread : ~Creating(t)

\* If the instance lists the name already, the object is returned all the same.
EmptyTable(t, d, n, o) ==
    /\ status = "running"
    /\ pc[t] = "idle"
    /\ d \in opened
    /\ MayCreate(d, n)
    /\ ~Exists(o)
    /\ name' = [name EXCEPT ![o] = n]
    /\ contents' = [contents EXCEPT ![o] = EmptyMap]
    /\ IF \E listed \in tables[d] : name[listed] = n
       THEN UNCHANGED <<pc, arg>>
       ELSE /\ arg' = [arg EXCEPT ![t] = [database |-> d, object |-> o]]
            /\ Goto(t, "push")
    /\ UNCHANGED <<status, disk, tables, opened, confirmed>>

Push(t) ==
    /\ pc[t] = "push"
    /\ tables' = [tables EXCEPT ![arg[t].database] = @ \cup {arg[t].object}]
    /\ Goto(t, "collect")
    /\ UNCHANGED <<status, disk, opened, name, contents, arg, confirmed>>

\* Fault: the names are collected without the one that is added.
CollectOthers(t) ==
    /\ pc[t] = "collect"
    /\ arg' = [arg EXCEPT ![t] =
                  [object |-> @.object,
                   names |-> { name[o] : o \in tables[@.database] \ {@.object} }]]
    /\ Goto(t, "truncate")
    /\ UNCHANGED <<status, disk, tables, opened, name, contents, confirmed>>

Collect(t) ==
    /\ pc[t] = "collect"
    /\ arg' = [arg EXCEPT ![t] =
                  [object |-> @.object,
                   names |-> { name[o] : o \in tables[@.database] }]]
    /\ Goto(t, "truncate")
    /\ UNCHANGED <<status, disk, tables, opened, name, contents, confirmed>>

Truncate(t) ==
    /\ pc[t] = "truncate"
    /\ file' = {}
    /\ Goto(t, "write")
    /\ UNCHANGED <<status, rows, tables, opened, name, contents, arg, confirmed>>

\* Fault: the file is made to list the new table only.
WriteNew(t) ==
    /\ pc[t] = "write"
    /\ file' = {name[arg[t].object]}
    /\ confirmed' = confirmed \cup {name[arg[t].object]}
    /\ arg' = [arg EXCEPT ![t] = Absent]
    /\ Goto(t, "idle")
    /\ UNCHANGED <<status, rows, tables, opened, name, contents>>

\* Of two threads that have the file open the last to write counts: each writes from
\* the start, and what is left of a longer list is not read.
Write(t) ==
    /\ pc[t] = "write"
    /\ file' = arg[t].names
    /\ confirmed' = confirmed \cup {name[arg[t].object]}
    /\ arg' = [arg EXCEPT ![t] = Absent]
    /\ Goto(t, "idle")
    /\ UNCHANGED <<status, rows, tables, opened, name, contents>>

-----------------------------------------------------------------------------
(***************************************************************************)
(* Objects that no instance lists.                                         *)
(***************************************************************************)

\* Database::clone copies the list; nobody keeps the copies in step.
Clone(d, copy) ==
    /\ status = "running"
    /\ d \in opened
    /\ copy \notin opened
    /\ opened' = opened \cup {copy}
    /\ tables' = [tables EXCEPT ![copy] = tables[d]]
    /\ UNCHANGED <<status, disk, name, contents, pc, arg, confirmed>>

\* Table::clone keeps the name; the copy is there when the root is read for the
\* second time, after the store is given back.
CloneTable(o, copy) ==
    /\ status = "running"
    /\ Exists(o) /\ Unused(o)
    /\ ~Exists(copy)
    /\ name' = [name EXCEPT ![copy] = name[o]]
    /\ contents' = [contents EXCEPT ![copy] = contents[o]]
    /\ UNCHANGED <<status, disk, tables, opened, pc, arg, confirmed>>

\* TableReceiver: the table it ends with is in no list.
Receive(o, map) ==
    /\ status = "running"
    /\ ~Exists(o)
    /\ name' = [name EXCEPT ![o] = Unnamed]
    /\ contents' = [contents EXCEPT ![o] = map]
    /\ UNCHANGED <<status, disk, tables, opened, pc, arg, confirmed>>

\* Fault: a table goes with the last user, though the database lists it.
DropListed(o) ==
    /\ status = "running"
    /\ Exists(o)
    /\ \A t \in Thread : arg[t] # Absent => arg[t].object # o
    /\ name' = [name EXCEPT ![o] = Absent]
    /\ contents' = [contents EXCEPT ![o] = EmptyMap]
    /\ UNCHANGED <<status, disk, tables, opened, pc, arg, confirmed>>

\* The last Arc of a table goes when neither a list nor a call has it; the
\* rows stay.
Drop(o) ==
    /\ status = "running"
    /\ Exists(o)
    /\ StoreFree
    /\ o \notin Registered
    /\ \A t \in Thread : arg[t] # Absent => arg[t].object # o
    /\ name' = [name EXCEPT ![o] = Absent]
    /\ contents' = [contents EXCEPT ![o] = EmptyMap]
    /\ UNCHANGED <<status, disk, tables, opened, pc, arg, confirmed>>

-----------------------------------------------------------------------------
(***************************************************************************)
(* Transactions.                                                           *)
(***************************************************************************)
MayExecute(o) ==
    /\ Exists(o)
    /\ IF name[o] = Unnamed THEN "receive" \in Careless
       ELSE o \in Registered \/ "alias" \in Careless
    /\ \/ "overlap" \in Careless
       \/ \A t \in Thread : Creating(t) => arg[t].object # o
    /\ Unused(o)

Execute(t, o, batch) ==
    /\ status = "running"
    /\ pc[t] = "idle"
    /\ MayExecute(o)
    /\ arg' = [arg EXCEPT ![t] = [object |-> o, batch |-> batch]]
    /\ Goto(t, "backup")
    /\ UNCHANGED <<status, disk, tables, opened, name, contents, confirmed>>

\* Fault: removals do not reach the disk.
BackupSets(t) ==
    /\ pc[t] = "backup"
    /\ StoreFree
    /\ LET n == name[arg[t].object]
           sets == [k \in Key |-> IF arg[t].batch[k] = Delete THEN Skip
                                  ELSE arg[t].batch[k]]
       IN  rows' = [rows EXCEPT ![n] = Updated(@, sets)]
    /\ Goto(t, "apply")
    /\ UNCHANGED <<status, file, tables, opened, name, contents, arg, confirmed>>

\* The thread takes the store, and RocksDB the batch as a whole.
Backup(t) ==
    /\ pc[t] = "backup"
    /\ StoreFree
    /\ LET n == name[arg[t].object]
       IN  rows' = [rows EXCEPT ![n] = Updated(@, arg[t].batch)]
    /\ Goto(t, "apply")
    /\ UNCHANGED <<status, file, tables, opened, name, contents, arg, confirmed>>

\* apply::apply on the root the table shows now: what is returned is the new root.
Apply(t) ==
    /\ pc[t] = "apply"
    /\ LET o == arg[t].object
           old == contents[o]
       IN  arg' = [arg EXCEPT ![t] = [object |-> o,
                                      root |-> Updated(old, arg[t].batch),
                                      answers |-> Answers(old, arg[t].batch)]]
    /\ Goto(t, "restore")
    /\ UNCHANGED <<status, disk, tables, opened, name, contents, confirmed>>

\* A write that fails, RocksDB having taken nothing, is a panic.  So may be any walk
\* of a tree once a table was shared, when roots can be given back twice (module
\* Table has the counts).  The store goes down with the thread.
Panics(t) ==
    /\ \/ pc[t] = "backup" /\ StoreFree
       \/ pc[t] = "apply" /\ "share" \in Careless
    /\ Goto(t, "panicked")
    /\ UNCHANGED <<status, disk, tables, opened, name, contents, arg, confirmed>>

\* The store is given back ...
Restore(t) ==
    /\ pc[t] = "restore"
    /\ Goto(t, "root")
    /\ UNCHANGED <<status, disk, tables, opened, name, contents, arg, confirmed>>

\* Fault: an emptied table keeps the root it had.
WriteNonEmpty(t) ==
    /\ pc[t] = "root"
    /\ contents' = IF arg[t].root = EmptyMap THEN contents
                   ELSE [contents EXCEPT ![arg[t].object] = arg[t].root]
    /\ Goto(t, "return")
    /\ UNCHANGED <<status, disk, tables, opened, name, arg, confirmed>>

\* ... before the table shows the new root.
WriteRoot(t) ==
    /\ pc[t] = "root"
    /\ contents' = [contents EXCEPT ![arg[t].object] = arg[t].root]
    /\ Goto(t, "return")
    /\ UNCHANGED <<status, disk, tables, opened, name, arg, confirmed>>

Return(t) ==
    /\ pc[t] = "return"
    /\ arg' = [arg EXCEPT ![t] = Absent]
    /\ Goto(t, "idle")
    /\ UNCHANGED <<status, disk, tables, opened, name, contents, confirmed>>

Next ==
    \/ New
    \/ Stop
    \/ \E d, copy \in Instance : Clone(d, copy)
    \/ \E o, copy \in Object : CloneTable(o, copy)
    \/ \E o \in Object, batch \in Batch : Receive(o, Updated(EmptyMap, batch))
    \/ \E o \in Object : Drop(o)
    \/ \E t \in Thread :
          \/ \E d \in Instance, n \in Name, o \in Object : EmptyTable(t, d, n, o)
          \/ \E o \in Object, batch \in Batch : Execute(t, o, batch)
          \/ Push(t)
          \/ Collect(t)
          \/ Truncate(t)
          \/ Write(t)
          \/ Backup(t)
          \/ Apply(t)
          \/ Panics(t)
          \/ Restore(t)
          \/ WriteRoot(t)
          \/ Return(t)

Spec == Init /\ [][Next]_vars

-----------------------------------------------------------------------------
(***************************************************************************)
(* Properties.                                                             *)
(***************************************************************************)

\* The values the variables range over; a listed table is never gone.
TypeOK ==
    /\ status \in {"down", "running", "broken"}
    /\ file \subseteq Name
    /\ rows \in [Name -> Map]
    /\ tables \in [Instance -> SUBSET { o \in Object : Exists(o) }]
    /\ opened \subseteq Instance
    /\ name \in [Object -> Name \cup {Absent}]
    /\ contents \in [Object -> Map]
    /\ pc \in [Thread -> {"idle", "push", "collect", "truncate", "write",
                          "backup", "apply", "restore", "root", "return", "panicked"}]
    /\ \A t \in Thread : arg[t] # Absent <=> pc[t] # "idle"
    /\ confirmed \subseteq Name

\* A database that was opened once can be opened again: the lookup that
\* Store::restore_backup unwraps finds every row a table.
Reopens == status # "broken"

\* A table whose creation has returned is "stored on the disk": whenever no
\* file is being written, the file lists it.
ConfirmedListed ==
    (\A t \in Thread : pc[t] # "write") => confirmed \subseteq file

\* What is on the disk is what a listed table shows, but for the transaction
\* that is between the two: it has written its rows and not yet its root.
RowsMatch ==
    \A o \in Registered :
        \/ rows[name[o]] = contents[o]
        \/ \E t \in Thread :
              /\ arg[t] # Absent /\ arg[t].object = o
              /\ \/ pc[t] = "apply" /\ rows[name[o]] = Updated(contents[o], arg[t].batch)
                 \/ pc[t] \in {"restore", "root"} /\ rows[name[o]] = arg[t].root

\* The tables outlive the processes: a transaction is atomic and lasts from
\* before it returns, whatever calls a stop of the process cuts short.
Tables == INSTANCE Durable WITH
    Handle <- Name,
    Caller <- Thread,
    table <- [n \in Name |-> IF n \in confirmed THEN rows[n] ELSE Absent],
    call <- [t \in Thread |->
                IF pc[t] \in {"backup", "panicked"}
                THEN [handle |-> name[arg[t].object], batch |-> arg[t].batch]
                ELSE Absent],
    reply <- [t \in Thread |->
                CASE pc[t] = "apply" -> Answers(contents[arg[t].object], arg[t].batch)
                  [] pc[t] \in {"restore", "root", "return"} -> arg[t].answers
                  [] OTHER -> Absent]

ImplementsDurable == Tables!DurableSpec
=============================================================================

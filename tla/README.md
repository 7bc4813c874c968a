# Tenacious-zebra in TLA+

Specifications of the tenacious-zebra database (`src/src/`), checked with TLC,
and theorems about them proved with TLAPS. Source paths below are relative to
`src/src/`.

## The system

| component | state | operations | talks to |
|---|---|---|---|
| store (`database/store/store_impl.rs`, `cell.rs`) | 256 hash maps from labels to nodes with reference counts; a RocksDB handle | `entry`, `populate`, `incref`, `decref`, `split`, `merge`, `backup`, `restore_backup` | lent to one call at a time by an `AtomicLender` shared by all tables |
| apply, drop (`database/interact`) | the recursion's stack, in parallel halves | applies a sorted batch to a tree, returns the new root | store |
| handle, table (`store/handle.rs`, `table.rs`) | the label of a root behind an `RwLock`, a name | `execute`, `clone`, drop, `export`, `diff`, `send` | store through the lender |
| database (`database_impl.rs`) | a list of tables behind an `RwLock`, a path | `new`, `empty_table`, `get_table`, `receive`, `clone` | tables, the file of names, RocksDB |
| sender, receiver (`table_sender.rs`, `table_receiver.rs`, `sync/`) | a handle; frontier, acquired nodes, held labels | `hello`, `answer`, `end`; `learn`, drop | messages between two databases; store |
| map (`map/`) | a partial Merkle tree with stubs | `get`, `insert`, `remove`, `export`, `import` | made by `Table::export` |
| vector (`vector/`) | items and layers of hashes | `new`, `set`, `prove`, `Proof::verify` | none |
| collections, families | wrappers of tables and databases | forwarding | tables |
| write-ahead log (`wal/`) | a file | not compiled: `lib.rs` does not declare it | none |

What is hard in it, and hard to test:

- **Sharing.** Trees of different tables share nodes, kept alive by counts. One
  batch rewrites a tree in parallel halves while deciding, node by node, which
  parts of the old tree somebody else still needs (`apply.rs:71-197`).
- **Threads.** A call takes the store, reads a root, gives the store back, writes
  the root. The two locks are not nested (`handle.rs:45-59`, `127-136`).
- **Stops.** Rows reach RocksDB before the table changes; the names of the
  tables reach a file that is truncated and then rewritten
  (`database_impl.rs:143-160`). The next process has nothing else.
- **Panics.** `unreachable!`, `panic!` and `unwrap` state what the authors
  believe cannot happen. A panic while the store is lent leaves it lent.
- **Messages.** Answers may be late, repeated or reordered, while other tables
  change the store in between (`table_receiver.rs:61-238`).

What makes each part correct: counts equal the references there are, no more and
no less; a tree depends on its contents only (*canonical*, or commitments would
not compare); a transaction is atomic for its caller and leaves other tables
alone; every call comes back; what was acknowledged is there after a restart, and
the database can always be opened again; a received table equals the one sent
and a receiver leaks nothing.

## Modules

    Operations            operations, maps, answers
    |- Transaction        filling, sorting, splitting, searching batches; uses Paths
    |- Tree               prefixes, nodes, labels, contents
    |  |- PlaceProofs      places, the keys they hold, ways down a tree; used by the
    |  |                   proofs about Apply and Sync
    |  |- Store           entries, counts, scopes
    |  |  `- Apply        the parallel recursion; clone, drop        -> KeyValue
    |  |     `- Queries   commitment, export, difference, collections
    |  |        `- ApplyProofs    the one tree of a map, the inductive invariant, safety
    |  |                          theorems, the refinement, the queries; uses Recursion
    |  `- Sync            sender, receivers, a store that changes
    |     `- SyncProofs   the inductive invariant, safety theorems
    |- MapNodes           trees with stubs and their algorithms; used by Queries
    |  `- PartialMap      maps that know a part of their tree
    |     `- PartialMapProofs     what a node shows of a map, safety theorems; uses Recursion
    |- Table              threads, the lender, the locks of the roots -> KeyValue
    |  `- TableProofs     the inductive invariant, safety theorems, the refinement
    |- Database           objects, names, rows, the file, stops      -> Durable
    |  `- DatabaseProofs  the inductive invariants, safety theorems, the refinement
    |- KeyValue           what tables promise (abstract)
    |  `- Durable         ... and what a stop may not take away (abstract)
    Recursion             functions defined step by step exist; facts about levels and numbers
    Paths                 digests as bytes, bits, depths
    Vector                vectors, their layers and proofs
    `- VectorProofs       shape of the layers, chunks, the inductive invariant, safety theorems;
                          uses Recursion
    MCApply, MCTable, MCDatabase, MCSync, MCPartialMap, MCTransaction, MCVector:
                          instances for TLC

An arrow is a refinement, a property of a run. Operators named after a *fault*
are plausible mistakes; they appear in no specification and serve to see that a
property notices them.

**Operations.** A transaction refuses a second operation on a key
(`table_transaction.rs:42-78`), so a batch is a function from keys to operations,
`Skip` where there is none. `Updated` and `Answers` say what it does.

**Paths, Transaction.** What the other modules take for granted. Paths has digests
as bytes of `Width` bits: the index of a bit, the comparison of prefixes by full
bytes and then by the highest bits of the next (`Path::deepeq`), depths that wrap
around like a `u8`, the order of paths. Transaction fills transactions, refuses
collisions and what cannot be hashed, sorts the batch, walks it down the tree with
chunks that are split or snapped as `branch` does it, merges the halves and lets
every query search the response. Its properties are what entitles Tree to take a
prefix for a sequence of directions, and Apply a batch for a function of the keys.
No two digests of an instance part only at the very last bit: the walk would run
out of bits there, in the code as here, and with 256 bits that is a collision but
for one bit.

**Tree.** Hashes are assumed free of collisions, so a label is the node it hashes
together with the prefix (internal nodes) or key (leaves) that chooses its hash
map; `Label::Internal` and `Label::Leaf` carry exactly that. Paths have
`PathLength` directions, the store is split down to `Depth` instead of 8.

**Store.** A value with `refs`, a count for each label that is in, and
`panicked`. The operators are the methods; a lookup outside a half's range, a
count on an absent node and a count below zero set `panicked`.

**Apply.** The call stack of `apply::recur` is a set of *frames*, one for each
prefix in work; the two halves of a branch are separate frames any of which may
move, as the threads of `rayon::join` do. Each arm of the `match` is an action
(`Pass`, `DoOnEmpty`, `SplitEmpty`, `DoOnLeaf`, `MissLeaf`, `SplitLeaf`,
`SplitInternal`); `Join` is what follows the two calls in `branch`: pulling up a
single leaf, adopting the children, releasing the original. `Begin` and `Commit`
are the two ends of `apply::apply`. `Open`, `Clone`, `Drop` with `DropNode` are
those of the handles. One call works on the store at a time here; Table says why.

**Table.** One program counter for each thread: `take`, `backup`, `work`,
`restore`, `write` or `copy`, `return`. A root is the map it stands for, which
`Canonical` and `ImplementsKeyValue` of Apply, both proved, justify: they say that map and label
determine each other, and that a call on a root the store holds computes
`Updated`. What Table keeps is who reads and writes which root when, and who owns
a reference. `Stored` says when a root is in the store: it is held, is empty, or
is a single leaf that is part of a held tree. It leaves out subtrees with more
than one leaf, which are never roots in the store of another table; that is on
the safe side for `NoUnreachable`. `Exclusive` states what callers do: with it,
no two calls on one handle overlap. The types do not ask for that (`execute`
takes `&self`, `empty_table` returns an `Arc`), so the runs without it count too.

**Queries.** What can be asked of the trees of Apply between two calls:
`Commitment`, the export of any set of keys (walked with the split store, an entry
outside the part a walk has yields `Panicked`), `Difference` with its two walks in
step, and the difference of two collections. An export is a tree of MapNodes, so
that its properties are about what the receiver of an export finds in it. The walks
are functions of the depth, the location and the labels that can be met there; `Panicked`
is also what they are beyond the last level, where no walk gets.

**Database.** The disk is `file`, the names in the file of names, and `rows`, a map
for each name; all else is lost by `Stop`, which may come between any two steps.
`EmptyTable`, `Push`, `Collect`, `Truncate`, `Write` are the steps of `add_table`;
`Backup`, `Apply`, `Restore`, `WriteRoot` and `Return` those of a transaction: the
thread has the store in `apply` and `restore`, and gives it back before the table shows
the new root, as in Table. `Panics` is a write to RocksDB that fails; the store goes
with the thread. Nothing in the code keeps two threads from calling one table at a time,
and Table shows what becomes of it, so that the discipline has a part of its own,
`"share"`, and `Unused` in the guards of `Execute` and `CloneTable`. `New` is
`Database::new` with `restore_backup`; a row without a table makes it panic,
status `broken`. Reopening executes the rows, which writes them again unchanged,
so it is one step. Two tables of one name in one list, the clones of a database
or of a table and received tables are there as the code has them; `Careless`
lists which of the ways to misuse them callers take.

**KeyValue, Durable.** Independent maps: submit, execute in one step, return;
open, clone, drop. Durable adds `Crash`, which forgets the calls and no table.

**Sync.** The sender answers questions about its tree, down to `AnswerDepth` levels
below each label (`Grab`, `Rest`); an answer is kept as what is still to be
expanded, which is what `table_sender.rs:31-85` computes node by node. A receiver
learns one node per action: `Ignore`, `Refuse`, `Hold` and `Acquire` are the
branches of `update`, `Ask` and `Flush` the two ends of `learn`. `flush`, the
transactions of other tables and `drop` count references up and down, one edge per
action (`Insert`, `DropNode`), in any order; `work` is what is left of the
recursion. The store is lent to one call at a time, as Table shows: `lent` says to
whom, `job` what for. Tables created by others share nodes with the tree that is
sent, and come and go between any two answers. The network is `ordered` (one answer
per question) or `faulty` (any answer of the exchange may come again, late, or
never). Messages of a sender that does not follow the protocol are not modelled;
the checks a receiver makes (`WellFormed`, `Locate`, `Severity`) are, and the
property is that they let an honest sender pass. The sender does not need an
action: its tree cannot change while it holds its handle, and an answer depends on
the question only.

**MapNodes, PartialMap.** The `Map` of the crate: internal nodes, leaves, empty
nodes and stubs, each internal node with the hash cached when it was made (`Raw`
keeps it apart from its children, as `export` and `import` do). `Update` is
`insert` and `remove` with `apply.rs`'s `branch`; `Export`, `Import`, `RootStub`,
`Clone` and `Transfer` (serialized, deserialized with its hashes computed again,
checked by `check.rs`) may come in any order on two maps. `contents` is a history
variable: the complete map the known part belongs to. `Unhashable` values make an
update fail before it begins. The recursions over trees are functions of the depth and
of the nodes that may be there (`NodeAt`): a digest has `PathLength` directions, and no
node is further down. A `Set` is a map to the unit value; what its methods
answer is `Changes`.

**Vector.** `layers` as the code keeps them, leaves first and the first layer only
filled as far as the second needs it. `Set` stores the item before it hashes it, as
the code does, and leaves items and layers apart when that fails, until the item is
replaced; `Vector::with_packing` of no items panics and is not called here; `prove`
panics when a neighbour in the chunk cannot be serialized (`proof.rs:42-46`), so a
proof is taken where `Provable` says.

## Runs

| run | instance | shows |
|---|---|---|
| `apply_sharing` | 3 keys, 2 values, 2 handles, store split once | two trees that share nodes: counts, snapshots, canonical trees, atomic maps; what every export and every difference tells |
| `apply_split` | 4 keys, 1 handle, store split twice | counts, no panic and atomic maps for every interleaving of up to four parallel parts and every batch |
| `transaction` | 3 keys, digests of 2 bytes of 3 bits, 2 transactions, 3 calls | bytes against directions, the walk of a batch, answers of queries |
| `table_exclusive` | 2 threads, 2 handles, 2 calls each, backup may fail | serialized calls: no missing root, exact counts, calls return, atomic maps |
| `database` | 2 names, 3 objects, 2 threads, 2 instances, any number of stops, writes of rows may fail | disciplined use, one call at a time on a table: opens again, lists and keeps its tables |
| `sync` | a tree of 4 leaves, 2 receivers, 1 other table with 2 trees, 2 changes | counts at every step, flush finds its nodes, a table that is received is whole and is the one sent, honest senders pass, exchanges end |
| `maps` | 3 keys, 2 values and one without a hash, 2 maps | a map that knows a part commits, answers, travels and updates like the complete one |
| `vector` | 1 to 7 items, packing 1 to 3, 2 sets, one of them may fail | layers fit, proofs show their item and no other, old proofs show nothing that is gone |
| `table_shared` | as `table_exclusive`, shared handle | violation: `unreachable!` of `export.rs:25` is reached |
| `database_torn` | a stop inside the rewrite of the file | violation: stored tables not listed |
| `database_receive` | a received table is executed on | violation: the database cannot be opened |
| `partial_remove` | a leaf next to a stub is removed | violation: the commitment is not the one of the remaining pairs |

The violations are what the code does against what its documentation or its
assertions say of it; each is a finding in `PROJECT.json`, with the line and the
quotation. In all of them the model takes steps the public interface allows. The runs
`database_torn` and `database_receive` each add one member of `Careless` to the
disciplined run `database`. The other members have no run of their own; put into
`database.cfg`, `"share"` violates `RowsMatch` and `ImplementsDurable` (of two
transactions on one table the one that took the store first writes its root last, and the
table has lost what the other one stored); `"overlap"` violates
`ConfirmedListed` (of two creations at once the one that collected the names first writes
last, and the other's table is not in the file) and `Reopens` (a table is executed on when
it is listed in memory and not in the file, and the process stops); `"clone"` violates
`ConfirmedListed` (a clone rewrites the common file with its own tables only); `"alias"`
violates `RowsMatch` (a copy of a table writes the rows of the listed one).

Why the bounds are enough. The rules of `branch` look at one branch and its two
children, so three keys, two of which share a prefix, already give every
combination of empty, leaf and internal, and the fourth key gives internal next to
internal; a map with stubs needs no more, since a stub stands for any of them. Two
handles give shared and unshared nodes. Two threads give every order of two
overlapping calls, and two calls each let a call meet the state another has left
behind; the theorems remove these bounds for Apply, Table, Database and PartialMap. In Sync, the tree has a subtree two
levels deep that another table may share, a subtree of it that another may share,
and a leaf nobody shares, with answers one level deep and one label per question,
so that an answer both reaches stored nodes below unknown ones and the reverse; two
receivers share what they hold; the theorems remove these bounds for all of its safety
properties. Two bytes of three bits have a boundary between bytes, prefixes that
end at it, before and after it, and a depth that wraps around. Vectors up to seven
items give complete and incomplete last layers for every packing, and a leaf in
each of its places; the theorems remove the bounds, on `set` as well.

States of `maps` that differ only in `last`, what the last call answered, are explored
once (a VIEW): no action reads it. The action properties, which do, are checked of every
step all the same.

Counters that are capped: `MaxCalls` (Table, Transaction), `MaxChanges` (Sync, the
tables of others), `MaxSets` (Vector). Apply, Database and PartialMap have finitely
many states as they are. The database's stops are unbounded.

Deadlock is checked in Apply and Database. In Table it is not, because threads stop
after `MaxCalls` calls, or wait for a store a panic has lost; the instances of
Sync, Transaction and Vector end when all is sent or all calls are made, and
`maps` may end with two maps that refuse each other.

Fairness. `FairSpec` of Table assumes weak fairness of the steps of each thread,
that is, a thread inside a call is scheduled again. No call has to be made. Weak
fairness suffices for `take` since calls are bounded; with endless calls the
lender, a lock without a queue, could starve a thread, and the code does not
promise otherwise. `Spec` of Sync assumes weak fairness of `Progress`: an answer
that was sent arrives, a call that runs goes on to its end, a receiver that `learn`
has consumed is dropped, as Rust does at the end of its scope. Giving an exchange
up, creating and dropping tables is up to the callers and has no fairness.
`ExchangesEnd` and `HonestAccepted` are stated for the ordered network only:
over the faulty one answers may be lost for good, and an answer that is delivered
twice in full is seven nodes in a row the receiver knows already when answers are
two levels deep, one more than `Severity` tolerates: the sender is taken for a
malicious one.

## Proofs

### Apply

`ApplyProofs` proves, for any keys and paths (no two keys with the same path), any
values, handles (finite), batches, any length of a path and any number of levels over
which the store is split, and for every interleaving of the parallel halves:

- `CallsNeverPanic`: `Spec => []NoPanic`;
- `ApplyTypes`: `Spec => []TypeOK`;
- `CountsExact`: `Spec => []ReferencesExact`;
- `SnapshotsStay`: `Spec => []SnapshotsIntact`;
- `RootsCommit`: `Spec => []Canonical`;
- `DifferencesTrue`: `Spec => []DiffTrue`;
- `ExportsTrue`: `Spec => []ExportTrue`.

Between calls a count is the number of nodes and handles that refer to its node. In
the middle of a call it is not: a half that is done has given back the references
its original node had on its children, but the original is still stored until the
parent's `Join` gives back the reference on it; a result is stored with a count of
zero until its parent adopts it; a drop has removed a node whose children still carry
its reference. `IInv` accounts for each of these:

- `CountsInv`: every count is the number of *edges* into its node, an edge being a
  child of a node that is *kept*, the root of a handle, or an entry of `doomed`. Kept
  are the internal nodes that are not *hollow*; hollow is the original of a half that
  is done with another result, that nothing above shields and that has one reference:
  it has let its children go and waits for its parent.
- `FramesInv`, `CallInv`: frames form a tree that hangs from the root, and are there
  exactly in a transaction.
- `PlacesInv`: every label that is stored, held, worked on or doomed has a *place*, a
  prefix at which it roots a tree as the code makes it: its leaves continue the prefix,
  its nodes have the maps of their scopes, none of them has but one leaf below it.
  Since keys have different paths an internal label has one place only, so that two
  halves never work on the same node, nor outside the maps they were given.
- `StagesInv`: a frame that has not returned works on the node of the original tree at
  its place, or on no internal node; its `preserve` says whether something above
  shields it; the count it took with the node is still the count.
- `ZeroInv`: a count of zero belongs to the result of a half that is done.

The first layer (`MoreEdge`, `LessEdge`, `LastEdge`) is about counts and a set of
edges, by the cardinality facts of the library; the second about the methods of the
store (`PopulateKeeps`, `IncrefKeeps`, `DecrefKeeps`), which keep that; the third has
a lemma for each action. `Join` is the heart: which nodes become hollow and which
cease to be, when it adopts, releases, or leaves its original alone.

`SnapshotsStay` follows from the invariant: a node is hollow, or will be, only if the
transaction *owns* it, which is unshielded with one reference. Then its parent is owned
as well, up to the caller's root. The root another handle holds is not owned (it has
another reference), so going down from there no node is met that has let a child go.

`RootsCommit` holds because the tree of a map is the only one with its contents: two
labels with the same place that find the same values are equal (`TreeIsOne`). No
`Join` leaves a lone leaf below an internal node, which `Placed` says.

A later section proves `ApplyImplementsKeyValue`, `Spec => ImplementsKeyValue`. `WorkInv`
adds what an activation of `recur` has to do: it is given the subtree the caller's table
has at its place and leaves there the subtree the batch makes of it, key by key;
`AnswersInv` says that exactly the queries of the parts that are done are answered, from
the table as it was. `Begin` is then the abstract `Submit`, `Commit` is `Execute`, and
each step of the recursion is a stutter.

The last two sections are about the queries between calls. What a walk is at is `Walked`:
placed, in the store, and so found in the part of the store the walk has there
(`SeenFound`); its children are too, because no node of an idle table's tree is hollow
(`SeenBelow`, from `SnapshotStep`). That is why neither walk panics. Then, from the last
level up (`PlacesFromBelow`):

- `DifferencesTell`: of two labels the walk gives records of each of them, and what it
  leaves out of the one is what it leaves out of the other (`Tells`). Where one of them
  is a leaf and the other goes on, the leaf is all that is recorded on its side, and
  the other side is given whole. A record in both is then either left out of both or
  given for both, however deep each walk met it: the keys that `Differing` keeps are
  those with different values (`TellsLookups`).
- `ExportsShow`: an exported node has the hash of its label, before and after it has
  travelled; passes the check; is empty or a leaf only where the label is; and tells of a
  key below its place what the label does, or, of one not asked for, nothing.
  That a node of the table's tree is compact, which `Placed` says, is what `Check` needs.

`PlaceProofs` and the first part of `ApplyProofs` have what both rest on: places and
prefixes, the way down a tree, the scopes of a split store, the tree of frames, what a lookup finds below a
place, and the uniqueness of trees. Statements about labels of any height are proved by `SetInduction`, an induction on the
set of the numbers for which a statement fails, from the well-foundedness of the order of
the naturals: the induction theorems of the library take an operator as a parameter,
which the provers cannot instantiate.

### Table

`TableProofs` proves, for any sets of threads, handles, keys, values and batches
(handles finite) and any number of calls, assuming `Exclusive`:

- `TypeCorrect`, `NeverUnreachable`, `CountsExact`, `RestShowsOwned`:
  `Spec => []TypeOK`, `[]NoUnreachable`, `[]HeldByOwners`, `[]RootsOwned`;
- `OneBorrower`, which does not need `Exclusive`: the thread between `take` and
  `restore` is alone there, and a lost store stays lost.

None of the invariants is inductive as it stands. A call reads the root its
handle shows, the counts belong to the roots handles own, and the two differ
while a result is not written or a clone has not read its root again. The
inductive invariant `IInv` says exactly when: `RootsInv` (a handle shows what it
owns unless a call is *writing* it or *copying* to it, and then what it will show
is what it owns), `ExclusiveInv`, `LiveInv` (a handle in use has not been
dropped), `CopyInv` (the copy of a clone is not used yet) and `CallInv` (program
counters and calls agree). There is one lemma for each action, with a step for
each conjunct. That the counts follow the owners is `CountsFollow`, from the
cardinality facts of the library.

Its last section proves `TableImplementsKeyValue`, `Exclusive => (Spec =>
ImplementsKeyValue)`, with one lemma for each kind of step: `Apply` is the
abstract `Execute`, `CloneRoot` is `Clone`, `DropRoot` is `Drop`, `Return` is
`Return`, everything between is a stutter.

### Database

`DatabaseProofs` proves, for any names, objects, instances, threads and batches and any
number of stops, and says which part of the callers' discipline each promise takes:

- `DatabaseTypes`: `Spec => []TypeOK`, whatever callers do;
- `ConfirmedStay`: `Serial => (Spec => []ConfirmedListed)`; `Serial` excludes overlapping
  creations, creations through a clone and a stop inside the rewriting of the file;
- `RowsStayMatched`: `Listed => (Spec => []RowsMatch)`; `Listed` excludes all but
  transactions on received tables, so also two threads that call one table at a time;
- `AlwaysReopens`: `Disciplined => (Spec => []Reopens)`.

The file is behind the list of tables while a table is created, the rows are ahead of
the table between `Backup` and `WriteRoot`, and a stop may come at either moment. `ListInv`
and `NamesInv` say that what is listed and not in the file is the table being created,
`CreationInv` that such a table has no rows and nobody uses it, `ExecuteInv` that a table
has one transaction at a time, which is the part of the discipline that `"share"` breaks:
the store is free between `Restore` and `WriteRoot`, and it is by this alone that no other
transaction reads the root that is about to change. `ContentsInv` says what the rows
hold between `Backup` and `Apply` (what the batch makes of the table) and between `Apply`
and `WriteRoot` (the root that was computed); `NoUnnamed` adds, for a database that can be opened again, that there
is no row without a name. The last section proves `DatabaseImplementsDurable`,
`Disciplined => (Spec => ImplementsDurable)`: a table comes to be when its name has
reached the file, a transaction takes effect when RocksDB has taken its batch, computing
the root, giving back the store and writing the root are stutters, a write that fails
leaves the call submitted, and a stop is `Crash`, which forgets the calls and nothing
else. The runs that expect violations show that the discipline is needed.

### Sync

`SyncProofs` proves, for any tree, any receivers and other tables, any answer depth
and window, and a network that does what it likes:

- `CountedExactly`: `Spec => []CountsExact`;
- `FlushNeverMisses`: `Spec => []FlushFinds`;
- `ReceivedAsSent`: a received table has the root that was sent;
- `TablesStayWhole`: `Spec => []TablesWhole`;
- `ExchangeTypes`: `Spec => []TypeOK`;
- `HonestNeverRefused`: `Spec => []HonestAccepted`.

The argument has three layers. The first is about counts and a set of edges
(`Exact`): what a count more or less does to them, by the cardinality facts of the
library. The second (`Balanced`) is about a call half done: one that counts up works
on references that are there and not counted yet, one that counts down on
references that are counted and there no more; each way a call begins, goes on and
ends keeps that. The third finds for each action of Sync which of these it is, and
there the invariant of the receivers is needed (`GatherInv`): the nodes a receiver
knows form a part of the tree in which each is in one collection only, the frontier
being the children that are missing. That a held label is never held twice, though
`Hold` counts it each time, follows from it, and so does that at the end of an
exchange everything below an acquired node is acquired or held (`FlushInv`), which
is what `flush` unwraps.

That tables stay whole needs little more. While no call counts up, every reference
there is, is counted, so its node is stored; by induction along the places of a tree
(`PlaceInduction`) everything below a root is, also in the middle of a drop of another
table (`WholeAtRest`). During a call that counts up this is not so for the table being
made, and the others keep what they had when it began, as it removes no node
(`WholeWhileMade`). That the tree sent is compact and its leaves on their paths follows
from the place `At` gives each node, in the same way (`SentTopology`).

That an honest sender is never refused has two parts. No node is taken for a malicious
one (`NeverMalicious`): the way down that `Locate` takes for a node of the tree sent
stays in that tree, and where it ends at a leaf that was acquired already the two digests
part exactly at the leaf's parent, so the directions tell the two apart (`LocateTrue`).
And what the receiver knows already never adds up to more than `Bound` in a row. The
invariant `Queue` says why: what is on its way and was not asked for, being the rest of
an answer to an expanded node, are the first nodes below one that was *held*; a node
that lies t levels above the last level of the answer has at most 2^(t+1) - 1 nodes in
the answer below and with it, its `Weight`, and the sum of the weights to come fits what is left
of `Bound` (`Fits`). Ignoring a node takes one off both sides, holding one sets the
offences back to zero and leaves at most `Bound` to ignore. The nodes that were asked
for come after those, each once. `Queue` was checked with TLC, for one and for two levels of
answers, before it was proved.

### Maps with stubs

`PartialMapProofs` proves, for any keys, digests of any length (no two keys with the same
one), values and maps, assuming `Careful`, that nobody removes a leaf whose sibling is a
stub:

- `MapsCommit`: `Spec => []CommitsToContents`;
- `MapsAnswer`: `Spec => []AnswersSound`;
- `MapsTravel`: `Spec => []Portable`;
- `UpdatesAnswer`: `Spec => UpdatesSound`;
- `KnowledgeTravels`: `Spec => KnowledgeKept`.

That the commitment is right is not inductive: what is below the root may be wrong and
show only later. The invariant is about every node. `Sum` is the hash the complete map
has at a *location*, a part of a digest; a node *shows* a map at a location (`Shown`) if
its cached hash is that one and so on for its children, none of which is a stub of the
empty tree. `Showing` says that every map shows, from its root, what it holds; it was
checked with TLC before it was proved.

The heart is `Merged`, what an update does with the two halves of a node (`MergedShows`).
Below an empty node no key of the map is found, below a leaf one, below an internal node
two or more, below a stub one or more; so the halves tell how many keys the whole has,
and with that the one form the tree has there, except for a stub next to nothing. A stub
may be one leaf, which would have to be pulled up, and nobody can tell: this is what
`partial_remove` shows. `FollowsInternal` proves that a removal comes to that only
if the leaf it took was next to the stub, which `Careful` excludes, and an insertion
never does. An update that meets a stub gives back the node it was given, since its halves
are merged to what they were (`ShownCompact`).

That an import into a map of the same hash is sound takes the other direction: the hash
at a location determines the values of all keys below it (`SumTells`), by induction along
the levels.

The recursions are functions, defined one level by the next. That there is such a function
for each is `Exists` of Recursion, which is proved once for any step and instanced with
the body of each (`ReadRecursion` and so on); the lemmas `ReadIs`, `RecurIs`, ... then say
what each of them is, node by node. `LevelInduction` takes facts from the last level up.

### Vectors

`VectorProofs` proves, for any items, some of which may have no hash, any number of them,
any packing and any calls of `set`, `prove` and the way over the wire:

- `LayersStay`: `Spec => []LayersFit`;
- `ProofsTell`: `Spec => []ProofsShow`;
- `StaleIsRefused`: `Spec => []StaleRefused`.

`LayersFit` says that the layers are those a new vector would have. A step of `set` keeps
that for a reason the formula does not show, so the invariant says instead what these
layers are like (`Fit`): `Height` of the next power of two says how many there are, `Size`
how many nodes each has, and every node is the hash of its two children, the first half of
the second layer those of the first. The layers of a new vector fit (`LayersFitLeaves`), and
two that fit and have the same leaves are equal, layer by layer (`LeavesTell`); this gives
`LayersFit` back, and it is why the `set` of one leaf and a new vector agree.

`RaisedFits` is the heart: the new hash goes up from the leaf's *spot*, in the first
or the second layer, to the root. A node next to that way has neither child on it, one on
it has exactly one, which is the one that changed (`OneUp` says which, from whether the index
is even), and no other leaf is on the way: not in the first layer when it starts in the
second, nor the other way round. `PathShows` goes the same way with a proof. A path needs only
the right *length and sides* (`Leads`) for its end to determine the hash it began with,
whatever siblings it brings, since different children have different parents; the siblings
are needed only for the converse. This is why an old proof is harmless: its siblings may be
gone, its length and sides depend on the number of items alone, which `set` leaves as it is
(`HeldFits`). What remains is arithmetic of chunks: every index is in the chunk of its
quotient at its remainder (`Counts`, `Positions`), a `set` changes no other chunk
(`ChunkElsewhere`), and an item put back where it was taken out gives the chunk (`Replaced`).
`IInv` adds `UpToDate`, for the leaves whose items can be hashed; it was checked with TLC
on the instance of `vector` before it was proved.

The loops are recursive functions here too (`TwoTo`, `Above`, `Ascent`, `Raised`, `Folded`),
of the naturals; that they exist is `ExistsUpward` of Recursion.

### What the proofs rest on

The assumptions on the constants, which TLC evaluates in every run of their modules:
`TreeAssumption` (different keys have different paths: hashes do not collide),
`ApplyAssumption`, `TableAssumption`, `DatabaseAssumption` (sentinels are none of the
values, finitely many handles and objects), `SyncAssumption` (`At` gives every node of
the tree sent its place, the children of a node are one direction further: what
`Store::check_tree` asserts, and no place is longer than a digest), `PathAssumption` (the same of the keys of maps; being unknown is no value), `MapAssumption`,
`VectorAssumption` (a vector is made of one item or more, which can be hashed; a packing is
not zero),
`TreesAssumption` (the other tables of Sync hold compact
trees with their leaves on their paths, which is what transactions make: the place every
root has in `ApplyProofs` says so); and the library's theorems about finite sets, sequences and
well-founded orders. The provers know nothing of powers: `TwoTo` is a recursive function,
in Sync and in Vector, whose equation is proved (`TwoToFacts`, `TwoToIs`).

`QueriesAssumption`: `Panicked` is neither a difference nor a node of a map.

Only model-checked: the properties of Transaction (`PathsAgree`, `WalkDoesAll`,
`Answered`, `DoesWhatWasAsked`), whose module uses RECURSIVE operators and powers, out
of the provers' reach; what happens to maps when the caller is not `Careful`;
`CallsReturn` and `ExchangesEnd`, liveness properties, out of the prover's reach like
ENABLED.

## Not modelled

- Hash collisions, the layout of RocksDB; serialization beyond whether it fails and
  what arrives. Of failing disk operations only the write of rows: `BackupMayFail` in
  Table, `Panics` in Database.
- Memory ordering and the inside of `AtomicLender` and `RwLock`: external crates,
  taken for locks. One consequence: `diff` holds the read guards of both roots
  during its walk (`handle.rs:87`); of a table with itself, with a writer waiting
  between the two reads, it depends on the fairness of the lock whether the second
  read waits for the writer and the writer for the first.
- A power failure: a stop is the end of the process, whose writes the system
  keeps.
- The write-ahead log: `lib.rs` does not declare the module, and it refers to a type
  that does not exist, so there is no behaviour to model.
- Collections and families beyond their difference: they forward to tables and
  databases.
- Senders that make up nodes, and answers to somebody else's question.
- `Vector::with_packing` of no items, and proofs next to an item that cannot be
  serialized: both panic.

`CheckNode`, `CheckTable`, `References`, `Counted`, `Records`, `Nodes`, `Contents` and
`Progress` translate what the tests use as oracles and drivers (`check_tree`,
`check_references`, `check_correctness`, `run`); the tests' own cases are not
modelled. What of the source no definition stands for is mostly imports, trait
bounds, derived implementations, documentation and tests.

## Plan

1. Done: Operations, Tree, Store, Apply; Table with its proofs; Database; Paths and
   Transaction; Queries; Sync with its proofs; MapNodes and PartialMap; Vector.
2. Done: proofs of every safety property of Apply, Table and Database and that they
   implement KeyValue and Durable; of every safety property of Queries, Sync, PartialMap
   and Vector.
3. Proofs: the properties of Transaction, with recursive functions in place of RECURSIVE
   operators as in Queries, MapNodes and Vector.
4. Failing operations on the file of names and the drop of one of several clones in
   Database.

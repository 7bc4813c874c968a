---------------------------- MODULE Transaction ----------------------------
(***************************************************************************)
(* Transactions and responses of one table: how the calls of a caller      *)
(* become a sorted batch, how chunks of the batch are split along the tree *)
(* and merged, and how a query finds its answer in the batch again.        *)
(*                                                                         *)
(* The other modules take a batch to be a function of the keys and a chunk *)
(* to be the keys below a prefix; this one shows that it is so.            *)
(***************************************************************************)
EXTENDS Operations, Paths, SequencesExt

CONSTANTS
    Digests,       \* the ways the keys may be hashed
    Tables,        \* what the table may hold before any of the transactions
    Splits,        \* the levels over which the store is split (DEPTH)
    Unhashable,    \* keys and values that cannot be serialized
    Transactions,
    MaxCalls,      \* bound: calls made on all transactions together
    Absent,        \* not created, not executed yet
    Panicked

ASSUME TransactionAssumption ==
    /\ Splits \in Nat /\ MaxCalls \in Nat
    /\ Unhashable \cap Key = {}
    /\ Tables \subseteq [Key -> (Value \ Unhashable) \cup {Nothing}]
    /\ \A digest \in Digests :
        /\ digest \in [Key -> Digest]
        \* no two digests are equal or part at the very last bit
        /\ \A j, k \in Key : j # k => \E i \in 0..(Bits - 2) : At(digest[j], i) # At(digest[k], i)

VARIABLES
    digest,     \* the path of each key
    next,       \* TID
    open,       \* the transactions that are being filled
    queries,    \* the queries callers were given, with what they are for
    responses,  \* the responses of the executed transactions
    asked,      \* what each transaction was asked to do, by the calls that succeeded
    table,      \* what the table holds
    before,     \* what it held when a transaction was executed
    calls

vars == <<digest, next, open, queries, responses, asked, table, before, calls>>

-----------------------------------------------------------------------------
(***************************************************************************)
(* Batches.  An operation is its path and its action; the holder of a Get  *)
(* is filled when it is executed.                                          *)
(***************************************************************************)
Op(path, action) == [path |-> path, action |-> action, holder |-> Nothing]

\* Batch::new.
BatchOf(operations) ==
    SortSeq(operations, LAMBDA lho, rho : Precedes(lho.path, rho.path))

\* Fault: the halves come back in the order of their names.
MergedByName(left, right) == left \o right

\* Batch::merge: the right half holds the lower paths.
Merged(left, right) == right \o left

\* TableResponse::get searches a path by halving; a path that is not found panics.
RECURSIVE Search(_, _, _, _)
Search(batch, path, from, to) ==
    LET middle == (from + to) \div 2
    IN  CASE from > to -> 0
          [] from <= to /\ batch[middle].path = path -> middle
          [] from <= to /\ Precedes(batch[middle].path, path) -> Search(batch, path, middle + 1, to)
          [] OTHER -> Search(batch, path, from, middle - 1)

Answer(response, query) ==
    LET found == Search(response.batch, query.path, 1, Len(response.batch))
    IN  IF query.tid # response.tid \/ found = 0 \/ response.batch[found].action.act # "get"
        THEN Panicked ELSE response.batch[found].holder

-----------------------------------------------------------------------------
(***************************************************************************)
(* Chunks: a prefix of the tree and the range of the batch below it.       *)
(***************************************************************************)
Chunk(prefix, start, end) == [prefix |-> prefix, start |-> start, end |-> end]

RootChunk(batch) == Chunk(RootPrefix, 0, Len(batch))

Below(batch, chunk) == SubSeq(batch, chunk.start + 1, chunk.end)

\* Chunk::partition: how many operations, the first ones, are in the right half.
Partition(batch, chunk) ==
    LET right == ChildOf(chunk.prefix, "R")
        operations == Below(batch, chunk)
    IN  Max({ n \in 0..Len(operations) :
                \A i \in 1..n : PrefixContains(right, operations[i].path) })

\* Fault: the range of the left half counts from the start of the batch.
SplitFromStart(batch, chunk, direction) ==
    LET middle == Partition(batch, chunk)
    IN  IF direction = "L" THEN Chunk(ChildOf(chunk.prefix, "L"), middle, chunk.end)
        ELSE Chunk(ChildOf(chunk.prefix, "R"), chunk.start, middle)

\* Fault: the operation at the cut is in neither half.
SplitAfter(batch, chunk, direction) ==
    LET middle == chunk.start + Partition(batch, chunk)
    IN  IF direction = "L" THEN Chunk(ChildOf(chunk.prefix, "L"), middle + 1, chunk.end)
        ELSE Chunk(ChildOf(chunk.prefix, "R"), chunk.start, middle)

\* Chunk::split, one half.
Split(batch, chunk, direction) ==
    LET middle == chunk.start + Partition(batch, chunk)
    IN  IF direction = "L" THEN Chunk(ChildOf(chunk.prefix, "L"), middle, chunk.end)
        ELSE Chunk(ChildOf(chunk.prefix, "R"), chunk.start, middle)

\* Chunk::snap, one half: the batch is cut in two and each half is all of its part.
Snapped(batch, chunk, direction) ==
    IF direction = "L" THEN SubSeq(batch, Partition(batch, chunk) + 1, Len(batch))
    ELSE SubSeq(batch, 1, Partition(batch, chunk))

(***************************************************************************)
(* The walk of a batch down an empty tree, as `recur` and `branch` make    *)
(* it: which operation is done at which prefix, and the batch it leaves.   *)
(* The tree ends at the last bit: a walk that goes on has panicked.        *)
(***************************************************************************)
RECURSIVE Walk(_, _, _)
Walk(batch, chunk, depth) ==
    LET task == Below(batch, chunk)
        snapped(d) == LET half == Snapped(batch, chunk, d)
                      IN  Walk(half, Chunk(ChildOf(chunk.prefix, d), 0, Len(half)), depth + 1)
        split(d) == Walk(batch, Split(batch, chunk, d), depth + 1)
        walked(d) == IF depth < Splits THEN snapped(d) ELSE split(d)
    IN  CASE task = <<>> -> [done |-> {}, batch |-> batch]
          [] Len(task) = 1 -> [done |-> {<<chunk.prefix, task[1]>>}, batch |-> batch]
          [] Len(task) > 1 /\ depth >= Bits - 1 -> [done |-> {Panicked}, batch |-> batch]
          [] Len(task) > 1 /\ depth < Bits - 1 ->
                LET left == walked("L")
                    right == walked("R")
                IN  [done |-> left.done \cup right.done,
                     batch |-> IF depth < Splits THEN Merged(left.batch, right.batch) ELSE batch]

Walked(batch) == Walk(batch, RootChunk(batch), 0)

-----------------------------------------------------------------------------
(***************************************************************************)
(* Operations.                                                             *)
(***************************************************************************)
Init ==
    /\ digest \in Digests
    /\ next = 0
    /\ open = [t \in Transactions |-> Absent]
    /\ queries = {}
    /\ responses = [t \in Transactions |-> Absent]
    /\ asked = [t \in Transactions |-> [k \in Key |-> Skip]]
    /\ table \in Tables
    /\ before = [t \in Transactions |-> Absent]
    /\ calls = 0

\* TID.fetch_add.
Taken(tid) == tid + 1

New(t) ==
    /\ open[t] = Absent /\ responses[t] = Absent
    /\ open' = [open EXCEPT ![t] = [tid |-> next, operations |-> <<>>, paths |-> {}]]
    /\ next' = Taken(next)
    /\ UNCHANGED <<digest, queries, responses, asked, table, before, calls>>

\* QueryError::HashError, before the transaction is touched.
Hashes(k, action) ==
    k \in Key /\ (action.act = "set" => action.value \notin Unhashable)

Collides(transaction, k) == digest[k] \in transaction.paths

\* get, set and remove: a key that has an operation already is refused.
Call(t, k, action) ==
    /\ open[t] # Absent
    /\ calls < MaxCalls
    /\ calls' = calls + 1
    /\ IF Hashes(k, action) /\ ~Collides(open[t], k)
       THEN /\ open' = [open EXCEPT ![t].operations = Append(@, Op(digest[k], action)),
                                    ![t].paths = @ \cup {digest[k]}]
            /\ asked' = [asked EXCEPT ![t][k] = action]
            /\ queries' = IF action = Get
                          THEN queries \cup {[tid |-> open[t].tid, path |-> digest[k],
                                              of |-> t, key |-> k]}
                          ELSE queries
       ELSE UNCHANGED <<open, asked, queries>>
    /\ UNCHANGED <<digest, next, responses, table, before>>

KeyAt(path) == CHOOSE k \in Key : digest[k] = path

\* Table::execute: finalize, apply, and the response with the batch that comes back.
Execute(t) ==
    /\ open[t] # Absent
    /\ LET walked == Walked(BatchOf(open[t].operations))
           done == { step[2] : step \in walked.done }
           fill(op) == IF op \in done /\ op.action = Get
                       THEN [op EXCEPT !.holder = table[KeyAt(op.path)]] ELSE op
       IN  /\ Panicked \notin walked.done
           /\ responses' = [responses EXCEPT ![t] =
                  [tid |-> open[t].tid,
                   batch |-> [i \in DOMAIN walked.batch |-> fill(walked.batch[i])]]]
           /\ table' = [k \in Key |->
                  LET ops == { op \in done : op.path = digest[k] /\ op.action # Get }
                  IN  IF ops = {} THEN table[k]
                      ELSE LET op == CHOOSE op \in ops : TRUE
                           IN  IF op.action.act = "set" THEN op.action.value ELSE Nothing]
    /\ before' = [before EXCEPT ![t] = table]
    /\ open' = [open EXCEPT ![t] = Absent]
    /\ UNCHANGED <<digest, next, queries, asked, calls>>

Next ==
    \/ \E t \in Transactions : New(t)
    \/ \E t \in Transactions, k \in Key \cup Unhashable, action \in Operation \ {Skip} : Call(t, k, action)
    \/ \E t \in Transactions : Execute(t)

Spec == Init /\ [][Next]_vars

-----------------------------------------------------------------------------
(***************************************************************************)
(* Properties.                                                             *)
(***************************************************************************)

\* Prefixes made of bytes are the prefixes of directions the trees are made of, at
\* every depth up to the last, also across bytes: what a prefix contains, where two
\* paths part, and that of the two halves of a prefix the right one comes first.
\* (The digests are chosen once, so the first state tells all.)
PathsAgree ==
    next = 0 => \A p \in Digest, k \in Key :
        LET q == digest[k]
            same(depth) == \A i \in 0..(depth - 1) : At(p, i) = At(q, i)
            common == Common(p, q)
        IN  /\ \A depth \in 0..(Bits - 1) : DeepEq(p, q, depth) <=> same(depth)
            /\ \A depth \in 0..(Bits - 2), d \in {"L", "R"} :
                  PrefixContains(ChildOf(Prefix(p, depth), d), q)
                      <=> (same(depth) /\ At(q, depth) = d)
            /\ p # q =>
                  /\ same(common.depth) /\ At(p, common.depth) # At(q, common.depth)
                  /\ SamePrefix(common, Common(q, p))
                  /\ \A n \in 0..common.depth : PrefixContains(Ancestor(common, n), q)
                  /\ Precedes(p, q) <=> At(p, common.depth) = "R"

\* Whatever the order of the calls, the walk of a transaction's batch does every
\* operation exactly once, at a prefix that the operation's path has and that no
\* other operation's path has; it stays within the bits of a digest, and leaves the
\* batch in the order it had, which is the order queries are searched in.
WalkDoesAll ==
    \A t \in Transactions : open[t] # Absent =>
        LET batch == BatchOf(open[t].operations)
            walked == Walked(batch)
        IN  /\ Panicked \notin walked.done
            /\ { step[2] : step \in walked.done } = ToSet(open[t].operations)
            /\ Cardinality(walked.done) = Len(open[t].operations)
            /\ \A step \in walked.done, op \in ToSet(open[t].operations) :
                    (\A i \in 0..(step[1].depth - 1) : At(step[1].path, i) = At(op.path, i))
                        <=> op = step[2]
            /\ walked.batch = batch

\* A query is answered by the response of its own transaction, with what the table
\* held for its key when that was executed; any other response panics (query.rs: a
\* Query is only usable with the Response obtained from executing its Transaction).
Answered ==
    \A query \in queries, t \in Transactions : responses[t] # Absent =>
        Answer(responses[t], query) = IF query.of = t THEN before[t][query.key] ELSE Panicked

\* A transaction does to the table exactly what its successful calls asked, and a
\* refused call nothing: the batch is the function of the keys that Apply takes.
DoesWhatWasAsked ==
    [][\A t \in Transactions : before'[t] # before[t] => table' = Updated(table, asked[t])]_vars
=============================================================================

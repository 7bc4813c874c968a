-------------------------------- MODULE Sync --------------------------------
(***************************************************************************)
(* Sending a table to another database: a sender answers questions about   *)
(* the nodes of its tree, and receivers rebuild the tree in a store that   *)
(* other tables, and other receivers, keep changing.                       *)
(*                                                                         *)
(* The store is lent to one call at a time.  A call that works node by     *)
(* node (learn, flush, drop, a transaction of another table) is one action *)
(* per node, `lent` and `job` saying whose call runs and what it does.     *)
(*                                                                         *)
(* Labels are those of module Tree: the hash of a node, which keys         *)
(* `frontier` and `acquired` in the code, is taken to be its label.        *)
(***************************************************************************)
EXTENDS Tree, TLC

CONSTANTS
    Receiver,     \* the exchanges, each with a receiver of its own
    Other,        \* the other tables of the receiving database
    Trees,        \* the trees those tables may hold
    Sent,         \* the root label of the table being sent
    At,           \* the location of every node of the tree being sent
    AnswerDepth,  \* ANSWER_DEPTH: how far below a label an answer goes
    Window,       \* Settings::window: how many labels a question may hold
    MaxChanges,   \* bound: tables created and dropped by others
    Absent        \* no label, nobody

Table == Receiver \cup Other

Sides(label) ==
    IF IsInternal(label) THEN {d \in Direction : Child(label, d) # Empty} ELSE {}

\* MapId::internal and MapId::leaf: the label of a node found at a location.
LabelAt(location, node) ==
    IF IsInternal(node)
    THEN [node EXCEPT !.map = InternalMap(location)]
    ELSE [node EXCEPT !.map = LeafMap(node.key)]

\* The invariants of topology an answer must respect.
Compact(label) ==
    \/ label.left # Empty /\ label.right # Empty
    \/ IsInternal(label.left)
    \/ IsInternal(label.right)

WellFormed(location, node) ==
    \/ IsInternal(node) /\ Compact(node)
    \/ IsLeaf(node) /\ Holds(location, node.key)

\* Store::check_tree: what a tree is made of, node by node.
CheckNode(node) ==
    /\ LabelAt(At[node], node) = node
    /\ WellFormed(At[node], node)
    /\ \A d \in Sides(node) :
          /\ Child(node, d) \in DOMAIN At
          /\ At[Child(node, d)] = Append(At[node], d)

\* Table::check, of one node: compact, or a leaf on the path of its key.
Topology(tree, node) ==
    /\ IsInternal(node) => Compact(node)
    /\ IsLeaf(node) => Descend(tree, Path[node.key]) = node

\* 1 << n, as far as answers go down.
TwoTo[n \in 0..(AnswerDepth + 1)] == IF n = 0 THEN 1 ELSE 2 * TwoTo[n - 1]

\* Severity::add: the offences one answer may hold.
Bound == TwoTo[AnswerDepth + 1] - 2

\* The other tables hold what transactions make (see module Apply).
ASSUME TreesAssumption ==
    \A tree \in Trees : \A node \in Nodes(tree) : Topology(tree, node)

ASSUME SyncAssumption ==
    /\ Absent \notin Table
    /\ Receiver \cap Other = {}
    /\ IsFiniteSet(Table)
    /\ AnswerDepth \in Nat /\ Window \in Nat \ {0} /\ MaxChanges \in Nat
    /\ Absent \notin Trees
    /\ Sent = Empty \/ (Sent \in DOMAIN At /\ At[Sent] = Root)
    /\ Empty \notin DOMAIN At /\ Absent \notin DOMAIN At
    /\ \A node \in DOMAIN At :
          /\ At[node] \in Seq(Direction) /\ Len(At[node]) <= PathLength
          /\ Descend(Sent, At[node]) = node
          /\ CheckNode(node)
          /\ IsLeaf(node) => node.key \in Key

VARIABLES
    refs,      \* the references of every node in the receiving store
    lent,      \* the table or receiver whose call has the store, or Absent
    job,       \* what that call does
    work,      \* the references the call has still to take or to give back
    table,     \* the root of every table of the receiving database
    changes,   \* how many tables others created or dropped
    network,   \* whether answers come once and in order
    phase,     \* how far each exchange is
    root,      \* TableReceiver::root, or Absent for None
    held,      \* TableReceiver::held
    frontier,  \* TableReceiver::frontier: the location of every node sighted
    acquired,  \* TableReceiver::acquired
    offences,  \* the Severity of the answer being learnt
    inbox,     \* the rest of the answer being learnt
    answers    \* the answers the network may deliver

memory == <<root, held, frontier, acquired>>
vars == <<refs, lent, job, work, table, changes, network, phase,
          root, held, frontier, acquired, offences, inbox, answers>>

-----------------------------------------------------------------------------
(***************************************************************************)
(* The sender.  An answer lists, for every label of a question, the nodes  *)
(* down to AnswerDepth levels below it, parents first.  It is kept as the  *)
(* grabs that are still to be expanded: the tree sent never changes, as    *)
(* the sender holds a handle of its own.                                   *)
(***************************************************************************)
Grab(label, ttl) ==
    IF label = Empty THEN <<>> ELSE <<[node |-> label, ttl |-> ttl]>>

Hello == Grab(Sent, AnswerDepth)

AnswerTo(question) ==
    [i \in DOMAIN question |-> [node |-> question[i], ttl |-> AnswerDepth]]

Node(r) == Head(inbox[r]).node

Rest(r) ==
    LET grab == Head(inbox[r])
    IN  IF IsInternal(grab.node) /\ grab.ttl > 0
        THEN Grab(grab.node.left, grab.ttl - 1) \o Grab(grab.node.right, grab.ttl - 1)
             \o Tail(inbox[r])
        ELSE Tail(inbox[r])

-----------------------------------------------------------------------------
(***************************************************************************)
(* References, as edges: who refers to which label.  What a call still has *)
(* to count up (`insert`) or down (`drop`) is a set of them; the code goes *)
(* left first, nothing depends on the order.                               *)
(***************************************************************************)
Edge(kind, source, label) == [from |-> <<kind, source>>, to |-> label]

ChildEdges(label) == { Edge(d, label, Child(label, d)) : d \in Sides(label) }
HeldEdges(r) == { Edge("held", r, label) : label \in held[r] }
TableEdges(t) == IF table[t] \in {Absent, Empty} THEN {} ELSE {Edge("table", t, table[t])}

Stored(label) == label \in DOMAIN refs

Free == lent = Absent

Lend(who, what, edges) ==
    /\ Free
    /\ lent' = who
    /\ job' = what
    /\ work' = edges

Restore == lent' = Absent /\ job' = "none" /\ work' = {}

Init ==
    /\ refs = <<>>
    /\ lent = Absent /\ job = "none" /\ work = {}
    /\ table = [t \in Table |-> Absent]
    /\ changes = 0
    /\ network \in {"ordered", "faulty"}
    /\ phase = [r \in Receiver |-> "waiting"]
    /\ root = [r \in Receiver |-> Absent]
    /\ held = [r \in Receiver |-> {}]
    /\ frontier = [r \in Receiver |-> <<>>]
    /\ acquired = [r \in Receiver |-> {}]
    /\ offences = [r \in Receiver |-> 0]
    /\ inbox = [r \in Receiver |-> <<>>]
    /\ answers = [r \in Receiver |-> {Hello}]

-----------------------------------------------------------------------------
(***************************************************************************)
(* The receiver: `learn` takes the store, updates the receiver with each   *)
(* node of the answer, and ends with a flush, a question or a refusal.     *)
(***************************************************************************)
Deliver(r) ==
    /\ phase[r] = "waiting"
    /\ Lend(r, "learn", {})
    /\ \E answer \in answers[r] : inbox' = [inbox EXCEPT ![r] = answer]
    /\ phase' = [phase EXCEPT ![r] = "learning"]
    /\ offences' = [offences EXCEPT ![r] = 0]
    /\ UNCHANGED <<refs, table, changes, network, memory, answers>>

Reads(r) == phase[r] = "learning" /\ inbox[r] # <<>>

\* The first node is the root by convention; any other must have been sighted.
Sighted(r) == root[r] = Absent \/ Node(r) \in DOMAIN frontier[r]

Location(r) == IF root[r] = Absent THEN Root ELSE frontier[r][Node(r)]

Label(r) == LabelAt(Location(r), Node(r))

\* Fault: the bound itself is one offence too many.
TolerableBelow(count) == count < Bound

Tolerable(count) == count <= Bound

\* The first child of an internal node that is internal too, or the node.
Down == [node \in DOMAIN refs |->
            IF IsInternal(node.left) THEN node.left
            ELSE IF IsInternal(node.right) THEN node.right ELSE node]

\* locate::locate: down to two sibling leaves, whose paths have in common the
\* location looked for and as many directions as it took to get there.
Locate(label) ==
    LET below[n \in 0..PathLength] == IF n = 0 THEN label ELSE Down[below[n - 1]]
        dive == CHOOSE n \in 0..PathLength :
                    /\ below[n] = Down[below[n]]
                    /\ \A m \in 0..(n - 1) : below[m] # below[n]
        keys == { below[dive].left.key, below[dive].right.key }
        common == LongestCommonPrefix({ Path[k] : k \in keys })
    IN  SubSeq(common, 1, Len(common) - dive)

Misplaced(r) ==
    IsInternal(Node(r)) /\ Stored(Label(r)) /\ Locate(Label(r)) # Location(r)

Malicious(r) == ~WellFormed(Location(r), Node(r)) \/ Misplaced(r)

\* An offence the receiver tolerates: the node is ignored.
Ignore(r) ==
    /\ Reads(r)
    /\ ~Sighted(r)
    /\ Tolerable(offences[r] + 1)
    /\ offences' = [offences EXCEPT ![r] = @ + 1]
    /\ inbox' = [inbox EXCEPT ![r] = Rest(r)]
    /\ UNCHANGED <<refs, lent, job, work, table, changes, network, phase, memory, answers>>

Refuse(r) ==
    /\ Reads(r)
    /\ IF Sighted(r) THEN Malicious(r) ELSE ~Tolerable(offences[r] + 1)
    /\ phase' = [phase EXCEPT ![r] = "refused"]
    /\ Restore
    /\ UNCHANGED <<refs, table, changes, network, memory, offences, inbox, answers>>

Accept(r) ==
    /\ Reads(r)
    /\ Sighted(r)
    /\ ~Malicious(r)
    /\ root' = [root EXCEPT ![r] = IF @ = Absent THEN Label(r) ELSE @]
    /\ offences' = [offences EXCEPT ![r] = 0]
    /\ inbox' = [inbox EXCEPT ![r] = Rest(r)]
    /\ UNCHANGED <<lent, job, work, table, changes, network, phase, answers>>

\* A node the store has is held: nobody can drop it, nor what is below it.
Hold(r) ==
    /\ Accept(r)
    /\ Stored(Label(r))
    /\ refs' = [refs EXCEPT ![Label(r)] = @ + 1]
    /\ held' = [held EXCEPT ![r] = @ \cup {Label(r)}]
    /\ frontier' = [frontier EXCEPT ![r] = Restrict(@, DOMAIN @ \ {Node(r)})]
    /\ UNCHANGED acquired

\* Fault: a child of a new node is not asked for when it is already stored.
SightsUnstored(r) ==
    [child \in { Child(Node(r), d) : d \in {e \in Sides(Node(r)) : ~Stored(Child(Node(r), e))} } |->
        Append(Location(r), CHOOSE d \in Sides(Node(r)) : Child(Node(r), d) = child)]

\* TableReceiver::sight, for both children.
Sights(r) ==
    [child \in { Child(Node(r), d) : d \in Sides(Node(r)) } |->
        Append(Location(r), CHOOSE d \in Sides(Node(r)) : Child(Node(r), d) = child)]

\* Fault: a node that was received is still asked for.
AcquireAgain(r) ==
    /\ Accept(r)
    /\ ~Stored(Label(r))
    /\ acquired' = [acquired EXCEPT ![r] = @ \cup {Node(r)}]
    /\ frontier' = [frontier EXCEPT ![r] = Sights(r) @@ @]
    /\ UNCHANGED <<refs, held>>

Acquire(r) ==
    /\ Accept(r)
    /\ ~Stored(Label(r))
    /\ acquired' = [acquired EXCEPT ![r] = @ \cup {Node(r)}]
    /\ frontier' = [frontier EXCEPT ![r] =
                        [n \in (DOMAIN Sights(r) \cup DOMAIN frontier[r]) \ {Node(r)} |->
                            IF n \in DOMAIN Sights(r) THEN Sights(r)[n] ELSE frontier[r][n]]]
    /\ UNCHANGED <<refs, held>>

\* The end of an answer, and the next question: at most Window labels, in the
\* order of a hash map, which is any.
Ask(r) ==
    /\ phase[r] = "learning" /\ inbox[r] = <<>>
    /\ frontier[r] # <<>>
    /\ phase' = [phase EXCEPT ![r] = "waiting"]
    /\ Restore
    /\ LET count == IF Cardinality(DOMAIN frontier[r]) < Window
                    THEN Cardinality(DOMAIN frontier[r]) ELSE Window
       IN  \E labels \in { s \in SUBSET DOMAIN frontier[r] : Cardinality(s) = count } :
           \E question \in SetToSeqs(labels) :
              answers' = [answers EXCEPT ![r] =
                    (IF network = "ordered" THEN {} ELSE @) \cup {AnswerTo(question)}]
    /\ UNCHANGED <<refs, table, changes, network, memory, offences, inbox>>

\* Nothing is missing: flush from the root, which is the table's from now on.
Flush(r) ==
    /\ phase[r] = "learning" /\ inbox[r] = <<>>
    /\ frontier[r] = <<>>
    /\ phase' = [phase EXCEPT ![r] = "flushing"]
    /\ job' = "insert"
    /\ table' = [table EXCEPT ![r] = IF root[r] = Absent THEN Empty ELSE root[r]]
    /\ work' = IF root[r] = Absent THEN {} ELSE {Edge("table", r, root[r])}
    /\ UNCHANGED <<refs, lent, changes, network, memory, offences, inbox, answers>>

-----------------------------------------------------------------------------
(***************************************************************************)
(* The calls that count references up and down: `flush`, which other       *)
(* tables' transactions share here (module Apply has them in full), and    *)
(* `drop`.                                                                 *)
(***************************************************************************)

\* Fault: a reference that is held already is taken again.
TakesNothingOver(edge) == FALSE

\* The receiver held the label: the reference is taken over by its parent.
TakesOver(edge) == lent \in Receiver /\ edge.to \in held[lent]

Insert(edge) ==
    /\ job = "insert"
    /\ edge \in work
    /\ LET label == edge.to
           count == IF TakesOver(edge) THEN 0 ELSE 1
       IN  /\ IF Stored(label)
              THEN /\ refs' = [refs EXCEPT ![label] = @ + count]
                   /\ work' = work \ {edge}
              ELSE /\ lent \in Receiver => label \in acquired[lent]
                   /\ refs' = [l \in DOMAIN refs \cup {label} |->
                                  IF l = label THEN count ELSE refs[l]]
                   /\ work' = (work \ {edge}) \cup ChildEdges(label)
           /\ held' = [r \in Receiver |->
                         IF r = lent THEN held[r] \ {label} ELSE held[r]]
    /\ UNCHANGED <<lent, job, table, changes, network, phase, root, frontier,
                   acquired, offences, inbox, answers>>

InsertEnd ==
    /\ job = "insert" /\ work = {}
    /\ phase' = [r \in Receiver |-> IF r = lent THEN "finished" ELSE phase[r]]
    /\ Restore
    /\ UNCHANGED <<refs, table, changes, network, memory, offences, inbox, answers>>

\* Drop for TableReceiver: when `learn` has returned, or the receiver is given
\* up between two answers, whatever it still holds is released.
Close(r) ==
    /\ phase[r] \in {"waiting", "finished", "refused"}
    /\ Lend(r, "drop", HeldEdges(r))
    /\ phase' = [phase EXCEPT ![r] = "closing"]
    /\ held' = [held EXCEPT ![r] = {}]
    /\ frontier' = [frontier EXCEPT ![r] = <<>>]
    /\ acquired' = [acquired EXCEPT ![r] = {}]
    /\ inbox' = [inbox EXCEPT ![r] = <<>>]
    /\ answers' = [answers EXCEPT ![r] = {}]
    /\ UNCHANGED <<refs, table, changes, network, root, offences>>

\* Fault: a label is removed whoever else refers to it.
DropAlways(edge) ==
    /\ job = "drop"
    /\ edge \in work
    /\ Stored(edge.to)
    /\ refs' = Restrict(refs, DOMAIN refs \ {edge.to})
    /\ work' = (work \ {edge}) \cup ChildEdges(edge.to)
    /\ UNCHANGED <<lent, job, table, changes, network, phase, memory, offences, inbox, answers>>

\* Fault: a node is kept when its last reference goes.
DropLate(edge) ==
    /\ job = "drop"
    /\ edge \in work
    /\ Stored(edge.to)
    /\ refs' = [refs EXCEPT ![edge.to] = @ - 1]
    /\ work' = work \ {edge}
    /\ UNCHANGED <<lent, job, table, changes, network, phase, memory, offences, inbox, answers>>

DropNode(edge) ==
    /\ job = "drop"
    /\ edge \in work
    /\ Stored(edge.to)
    /\ IF refs[edge.to] = 1
       THEN /\ refs' = Restrict(refs, DOMAIN refs \ {edge.to})
            /\ work' = (work \ {edge}) \cup ChildEdges(edge.to)
       ELSE /\ refs' = [refs EXCEPT ![edge.to] = @ - 1]
            /\ work' = work \ {edge}
    /\ UNCHANGED <<lent, job, table, changes, network, phase, memory, offences, inbox, answers>>

DropEnd ==
    /\ job = "drop" /\ work = {}
    /\ phase' = [r \in Receiver |->
                   IF r = lent /\ phase[r] = "closing" THEN "gone" ELSE phase[r]]
    /\ Restore
    /\ UNCHANGED <<refs, table, changes, network, memory, offences, inbox, answers>>

-----------------------------------------------------------------------------
(***************************************************************************)
(* The other tables of the database: filled by a transaction, dropped.  A  *)
(* table that was received is dropped like any other.                      *)
(***************************************************************************)
Create(o, tree) ==
    /\ table[o] = Absent
    /\ changes < MaxChanges
    /\ Lend(o, "insert", IF tree = Empty THEN {} ELSE {Edge("table", o, tree)})
    /\ table' = [table EXCEPT ![o] = tree]
    /\ changes' = changes + 1
    /\ UNCHANGED <<refs, network, phase, memory, offences, inbox, answers>>

Discard(t) ==
    /\ table[t] # Absent
    /\ t \in Receiver => phase[t] = "gone"
    /\ changes < MaxChanges
    /\ Lend(t, "drop", TableEdges(t))
    /\ table' = [table EXCEPT ![t] = Absent]
    /\ changes' = changes + 1
    /\ UNCHANGED <<refs, network, phase, memory, offences, inbox, answers>>

Learn(r) == Ignore(r) \/ Refuse(r) \/ Hold(r) \/ Acquire(r) \/ Ask(r) \/ Flush(r)
Work == InsertEnd \/ DropEnd \/ \E edge \in work : Insert(edge) \/ DropNode(edge)

Next ==
    \/ \E r \in Receiver : Deliver(r) \/ Learn(r) \/ Close(r)
    \/ Work
    \/ \E o \in Other, tree \in Trees : Create(o, tree)
    \/ \E t \in Table : Discard(t)

\* What goes on by itself: an answer arrives, a call runs to its end, a receiver
\* that `learn` consumed is dropped.  Giving up, creating and dropping tables
\* are up to the callers.
Progress ==
    \/ \E r \in Receiver : Deliver(r) \/ Learn(r) \/ (phase[r] # "waiting" /\ Close(r))
    \/ Work

Spec == Init /\ [][Next]_vars /\ WF_vars(Progress)

-----------------------------------------------------------------------------
(***************************************************************************)
(* Properties.                                                             *)
(***************************************************************************)
Phases == {"waiting", "learning", "flushing", "finished", "refused", "closing", "gone"}

\* The shape of the state: counts are positive, calls work on references, and
\* the store is out of its cell exactly while a call runs.
TypeOK ==
    /\ \A label \in DOMAIN refs : refs[label] \in Nat \ {0}
    /\ lent \in Table \cup {Absent}
    /\ job \in {"none", "learn", "insert", "drop"}
    /\ (job = "none") = Free
    /\ phase \in [Receiver -> Phases]
    /\ \A r \in Receiver :
          /\ phase[r] \in {"learning", "flushing", "closing"} => lent = r
          /\ DOMAIN frontier[r] \subseteq DOMAIN At
          /\ offences[r] \in 0..Bound

\* The references of stored nodes to their children, of tables to their roots and
\* of receivers to what they hold.
References ==
    (UNION { ChildEdges(label) : label \in DOMAIN refs })
    \cup (UNION { TableEdges(t) : t \in Table })
    \cup (UNION { HeldEdges(r) : r \in Receiver })

\* Those that have been counted: but for what a running call has yet to take, and
\* with what it has yet to drop.
Counted ==
    CASE job = "insert" -> References \ work
      [] job = "drop" -> References \cup work
      [] OTHER -> References

\* At every step of every call, whatever several receivers and tables do to
\* nodes they share, a node is stored exactly while something refers to it, and
\* its count is the number of references: an exchange that completes, is
\* refused or is given up leaves no reference behind and takes none away.
CountsExact ==
    /\ \A edge \in Counted : Stored(edge.to)
    /\ \A label \in DOMAIN refs :
          refs[label] = Cardinality({ edge \in Counted : edge.to = label })

\* `flush` never comes to a node that is neither stored nor acquired (the
\* `unwrap` of flush), though what was stored when an answer came may have been
\* dropped by other tables since, and what was not may have been stored.
FlushFinds ==
    (job = "insert" /\ lent \in Receiver) =>
        \A edge \in work : Stored(edge.to) \/ edge.to \in acquired[lent]

\* Table::check: all of the table is in the store, compact, its leaves on their paths.
CheckTable(t) ==
    \A node \in Nodes(table[t]) : Stored(node) /\ Topology(table[t], node)

\* No table that is done being made ever lacks a node, whoever else drops what it
\* shares with it; and a receiver that says it is complete has the table that was
\* sent, all of it.
TablesWhole ==
    \A t \in Table : (table[t] # Absent /\ lent # t) =>
        /\ CheckTable(t)
        /\ t \in Receiver => table[t] = Sent

\* Over an ordered network an honest sender is never taken for a malicious one:
\* the offences one held node can lead to stay within the bound of Severity.
HonestAccepted ==
    network = "ordered" => \A r \in Receiver : phase[r] # "refused"

\* Over an ordered network every exchange comes to its end: each answer tells
\* something new, and no receiver waits for ever.
ExchangesEnd ==
    \A r \in Receiver : network = "ordered" ~> phase[r] = "gone"
=============================================================================

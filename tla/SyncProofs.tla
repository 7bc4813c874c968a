----------------------------- MODULE SyncProofs -----------------------------
(***************************************************************************)
(* Proofs about Sync, for any tables, trees and receivers: references are  *)
(* counted exactly at every step, flush finds every node it needs, tables  *)
(* stay whole, and an honest sender is never refused.                      *)
(*                                                                         *)
(* The counts are proved in two layers.  The first is about counts and a   *)
(* set of edges alone: how each change of a count goes with an edge more,  *)
(* less or replaced.  The second finds, for every action, which edge that  *)
(* is.                                                                     *)
(***************************************************************************)
EXTENDS Sync, PlaceProofs

-----------------------------------------------------------------------------
(***************************************************************************)
(* Counts and edges.                                                       *)
(***************************************************************************)
Into(edges, label) == { edge \in edges : edge.to = label }

\* The counts in `counts` are those of the edges in `edges`.
Exact(counts, edges) ==
    /\ \A edge \in edges : edge.to \in DOMAIN counts
    /\ \A label \in DOMAIN counts :
          /\ counts[label] \in Nat \ {0}
          /\ IsFiniteSet(Into(edges, label))
          /\ counts[label] = Cardinality(Into(edges, label))

\* The first edge into a label comes with a count of one.
LEMMA FirstEdge ==
    ASSUME NEW counts, NEW edges, NEW edge, Exact(counts, edges),
           edge.to \notin DOMAIN counts
    PROVE  Exact([label \in DOMAIN counts \cup {edge.to} |->
                    IF label = edge.to THEN 1 ELSE counts[label]],
                 edges \cup {edge})
<1> DEFINE new == [label \in DOMAIN counts \cup {edge.to} |->
                     IF label = edge.to THEN 1 ELSE counts[label]]
<1>1. Into(edges \cup {edge}, edge.to) = {edge}
  BY DEF Exact, Into
<1>2. ASSUME NEW label, label # edge.to
      PROVE  Into(edges \cup {edge}, label) = Into(edges, label)
  BY <1>2 DEF Into
<1>3. ASSUME NEW label \in DOMAIN new
      PROVE  /\ new[label] \in Nat \ {0}
             /\ IsFiniteSet(Into(edges \cup {edge}, label))
             /\ new[label] = Cardinality(Into(edges \cup {edge}, label))
  <2>1. CASE label = edge.to
    BY <2>1, <1>1, FS_Singleton
  <2>2. CASE label # edge.to
    BY <2>2, <1>2 DEF Exact
  <2>. QED
    BY <2>1, <2>2
<1>4. \A e \in edges \cup {edge} : e.to \in DOMAIN new
  BY DEF Exact
<1>. QED
  BY <1>3, <1>4 DEF Exact

\* One edge more into a label that has some.
LEMMA MoreEdges ==
    ASSUME NEW counts, NEW edges, NEW edge, Exact(counts, edges),
           edge.to \in DOMAIN counts, edge \notin edges
    PROVE  Exact([counts EXCEPT ![edge.to] = @ + 1], edges \cup {edge})
<1> DEFINE new == [counts EXCEPT ![edge.to] = @ + 1]
<1>1. Into(edges \cup {edge}, edge.to) = Into(edges, edge.to) \cup {edge}
  BY DEF Into
<1>2. ASSUME NEW label, label # edge.to
      PROVE  Into(edges \cup {edge}, label) = Into(edges, label)
  BY <1>2 DEF Into
<1>3. ASSUME NEW label \in DOMAIN new
      PROVE  /\ new[label] \in Nat \ {0}
             /\ IsFiniteSet(Into(edges \cup {edge}, label))
             /\ new[label] = Cardinality(Into(edges \cup {edge}, label))
  <2>1. CASE label = edge.to
    <3>1. edge \notin Into(edges, edge.to)
      BY DEF Into
    <3>4. IsFiniteSet(Into(edges, edge.to)) /\ Cardinality(Into(edges, edge.to)) = counts[edge.to]
      BY <2>1 DEF Exact
    <3>2. /\ IsFiniteSet(Into(edges, edge.to) \cup {edge})
          /\ Cardinality(Into(edges, edge.to) \cup {edge}) = counts[edge.to] + 1
      BY ONLY <3>1, <3>4, FS_AddElement
    <3>3. new[label] = counts[edge.to] + 1 /\ counts[edge.to] \in Nat
      BY <2>1 DEF Exact
    <3>. QED
      BY <2>1, <1>1, <3>2, <3>3
  <2>2. CASE label # edge.to
    BY <2>2, <1>2 DEF Exact
  <2>. QED
    BY <2>1, <2>2
<1>4. \A e \in edges \cup {edge} : e.to \in DOMAIN new
  BY DEF Exact
<1>. QED
  BY <1>3, <1>4 DEF Exact

\* One edge less into a label that has others.
LEMMA FewerEdges ==
    ASSUME NEW counts, NEW edges, NEW edge \in edges, Exact(counts, edges),
           counts[edge.to] # 1
    PROVE  Exact([counts EXCEPT ![edge.to] = @ - 1], edges \ {edge})
<1> DEFINE new == [counts EXCEPT ![edge.to] = @ - 1]
<1>1. Into(edges \ {edge}, edge.to) = Into(edges, edge.to) \ {edge}
  BY DEF Into
<1>2. ASSUME NEW label, label # edge.to
      PROVE  Into(edges \ {edge}, label) = Into(edges, label)
  BY <1>2 DEF Into
<1>3. ASSUME NEW label \in DOMAIN new
      PROVE  /\ new[label] \in Nat \ {0}
             /\ IsFiniteSet(Into(edges \ {edge}, label))
             /\ new[label] = Cardinality(Into(edges \ {edge}, label))
  <2>1. CASE label = edge.to
    <3>1. edge \in Into(edges, edge.to)
      BY DEF Into
    <3>6. IsFiniteSet(Into(edges, edge.to)) /\ Cardinality(Into(edges, edge.to)) = counts[edge.to]
      BY <2>1 DEF Exact
    <3>2. /\ IsFiniteSet(Into(edges, edge.to) \ {edge})
          /\ Cardinality(Into(edges, edge.to) \ {edge}) = counts[edge.to] - 1
      BY ONLY <3>1, <3>6, FS_RemoveElement
    <3>3. new[label] = counts[edge.to] - 1
      BY <2>1
    <3>4. counts[edge.to] \in Nat \ {0} /\ counts[edge.to] # 1
      BY <2>1 DEF Exact
    <3>5. new[label] \in Nat \ {0}
      BY <3>3, <3>4
    <3>. QED
      BY <2>1, <1>1, <3>2, <3>3, <3>5
  <2>2. CASE label # edge.to
    BY <2>2, <1>2 DEF Exact
  <2>. QED
    BY <2>1, <2>2
<1>4. \A e \in edges \ {edge} : e.to \in DOMAIN new
  BY DEF Exact
<1>. QED
  BY <1>3, <1>4 DEF Exact

\* The last edge into a label goes with the label.
LEMMA LastEdge ==
    ASSUME NEW counts, NEW edges, NEW edge \in edges, Exact(counts, edges),
           counts[edge.to] = 1
    PROVE  Exact(Restrict(counts, DOMAIN counts \ {edge.to}), edges \ {edge})
<1> DEFINE new == Restrict(counts, DOMAIN counts \ {edge.to})
<1>1. Into(edges, edge.to) = {edge}
  <2>1. edge \in Into(edges, edge.to)
    BY DEF Into
  <2>2. PICK e : Into(edges, edge.to) = {e}
    BY FS_Singleton DEF Exact
  <2>. QED
    BY <2>1, <2>2
<1>2. ASSUME NEW label, label # edge.to
      PROVE  Into(edges \ {edge}, label) = Into(edges, label)
  BY <1>2 DEF Into
<1>3. ASSUME NEW label \in DOMAIN new
      PROVE  /\ new[label] \in Nat \ {0}
             /\ IsFiniteSet(Into(edges \ {edge}, label))
             /\ new[label] = Cardinality(Into(edges \ {edge}, label))
  <2>1. label \in DOMAIN counts /\ label # edge.to /\ new[label] = counts[label]
    BY DEF Restrict
  <2>. QED
    BY <2>1, <1>2 DEF Exact
<1>4. \A e \in edges \ {edge} : e.to \in DOMAIN new
  BY <1>1 DEF Exact, Restrict, Into
<1>. QED
  BY <1>3, <1>4 DEF Exact

\* One edge replaced by another into the same label.
LEMMA OtherEdge ==
    ASSUME NEW counts, NEW edges, NEW old \in edges, NEW edge, Exact(counts, edges),
           edge \notin edges, edge.to = old.to
    PROVE  Exact(counts, (edges \ {old}) \cup {edge})
<1> DEFINE new == (edges \ {old}) \cup {edge}
<1>1. Into(new, edge.to) = (Into(edges, edge.to) \ {old}) \cup {edge}
  BY DEF Into
<1>2. ASSUME NEW label, label # edge.to
      PROVE  Into(new, label) = Into(edges, label)
  BY <1>2 DEF Into
<1>3. ASSUME NEW label \in DOMAIN counts
      PROVE  /\ counts[label] \in Nat \ {0}
             /\ IsFiniteSet(Into(new, label))
             /\ counts[label] = Cardinality(Into(new, label))
  <2>1. CASE label = edge.to
    <3>1. old \in Into(edges, edge.to) /\ edge \notin Into(edges, edge.to) \ {old}
      BY DEF Into
    <3>2. /\ IsFiniteSet(Into(edges, edge.to) \ {old})
          /\ Cardinality(Into(edges, edge.to) \ {old}) = counts[edge.to] - 1
      BY <2>1, <3>1, FS_RemoveElement DEF Exact
    <3>3. /\ IsFiniteSet(Into(new, edge.to))
          /\ Cardinality(Into(new, edge.to)) = counts[edge.to] - 1 + 1
      <4> DEFINE rest == Into(edges, edge.to) \ {old}
      <4>1. Into(new, edge.to) = rest \cup {edge}
        BY <1>1
      <4>2. IsFiniteSet(rest) /\ edge \notin rest /\ Cardinality(rest) = counts[edge.to] - 1
        BY <3>1, <3>2
      <4> HIDE DEF new, rest
      <4>3. IsFiniteSet(rest \cup {edge}) /\ Cardinality(rest \cup {edge}) = Cardinality(rest) + 1
        BY ONLY <4>2, FS_AddElement
      <4>. QED
        BY ONLY <4>1, <4>2, <4>3
    <3>4. counts[edge.to] \in Nat \ {0}
      BY <2>1 DEF Exact
    <3>. QED
      BY <2>1, <3>3, <3>4
  <2>2. CASE label # edge.to
    BY <2>2, <1>2 DEF Exact
  <2>. QED
    BY <2>1, <2>2
<1>4. \A e \in new : e.to \in DOMAIN counts
  BY DEF Exact
<1>. QED
  BY <1>3, <1>4 DEF Exact

-----------------------------------------------------------------------------
(***************************************************************************)
(* The references there are, given what is stored, which roots the tables  *)
(* have and what the receivers hold; and how they change with one of them. *)
(***************************************************************************)
RootEdges(t, label) == IF label \in {Absent, Empty} THEN {} ELSE {Edge("table", t, label)}

HoldEdges(r, labels) == { Edge("held", r, label) : label \in labels }

ChildrenOf(labels) == UNION { ChildEdges(label) : label \in labels }

RootsOf(tables) == UNION { RootEdges(t, tables[t]) : t \in Table }

HoldsOf(holds) == UNION { HoldEdges(r, holds[r]) : r \in Receiver }

EdgesOf(labels, tables, holds) == ChildrenOf(labels) \cup RootsOf(tables) \cup HoldsOf(holds)

\* An edge there is, is one of these three.
LEMMA InEdges ==
    ASSUME NEW labels, NEW tables, NEW holds, NEW edge
    PROVE  edge \in EdgesOf(labels, tables, holds) <=>
             \/ \E label \in labels : edge \in ChildEdges(label)
             \/ \E t \in Table : edge \in RootEdges(t, tables[t])
             \/ \E r \in Receiver : edge \in HoldEdges(r, holds[r])
<1>1. edge \in ChildrenOf(labels) <=> \E label \in labels : edge \in ChildEdges(label)
  BY DEF ChildrenOf
<1>2. edge \in RootsOf(tables) <=> \E t \in Table : edge \in RootEdges(t, tables[t])
  BY DEF RootsOf
<1>3. edge \in HoldsOf(holds) <=> \E r \in Receiver : edge \in HoldEdges(r, holds[r])
  BY DEF HoldsOf
<1>. QED
  BY <1>1, <1>2, <1>3 DEF EdgesOf

\* The references of Sync, in these terms.
LEMMA ReferencesAre == References = EdgesOf(DOMAIN refs, table, held)
<1>1. UNION { TableEdges(t) : t \in Table } = RootsOf(table)
  BY DEF TableEdges, RootEdges, RootsOf
<1>2. UNION { HeldEdges(r) : r \in Receiver } = HoldsOf(held)
  BY DEF HeldEdges, HoldEdges, HoldsOf
<1>3. UNION { ChildEdges(label) : label \in DOMAIN refs } = ChildrenOf(DOMAIN refs)
  BY DEF ChildrenOf
<1>. QED
  BY <1>1, <1>2, <1>3 DEF References, EdgesOf

\* Edges are equal when all their parts are.
LEMMA EdgeEqual ==
    ASSUME NEW k, NEW s, NEW l, NEW k2, NEW s2, NEW l2
    PROVE  Edge(k, s, l) = Edge(k2, s2, l2) <=> k = k2 /\ s = s2 /\ l = l2
BY DEF Edge

\* The parts of an edge.
LEMMA EdgeTo ==
    ASSUME NEW k, NEW s, NEW l
    PROVE  Edge(k, s, l).to = l /\ Edge(k, s, l).from[1] = k /\ Edge(k, s, l).from[2] = s
BY DEF Edge

\* Where an edge comes from tells which of the three sets it is in.
LEMMA ChildKind ==
    ASSUME NEW label, NEW edge \in ChildEdges(label)
    PROVE  edge.from[1] \in Direction /\ edge.from[2] = label
<1>1. PICK d \in Sides(label) : edge = Edge(d, label, Child(label, d))
  BY DEF ChildEdges
<1>2. d \in Direction
  BY DEF Sides
<1>. QED
  BY <1>1, <1>2, EdgeTo

\* The reference of a table to its root.
LEMMA RootKind ==
    ASSUME NEW t, NEW label, NEW edge \in RootEdges(t, label)
    PROVE  edge.from[1] = "table" /\ edge.from[2] = t /\ edge.to = label
BY EdgeTo DEF RootEdges

\* The references of a receiver to what it holds.
LEMMA HoldKind ==
    ASSUME NEW r, NEW labels, NEW edge \in HoldEdges(r, labels)
    PROVE  edge.from[1] = "held" /\ edge.from[2] = r /\ edge.to \in labels
BY EdgeTo DEF HoldEdges

\* A node more has its references to its children.
LEMMA LabelAdded ==
    ASSUME NEW labels, NEW tables, NEW holds, NEW label, label \notin labels
    PROVE  /\ EdgesOf(labels \cup {label}, tables, holds)
                = EdgesOf(labels, tables, holds) \cup ChildEdges(label)
           /\ EdgesOf(labels, tables, holds) \cap ChildEdges(label) = {}
<1>1. EdgesOf(labels \cup {label}, tables, holds)
        = EdgesOf(labels, tables, holds) \cup ChildEdges(label)
  <2>1. ASSUME NEW edge
        PROVE  edge \in EdgesOf(labels \cup {label}, tables, holds)
                 <=> edge \in EdgesOf(labels, tables, holds) \cup ChildEdges(label)
    BY InEdges
  <2>. QED
    BY <2>1
<1>2. ASSUME NEW edge \in EdgesOf(labels, tables, holds), edge \in ChildEdges(label)
      PROVE  FALSE
  <2>1. edge.from[1] \in Direction /\ edge.from[2] = label
    BY <1>2, ChildKind
  <2>2. ASSUME NEW other \in labels, edge \in ChildEdges(other)
        PROVE  FALSE
    BY <2>1, <2>2, ChildKind
  <2>3. ASSUME NEW t \in Table, edge \in RootEdges(t, tables[t])
        PROVE  FALSE
    BY <2>1, <2>3, RootKind DEF Direction
  <2>4. ASSUME NEW r \in Receiver, edge \in HoldEdges(r, holds[r])
        PROVE  FALSE
    BY <2>1, <2>4, HoldKind DEF Direction
  <2>. QED
    BY <2>2, <2>3, <2>4, InEdges
<1>. QED
  BY <1>1, <1>2

\* A node less takes them with it.
LEMMA LabelRemoved ==
    ASSUME NEW labels, NEW tables, NEW holds, NEW label \in labels
    PROVE  /\ EdgesOf(labels, tables, holds)
                = EdgesOf(labels \ {label}, tables, holds) \cup ChildEdges(label)
           /\ EdgesOf(labels \ {label}, tables, holds) \cap ChildEdges(label) = {}
<1>1. (labels \ {label}) \cup {label} = labels
  OBVIOUS
<1>. QED
  BY <1>1, LabelAdded

\* A table that had no root gets one.
LEMMA RootAdded ==
    ASSUME NEW labels, NEW tables, NEW holds, NEW t \in Table, NEW label,
           DOMAIN tables = Table, tables[t] = Absent
    PROVE  /\ EdgesOf(labels, [tables EXCEPT ![t] = label], holds)
                = EdgesOf(labels, tables, holds) \cup RootEdges(t, label)
           /\ EdgesOf(labels, tables, holds) \cap RootEdges(t, label) = {}
<1>1. RootEdges(t, tables[t]) = {}
  BY DEF RootEdges
<1>2. EdgesOf(labels, [tables EXCEPT ![t] = label], holds)
        = EdgesOf(labels, tables, holds) \cup RootEdges(t, label)
  <2> DEFINE new == [tables EXCEPT ![t] = label]
  <2>1. new[t] = label /\ \A u \in Table \ {t} : new[u] = tables[u]
    OBVIOUS
  <2> HIDE DEF new
  <2>2. ASSUME NEW edge
        PROVE  edge \in EdgesOf(labels, new, holds)
                 <=> edge \in EdgesOf(labels, tables, holds) \cup RootEdges(t, label)
    BY <1>1, <2>1, InEdges
  <2>. QED
    BY <2>2 DEF new
<1>3. ASSUME NEW edge \in EdgesOf(labels, tables, holds), edge \in RootEdges(t, label)
      PROVE  FALSE
  <2>1. edge.from[1] = "table" /\ edge.from[2] = t
    BY <1>3, RootKind
  <2>2. ASSUME NEW other \in labels, edge \in ChildEdges(other)
        PROVE  FALSE
    BY <2>1, <2>2, ChildKind DEF Direction
  <2>3. ASSUME NEW u \in Table, edge \in RootEdges(u, tables[u])
        PROVE  FALSE
    BY <1>1, <2>1, <2>3, RootKind
  <2>4. ASSUME NEW r \in Receiver, edge \in HoldEdges(r, holds[r])
        PROVE  FALSE
    BY <2>1, <2>4, HoldKind
  <2>. QED
    BY <2>2, <2>3, <2>4, InEdges
<1>. QED
  BY <1>2, <1>3

\* A table loses its root.
LEMMA RootRemoved ==
    ASSUME NEW labels, NEW tables, NEW holds, NEW t \in Table, DOMAIN tables = Table
    PROVE  LET without == EdgesOf(labels, [tables EXCEPT ![t] = Absent], holds)
           IN  /\ EdgesOf(labels, tables, holds) = without \cup RootEdges(t, tables[t])
               /\ without \cap RootEdges(t, tables[t]) = {}
<1> DEFINE fewer == [tables EXCEPT ![t] = Absent]
<1>1. DOMAIN fewer = Table /\ fewer[t] = Absent
  OBVIOUS
<1>2. \A u \in Table : [fewer EXCEPT ![t] = tables[t]][u] = tables[u]
  OBVIOUS
<1> HIDE DEF fewer
<1> DEFINE again == [fewer EXCEPT ![t] = tables[t]]
<1>3. EdgesOf(labels, again, holds) = EdgesOf(labels, tables, holds)
  <2> HIDE DEF again
  <2>1. \A u \in Table : again[u] = tables[u]
    BY <1>2 DEF again
  <2>2. ASSUME NEW edge
        PROVE  edge \in EdgesOf(labels, again, holds) <=> edge \in EdgesOf(labels, tables, holds)
    BY <2>1, InEdges
  <2>. QED
    BY <2>2
<1>4. /\ EdgesOf(labels, again, holds) = EdgesOf(labels, fewer, holds) \cup RootEdges(t, tables[t])
      /\ EdgesOf(labels, fewer, holds) \cap RootEdges(t, tables[t]) = {}
  BY <1>1, RootAdded
<1> HIDE DEF again
<1>. QED
  BY <1>3, <1>4 DEF fewer

\* A receiver holds one label more.
LEMMA HoldAdded ==
    ASSUME NEW labels, NEW tables, NEW holds, NEW r \in Receiver, NEW label,
           DOMAIN holds = Receiver, label \notin holds[r]
    PROVE  /\ EdgesOf(labels, tables, [holds EXCEPT ![r] = @ \cup {label}])
                = EdgesOf(labels, tables, holds) \cup {Edge("held", r, label)}
           /\ Edge("held", r, label) \notin EdgesOf(labels, tables, holds)
<1> DEFINE new == [holds EXCEPT ![r] = @ \cup {label}]
<1>1. HoldEdges(r, new[r]) = HoldEdges(r, holds[r]) \cup {Edge("held", r, label)}
  BY DEF HoldEdges
<1>2. \A s \in Receiver \ {r} : new[s] = holds[s]
  OBVIOUS
<1>3. EdgesOf(labels, tables, new)
        = EdgesOf(labels, tables, holds) \cup {Edge("held", r, label)}
  <2> HIDE DEF new
  <2>1. ASSUME NEW edge
        PROVE  edge \in EdgesOf(labels, tables, new)
                 <=> edge \in EdgesOf(labels, tables, holds) \cup {Edge("held", r, label)}
    BY <1>1, <1>2, InEdges
  <2>. QED
    BY <2>1
<1>4. ASSUME Edge("held", r, label) \in EdgesOf(labels, tables, holds)
      PROVE  FALSE
  <2> DEFINE edge == Edge("held", r, label)
  <2>1. edge.from[1] = "held" /\ edge.from[2] = r /\ edge.to = label
    BY EdgeTo
  <2> HIDE DEF edge
  <2>2. ASSUME NEW other \in labels, edge \in ChildEdges(other)
        PROVE  FALSE
    BY <2>1, <2>2, ChildKind DEF Direction
  <2>3. ASSUME NEW u \in Table, edge \in RootEdges(u, tables[u])
        PROVE  FALSE
    BY <2>1, <2>3, RootKind
  <2>4. ASSUME NEW s \in Receiver, edge \in HoldEdges(s, holds[s])
        PROVE  FALSE
    BY <2>1, <2>4, HoldKind
  <2>5. edge \in EdgesOf(labels, tables, holds)
    BY <1>4 DEF edge
  <2>. QED
    BY <2>2, <2>3, <2>4, <2>5, InEdges
<1>. QED
  BY <1>3, <1>4

\* A receiver gives all it holds up.
LEMMA HoldsRemoved ==
    ASSUME NEW labels, NEW tables, NEW holds, NEW r \in Receiver, DOMAIN holds = Receiver
    PROVE  LET without == EdgesOf(labels, tables, [holds EXCEPT ![r] = {}])
           IN  /\ EdgesOf(labels, tables, holds) = without \cup HoldEdges(r, holds[r])
               /\ without \cap HoldEdges(r, holds[r]) = {}
<1> DEFINE fewer == [holds EXCEPT ![r] = {}]
<1>1. fewer[r] = {} /\ \A s \in Receiver \ {r} : fewer[s] = holds[s]
  OBVIOUS
<1>2. HoldEdges(r, fewer[r]) = {}
  BY <1>1 DEF HoldEdges
<1> HIDE DEF fewer
<1>3. EdgesOf(labels, tables, holds)
        = EdgesOf(labels, tables, fewer) \cup HoldEdges(r, holds[r])
  <2>1. ASSUME NEW edge
        PROVE  edge \in EdgesOf(labels, tables, holds)
                 <=> edge \in EdgesOf(labels, tables, fewer) \cup HoldEdges(r, holds[r])
    <3>1. (\E s \in Receiver : edge \in HoldEdges(s, holds[s]))
            <=> (\E s \in Receiver : edge \in HoldEdges(s, fewer[s])) \/ edge \in HoldEdges(r, holds[r])
      BY <1>1, <1>2
    <3>. QED
      BY <3>1, InEdges
  <2>. QED
    BY <2>1
<1>4. ASSUME NEW edge \in EdgesOf(labels, tables, fewer), edge \in HoldEdges(r, holds[r])
      PROVE  FALSE
  <2>1. edge.from[1] = "held" /\ edge.from[2] = r
    BY <1>4, HoldKind
  <2>2. ASSUME NEW other \in labels, edge \in ChildEdges(other)
        PROVE  FALSE
    BY <2>1, <2>2, ChildKind DEF Direction
  <2>3. ASSUME NEW u \in Table, edge \in RootEdges(u, tables[u])
        PROVE  FALSE
    BY <2>1, <2>3, RootKind
  <2>4. ASSUME NEW s \in Receiver, edge \in HoldEdges(s, fewer[s])
        PROVE  FALSE
    BY <1>2, <2>1, <2>4, HoldKind
  <2>. QED
    BY <2>2, <2>3, <2>4, InEdges
<1>5. /\ EdgesOf(labels, tables, holds) = EdgesOf(labels, tables, fewer) \cup HoldEdges(r, holds[r])
      /\ EdgesOf(labels, tables, fewer) \cap HoldEdges(r, holds[r]) = {}
  BY <1>3, <1>4
<1>. QED
  BY <1>5 DEF fewer

\* A receiver gives one of the labels it holds to somebody else.
LEMMA HoldGiven ==
    ASSUME NEW labels, NEW tables, NEW holds, NEW r \in Receiver, NEW label \in holds[r]
    PROVE  EdgesOf(labels, tables,
                   [s \in Receiver |-> IF s = r THEN holds[s] \ {label} ELSE holds[s]])
             = EdgesOf(labels, tables, holds) \ {Edge("held", r, label)}
<1> DEFINE fewer == [s \in Receiver |-> IF s = r THEN holds[s] \ {label} ELSE holds[s]]
           edge == Edge("held", r, label)
<1>1. HoldEdges(r, fewer[r]) = HoldEdges(r, holds[r]) \ {edge}
  BY EdgeEqual DEF HoldEdges
<1>2. \A s \in Receiver \ {r} : fewer[s] = holds[s]
  OBVIOUS
<1>3. edge.from[1] = "held" /\ edge.from[2] = r
  BY EdgeTo
<1> HIDE DEF fewer, edge
<1>4. \A other \in labels : edge \notin ChildEdges(other)
  BY <1>3, ChildKind DEF Direction
<1>5. \A t \in Table : edge \notin RootEdges(t, tables[t])
  BY <1>3, RootKind
<1>6. \A s \in Receiver \ {r} : edge \notin HoldEdges(s, holds[s])
  BY <1>3, HoldKind
<1>7. ASSUME NEW e
      PROVE  e \in EdgesOf(labels, tables, fewer)
               <=> e \in EdgesOf(labels, tables, holds) \ {edge}
  <2>1. e = edge => e \notin EdgesOf(labels, tables, fewer)
    BY <1>1, <1>2, <1>4, <1>5, <1>6, InEdges
  <2>2. e # edge => \A s \in Receiver : e \in HoldEdges(s, fewer[s]) <=> e \in HoldEdges(s, holds[s])
    BY <1>1, <1>2
  <2>3. e # edge => (e \in EdgesOf(labels, tables, fewer) <=> e \in EdgesOf(labels, tables, holds))
    BY <2>2, InEdges
  <2>. QED
    BY <2>1, <2>3
<1>8. EdgesOf(labels, tables, fewer) = EdgesOf(labels, tables, holds) \ {edge}
  BY <1>7
<1>. QED
  BY <1>8 DEF fewer, edge

\* What is not told by the application of a function does not matter.
LEMMA HoldsSame ==
    ASSUME NEW labels, NEW tables, NEW holds, NEW same,
           \A r \in Receiver : same[r] = holds[r]
    PROVE  EdgesOf(labels, tables, same) = EdgesOf(labels, tables, holds)
<1>1. ASSUME NEW edge
      PROVE  edge \in EdgesOf(labels, tables, same) <=> edge \in EdgesOf(labels, tables, holds)
  BY InEdges
<1>. QED
  BY <1>1

-----------------------------------------------------------------------------
(***************************************************************************)
(* What is counted, while a call works.  A call that counts up works on    *)
(* references there are, a call that counts down on references there are   *)
(* no more.                                                                *)
(***************************************************************************)
CountedOf(what, edges, all) ==
    IF what = "insert" THEN all \ edges ELSE IF what = "drop" THEN all \cup edges ELSE all

Balanced(counts, what, edges, all) ==
    /\ what = "insert" => edges \subseteq all /\ \A edge \in edges : edge.from[1] # "held"
    /\ what = "drop" => edges \cap all = {}
    /\ Exact(counts, CountedOf(what, edges, all))

Resting == {"none", "learn"}

\* While nothing is counted it does not matter whose call runs.
LEMMA BalancedResting ==
    ASSUME NEW counts, NEW what \in Resting, NEW edges, NEW all, NEW what2 \in Resting, NEW edges2,
           Balanced(counts, what, edges, all)
    PROVE  Balanced(counts, what2, edges2, all)
BY DEF Balanced, CountedOf, Resting

\* A call that counts up begins: with references that are new.
LEMMA BalancedUp ==
    ASSUME NEW counts, NEW what \in Resting, NEW edges, NEW all, NEW new,
           Balanced(counts, what, edges, all), all \cap new = {},
           \A edge \in new : edge.from[1] # "held"
    PROVE  Balanced(counts, "insert", new, all \cup new)
<1>1. CountedOf("insert", new, all \cup new) = all
  BY DEF CountedOf
<1>2. CountedOf(what, edges, all) = all
  BY DEF CountedOf, Resting
<1>. QED
  BY <1>1, <1>2 DEF Balanced

\* A call that counts down begins: with references that are gone.
LEMMA BalancedDown ==
    ASSUME NEW counts, NEW what \in Resting, NEW edges, NEW all, NEW old,
           Balanced(counts, what, edges, all \cup old), all \cap old = {}
    PROVE  Balanced(counts, "drop", old, all)
<1>1. CountedOf("drop", old, all) = all \cup old
  BY DEF CountedOf
<1>2. CountedOf(what, edges, all \cup old) = all \cup old
  BY DEF CountedOf, Resting
<1>. QED
  BY <1>1, <1>2 DEF Balanced

\* A call that has nothing left to count ends.
LEMMA BalancedEnd ==
    ASSUME NEW counts, NEW what, NEW all, Balanced(counts, what, {}, all)
    PROVE  Balanced(counts, "none", {}, all)
<1>1. CountedOf(what, {}, all) = all /\ CountedOf("none", {}, all) = all
  BY DEF CountedOf
<1>. QED
  BY <1>1 DEF Balanced

\* One more reference is counted, and is there, while no call counts.
LEMMA BalancedMore ==
    ASSUME NEW counts, NEW what \in Resting, NEW edges, NEW all, NEW edge,
           Balanced(counts, what, edges, all), edge \notin all, edge.to \in DOMAIN counts
    PROVE  Balanced([counts EXCEPT ![edge.to] = @ + 1], what, edges, all \cup {edge})
<1>1. CountedOf(what, edges, all) = all
  BY DEF CountedOf, Resting
<1>2. CountedOf(what, edges, all \cup {edge}) = all \cup {edge}
  BY DEF CountedOf, Resting
<1>3. Exact([counts EXCEPT ![edge.to] = @ + 1], all \cup {edge})
  BY <1>1, MoreEdges DEF Balanced
<1>. QED
  BY <1>2, <1>3 DEF Balanced, Resting

\* A call that counts up comes to a node that is stored.
LEMMA BalancedCount ==
    ASSUME NEW counts, NEW edges, NEW all, NEW edge \in edges,
           Balanced(counts, "insert", edges, all), edge.to \in DOMAIN counts
    PROVE  Balanced([counts EXCEPT ![edge.to] = @ + 1], "insert", edges \ {edge}, all)
<1>1. edge \notin all \ edges /\ edge \in all
  BY DEF Balanced
<1>2. all \ (edges \ {edge}) = (all \ edges) \cup {edge}
  BY <1>1
<1>3. Exact([counts EXCEPT ![edge.to] = @ + 1], (all \ edges) \cup {edge})
  <2>1. Exact(counts, all \ edges)
    BY DEF Balanced, CountedOf
  <2>. QED
    BY <1>1, <2>1, MoreEdges
<1>. QED
  BY <1>2, <1>3 DEF Balanced, CountedOf

\* ... that the receiver held: the reference of `held` becomes this one.
LEMMA BalancedTakenOver ==
    ASSUME NEW counts, NEW edges, NEW all, NEW edge \in edges, NEW hold \in all,
           Balanced(counts, "insert", edges, all), hold.from[1] = "held", hold.to = edge.to
    PROVE  Balanced(counts, "insert", edges \ {edge}, all \ {hold})
<1>1. edge \notin all \ edges /\ edge \in all /\ hold \in all \ edges
  BY DEF Balanced
<1>2. (all \ {hold}) \ (edges \ {edge}) = ((all \ edges) \ {hold}) \cup {edge}
  BY <1>1
<1>3. Exact(counts, ((all \ edges) \ {hold}) \cup {edge})
  <2>1. Exact(counts, all \ edges)
    BY DEF Balanced, CountedOf
  <2>. QED
    BY <1>1, <2>1, OtherEdge
<1>4. edges \ {edge} \subseteq all \ {hold}
  BY <1>1 DEF Balanced
<1>5. \A e \in edges \ {edge} : e.from[1] # "held"
  BY DEF Balanced
<1>. QED
  BY <1>2, <1>3, <1>4, <1>5 DEF Balanced, CountedOf

\* ... or comes to a node that is not, whose children are to be counted now.
LEMMA BalancedNew ==
    ASSUME NEW counts, NEW edges, NEW all, NEW edge \in edges, NEW new,
           Balanced(counts, "insert", edges, all), edge.to \notin DOMAIN counts,
           all \cap new = {}, \A e \in new : e.from[1] # "held"
    PROVE  Balanced([label \in DOMAIN counts \cup {edge.to} |->
                        IF label = edge.to THEN 1 ELSE counts[label]],
                    "insert", (edges \ {edge}) \cup new, all \cup new)
<1>1. edge \in all
  BY DEF Balanced
<1>2. (all \cup new) \ ((edges \ {edge}) \cup new) = (all \ edges) \cup {edge}
  BY <1>1
<1>3. Exact([label \in DOMAIN counts \cup {edge.to} |->
                IF label = edge.to THEN 1 ELSE counts[label]], (all \ edges) \cup {edge})
  <2>1. Exact(counts, all \ edges)
    BY DEF Balanced, CountedOf
  <2>. QED
    BY <2>1, FirstEdge
<1>4. (edges \ {edge}) \cup new \subseteq all \cup new
  BY DEF Balanced
<1>5. \A e \in (edges \ {edge}) \cup new : e.from[1] # "held"
  BY DEF Balanced
<1>. QED
  BY <1>2, <1>3, <1>4, <1>5 DEF Balanced, CountedOf

\* A call that counts down comes to a node somebody else refers to.
LEMMA BalancedLess ==
    ASSUME NEW counts, NEW edges, NEW all, NEW edge \in edges,
           Balanced(counts, "drop", edges, all), counts[edge.to] # 1
    PROVE  Balanced([counts EXCEPT ![edge.to] = @ - 1], "drop", edges \ {edge}, all)
<1>1. edge \notin all /\ edge \in all \cup edges
  BY DEF Balanced
<1>2. all \cup (edges \ {edge}) = (all \cup edges) \ {edge}
  BY <1>1
<1>3. Exact([counts EXCEPT ![edge.to] = @ - 1], (all \cup edges) \ {edge})
  <2>1. Exact(counts, all \cup edges)
    BY DEF Balanced, CountedOf
  <2>. QED
    BY <1>1, <2>1, FewerEdges
<1>. QED
  BY <1>2, <1>3 DEF Balanced, CountedOf

\* ... or to one nobody else refers to: its references go with it.
LEMMA BalancedLast ==
    ASSUME NEW counts, NEW edges, NEW all, NEW edge \in edges, NEW old,
           Balanced(counts, "drop", edges, all \cup old), counts[edge.to] = 1,
           all \cap old = {}
    PROVE  Balanced(Restrict(counts, DOMAIN counts \ {edge.to}),
                    "drop", (edges \ {edge}) \cup old, all)
<1>1. edge \notin all \cup old /\ edge \in (all \cup old) \cup edges
  BY DEF Balanced
<1>2. all \cup ((edges \ {edge}) \cup old) = ((all \cup old) \cup edges) \ {edge}
  BY <1>1
<1>3. Exact(Restrict(counts, DOMAIN counts \ {edge.to}), ((all \cup old) \cup edges) \ {edge})
  <2>1. Exact(counts, (all \cup old) \cup edges)
    BY DEF Balanced, CountedOf
  <2>. QED
    BY <1>1, <2>1, LastEdge
<1>4. ((edges \ {edge}) \cup old) \cap all = {}
  BY DEF Balanced
<1>. QED
  BY <1>2, <1>3, <1>4 DEF Balanced, CountedOf

-----------------------------------------------------------------------------
(***************************************************************************)
(* The inductive invariant.                                                *)
(***************************************************************************)
TypeInv ==
    /\ lent \in Table \cup {Absent}
    /\ job \in Resting \cup {"insert", "drop"}
    /\ DOMAIN table = Table
    /\ DOMAIN phase = Receiver
    /\ DOMAIN root = Receiver
    /\ DOMAIN held = Receiver
    /\ DOMAIN frontier = Receiver
    /\ DOMAIN acquired = Receiver
    /\ DOMAIN inbox = Receiver
    /\ DOMAIN answers = Receiver

\* Whose call has the store, and what it does with it.
CallInv ==
    /\ job = "none" <=> lent = Absent
    /\ job = "insert" /\ lent \in Receiver => phase[lent] = "flushing"
    /\ \A r \in Receiver :
          /\ phase[r] = "learning" => lent = r /\ job = "learn"
          /\ phase[r] = "flushing" => lent = r /\ job = "insert"
          /\ phase[r] = "closing" => lent = r /\ job = "drop"
          /\ table[r] # Absent => phase[r] \in {"flushing", "finished", "closing", "gone"}

\* The counts are right, but for what the running call still has to do.
EdgesInv == Balanced(refs, job, work, EdgesOf(DOMAIN refs, table, held))

\* The nodes a receiver knows of: each the child of a node it acquired, and in
\* one of its collections only, until all of the tree is acquired or held.
Known(r) == acquired[r] \cup held[r] \cup DOMAIN frontier[r]

Blank(r) ==
    /\ frontier[r] = <<>> /\ held[r] = {} /\ acquired[r] = {}
    /\ answers[r] \subseteq {Hello}
    /\ phase[r] = "learning" => inbox[r] = Hello

Placed(r) ==
    /\ Known(r) \subseteq DOMAIN At
    /\ \A node \in DOMAIN frontier[r] : frontier[r][node] = At[node]
    /\ DOMAIN frontier[r] \cap (acquired[r] \cup held[r]) = {}
    /\ \A node \in Known(r) \ {Sent} :
          \E above \in acquired[r] : \E d \in Sides(above) : node = Child(above, d)
    /\ \A above \in acquired[r] : \A d \in Sides(above) : Child(above, d) \in Known(r)

Begun(r) == root[r] = Sent /\ Sent \in DOMAIN At /\ Sent \in Known(r) /\ Placed(r)

Gathers(r) ==
    phase[r] \in {"waiting", "learning"} => IF root[r] = Absent THEN Blank(r) ELSE Begun(r)

GatherInv == \A r \in Receiver : Gathers(r)

\* While a receiver flushes, what is below a node it acquired is acquired or stored.
Flushes(r) ==
    phase[r] = "flushing" =>
        \A above \in acquired[r] : \A d \in Sides(above) :
            Child(above, d) \in acquired[r] \/ Stored(Child(above, d))

FlushInv == \A r \in Receiver : Flushes(r)

\* What flush has to count is acquired or stored.
WorkInv ==
    job = "insert" /\ lent \in Receiver =>
        \A edge \in work : Stored(edge.to) \/ edge.to \in acquired[lent]

IInv == TypeInv /\ CallInv /\ EdgesInv /\ GatherInv /\ FlushInv /\ WorkInv

\* Receivers are tables, but none of the others.
LEMMA Apart == Absent \notin Receiver /\ Receiver \subseteq Table /\ Receiver \cap Other = {}
BY SyncAssumption DEF Table

\* The invariant holds at first.
LEMMA InitIInv == Init => IInv
<1> SUFFICES ASSUME Init PROVE IInv
  OBVIOUS
<1> USE DEF Init
<1>1. TypeInv
  BY DEF TypeInv, Resting
<1>2. CallInv
  BY Apart DEF CallInv
<1>3. EdgesInv
  <2>1. EdgesOf(DOMAIN refs, table, held) = {}
    <3>1. DOMAIN refs = {}
      OBVIOUS
    <3>2. \A t \in Table : RootEdges(t, table[t]) = {}
      BY DEF RootEdges
    <3>3. \A r \in Receiver : HoldEdges(r, held[r]) = {}
      BY DEF HoldEdges
    <3>. QED
      BY <3>1, <3>2, <3>3, InEdges
  <2>2. DOMAIN refs = {}
    OBVIOUS
  <2>. QED
    BY <2>1, <2>2 DEF EdgesInv, Balanced, CountedOf, Exact
<1>4. GatherInv
  BY DEF GatherInv, Gathers, Blank
<1>5. FlushInv /\ WorkInv
  BY DEF FlushInv, Flushes, WorkInv
<1>. QED
  BY <1>1, <1>2, <1>3, <1>4, <1>5 DEF IInv

\* What is held or counted is stored, for a call that does not count down.
LEMMA HeldStored ==
    ASSUME IInv, NEW r \in Receiver, NEW label \in held[r], job # "drop"
    PROVE  Stored(label)
<1> DEFINE all == EdgesOf(DOMAIN refs, table, held)
           edge == Edge("held", r, label)
<1>1. edge \in all
  <2>1. edge \in HoldEdges(r, held[r])
    BY DEF HoldEdges
  <2>. QED
    BY <2>1, InEdges
<1>2. edge.from[1] = "held" /\ edge.to = label
  BY EdgeTo
<1> HIDE DEF all, edge
<1>3. Balanced(refs, job, work, all)
  BY DEF IInv, EdgesInv, all
<1>4. edge \in CountedOf(job, work, all)
  BY <1>1, <1>2, <1>3 DEF Balanced, CountedOf
<1>. QED
  BY <1>2, <1>3, <1>4 DEF Balanced, Exact, Stored

-----------------------------------------------------------------------------
(***************************************************************************)
(* The tree that is sent: a node is in one place only.                     *)
(***************************************************************************)

\* A child is a node too, one direction further than its parent.
LEMMA ChildAt ==
    ASSUME NEW node \in DOMAIN At, NEW d \in Sides(node)
    PROVE  /\ Child(node, d) \in DOMAIN At
           /\ At[Child(node, d)] = Append(At[node], d)
           /\ At[node] \in Seq(Direction) /\ d \in Direction
<1>1. CheckNode(node) /\ At[node] \in Seq(Direction)
  BY SyncAssumption
<1>2. d \in Direction
  BY DEF Sides
<1>. QED
  BY <1>1, <1>2 DEF CheckNode

\* No two nodes have a child in common.
LEMMA OneParent ==
    ASSUME NEW node \in DOMAIN At, NEW d \in Sides(node),
           NEW other \in DOMAIN At, NEW e \in Sides(other),
           Child(node, d) = Child(other, e)
    PROVE  node = other
<1>1. Append(At[node], d) = Append(At[other], e)
  BY ChildAt
<1>2. /\ At[node] \in Seq(Direction) /\ d \in Direction
      /\ At[other] \in Seq(Direction) /\ e \in Direction
  BY ChildAt
<1>3. At[node] = At[other]
  BY <1>1, <1>2, AppendInjective
<1>4. Descend(Sent, At[node]) = node /\ Descend(Sent, At[other]) = other
  BY SyncAssumption
<1>. QED
  BY <1>3, <1>4

\* The root is nobody's child.
LEMMA NoParent ==
    ASSUME Sent \in DOMAIN At, NEW node \in DOMAIN At, NEW d \in Sides(node)
    PROVE  Child(node, d) # Sent
<1>1. At[Sent] = <<>>
  BY SyncAssumption DEF Root
<1>2. Append(At[node], d) # <<>>
  <2>1. At[node] \in Seq(Direction) /\ d \in Direction
    BY ChildAt
  <2>. QED
    BY <2>1, AppendProperties
<1>. QED
  BY <1>1, <1>2, ChildAt

\* Unless it is empty, the table sent has a root in its tree.
LEMMA SentSomewhere == Sent # Empty => Sent \in DOMAIN At /\ At[Sent] = Root
BY SyncAssumption

\* The label a receiver computes for a node at its place is the node's own.
LEMMA LabelOf ==
    ASSUME NEW node \in DOMAIN At
    PROVE  LabelAt(At[node], node) = node
BY SyncAssumption DEF CheckNode

\* The first answer begins with the root, unless the table is empty.
LEMMA HelloIs == Hello # <<>> => Sent # Empty /\ Head(Hello).node = Sent
<1>1. CASE Sent = Empty
  BY <1>1 DEF Hello, Grab
<1>2. CASE Sent # Empty
  <2>1. Hello = <<[node |-> Sent, ttl |-> AnswerDepth]>>
    BY <1>2 DEF Hello, Grab
  <2>. QED
    BY <1>2, <2>1
<1>. QED
  BY <1>1, <1>2

\* The node a receiver reads is a node of the tree, at its place.
LEMMA Reading ==
    ASSUME IInv, NEW r \in Receiver, Reads(r), Sighted(r)
    PROVE  /\ Node(r) \in DOMAIN At
           /\ Location(r) = At[Node(r)]
           /\ Label(r) = Node(r)
           /\ root[r] = Absent => Node(r) = Sent /\ Blank(r)
           /\ root[r] # Absent => Node(r) \in DOMAIN frontier[r] /\ Begun(r)
<1>1. phase[r] = "learning" /\ inbox[r] # <<>>
  BY DEF Reads
<1>2. IF root[r] = Absent THEN Blank(r) ELSE Begun(r)
  BY <1>1 DEF IInv, GatherInv, Gathers
<1>3. CASE root[r] = Absent
  <2>1. Blank(r) /\ inbox[r] = Hello
    BY <1>1, <1>2, <1>3 DEF Blank
  <2>2. Sent # Empty /\ Node(r) = Sent
    BY <1>1, <2>1, HelloIs DEF Node
  <2>3. Node(r) \in DOMAIN At /\ Location(r) = At[Node(r)]
    BY <1>3, <2>2, SentSomewhere DEF Location
  <2>. QED
    BY <1>3, <2>1, <2>2, <2>3, LabelOf DEF Label
<1>4. CASE root[r] # Absent
  <2>1. Begun(r) /\ Node(r) \in DOMAIN frontier[r]
    BY <1>2, <1>4 DEF Sighted
  <2>2. Node(r) \in DOMAIN At /\ frontier[r][Node(r)] = At[Node(r)]
    BY <2>1 DEF Begun, Placed, Known
  <2>3. Location(r) = At[Node(r)]
    BY <1>4, <2>2 DEF Location
  <2>. QED
    BY <1>4, <2>1, <2>2, <2>3, LabelOf DEF Label
<1>. QED
  BY <1>3, <1>4

-----------------------------------------------------------------------------
(***************************************************************************)
(* Every step keeps the invariant: what is said of a receiver first, that  *)
(* a step leaves alone.                                                    *)
(***************************************************************************)

\* What a receiver has begun stays as it is when the receiver does.
LEMMA BegunFrame ==
    ASSUME NEW r \in Receiver, Begun(r), root'[r] = root[r], held'[r] = held[r],
           frontier'[r] = frontier[r], acquired'[r] = acquired[r]
    PROVE  Begun(r)'
BY DEF Begun, Placed, Known

\* ... and so does what is said of it while it gathers nodes,
LEMMA GathersFrame ==
    ASSUME NEW r \in Receiver, Gathers(r), phase'[r] = phase[r], root'[r] = root[r],
           held'[r] = held[r], frontier'[r] = frontier[r], acquired'[r] = acquired[r],
           inbox'[r] = inbox[r], answers'[r] = answers[r]
    PROVE  Gathers(r)'
<1>1. Blank(r) => Blank(r)'
  BY DEF Blank
<1>2. Begun(r) => Begun(r)'
  BY BegunFrame
<1>. QED
  BY <1>1, <1>2 DEF Gathers

\* ... or flushes, even if more is stored.
LEMMA FlushesFrame ==
    ASSUME NEW r \in Receiver, Flushes(r), phase'[r] = "flushing" => phase[r] = "flushing",
           acquired'[r] = acquired[r], DOMAIN refs \subseteq DOMAIN refs'
    PROVE  Flushes(r)'
BY DEF Flushes, Stored

\* When nothing is counted and nothing is flushed.
LEMMA NotFlushing ==
    ASSUME TypeInv', CallInv', job' # "insert"
    PROVE  FlushInv' /\ WorkInv'
<1>1. \A r \in Receiver : phase'[r] # "flushing"
  BY DEF CallInv
<1>. QED
  BY <1>1 DEF FlushInv, Flushes, WorkInv

-----------------------------------------------------------------------------
(***************************************************************************)
(* The steps of a receiver.                                                *)
(***************************************************************************)

\* An answer arrives: the receiver learns what was sent to it.
LEMMA DeliverKeeps ==
    ASSUME IInv, NEW r \in Receiver, Deliver(r)
    PROVE  IInv'
<1> USE DEF Deliver, Lend, Free, memory
<1>1. TypeInv'
  BY Apart DEF IInv, TypeInv, Resting
<1>2. CallInv'
  BY Apart DEF IInv, TypeInv, CallInv
<1>3. EdgesInv'
  <2>1. job \in Resting /\ job' \in Resting
    BY DEF IInv, CallInv, Resting
  <2>. QED
    BY <2>1, BalancedResting DEF IInv, EdgesInv
<1>4. GatherInv'
  <2>1. ASSUME NEW s \in Receiver, s # r
        PROVE  Gathers(s)'
    BY <2>1, GathersFrame DEF IInv, TypeInv, GatherInv
  <2>2. Gathers(r)'
    <3>1. phase[r] = "waiting" /\ phase'[r] = "learning" /\ inbox'[r] \in answers[r]
      BY DEF IInv, TypeInv
    <3>2. Gathers(r)
      BY DEF IInv, GatherInv
    <3>3. CASE root[r] = Absent
      BY <3>1, <3>2, <3>3 DEF Gathers, Blank
    <3>4. CASE root[r] # Absent
      BY <3>1, <3>2, <3>4, BegunFrame DEF Gathers
    <3>. QED
      BY <3>3, <3>4
  <2>. QED
    BY <2>1, <2>2 DEF GatherInv
<1>5. FlushInv' /\ WorkInv'
  BY <1>1, <1>2, NotFlushing
<1>. QED
  BY <1>1, <1>2, <1>3, <1>4, <1>5 DEF IInv

\* The phases of the others while a receiver learns.
LEMMA Alone ==
    ASSUME IInv, NEW r \in Receiver, phase[r] = "learning"
    PROVE  /\ lent = r /\ job = "learn" /\ job \in Resting /\ table[r] = Absent
           /\ \A s \in Receiver \ {r} : phase[s] \notin {"learning", "flushing", "closing"}
BY DEF IInv, CallInv, Resting

\* A node that is ignored changes nothing but the offences.
LEMMA IgnoreKeeps ==
    ASSUME IInv, NEW r \in Receiver, Ignore(r)
    PROVE  IInv'
<1> USE DEF Ignore, memory
<1>0. phase[r] = "learning" /\ root[r] # Absent
  BY DEF Reads, Sighted
<1>1. TypeInv'
  BY DEF IInv, TypeInv
<1>2. CallInv'
  BY DEF IInv, CallInv
<1>3. EdgesInv'
  BY DEF IInv, EdgesInv
<1>4. GatherInv'
  <2>1. ASSUME NEW s \in Receiver, s # r
        PROVE  Gathers(s)'
    BY <2>1, GathersFrame DEF IInv, TypeInv, GatherInv
  <2>2. Gathers(r)'
    BY <1>0, BegunFrame DEF IInv, GatherInv, Gathers
  <2>. QED
    BY <2>1, <2>2 DEF GatherInv
<1>5. FlushInv' /\ WorkInv'
  BY <1>0, <1>1, <1>2, Alone, NotFlushing
<1>. QED
  BY <1>1, <1>2, <1>3, <1>4, <1>5 DEF IInv

\* A receiver that refuses an answer gathers no more.
LEMMA RefuseKeeps ==
    ASSUME IInv, NEW r \in Receiver, Refuse(r)
    PROVE  IInv'
<1> USE DEF Refuse, memory, Restore
<1>0. phase[r] = "learning"
  BY DEF Reads
<1>1. TypeInv'
  BY DEF IInv, TypeInv, Resting
<1>2. CallInv'
  BY <1>0, Alone, Apart DEF IInv, TypeInv, CallInv
<1>3. EdgesInv'
  <2>1. job \in Resting /\ job' \in Resting
    BY <1>0, Alone DEF Resting
  <2>. QED
    BY <2>1, BalancedResting DEF IInv, EdgesInv
<1>4. GatherInv'
  <2>1. ASSUME NEW s \in Receiver, s # r
        PROVE  Gathers(s)'
    BY <2>1, GathersFrame DEF IInv, TypeInv, GatherInv
  <2>2. Gathers(r)'
    BY DEF IInv, TypeInv, Gathers
  <2>. QED
    BY <2>1, <2>2 DEF GatherInv
<1>5. FlushInv' /\ WorkInv'
  BY <1>1, <1>2, NotFlushing
<1>. QED
  BY <1>1, <1>2, <1>3, <1>4, <1>5 DEF IInv

\* A question leaves what is known as it is.
LEMMA AskKeeps ==
    ASSUME IInv, NEW r \in Receiver, Ask(r)
    PROVE  IInv'
<1>0. /\ phase[r] = "learning" /\ frontier[r] # <<>>
      /\ phase' = [phase EXCEPT ![r] = "waiting"]
      /\ lent' = Absent /\ job' = "none" /\ work' = {}
      /\ UNCHANGED <<refs, table, changes, network, memory, offences, inbox>>
  BY DEF Ask, Restore
<1>a. \E all : answers' = [answers EXCEPT ![r] = all]
  BY DEF Ask
<1> USE DEF memory
<1>1. TypeInv'
  BY <1>0, <1>a DEF IInv, TypeInv, Resting
<1>2. CallInv'
  BY <1>0, Alone, Apart DEF IInv, TypeInv, CallInv
<1>3. EdgesInv'
  <2>1. job \in Resting /\ job' \in Resting
    BY <1>0, Alone DEF Resting
  <2>. QED
    BY <1>0, <2>1, BalancedResting DEF IInv, EdgesInv
<1>4. GatherInv'
  <2>1. ASSUME NEW s \in Receiver, s # r
        PROVE  Gathers(s)'
    <3>1. answers'[s] = answers[s]
      BY <1>a, <2>1 DEF IInv, TypeInv
    <3>2. phase'[s] = phase[s]
      BY <1>0, <2>1 DEF IInv, TypeInv
    <3>. QED
      BY <1>0, <3>1, <3>2, GathersFrame DEF IInv, GatherInv
  <2>2. Gathers(r)'
    <3>1. Gathers(r) /\ root[r] # Absent
      BY <1>0 DEF IInv, GatherInv, Gathers, Blank
    <3>2. Begun(r)'
      BY <1>0, <3>1, BegunFrame DEF Gathers
    <3>. QED
      BY <1>0, <3>1, <3>2 DEF Gathers
  <2>. QED
    BY <2>1, <2>2 DEF GatherInv
<1>5. FlushInv' /\ WorkInv'
  BY <1>0, <1>1, <1>2, NotFlushing
<1>. QED
  BY <1>1, <1>2, <1>3, <1>4, <1>5 DEF IInv

\* A node that is held goes from the frontier to the labels held.
LEMMA HoldKeeps ==
    ASSUME IInv, NEW r \in Receiver, Hold(r)
    PROVE  IInv'
<1> DEFINE node == Node(r)
<1>0. /\ Reads(r) /\ Sighted(r) /\ phase[r] = "learning"
      /\ root' = [root EXCEPT ![r] = IF @ = Absent THEN Label(r) ELSE @]
      /\ held' = [held EXCEPT ![r] = @ \cup {Label(r)}]
      /\ frontier' = [frontier EXCEPT ![r] = Restrict(@, DOMAIN @ \ {Node(r)})]
      /\ refs' = [refs EXCEPT ![Label(r)] = @ + 1]
      /\ Stored(Label(r))
      /\ inbox' = [inbox EXCEPT ![r] = Rest(r)]
      /\ UNCHANGED <<lent, job, work, table, phase, answers, acquired>>
  BY DEF Hold, Accept, Reads
<1>a. /\ node \in DOMAIN At
      /\ Label(r) = node
      /\ root[r] = Absent => node = Sent /\ Blank(r)
      /\ root[r] # Absent => node \in DOMAIN frontier[r] /\ Begun(r)
  BY <1>0, Reading
<1>b. node \notin held[r]
  BY <1>a DEF Blank, Begun, Placed
<1> HIDE DEF node
<1>1. TypeInv'
  BY <1>0 DEF IInv, TypeInv
<1>2. CallInv'
  BY <1>0 DEF IInv, CallInv
<1>3. EdgesInv'
  <2> DEFINE all == EdgesOf(DOMAIN refs, table, held)
             edge == Edge("held", r, node)
  <2>1. job \in Resting
    BY <1>0, Alone
  <2>2. EdgesOf(DOMAIN refs, table, held') = all \cup {edge} /\ edge \notin all
    <3>1. DOMAIN held = Receiver
      BY DEF IInv, TypeInv
    <3>2. held' = [held EXCEPT ![r] = @ \cup {node}]
      BY <1>0, <1>a
    <3>3. /\ EdgesOf(DOMAIN refs, table, [held EXCEPT ![r] = @ \cup {node}]) = all \cup {edge}
          /\ edge \notin all
      BY <1>b, <3>1, HoldAdded
    <3>. QED
      BY <3>2, <3>3
  <2>3. DOMAIN refs' = DOMAIN refs
    BY <1>0
  <2>4. edge.to = node
    BY EdgeTo
  <2>5. node \in DOMAIN refs /\ refs' = [refs EXCEPT ![node] = @ + 1]
    BY <1>0, <1>a DEF Stored
  <2> HIDE DEF edge, all
  <2>6. Balanced(refs, job, work, all)
    BY DEF IInv, EdgesInv, all
  <2>7. Balanced([refs EXCEPT ![edge.to] = @ + 1], job, work, all \cup {edge})
    BY <2>1, <2>2, <2>4, <2>5, <2>6, BalancedMore
  <2>8. Balanced(refs', job', work', all \cup {edge})
    BY <1>0, <2>4, <2>5, <2>7
  <2>. QED
    BY <1>0, <2>2, <2>3, <2>8 DEF EdgesInv
<1>4. GatherInv'
  <2>1. ASSUME NEW s \in Receiver, s # r
        PROVE  Gathers(s)'
    BY <1>0, <2>1, GathersFrame DEF IInv, TypeInv, GatherInv
  <2>2. Begun(r)'
    <3>1. /\ held'[r] = held[r] \cup {node}
          /\ acquired'[r] = acquired[r]
          /\ root'[r] = IF root[r] = Absent THEN node ELSE root[r]
      BY <1>0, <1>a DEF IInv, TypeInv
    <3>2. /\ DOMAIN frontier'[r] = DOMAIN frontier[r] \ {node}
          /\ \A n \in DOMAIN frontier'[r] : frontier'[r][n] = frontier[r][n]
      <4>1. frontier'[r] = Restrict(frontier[r], DOMAIN frontier[r] \ {node})
        BY <1>0 DEF IInv, TypeInv, node
      <4>. QED
        BY <4>1 DEF Restrict
    <3>3. CASE root[r] = Absent
      <4>1. frontier[r] = <<>> /\ held[r] = {} /\ acquired[r] = {} /\ node = Sent
        BY <1>a, <3>3 DEF Blank
      <4>2. DOMAIN frontier'[r] = {}
        BY <3>2, <4>1
      <4>3. Known(r)' = {Sent}
        BY <3>1, <4>1, <4>2 DEF Known
      <4>4. Placed(r)'
        BY <1>a, <3>1, <4>1, <4>2, <4>3 DEF Placed
      <4>. QED
        BY <1>a, <3>1, <3>3, <4>1, <4>3, <4>4 DEF Begun
    <3>4. CASE root[r] # Absent
      <4>1. Begun(r) /\ node \in DOMAIN frontier[r]
        BY <1>a, <3>4
      <4>2. Known(r)' = Known(r)
        BY <3>1, <3>2, <4>1 DEF Known
      <4>3. Placed(r)'
        <5>1. DOMAIN frontier'[r] \cap (acquired'[r] \cup held'[r]) = {}
          BY <3>1, <3>2, <4>1 DEF Begun, Placed
        <5>2. \A n \in DOMAIN frontier'[r] : frontier'[r][n] = At[n]
          BY <3>2, <4>1 DEF Begun, Placed
        <5>. QED
          BY <3>1, <4>1, <4>2, <5>1, <5>2 DEF Begun, Placed
      <4>. QED
        BY <3>1, <3>4, <4>1, <4>2, <4>3 DEF Begun
    <3>. QED
      BY <3>3, <3>4
  <2>3. root'[r] # Absent
    BY <2>2, SyncAssumption DEF Begun
  <2>4. Gathers(r)'
    BY <2>2, <2>3 DEF Gathers
  <2>. QED
    BY <2>1, <2>4 DEF GatherInv
<1>5. FlushInv' /\ WorkInv'
  BY <1>0, <1>1, <1>2, Alone, NotFlushing
<1>. QED
  BY <1>1, <1>2, <1>3, <1>4, <1>5 DEF IInv

\* The children of a node are sighted at their places in the tree.
LEMMA SightsAre ==
    ASSUME NEW r \in Receiver, Node(r) \in DOMAIN At, Location(r) = At[Node(r)]
    PROVE  /\ DOMAIN Sights(r) = { Child(Node(r), d) : d \in Sides(Node(r)) }
           /\ \A child \in DOMAIN Sights(r) : child \in DOMAIN At /\ Sights(r)[child] = At[child]
<1>1. DOMAIN Sights(r) = { Child(Node(r), d) : d \in Sides(Node(r)) }
  BY DEF Sights
<1>2. ASSUME NEW child \in DOMAIN Sights(r)
      PROVE  child \in DOMAIN At /\ Sights(r)[child] = At[child]
  <2> DEFINE d == CHOOSE e \in Sides(Node(r)) : Child(Node(r), e) = child
  <2>1. d \in Sides(Node(r)) /\ Child(Node(r), d) = child
    BY <1>1
  <2>2. Sights(r)[child] = Append(Location(r), d)
    BY <1>1 DEF Sights
  <2> HIDE DEF d
  <2>. QED
    BY <2>1, <2>2, ChildAt
<1>. QED
  BY <1>1, <1>2

\* A node that is new goes from the frontier to those acquired; its children come in.
LEMMA AcquireKeeps ==
    ASSUME IInv, NEW r \in Receiver, Acquire(r)
    PROVE  IInv'
<1> DEFINE node == Node(r)
           sights == Sights(r)
<1>0. /\ Reads(r) /\ Sighted(r) /\ phase[r] = "learning"
      /\ root' = [root EXCEPT ![r] = IF @ = Absent THEN Label(r) ELSE @]
      /\ acquired' = [acquired EXCEPT ![r] = @ \cup {node}]
      /\ frontier' = [frontier EXCEPT ![r] =
                        [n \in (DOMAIN sights \cup DOMAIN frontier[r]) \ {node} |->
                            IF n \in DOMAIN sights THEN sights[n] ELSE frontier[r][n]]]
      /\ inbox' = [inbox EXCEPT ![r] = Rest(r)]
      /\ UNCHANGED <<lent, job, work, table, phase, answers, refs, held>>
  BY DEF Acquire, Accept, Reads
<1>a. /\ node \in DOMAIN At
      /\ Label(r) = node
      /\ root[r] = Absent => node = Sent /\ Blank(r)
      /\ root[r] # Absent => node \in DOMAIN frontier[r] /\ Begun(r)
  BY <1>0, Reading
<1>b. /\ DOMAIN sights = { Child(node, d) : d \in Sides(node) }
      /\ \A child \in DOMAIN sights : child \in DOMAIN At /\ sights[child] = At[child]
  BY <1>0, Reading, SightsAre
<1> HIDE DEF node, sights
<1>1. TypeInv'
  BY <1>0 DEF IInv, TypeInv
<1>2. CallInv'
  BY <1>0 DEF IInv, CallInv
<1>3. EdgesInv'
  BY <1>0 DEF IInv, EdgesInv
<1>4. GatherInv'
  <2>1. ASSUME NEW s \in Receiver, s # r
        PROVE  Gathers(s)'
    BY <1>0, <2>1, GathersFrame DEF IInv, TypeInv, GatherInv
  <2>2. Begun(r)'
    <3>1. /\ held'[r] = held[r]
          /\ acquired'[r] = acquired[r] \cup {node}
          /\ root'[r] = IF root[r] = Absent THEN node ELSE root[r]
      BY <1>0, <1>a DEF IInv, TypeInv
    <3>2. /\ DOMAIN frontier'[r] = (DOMAIN sights \cup DOMAIN frontier[r]) \ {node}
          /\ \A n \in DOMAIN frontier'[r] :
                frontier'[r][n] = IF n \in DOMAIN sights THEN sights[n] ELSE frontier[r][n]
      BY <1>0 DEF IInv, TypeInv
    <3>3. Known(r)' = Known(r) \cup {node} \cup DOMAIN sights
      BY <3>1, <3>2 DEF Known
    <3>4. CASE root[r] = Absent
      <4>1. frontier[r] = <<>> /\ held[r] = {} /\ acquired[r] = {} /\ node = Sent
        BY <1>a, <3>4 DEF Blank
      <4>2. DOMAIN frontier[r] = {}
        BY <4>1
      <4>3. Known(r)' = {Sent} \cup DOMAIN sights
        BY <3>3, <4>1, <4>2 DEF Known
      <4>4. acquired'[r] = {Sent} /\ held'[r] = {}
        BY <3>1, <4>1
      <4>5. Placed(r)'
        <5>1. Known(r)' \subseteq DOMAIN At
          BY <1>a, <1>b, <4>1, <4>3
        <5>2. \A n \in DOMAIN frontier'[r] : frontier'[r][n] = At[n]
          BY <1>b, <3>2, <4>2
        <5>3. DOMAIN frontier'[r] \cap (acquired'[r] \cup held'[r]) = {}
          BY <3>2, <4>1, <4>4
        <5>4. \A n \in Known(r)' \ {Sent} :
                \E above \in acquired'[r] : \E d \in Sides(above) : n = Child(above, d)
          BY <1>b, <4>1, <4>3, <4>4
        <5>5. \A above \in acquired'[r] : \A d \in Sides(above) : Child(above, d) \in Known(r)'
          BY <1>b, <4>1, <4>3, <4>4
        <5>. QED
          BY <5>1, <5>2, <5>3, <5>4, <5>5 DEF Placed
      <4>. QED
        BY <1>a, <3>1, <3>4, <4>1, <4>3, <4>5 DEF Begun
    <3>5. CASE root[r] # Absent
      <4>1. Begun(r) /\ node \in DOMAIN frontier[r] /\ node \in Known(r)
        BY <1>a, <3>5 DEF Known
      <4>2. ASSUME NEW d \in Sides(node)
            PROVE  Child(node, d) \notin acquired[r] \cup held[r]
        <5>1. SUFFICES ASSUME Child(node, d) \in Known(r) PROVE node \in acquired[r]
          BY <4>1 DEF Begun, Placed, Known
        <5>2. Child(node, d) # Sent
          BY <1>a, <4>1, NoParent DEF Begun
        <5>3. PICK above \in acquired[r] : \E e \in Sides(above) : Child(node, d) = Child(above, e)
          BY <4>1, <5>1, <5>2 DEF Begun, Placed
        <5>4. above \in DOMAIN At
          BY <4>1 DEF Begun, Placed, Known
        <5>. QED
          BY <1>a, <5>3, <5>4, OneParent
      <4>3. Placed(r)'
        <5>1. Known(r)' \subseteq DOMAIN At
          BY <1>a, <1>b, <3>3, <4>1 DEF Begun, Placed
        <5>2. \A n \in DOMAIN frontier'[r] : frontier'[r][n] = At[n]
          BY <1>b, <3>2, <4>1 DEF Begun, Placed
        <5>3. DOMAIN frontier'[r] \cap (acquired'[r] \cup held'[r]) = {}
          <6>1. DOMAIN sights \cap (acquired[r] \cup held[r]) = {}
            BY <1>b, <4>2
          <6>2. DOMAIN frontier[r] \cap (acquired[r] \cup held[r]) = {}
            BY <4>1 DEF Begun, Placed
          <6>. QED
            BY <3>1, <3>2, <6>1, <6>2
        <5>4. ASSUME NEW n \in Known(r)' \ {Sent}
              PROVE  \E above \in acquired'[r] : \E d \in Sides(above) : n = Child(above, d)
          <6>1. CASE n \in DOMAIN sights
            BY <1>b, <3>1, <6>1
          <6>2. CASE n \in Known(r)
            <7>1. \E above \in acquired[r] : \E d \in Sides(above) : n = Child(above, d)
              BY <4>1, <6>2 DEF Begun, Placed
            <7>. QED
              BY <3>1, <7>1
          <6>. QED
            BY <3>3, <4>1, <6>1, <6>2
        <5>5. ASSUME NEW above \in acquired'[r], NEW d \in Sides(above)
              PROVE  Child(above, d) \in Known(r)'
          <6>1. CASE above = node
            BY <1>b, <3>3, <6>1
          <6>2. CASE above \in acquired[r]
            BY <3>3, <4>1, <6>2 DEF Begun, Placed
          <6>. QED
            BY <3>1, <6>1, <6>2
        <5>. QED
          BY <5>1, <5>2, <5>3, <5>4, <5>5 DEF Placed
      <4>. QED
        BY <3>1, <3>3, <3>5, <4>1, <4>3 DEF Begun
    <3>. QED
      BY <3>4, <3>5
  <2>3. root'[r] # Absent
    BY <2>2, SyncAssumption DEF Begun
  <2>4. Gathers(r)'
    BY <2>2, <2>3 DEF Gathers
  <2>. QED
    BY <2>1, <2>4 DEF GatherInv
<1>5. FlushInv' /\ WorkInv'
  BY <1>0, <1>1, <1>2, Alone, NotFlushing
<1>. QED
  BY <1>1, <1>2, <1>3, <1>4, <1>5 DEF IInv

\* Nothing is missing: the table gets its root, which flush has to count.
LEMMA FlushKeeps ==
    ASSUME IInv, NEW r \in Receiver, Flush(r)
    PROVE  IInv'
<1> DEFINE label == IF root[r] = Absent THEN Empty ELSE root[r]
<1>0. /\ phase[r] = "learning" /\ inbox[r] = <<>> /\ frontier[r] = <<>>
      /\ phase' = [phase EXCEPT ![r] = "flushing"]
      /\ job' = "insert"
      /\ table' = [table EXCEPT ![r] = label]
      /\ work' = IF root[r] = Absent THEN {} ELSE {Edge("table", r, root[r])}
      /\ UNCHANGED <<refs, lent, root, held, frontier, acquired, inbox, answers>>
  BY DEF Flush, memory
<1>a. IF root[r] = Absent THEN Blank(r) ELSE Begun(r)
  BY <1>0 DEF IInv, GatherInv, Gathers
<1>b. work' = RootEdges(r, label)
  <2>1. root[r] # Absent => root[r] # Empty
    BY <1>a, SyncAssumption DEF Begun
  <2>. QED
    BY <1>0, <2>1 DEF RootEdges
<1>c. job \in Resting /\ lent = r /\ table[r] = Absent
  BY <1>0, Alone
<1>d. DOMAIN frontier[r] = {}
  BY <1>0
<1> HIDE DEF label
<1>1. TypeInv'
  BY <1>0, Apart DEF IInv, TypeInv
<1>2. CallInv'
  BY <1>0, Alone DEF IInv, TypeInv, CallInv
<1>3. EdgesInv'
  <2> DEFINE all == EdgesOf(DOMAIN refs, table, held)
  <2>1. DOMAIN table = Table /\ r \in Table
    BY Apart DEF IInv, TypeInv
  <2>2. /\ EdgesOf(DOMAIN refs, table', held) = all \cup RootEdges(r, label)
        /\ all \cap RootEdges(r, label) = {}
    <3>1. /\ EdgesOf(DOMAIN refs, [table EXCEPT ![r] = label], held) = all \cup RootEdges(r, label)
          /\ all \cap RootEdges(r, label) = {}
      BY <1>c, <2>1, RootAdded
    <3>. QED
      BY <1>0, <3>1
  <2>3. \A edge \in RootEdges(r, label) : edge.from[1] # "held"
    BY RootKind
  <2> HIDE DEF all
  <2>4. Balanced(refs, job, work, all)
    BY DEF IInv, EdgesInv, all
  <2>5. Balanced(refs, "insert", RootEdges(r, label), all \cup RootEdges(r, label))
    BY <1>c, <2>2, <2>3, <2>4, BalancedUp
  <2>. QED
    BY <1>0, <1>b, <2>2, <2>5 DEF EdgesInv
<1>4. GatherInv'
  <2>1. ASSUME NEW s \in Receiver, s # r
        PROVE  Gathers(s)'
    BY <1>0, <2>1, GathersFrame DEF IInv, TypeInv, GatherInv
  <2>2. Gathers(r)'
    BY <1>0 DEF IInv, TypeInv, Gathers
  <2>. QED
    BY <2>1, <2>2 DEF GatherInv
<1>5. ASSUME NEW node \in acquired[r] \cup held[r]
      PROVE  node \in acquired[r] \/ Stored(node)
  <2>1. job # "drop"
    BY <1>c DEF Resting
  <2>. QED
    BY <2>1, HeldStored
<1>6. FlushInv'
  <2>1. ASSUME NEW s \in Receiver, s # r
        PROVE  Flushes(s)'
    BY <1>0, <2>1, FlushesFrame DEF IInv, TypeInv, FlushInv
  <2>2. ASSUME NEW above \in acquired[r], NEW d \in Sides(above)
        PROVE  Child(above, d) \in acquired[r] \/ Stored(Child(above, d))
    BY <1>a, <1>d, <1>5, <2>2 DEF Blank, Begun, Placed, Known
  <2>3. Flushes(r)'
    BY <1>0, <2>2 DEF Flushes, Stored
  <2>. QED
    BY <2>1, <2>3 DEF FlushInv
<1>7. WorkInv'
  <2>1. ASSUME NEW edge \in work'
        PROVE  Stored(edge.to) \/ edge.to \in acquired[r]
    <3>1. root[r] # Absent /\ edge = Edge("table", r, Sent)
      BY <1>0, <1>a DEF Begun
    <3>2. Sent \in acquired[r] \cup held[r]
      BY <1>a, <1>d, <3>1 DEF Begun, Known
    <3>. QED
      BY <1>5, <3>1, <3>2, EdgeTo
  <2>. QED
    BY <1>0, <1>c, <2>1 DEF WorkInv, Stored
<1>. QED
  BY <1>1, <1>2, <1>3, <1>4, <1>6, <1>7 DEF IInv

-----------------------------------------------------------------------------
(***************************************************************************)
(* The calls that count.                                                   *)
(***************************************************************************)

\* While a call counts, no receiver learns.
LEMMA NoneLearns ==
    ASSUME IInv, job \in {"insert", "drop"}
    PROVE  \A r \in Receiver : phase[r] # "learning"
BY DEF IInv, CallInv

\* Counts are what they are for each label.
LEMMA BalancedSame ==
    ASSUME NEW counts, NEW same, NEW what, NEW edges, NEW all,
           DOMAIN same = DOMAIN counts, \A label \in DOMAIN counts : same[label] = counts[label],
           Balanced(counts, what, edges, all)
    PROVE  Balanced(same, what, edges, all)
BY DEF Balanced, Exact

\* One reference is counted up, or taken over, and a new node brings its own.
LEMMA InsertBalances ==
    ASSUME IInv, NEW edge \in work, Insert(edge)
    PROVE  EdgesInv'
<1> DEFINE label == edge.to
           all == EdgesOf(DOMAIN refs, table, held)
           given == [r \in Receiver |-> IF r = lent THEN held[r] \ {label} ELSE held[r]]
<1>0. /\ job = "insert" /\ job' = "insert" /\ table' = table
      /\ held' = given
  BY DEF Insert
<1>a. Balanced(refs, "insert", work, all)
  BY <1>0 DEF IInv, EdgesInv
<1>b. ASSUME ~TakesOver(edge)
      PROVE  EdgesOf(DOMAIN refs, table, given) = all
  <2>1. \A r \in Receiver : given[r] = held[r]
    BY <1>b DEF TakesOver
  <2> HIDE DEF given
  <2>. QED
    BY <2>1, HoldsSame
<1>1. CASE Stored(label) /\ TakesOver(edge)
  <2> DEFINE hold == Edge("held", lent, label)
  <2>1. lent \in Receiver /\ label \in held[lent]
    BY <1>1 DEF TakesOver
  <2>2. refs' = [refs EXCEPT ![label] = @ + 0] /\ work' = work \ {edge}
    BY <1>1 DEF Insert
  <2>3. hold \in all
    <3>1. hold \in HoldEdges(lent, held[lent])
      BY <2>1 DEF HoldEdges
    <3>. QED
      BY <2>1, <3>1, InEdges
  <2>4. EdgesOf(DOMAIN refs, table, given) = all \ {hold}
    <3>1. ASSUME NEW r \in Receiver, NEW l \in held[r]
          PROVE  EdgesOf(DOMAIN refs, table,
                         [q \in Receiver |-> IF q = r THEN held[q] \ {l} ELSE held[q]])
                   = EdgesOf(DOMAIN refs, table, held) \ {Edge("held", r, l)}
      BY HoldGiven
    <3>. QED
      BY <2>1, <3>1
  <2>5. hold.from[1] = "held" /\ hold.to = edge.to
    BY EdgeTo
  <2> HIDE DEF hold, all, given
  <2>6. Balanced(refs, "insert", work \ {edge}, all \ {hold})
    BY <1>a, <2>3, <2>5, BalancedTakenOver
  <2>7. DOMAIN refs' = DOMAIN refs /\ \A l \in DOMAIN refs : refs'[l] = refs[l]
    <3>1. refs[label] \in Nat
      BY <1>1, <2>6 DEF Balanced, Exact, Stored
    <3>. QED
      BY <2>2, <3>1
  <2>8. Balanced(refs', "insert", work', all \ {hold})
    BY <2>2, <2>6, <2>7, BalancedSame
  <2>. QED
    BY <1>0, <2>4, <2>7, <2>8 DEF EdgesInv
<1>2. CASE Stored(label) /\ ~TakesOver(edge)
  <2>1. refs' = [refs EXCEPT ![label] = @ + 1] /\ work' = work \ {edge}
    BY <1>2 DEF Insert
  <2>2. EdgesOf(DOMAIN refs, table, given) = all
    BY <1>2, <1>b
  <2> HIDE DEF all, given
  <2>3. Balanced([refs EXCEPT ![label] = @ + 1], "insert", work \ {edge}, all)
    BY <1>2, <1>a, BalancedCount DEF Stored
  <2>4. DOMAIN refs' = DOMAIN refs
    BY <2>1
  <2>. QED
    BY <1>0, <2>1, <2>2, <2>3, <2>4 DEF EdgesInv
<1>3. CASE ~Stored(label)
  <2> DEFINE new == ChildEdges(label)
  <2>1. ~TakesOver(edge)
    BY <1>0, <1>3, HeldStored DEF TakesOver
  <2>2. /\ refs' = [l \in DOMAIN refs \cup {label} |-> IF l = label THEN 1 ELSE refs[l]]
        /\ work' = (work \ {edge}) \cup new
    BY <1>3, <2>1 DEF Insert
  <2>3. EdgesOf(DOMAIN refs, table, given) = all
    BY <2>1, <1>b
  <2> HIDE DEF given
  <2>4. /\ EdgesOf(DOMAIN refs \cup {label}, table, given) = all \cup new
        /\ all \cap new = {}
    BY <1>3, <2>3, LabelAdded DEF Stored
  <2>5. \A e \in new : e.from[1] # "held"
    BY ChildKind DEF Direction
  <2> HIDE DEF all, new
  <2>6. Balanced([l \in DOMAIN refs \cup {label} |-> IF l = label THEN 1 ELSE refs[l]],
                 "insert", (work \ {edge}) \cup new, all \cup new)
    BY <1>3, <1>a, <2>4, <2>5, BalancedNew DEF Stored
  <2>7. DOMAIN refs' = DOMAIN refs \cup {label}
    BY <2>2
  <2>. QED
    BY <1>0, <2>2, <2>4, <2>6, <2>7 DEF EdgesInv
<1>. QED
  BY <1>1, <1>2, <1>3

\* What flush has still to count is acquired or stored after each reference.
LEMMA InsertKeeps ==
    ASSUME IInv, NEW edge \in work, Insert(edge)
    PROVE  IInv'
<1> DEFINE label == edge.to
<1>0. /\ job = "insert"
      /\ held' = [r \in Receiver |-> IF r = lent THEN held[r] \ {label} ELSE held[r]]
      /\ UNCHANGED <<lent, job, table, phase, root, frontier, acquired, inbox, answers>>
  BY DEF Insert
<1>a. /\ DOMAIN refs \subseteq DOMAIN refs'
      /\ \/ work' \subseteq work
         \/ /\ lent \in Receiver => label \in acquired[lent]
            /\ work' \subseteq work \cup ChildEdges(label)
  BY DEF Insert
<1>1. TypeInv'
  BY <1>0 DEF IInv, TypeInv
<1>2. CallInv'
  BY <1>0 DEF IInv, CallInv
<1>3. EdgesInv'
  BY InsertBalances
<1>4. GatherInv'
  <2>1. ASSUME NEW s \in Receiver, s # lent
        PROVE  Gathers(s)'
    <3>1. held'[s] = held[s]
      BY <1>0, <2>1
    <3>. QED
      BY <1>0, <3>1, GathersFrame DEF IInv, GatherInv
  <2>2. ASSUME NEW s \in Receiver, s = lent
        PROVE  Gathers(s)'
    <3>1. phase'[s] = "flushing"
      BY <1>0, <2>2 DEF IInv, CallInv
    <3>. QED
      BY <3>1 DEF Gathers
  <2>. QED
    BY <2>1, <2>2 DEF GatherInv
<1>5. FlushInv'
  BY <1>0, <1>a, FlushesFrame DEF IInv, FlushInv
<1>6. WorkInv'
  <2> SUFFICES ASSUME lent \in Receiver, NEW e \in work'
               PROVE  e.to \in DOMAIN refs' \/ e.to \in acquired[lent]
    BY <1>0 DEF WorkInv, Stored
  <2>1. CASE e \in work
    BY <1>0, <1>a, <2>1 DEF IInv, WorkInv, Stored
  <2>2. CASE e \in ChildEdges(label) /\ label \in acquired[lent]
    <3>1. PICK d \in Sides(label) : e = Edge(d, label, Child(label, d))
      BY <2>2 DEF ChildEdges
    <3>2. e.to = Child(label, d)
      BY <3>1, EdgeTo
    <3>3. phase[lent] = "flushing"
      BY <1>0 DEF IInv, CallInv
    <3>4. Child(label, d) \in acquired[lent] \/ Stored(Child(label, d))
      BY <2>2, <3>3 DEF IInv, FlushInv, Flushes
    <3>. QED
      BY <1>a, <3>2, <3>4 DEF Stored
  <2>. QED
    BY <1>a, <2>1, <2>2
<1>. QED
  BY <1>1, <1>2, <1>3, <1>4, <1>5, <1>6 DEF IInv

\* A call that counted up ends.
LEMMA InsertEndKeeps ==
    ASSUME IInv, InsertEnd
    PROVE  IInv'
<1> USE DEF InsertEnd, Restore, memory
<1>1. TypeInv'
  BY DEF IInv, TypeInv, Resting
<1>2. CallInv'
  BY Apart DEF IInv, CallInv
<1>3. EdgesInv'
  BY BalancedEnd DEF IInv, EdgesInv
<1>4. GatherInv'
  <2>1. ASSUME NEW s \in Receiver, s # lent
        PROVE  Gathers(s)'
    BY <2>1, GathersFrame DEF IInv, GatherInv
  <2>2. ASSUME NEW s \in Receiver, s = lent
        PROVE  Gathers(s)'
    BY <2>2 DEF Gathers
  <2>. QED
    BY <2>1, <2>2 DEF GatherInv
<1>5. FlushInv' /\ WorkInv'
  BY <1>1, <1>2, NotFlushing
<1>. QED
  BY <1>1, <1>2, <1>3, <1>4, <1>5 DEF IInv

\* A receiver is given up, or is done: what it holds is to be counted down.
LEMMA CloseKeeps ==
    ASSUME IInv, NEW r \in Receiver, Close(r)
    PROVE  IInv'
<1> USE DEF Close, Lend, Free
<1>1. TypeInv'
  BY Apart DEF IInv, TypeInv
<1>2. CallInv'
  BY Apart DEF IInv, TypeInv, CallInv
<1>3. EdgesInv'
  <2> DEFINE all == EdgesOf(DOMAIN refs, table, held)
             without == EdgesOf(DOMAIN refs, table, [held EXCEPT ![r] = {}])
             old == HoldEdges(r, held[r])
  <2>1. job \in Resting
    BY DEF IInv, CallInv, Resting
  <2>2. all = without \cup old /\ without \cap old = {}
    <3>1. DOMAIN held = Receiver
      BY DEF IInv, TypeInv
    <3>. QED
      BY <3>1, HoldsRemoved
  <2>3. work' = old
    BY DEF HeldEdges, HoldEdges
  <2>4. EdgesOf(DOMAIN refs', table', held') = without
    OBVIOUS
  <2>5. Balanced(refs, job, work, all)
    BY DEF IInv, EdgesInv
  <2> HIDE DEF all, without, old
  <2>6. Balanced(refs, "drop", old, without)
    BY <2>1, <2>2, <2>5, BalancedDown
  <2>. QED
    BY <2>3, <2>4, <2>6 DEF EdgesInv
<1>4. GatherInv'
  <2>1. ASSUME NEW s \in Receiver, s # r
        PROVE  Gathers(s)'
    BY <2>1, GathersFrame DEF IInv, TypeInv, GatherInv
  <2>2. Gathers(r)'
    BY DEF IInv, TypeInv, Gathers
  <2>. QED
    BY <2>1, <2>2 DEF GatherInv
<1>5. FlushInv' /\ WorkInv'
  BY <1>1, <1>2, NotFlushing
<1>. QED
  BY <1>1, <1>2, <1>3, <1>4, <1>5 DEF IInv

\* While a call counts down, what is said of receivers does not depend on counts.
LEMMA DropBalances ==
    ASSUME IInv, NEW edge \in work, DropNode(edge)
    PROVE  EdgesInv'
<1> DEFINE label == edge.to
           all == EdgesOf(DOMAIN refs, table, held)
<1>0. /\ job = "drop" /\ label \in DOMAIN refs
      /\ UNCHANGED <<job, table, held>>
  BY DEF DropNode, memory, Stored
<1>a. Balanced(refs, "drop", work, all)
  BY <1>0 DEF IInv, EdgesInv
<1>1. CASE refs[label] = 1
  <2> DEFINE old == ChildEdges(label)
             without == EdgesOf(DOMAIN refs \ {label}, table, held)
  <2>1. /\ refs' = Restrict(refs, DOMAIN refs \ {label})
        /\ work' = (work \ {edge}) \cup old
    BY <1>1 DEF DropNode
  <2>2. all = without \cup old /\ without \cap old = {}
    BY <1>0, LabelRemoved
  <2>3. DOMAIN refs' = DOMAIN refs \ {label}
    BY <2>1 DEF Restrict
  <2>4. EdgesOf(DOMAIN refs', table, held) = without
    BY <2>3
  <2> HIDE DEF all, old, without
  <2>5. Balanced(refs, "drop", work, without \cup old)
    BY <1>a, <2>2
  <2>6. Balanced(Restrict(refs, DOMAIN refs \ {label}), "drop", (work \ {edge}) \cup old, without)
    BY <1>1, <2>2, <2>5, BalancedLast
  <2>. QED
    BY <1>0, <2>1, <2>4, <2>6 DEF EdgesInv
<1>2. CASE refs[label] # 1
  <2>1. refs' = [refs EXCEPT ![label] = @ - 1] /\ work' = work \ {edge}
    BY <1>2 DEF DropNode
  <2>2. DOMAIN refs' = DOMAIN refs
    BY <2>1
  <2> HIDE DEF all
  <2>3. Balanced([refs EXCEPT ![label] = @ - 1], "drop", work \ {edge}, all)
    BY <1>2, <1>a, BalancedLess
  <2>. QED
    BY <1>0, <2>1, <2>2, <2>3 DEF EdgesInv, all
<1>. QED
  BY <1>1, <1>2

\* One reference is counted down; nobody is learning or flushing meanwhile.
LEMMA DropNodeKeeps ==
    ASSUME IInv, NEW edge \in work, DropNode(edge)
    PROVE  IInv'
<1>0. /\ job = "drop"
      /\ UNCHANGED <<lent, job, table, phase, memory, inbox, answers>>
  BY DEF DropNode
<1> USE DEF memory
<1>1. TypeInv'
  BY <1>0 DEF IInv, TypeInv
<1>2. CallInv'
  BY <1>0 DEF IInv, CallInv
<1>3. EdgesInv'
  BY DropBalances
<1>4. GatherInv'
  BY <1>0, GathersFrame DEF IInv, GatherInv
<1>5. FlushInv' /\ WorkInv'
  BY <1>0, <1>1, <1>2, NotFlushing
<1>. QED
  BY <1>1, <1>2, <1>3, <1>4, <1>5 DEF IInv

\* A call that counted down ends.
LEMMA DropEndKeeps ==
    ASSUME IInv, DropEnd
    PROVE  IInv'
<1> USE DEF DropEnd, Restore, memory
<1>1. TypeInv'
  BY DEF IInv, TypeInv, Resting
<1>2. CallInv'
  BY Apart DEF IInv, CallInv
<1>3. EdgesInv'
  BY BalancedEnd DEF IInv, EdgesInv
<1>4. GatherInv'
  <2>1. ASSUME NEW s \in Receiver, phase'[s] = phase[s]
        PROVE  Gathers(s)'
    BY <2>1, GathersFrame DEF IInv, GatherInv
  <2>2. ASSUME NEW s \in Receiver, phase'[s] = "gone"
        PROVE  Gathers(s)'
    BY <2>2 DEF Gathers
  <2>. QED
    BY <2>1, <2>2 DEF GatherInv
<1>5. FlushInv' /\ WorkInv'
  BY <1>1, <1>2, NotFlushing
<1>. QED
  BY <1>1, <1>2, <1>3, <1>4, <1>5 DEF IInv

-----------------------------------------------------------------------------
(***************************************************************************)
(* Tables that come and go.                                                *)
(***************************************************************************)

\* Another table is created: its root is to be counted.
LEMMA CreateKeeps ==
    ASSUME IInv, NEW o \in Other, NEW tree \in Trees, Create(o, tree)
    PROVE  IInv'
<1>0. /\ lent = Absent /\ lent' = o /\ job' = "insert" /\ table[o] = Absent
      /\ work' = IF tree = Empty THEN {} ELSE {Edge("table", o, tree)}
      /\ table' = [table EXCEPT ![o] = tree]
      /\ UNCHANGED <<refs, phase, memory, inbox, answers>>
  BY DEF Create, Lend, Free
<1>a. o \in Table /\ o \notin Receiver
  BY Apart DEF Table
<1>b. work' = RootEdges(o, tree)
  BY <1>0, SyncAssumption DEF RootEdges
<1> USE DEF memory
<1>1. TypeInv'
  BY <1>0, <1>a DEF IInv, TypeInv
<1>2. CallInv'
  <2>1. \A r \in Receiver : phase[r] \notin {"learning", "flushing", "closing"}
    BY <1>0, Apart DEF IInv, CallInv
  <2>2. \A r \in Receiver : table'[r] = table[r]
    BY <1>0, <1>a, Apart DEF IInv, TypeInv
  <2>3. lent' # Absent /\ lent' \notin Receiver
    BY <1>0, <1>a, SyncAssumption
  <2>. QED
    BY <1>0, <2>1, <2>2, <2>3 DEF IInv, CallInv
<1>3. EdgesInv'
  <2> DEFINE all == EdgesOf(DOMAIN refs, table, held)
  <2>1. job \in Resting
    BY <1>0 DEF IInv, CallInv, Resting
  <2>2. /\ EdgesOf(DOMAIN refs, table', held) = all \cup RootEdges(o, tree)
        /\ all \cap RootEdges(o, tree) = {}
    <3>1. DOMAIN table = Table
      BY DEF IInv, TypeInv
    <3>2. /\ EdgesOf(DOMAIN refs, [table EXCEPT ![o] = tree], held) = all \cup RootEdges(o, tree)
          /\ all \cap RootEdges(o, tree) = {}
      BY <1>0, <1>a, <3>1, RootAdded
    <3>. QED
      BY <1>0, <3>2
  <2>3. \A edge \in RootEdges(o, tree) : edge.from[1] # "held"
    BY RootKind
  <2> HIDE DEF all
  <2>4. Balanced(refs, job, work, all)
    BY DEF IInv, EdgesInv, all
  <2>5. Balanced(refs, "insert", RootEdges(o, tree), all \cup RootEdges(o, tree))
    BY <2>1, <2>2, <2>3, <2>4, BalancedUp
  <2>. QED
    BY <1>0, <1>b, <2>2, <2>5 DEF EdgesInv
<1>4. GatherInv'
  BY <1>0, GathersFrame DEF IInv, GatherInv
<1>5. FlushInv'
  BY <1>0, FlushesFrame DEF IInv, FlushInv
<1>6. WorkInv'
  BY <1>0, <1>a DEF WorkInv
<1>. QED
  BY <1>1, <1>2, <1>3, <1>4, <1>5, <1>6 DEF IInv

\* A table is dropped: its root is to be counted down.
LEMMA DiscardKeeps ==
    ASSUME IInv, NEW t \in Table, Discard(t)
    PROVE  IInv'
<1>0. /\ lent = Absent /\ lent' = t /\ job' = "drop" /\ work' = TableEdges(t)
      /\ t \in Receiver => phase[t] = "gone"
      /\ table' = [table EXCEPT ![t] = Absent]
      /\ UNCHANGED <<refs, phase, memory, inbox, answers>>
  BY DEF Discard, Lend, Free
<1> USE DEF memory
<1>1. TypeInv'
  BY <1>0 DEF IInv, TypeInv
<1>2. CallInv'
  <2>1. \A r \in Receiver : phase[r] \notin {"learning", "flushing", "closing"}
    BY <1>0, Apart DEF IInv, CallInv
  <2>2. \A r \in Receiver : table'[r] # Absent => table[r] # Absent
    BY <1>0, Apart DEF IInv, TypeInv
  <2>3. lent' # Absent
    BY <1>0, SyncAssumption
  <2>. QED
    BY <1>0, <2>1, <2>2, <2>3 DEF IInv, CallInv
<1>3. EdgesInv'
  <2> DEFINE all == EdgesOf(DOMAIN refs, table, held)
             without == EdgesOf(DOMAIN refs, [table EXCEPT ![t] = Absent], held)
             old == RootEdges(t, table[t])
  <2>1. job \in Resting
    BY <1>0 DEF IInv, CallInv, Resting
  <2>2. all = without \cup old /\ without \cap old = {}
    <3>1. DOMAIN table = Table
      BY DEF IInv, TypeInv
    <3>. QED
      BY <3>1, RootRemoved
  <2>3. work' = old
    BY <1>0 DEF TableEdges, RootEdges
  <2>4. EdgesOf(DOMAIN refs', table', held') = without
    BY <1>0
  <2>5. Balanced(refs, job, work, all)
    BY DEF IInv, EdgesInv
  <2> HIDE DEF all, without, old
  <2>6. Balanced(refs, "drop", old, without)
    BY <2>1, <2>2, <2>5, BalancedDown
  <2>. QED
    BY <1>0, <2>3, <2>4, <2>6 DEF EdgesInv
<1>4. GatherInv'
  BY <1>0, GathersFrame DEF IInv, GatherInv
<1>5. FlushInv' /\ WorkInv'
  BY <1>0, <1>1, <1>2, NotFlushing
<1>. QED
  BY <1>1, <1>2, <1>3, <1>4, <1>5 DEF IInv

-----------------------------------------------------------------------------
(***************************************************************************)
(* Theorems.                                                               *)
(***************************************************************************)

\* A step that changes nothing keeps the invariant.
LEMMA StutterKeeps ==
    ASSUME IInv, UNCHANGED vars
    PROVE  IInv'
<1> USE DEF vars, memory
<1>1. TypeInv' /\ CallInv' /\ EdgesInv'
  BY DEF IInv, TypeInv, CallInv, EdgesInv
<1>2. GatherInv'
  BY GathersFrame DEF IInv, GatherInv
<1>3. FlushInv'
  BY FlushesFrame DEF IInv, FlushInv
<1>4. WorkInv'
  BY DEF IInv, WorkInv, Stored
<1>. QED
  BY <1>1, <1>2, <1>3, <1>4 DEF IInv

\* The invariant of the exchanges holds in every state.
LEMMA Invariance == Spec => []IInv
<1>1. IInv /\ [Next]_vars => IInv'
  <2> SUFFICES ASSUME IInv, [Next]_vars PROVE IInv'
    OBVIOUS
  <2>1. ASSUME NEW r \in Receiver, Deliver(r) \/ Learn(r) \/ Close(r)
        PROVE  IInv'
    BY <2>1, DeliverKeeps, IgnoreKeeps, RefuseKeeps, HoldKeeps, AcquireKeeps, AskKeeps,
       FlushKeeps, CloseKeeps DEF Learn
  <2>2. CASE Work
    BY <2>2, InsertEndKeeps, DropEndKeeps, InsertKeeps, DropNodeKeeps DEF Work
  <2>3. ASSUME NEW o \in Other, NEW tree \in Trees, Create(o, tree)
        PROVE  IInv'
    BY <2>3, CreateKeeps
  <2>4. ASSUME NEW t \in Table, Discard(t)
        PROVE  IInv'
    BY <2>4, DiscardKeeps
  <2>5. CASE UNCHANGED vars
    BY <2>5, StutterKeeps
  <2>. QED
    BY <2>1, <2>2, <2>3, <2>4, <2>5 DEF Next
<1>. QED
  BY <1>1, InitIInv, PTL DEF Spec

\* At every step of every call, whatever receivers and tables share, give up, drop
\* or take over, a node is stored exactly while something refers to it, and its
\* count in the store is the number of references there are.
THEOREM CountedExactly == Spec => []CountsExact
<1>1. IInv => CountsExact
  <2> SUFFICES ASSUME IInv PROVE CountsExact
    OBVIOUS
  <2>1. Counted = CountedOf(job, work, References)
    BY DEF Counted, CountedOf
  <2>2. Exact(refs, Counted)
    BY <2>1, ReferencesAre DEF IInv, EdgesInv, Balanced
  <2>. QED
    BY <2>2 DEF CountsExact, Exact, Into, Stored
<1>. QED
  BY <1>1, Invariance, PTL

\* Flush never comes to a node that is neither stored nor acquired, for any tree,
\* any answers that were repeated, lost or reordered, and any other tables.
THEOREM FlushNeverMisses == Spec => []FlushFinds
<1>1. IInv => FlushFinds
  BY DEF IInv, WorkInv, FlushFinds
<1>. QED
  BY <1>1, Invariance, PTL

-----------------------------------------------------------------------------
(***************************************************************************)
(* Functions of a number defined by a step from one number to the next.    *)
(***************************************************************************)
Repeats(f, step, start, n) ==
    f = [i \in 0..n |-> IF i = 0 THEN start ELSE step[f[i - 1]]]

\* A step can be repeated any number of times.
LEMMA RepeatExists ==
    ASSUME NEW step, NEW start, NEW n \in Nat
    PROVE  \E f : Repeats(f, step, start, n)
<1> DEFINE Way(f, m) == f = [i \in 0..m |-> IF i = 0 THEN start ELSE step[f[i - 1]]]
           S == { m \in Nat : \E f : Way(f, m) }
<1>1. 0 \in S
  <2>1. Way([i \in 0..0 |-> start], 0)
    OBVIOUS
  <2>. QED
    BY <2>1
<1>2. ASSUME NEW m \in Nat, m \in S
      PROVE  m + 1 \in S
  <2>1. PICK f : Way(f, m)
    BY <1>2
  <2> DEFINE g == [i \in 0..(m + 1) |-> IF i = m + 1 THEN step[f[m]] ELSE f[i]]
  <2>2. ASSUME NEW i \in 0..(m + 1)
        PROVE  g[i] = IF i = 0 THEN start ELSE step[g[i - 1]]
    <3>1. CASE i = m + 1
      <4>1. i # 0 /\ i - 1 = m /\ m \in 0..(m + 1) /\ m # m + 1
        BY <3>1
      <4>2. g[m] = f[m]
        BY <4>1
      <4>. QED
        BY <3>1, <4>1, <4>2
    <3>2. CASE i # m + 1
      <4>1. i \in 0..m /\ (i # 0 => i - 1 \in 0..(m + 1) /\ i - 1 # m + 1)
        BY <3>2
      <4>2. g[i] = f[i] /\ (i # 0 => g[i - 1] = f[i - 1])
        BY <3>2, <4>1
      <4>3. f[i] = IF i = 0 THEN start ELSE step[f[i - 1]]
        BY <2>1, <4>1
      <4>. QED
        BY <4>2, <4>3
    <3>. QED
      BY <3>1, <3>2
  <2>3. g = [i \in 0..(m + 1) |-> g[i]]
    OBVIOUS
  <2>4. Way(g, m + 1)
    <3> HIDE DEF g
    <3>. QED
      BY <2>2, <2>3
  <2>5. \E h : Way(h, m + 1)
    <3> HIDE DEF g, Way
    <3>. QED
      BY <2>4
  <2>. QED
    <3> HIDE DEF Way
    <3>. QED
      BY <2>5
<1> HIDE DEF S
<1>3. n \in S
  BY <1>1, <1>2, SetInduction
<1>4. \A f : Way(f, n) <=> Repeats(f, step, start, n)
  BY Zenon DEF Repeats
<1> HIDE DEF Way
<1>. QED
  BY <1>3, <1>4 DEF S

\* What TwoTo is a value of.
IsTwoTo(f) == f = [n \in 0..(AnswerDepth + 1) |-> IF n = 0 THEN 1 ELSE 2 * f[n - 1]]

\* There is such a function: doubling, repeated.
LEMMA TwoToExists == \E f : IsTwoTo(f)
<1> DEFINE double == [n \in Nat |-> 2 * n]
           top == AnswerDepth + 1
<1>1. top \in Nat /\ AnswerDepth \in Nat
  BY SyncAssumption
<1>2. PICK f : Repeats(f, double, 1, top)
  BY <1>1, RepeatExists
<1> HIDE DEF top
<1>3. f = [i \in 0..top |-> IF i = 0 THEN 1 ELSE double[f[i - 1]]]
  BY <1>2 DEF Repeats
<1> DEFINE S == { n \in Nat : n <= top => f[n] \in Nat }
<1>4. 0 \in S
  <2>1. f[0] = 1
    BY <1>1, <1>3
  <2>. QED
    BY <2>1
<1>5. ASSUME NEW n \in Nat, n \in S
      PROVE  n + 1 \in S
  <2>1. SUFFICES ASSUME n + 1 <= top PROVE f[n + 1] \in Nat
    OBVIOUS
  <2>2. n + 1 \in 0..top /\ n + 1 # 0 /\ (n + 1) - 1 = n /\ f[n] \in Nat
    BY <1>1, <1>5, <2>1
  <2>3. f[n + 1] = double[f[n]]
    BY <1>3, <2>2
  <2>. QED
    BY <2>2, <2>3
<1>6. Nat \subseteq S
  <2> HIDE DEF S
  <2>. QED
    BY <1>4, <1>5, SetInduction
<1>7. ASSUME NEW n \in 0..top
      PROVE  f[n] = IF n = 0 THEN 1 ELSE 2 * f[n - 1]
  <2>1. CASE n = 0
    BY <1>3, <2>1
  <2>2. CASE n # 0
    <3>1. n - 1 \in Nat /\ n - 1 <= top
      BY <1>1, <2>2
    <3>2. f[n - 1] \in Nat
      BY <1>6, <3>1
    <3>3. f[n] = double[f[n - 1]]
      BY <1>3, <2>2
    <3>. QED
      BY <2>2, <3>2, <3>3
  <2>. QED
    BY <2>1, <2>2
<1>8. f = [n \in 0..top |-> f[n]]
  BY <1>3
<1>9. f = [n \in 0..top |-> IF n = 0 THEN 1 ELSE 2 * f[n - 1]]
  <2> HIDE DEF S, double
  <2>. QED
    BY ONLY <1>7, <1>8
<1>. QED
  BY <1>9, Zenon DEF IsTwoTo, top

\* TwoTo doubles from one number to the next, and is positive.
LEMMA TwoToFacts ==
    /\ TwoTo[0] = 1
    /\ \A n \in 0..AnswerDepth : TwoTo[n + 1] = 2 * TwoTo[n]
    /\ \A n \in 0..(AnswerDepth + 1) : TwoTo[n] \in Nat \ {0}
<1>0. AnswerDepth \in Nat
  BY SyncAssumption
<1>1. TwoTo = [n \in 0..(AnswerDepth + 1) |-> IF n = 0 THEN 1 ELSE 2 * TwoTo[n - 1]]
  <2>1. \E f : f = [n \in 0..(AnswerDepth + 1) |-> IF n = 0 THEN 1 ELSE 2 * f[n - 1]]
    BY TwoToExists, Zenon DEF IsTwoTo
  <2>. QED
    BY <2>1, Zenon DEF TwoTo
<1>2. TwoTo[0] = 1
  BY <1>0, <1>1
<1>3. ASSUME NEW n \in 0..AnswerDepth
      PROVE  TwoTo[n + 1] = 2 * TwoTo[n]
  <2>1. n + 1 \in 0..(AnswerDepth + 1) /\ n + 1 # 0 /\ (n + 1) - 1 = n
    BY <1>0
  <2>. QED
    BY <1>1, <2>1
<1> DEFINE S == { n \in Nat : n <= AnswerDepth + 1 => TwoTo[n] \in Nat \ {0} }
<1>4. 0 \in S
  BY <1>2
<1>5. ASSUME NEW n \in Nat, n \in S
      PROVE  n + 1 \in S
  <2>1. SUFFICES ASSUME n + 1 <= AnswerDepth + 1 PROVE TwoTo[n + 1] \in Nat \ {0}
    OBVIOUS
  <2>2. n \in 0..AnswerDepth /\ TwoTo[n] \in Nat \ {0}
    BY <1>0, <1>5, <2>1
  <2>3. TwoTo[n + 1] = 2 * TwoTo[n]
    BY <1>3, <2>2
  <2>. QED
    BY <2>2, <2>3
<1>6. Nat \subseteq S
  <2> HIDE DEF S
  <2>. QED
    BY <1>4, <1>5, SetInduction
<1>. QED
  BY <1>0, <1>2, <1>3, <1>6

\* The bound on offences is a number.
LEMMA BoundNat == Bound \in Nat
<1>1. AnswerDepth \in Nat
  BY SyncAssumption
<1>2. /\ TwoTo[AnswerDepth + 1] = 2 * TwoTo[AnswerDepth]
      /\ TwoTo[AnswerDepth] \in Nat \ {0}
  BY <1>1, TwoToFacts
<1>. QED
  BY <1>2 DEF Bound

-----------------------------------------------------------------------------
(***************************************************************************)
(* Types.  That a receiver asks for nodes of the tree sent only follows    *)
(* from what it gathers, while it does; after that it only forgets.        *)
(***************************************************************************)
ShapeInv ==
    /\ phase \in [Receiver -> Phases]
    /\ DOMAIN offences = Receiver
    /\ \A r \in Receiver : DOMAIN frontier[r] \subseteq DOMAIN At /\ offences[r] \in 0..Bound

\* What a receiver that gathers nodes asks for is in the tree.
LEMMA GatheredAt ==
    ASSUME NEW r \in Receiver, Gathers(r), phase[r] \in {"waiting", "learning"}
    PROVE  DOMAIN frontier[r] \subseteq DOMAIN At
  BY DEF Gathers, Blank, Begun, Placed, Known

\* Every step keeps these shapes.
LEMMA ShapeKeeps ==
    ASSUME IInv, IInv', ShapeInv, [Next]_vars
    PROVE  ShapeInv'
<1> USE BoundNat
<1>0. DOMAIN frontier = Receiver
  BY DEF IInv, TypeInv
<1>1. ASSUME NEW r \in Receiver, Deliver(r)
      PROVE  ShapeInv'
  BY <1>1 DEF Deliver, Lend, ShapeInv, Phases, memory
<1>2. ASSUME NEW r \in Receiver, Ignore(r)
      PROVE  ShapeInv'
  BY <1>2 DEF Ignore, Tolerable, ShapeInv, memory
<1>3. ASSUME NEW r \in Receiver, Refuse(r) \/ Ask(r) \/ Flush(r)
      PROVE  ShapeInv'
  BY <1>3 DEF Refuse, Ask, Flush, ShapeInv, Phases, memory
<1>4. ASSUME NEW r \in Receiver, Hold(r) \/ Acquire(r)
      PROVE  ShapeInv'
  <2>1. /\ phase' = phase /\ phase[r] = "learning"
        /\ offences' = [offences EXCEPT ![r] = 0]
        /\ \A s \in Receiver : s # r => frontier'[s] = frontier[s]
    BY <1>0, <1>4 DEF Hold, Acquire, Accept, Reads
  <2>2. DOMAIN frontier'[r] \subseteq DOMAIN At
    <3>1. Gathers(r)'
      BY DEF IInv, GatherInv
    <3>2. phase'[r] \in {"waiting", "learning"}
      BY <2>1
    <3>. QED
      BY <3>1, <3>2 DEF Gathers, Blank, Begun, Placed, Known
  <2>. QED
    BY <2>1, <2>2 DEF ShapeInv
<1>5. ASSUME NEW r \in Receiver, Close(r)
      PROVE  ShapeInv'
  <2>1. frontier' = [frontier EXCEPT ![r] = <<>>] /\ offences' = offences
        /\ phase' = [phase EXCEPT ![r] = "closing"]
    BY <1>5 DEF Close
  <2>2. DOMAIN frontier'[r] = {}
    BY <1>0, <2>1
  <2>3. \A s \in Receiver : s # r => frontier'[s] = frontier[s]
    BY <1>0, <2>1
  <2>. QED
    BY <2>1, <2>2, <2>3 DEF ShapeInv, Phases
<1>6. CASE Work
  <2>1. UNCHANGED <<frontier, offences>>
    BY <1>6 DEF Work, InsertEnd, DropEnd, Insert, DropNode, memory
  <2>2. phase' \in [Receiver -> Phases]
    BY <1>6 DEF Work, InsertEnd, DropEnd, Insert, DropNode, ShapeInv, Phases
  <2>. QED
    BY <2>1, <2>2 DEF ShapeInv
<1>7. CASE (\E o \in Other, tree \in Trees : Create(o, tree)) \/ \E t \in Table : Discard(t)
  <2>1. UNCHANGED <<frontier, offences, phase>>
    BY <1>7 DEF Create, Discard, memory
  <2>. QED
    BY <2>1 DEF ShapeInv
<1>8. CASE UNCHANGED vars
  BY <1>8 DEF vars, memory, ShapeInv
<1>. QED
  BY <1>1, <1>2, <1>3, <1>4, <1>5, <1>6, <1>7, <1>8 DEF Next, Learn

\* Counts are positive, a call has the store exactly while one runs, receivers ask
\* for nodes of the tree that is sent only, and tolerate no more than the bound.
THEOREM ExchangeTypes == Spec => []TypeOK
<1>1. Init => ShapeInv
  BY BoundNat DEF Init, ShapeInv, Phases
<1>2. IInv /\ IInv' /\ ShapeInv /\ [Next]_vars => ShapeInv'
  BY ShapeKeeps
<1>3. IInv /\ ShapeInv => TypeOK
  <2> SUFFICES ASSUME IInv, ShapeInv PROVE TypeOK
    OBVIOUS
  <2>1. \A label \in DOMAIN refs : refs[label] \in Nat \ {0}
    BY DEF IInv, EdgesInv, Balanced, Exact
  <2>2. /\ lent \in Table \cup {Absent}
        /\ job \in {"none", "learn", "insert", "drop"}
    BY DEF IInv, TypeInv, Resting
  <2>3. /\ (job = "none") = Free
        /\ \A r \in Receiver : phase[r] \in {"learning", "flushing", "closing"} => lent = r
    BY DEF IInv, CallInv, Free
  <2>. QED
    BY <2>1, <2>2, <2>3 DEF ShapeInv, TypeOK
<1>. QED
  BY <1>1, <1>2, <1>3, Invariance, PTL DEF Spec

-----------------------------------------------------------------------------
(***************************************************************************)
(* Tables that are whole.  While nothing is counted up every reference is  *)
(* counted, to a node that is stored: so from its root down all of a table *)
(* is.  What a table had when another one began to be made it keeps, as    *)
(* the counts only grow until that is done.                                *)
(***************************************************************************)

\* No receiver has another root than the one sent.
AsSent == \A r \in Receiver : table[r] \in {Absent, Sent}

\* The root a receiver flushes is the one that was sent.
LEMMA FlushedAsSent ==
    ASSUME IInv, NEW r \in Receiver, Flush(r)
    PROVE  (IF root[r] = Absent THEN Empty ELSE root[r]) = Sent
<1>1. phase[r] = "learning" /\ inbox[r] = <<>>
  BY DEF Flush
<1>2. IF root[r] = Absent THEN Blank(r) ELSE Begun(r)
  BY <1>1 DEF IInv, GatherInv, Gathers
<1>3. CASE root[r] = Absent
  <2>1. Hello = <<>>
    BY <1>1, <1>2, <1>3 DEF Blank
  <2>2. CASE Sent # Empty
    <3>1. Hello = <<[node |-> Sent, ttl |-> AnswerDepth]>>
      BY <2>2 DEF Hello, Grab
    <3>. QED
      BY <2>1, <3>1
  <2>. QED
    BY <1>3, <2>2
<1>. QED
  BY <1>2, <1>3 DEF Begun

\* A table that is received has the root of the table that was sent, whatever the
\* network did to the answers, from the moment it has one until it is dropped.
THEOREM ReceivedAsSent == Spec => []AsSent
<1>1. Init => AsSent
  BY DEF Init, AsSent, Table
<1>2. ASSUME AsSent, IInv, [Next]_vars
      PROVE  AsSent'
  <2>1. DOMAIN table = Table /\ Receiver \subseteq Table
    BY <1>2, Apart DEF IInv, TypeInv
  <2>2. CASE table' = table
    BY <1>2, <2>2 DEF AsSent
  <2>3. ASSUME NEW r \in Receiver, Flush(r)
        PROVE  AsSent'
    <3>1. table' = [table EXCEPT ![r] = IF root[r] = Absent THEN Empty ELSE root[r]]
      BY <2>3 DEF Flush
    <3>2. table' = [table EXCEPT ![r] = Sent]
      BY <1>2, <2>3, <3>1, FlushedAsSent
    <3>. QED
      BY <1>2, <2>1, <3>2 DEF AsSent
  <2>4. ASSUME NEW o \in Other, NEW tree \in Trees, Create(o, tree)
        PROVE  AsSent'
    <3>1. o \notin Receiver /\ table' = [table EXCEPT ![o] = tree]
      BY <2>4, Apart DEF Create
    <3>. QED
      BY <1>2, <2>1, <3>1 DEF AsSent
  <2>5. ASSUME NEW t \in Table, Discard(t)
        PROVE  AsSent'
    <3>1. table' = [table EXCEPT ![t] = Absent]
      BY <2>5 DEF Discard
    <3>. QED
      BY <1>2, <2>1, <3>1 DEF AsSent
  <2>6. ASSUME NEW r \in Receiver, Deliver(r) \/ Learn(r) \/ Close(r)
        PROVE  table' = table \/ Flush(r)
    BY <2>6 DEF Deliver, Learn, Close, Ignore, Refuse, Hold, Acquire, Accept, Ask
  <2>7. CASE Work
    <3>1. table' = table
      BY <2>7 DEF Work, InsertEnd, DropEnd, Insert, DropNode
    <3>. QED
      BY <2>2, <3>1
  <2>8. CASE UNCHANGED vars
    BY <2>2, <2>8 DEF vars
  <2>. QED
    BY <1>2, <2>2, <2>3, <2>4, <2>5, <2>6, <2>7, <2>8 DEF Next
<1>. QED
  BY <1>1, <1>2, Invariance, PTL DEF Spec

\* All of a tree is in the store.
Whole(label) == \A p \in Places : Descend(label, p) = Empty \/ Stored(Descend(label, p))

Made(t) == table[t] # Absent /\ ~(job = "insert" /\ lent = t)

WholeInv == \A t \in Table : Made(t) => Whole(table[t])

\* While no call counts up, what any node, table or receiver refers to is stored.
LEMMA ReferredStored ==
    ASSUME IInv, job # "insert", NEW edge \in EdgesOf(DOMAIN refs, table, held)
    PROVE  Stored(edge.to)
  BY DEF IInv, EdgesInv, Balanced, CountedOf, Exact, Stored

\* Then every table is whole.
LEMMA WholeAtRest ==
    ASSUME IInv, job # "insert", NEW t \in Table, table[t] # Absent
    PROVE  Whole(table[t])
<1> DEFINE S == { p \in Places : Descend(table[t], p) = Empty \/ Stored(Descend(table[t], p)) }
<1>1. Root \in S
  <2>1. Descend(table[t], Root) = table[t] /\ Root \in Places
    BY DescendStep, RootPlace
  <2>2. ASSUME table[t] # Empty
        PROVE  Stored(table[t])
    <3> DEFINE edge == Edge("table", t, table[t])
    <3>1. edge \in RootEdges(t, table[t])
      BY <2>2 DEF RootEdges
    <3>2. edge.to = table[t]
      BY EdgeTo
    <3> HIDE DEF edge
    <3>3. edge \in EdgesOf(DOMAIN refs, table, held)
      BY <3>1, InEdges
    <3>. QED
      BY <3>2, <3>3, ReferredStored
  <2>. QED
    BY <2>1, <2>2
<1>2. ASSUME NEW p \in Places, NEW d \in Direction, Len(p) < PathLength, p \in S
      PROVE  Append(p, d) \in S
  <2> DEFINE node == Descend(table[t], p)
  <2>1. Append(p, d) \in Places /\ Descend(table[t], Append(p, d)) = Child(node, d)
    <3>1. Append(p, d) \in Places
      BY <1>2, Deeper
    <3>. QED
      BY <3>1, DescendStep
  <2>2. node = Empty \/ Stored(node)
    BY <1>2
  <2> HIDE DEF node
  <2>3. CASE ~IsInternal(node)
    BY <2>1, <2>2, <2>3 DEF Child
  <2>4. CASE IsInternal(node) /\ Child(node, d) # Empty
    <3> DEFINE edge == Edge(d, node, Child(node, d))
    <3>1. edge \in ChildEdges(node)
      BY <2>4 DEF ChildEdges, Sides
    <3>2. node \in DOMAIN refs
      BY <2>2, <2>4 DEF Stored, IsInternal, Empty
    <3>3. edge.to = Child(node, d)
      BY EdgeTo
    <3> HIDE DEF edge
    <3>4. edge \in EdgesOf(DOMAIN refs, table, held)
      BY <3>1, <3>2, InEdges
    <3>5. Stored(Child(node, d))
      BY <3>3, <3>4, ReferredStored
    <3>. QED
      BY <2>1, <3>5
  <2>5. CASE Child(node, d) = Empty
    BY <2>1, <2>5
  <2>. QED
    BY <2>3, <2>4, <2>5
<1>3. Places \subseteq S
  <2> HIDE DEF S
  <2>. QED
    BY <1>1, <1>2, PlaceInduction
<1>. QED
  BY <1>3 DEF Whole

\* A call that counts up removes no node and changes no table but the one it makes.
LEMMA WholeWhileMade ==
    ASSUME IInv, WholeInv, [Next]_vars, job' = "insert", NEW t \in Table, Made(t)'
    PROVE  Whole(table[t])'
<1>1. Made(t) /\ table'[t] = table[t] /\ DOMAIN refs \subseteq DOMAIN refs'
  <2>1. ASSUME NEW r \in Receiver, Deliver(r) \/ Learn(r) \/ Close(r)
        PROVE  Flush(r)
    <3>1. Deliver(r) \/ Ask(r) \/ Refuse(r) \/ Close(r) => job' # "insert"
      BY DEF Deliver, Close, Lend, Ask, Refuse, Restore
    <3>2. Ignore(r) \/ Hold(r) \/ Acquire(r) => job' # "insert"
      BY DEF Ignore, Hold, Acquire, Accept, Reads, IInv, CallInv
    <3>. QED
      BY <2>1, <3>1, <3>2 DEF Learn
  <2>2. ASSUME NEW r \in Receiver, Flush(r)
        PROVE  Made(t) /\ table'[t] = table[t] /\ DOMAIN refs \subseteq DOMAIN refs'
    <3>1. /\ lent = r /\ job = "learn" /\ lent' = lent /\ refs' = refs
          /\ table' = [table EXCEPT ![r] = IF root[r] = Absent THEN Empty ELSE root[r]]
      BY <2>2 DEF Flush, IInv, CallInv
    <3>2. t # r
      BY <3>1 DEF Made
    <3>3. table'[t] = table[t]
      BY <3>1, <3>2 DEF IInv, TypeInv
    <3>. QED
      BY <3>1, <3>3 DEF Made
  <2>3. CASE Work
    <3>1. \E edge \in work : Insert(edge)
      BY <2>3 DEF Work, InsertEnd, DropEnd, DropNode, Restore
    <3>2. PICK edge \in work : Insert(edge)
      BY <3>1
    <3>3. UNCHANGED <<job, lent, table>> /\ DOMAIN refs \subseteq DOMAIN refs'
      BY <3>2 DEF Insert
    <3>. QED
      BY <3>3 DEF Made
  <2>4. ASSUME NEW o \in Other, NEW tree \in Trees, Create(o, tree)
        PROVE  Made(t) /\ table'[t] = table[t] /\ DOMAIN refs \subseteq DOMAIN refs'
    <3>1. /\ lent = Absent /\ lent' = o /\ refs' = refs
          /\ table' = [table EXCEPT ![o] = tree]
      BY <2>4 DEF Create, Lend, Free
    <3>2. t # o
      BY <3>1 DEF Made
    <3>3. table'[t] = table[t]
      BY <3>1, <3>2 DEF IInv, TypeInv
    <3>4. job # "insert"
      BY <3>1 DEF IInv, CallInv
    <3>. QED
      BY <3>1, <3>3, <3>4 DEF Made
  <2>5. ASSUME NEW u \in Table, Discard(u)
        PROVE  FALSE
    BY <2>5 DEF Discard, Lend
  <2>6. CASE UNCHANGED vars
    BY <2>6 DEF vars, Made
  <2>. QED
    BY <2>1, <2>2, <2>3, <2>4, <2>5, <2>6 DEF Next
<1>2. Whole(table[t])
  BY <1>1 DEF WholeInv
<1>. QED
  BY <1>1, <1>2 DEF Whole, Stored

\* The other tables hold what they may.
OthersInv == \A o \in Other : table[o] \in Trees \cup {Absent}

\* All of the tree sent is where `At` says.
LEMMA SentAt ==
    ASSUME NEW p \in Places
    PROVE  Descend(Sent, p) = Empty \/ Descend(Sent, p) \in DOMAIN At
<1> DEFINE S == { q \in Places : Descend(Sent, q) = Empty \/ Descend(Sent, q) \in DOMAIN At }
<1>1. Root \in S
  BY DescendStep, RootPlace, SyncAssumption
<1>2. ASSUME NEW q \in Places, NEW d \in Direction, Len(q) < PathLength, q \in S
      PROVE  Append(q, d) \in S
  <2> DEFINE node == Descend(Sent, q)
  <2>1. Append(q, d) \in Places /\ Descend(Sent, Append(q, d)) = Child(node, d)
    BY <1>2, Deeper, DescendStep
  <2>2. node = Empty \/ node \in DOMAIN At
    BY <1>2
  <2> HIDE DEF node
  <2>3. CASE ~IsInternal(node)
    BY <2>1, <2>2, <2>3 DEF Child
  <2>4. CASE IsInternal(node) /\ Child(node, d) # Empty
    <3>1. d \in Sides(node) /\ node \in DOMAIN At
      BY <2>2, <2>4 DEF Sides, IsInternal, Empty
    <3>. QED
      BY <2>1, <3>1, ChildAt
  <2>5. CASE Child(node, d) = Empty
    BY <2>1, <2>5
  <2>. QED
    BY <2>3, <2>4, <2>5
<1>3. Places \subseteq S
  <2> HIDE DEF S
  <2>. QED
    BY <1>1, <1>2, PlaceInduction
<1>. QED
  BY <1>3

\* The tree sent is compact, with its leaves on the paths of their keys.
LEMMA SentTopology ==
    ASSUME NEW node \in Nodes(Sent)
    PROVE  Topology(Sent, node)
<1>1. node \in DOMAIN At
  <2>1. node # Empty
    BY DEF Nodes
  <2>. QED
    BY <2>1, NodesAtPlaces, SentAt
<1>2. /\ At[node] \in Seq(Direction) /\ Descend(Sent, At[node]) = node
      /\ WellFormed(At[node], node)
      /\ IsLeaf(node) => node.key \in Key
  BY <1>1, SyncAssumption DEF CheckNode
<1>3. ~(IsLeaf(node) /\ IsInternal(node))
  BY DEF IsLeaf, IsInternal
<1>4. ASSUME IsLeaf(node)
      PROVE  Descend(Sent, Path[node.key]) = node
  <2> DEFINE p == At[node]
             q == Path[node.key]
  <2>1. q \in Places /\ Len(q) = PathLength /\ node.key \in Key
    BY <1>2, <1>4, PathPlace
  <2>2. IsPrefix(p, q)
    BY <1>2, <1>3, <1>4 DEF WellFormed, Holds
  <2>3. p \in Places
    BY <1>2, <2>1, <2>2 DEF IsPrefix, Places
  <2>4. Above(p, q)
    BY <2>1, <2>2, <2>3, AboveFacts
  <2>5. ~IsInternal(Descend(Sent, p))
    BY <1>2, <1>3, <1>4
  <2>. QED
    BY <1>2, <2>1, <2>3, <2>4, <2>5, DescendEnds
<1>. QED
  BY <1>2, <1>3, <1>4 DEF Topology, WellFormed

\* No table that is done being made ever lacks a node, whatever the calls of other
\* tables and receivers drop of what it shares with them, and in the middle of any
\* of them; all of it is compact and on the paths of its keys; and a receiver that
\* says it is complete has the table that was sent, all of it.
THEOREM TablesStayWhole == Spec => []TablesWhole
<1>1. Init => WholeInv /\ OthersInv
  BY DEF Init, WholeInv, Made, OthersInv, Table
<1>2. ASSUME IInv, IInv', WholeInv, [Next]_vars
      PROVE  WholeInv'
  <2> SUFFICES ASSUME NEW t \in Table, Made(t)'
               PROVE  Whole(table[t])'
    BY DEF WholeInv
  <2>1. CASE job' = "insert"
    BY <1>2, <2>1, WholeWhileMade
  <2>2. (IInv /\ job # "insert" /\ table[t] # Absent => Whole(table[t]))'
    BY WholeAtRest, PTL
  <2>3. CASE job' # "insert"
    BY <1>2, <2>2, <2>3 DEF Made
  <2>. QED
    BY <2>1, <2>3
<1>3. ASSUME IInv, OthersInv, [Next]_vars
      PROVE  OthersInv'
  <2> SUFFICES ASSUME NEW o \in Other
               PROVE  table'[o] \in Trees \cup {Absent}
    BY DEF OthersInv
  <2>1. DOMAIN table = Table /\ o \in Table /\ o \notin Receiver /\ table[o] \in Trees \cup {Absent}
    BY <1>3, Apart DEF IInv, TypeInv, OthersInv, Table
  <2>2. CASE table' = table
    BY <2>1, <2>2
  <2>3. ASSUME NEW r \in Receiver, Flush(r)
        PROVE  table'[o] = table[o]
    BY <2>1, <2>3 DEF Flush
  <2>4. ASSUME NEW u \in Other, NEW tree \in Trees, Create(u, tree)
        PROVE  table'[o] \in Trees \cup {Absent}
    BY <2>1, <2>4 DEF Create
  <2>5. ASSUME NEW t \in Table, Discard(t)
        PROVE  table'[o] \in Trees \cup {Absent}
    BY <2>1, <2>5 DEF Discard
  <2>6. ASSUME NEW r \in Receiver, Deliver(r) \/ Learn(r) \/ Close(r)
        PROVE  table' = table \/ Flush(r)
    BY <2>6 DEF Deliver, Learn, Close, Ignore, Refuse, Hold, Acquire, Accept, Ask
  <2>7. CASE Work
    <3>1. table' = table
      BY <2>7 DEF Work, InsertEnd, DropEnd, Insert, DropNode
    <3>. QED
      BY <2>2, <3>1
  <2>8. CASE UNCHANGED vars
    BY <2>2, <2>8 DEF vars
  <2>. QED
    BY <1>3, <2>1, <2>2, <2>3, <2>4, <2>5, <2>6, <2>7, <2>8 DEF Next
<1>4. ASSUME IInv, WholeInv, AsSent, OthersInv
      PROVE  TablesWhole
  <2> SUFFICES ASSUME NEW t \in Table, table[t] # Absent, lent # t
               PROVE  CheckTable(t) /\ (t \in Receiver => table[t] = Sent)
    BY DEF TablesWhole
  <2>1. Whole(table[t])
    BY <1>4 DEF WholeInv, Made
  <2>2. table[t] = Sent \/ table[t] \in Trees
    BY <1>4 DEF AsSent, OthersInv, Table
  <2>3. ASSUME NEW node \in Nodes(table[t])
        PROVE  Stored(node) /\ Topology(table[t], node)
    <3>1. node # Empty /\ \E p \in Places : node = Descend(table[t], p)
      BY NodesAtPlaces DEF Nodes
    <3>2. Stored(node)
      BY <2>1, <3>1 DEF Whole
    <3>3. Topology(table[t], node)
      BY <2>2, SentTopology, TreesAssumption
    <3>. QED
      BY <3>2, <3>3
  <2>. QED
    BY <1>4, <2>3 DEF CheckTable, AsSent
<1>. QED
  BY <1>1, <1>2, <1>3, <1>4, Invariance, ReceivedAsSent, PTL DEF Spec

-----------------------------------------------------------------------------
(***************************************************************************)
(* Where a stored node is found to be.  While a call learns, all that is   *)
(* below a stored node is stored, so the way down from a node of the tree  *)
(* sent stays in that tree, and ends at two leaves whose digests part just *)
(* where their parent is.                                                  *)
(***************************************************************************)

\* A node of the tree sent is at a place; an internal one has room below it.
LEMMA AtPlaces ==
    ASSUME NEW node \in DOMAIN At
    PROVE  /\ At[node] \in Places
           /\ IsInternal(node) => Len(At[node]) < PathLength
<1>1. At[node] \in Places /\ CheckNode(node)
  BY SyncAssumption DEF Places
<1>2. ASSUME IsInternal(node)
      PROVE  Len(At[node]) < PathLength
  <2>1. \E d \in Direction : Child(node, d) # Empty
    <3>1. ~IsLeaf(node)
      BY <1>2 DEF IsInternal, IsLeaf
    <3>2. Compact(node)
      BY <1>1, <3>1 DEF CheckNode, WellFormed
    <3>3. node.left # Empty \/ node.right # Empty
      BY <3>2 DEF Compact, IsInternal, Empty
    <3>4. Child(node, "L") = node.left /\ Child(node, "R") = node.right
      BY <1>2 DEF Child
    <3>. QED
      BY <3>3, <3>4 DEF Direction
  <2>2. PICK d \in Direction : Child(node, d) # Empty
    BY <2>1
  <2>3. d \in Sides(node)
    BY <1>2, <2>2 DEF Sides
  <2>4. Child(node, d) \in DOMAIN At /\ At[Child(node, d)] = Append(At[node], d)
    BY <2>3, ChildAt
  <2>5. Len(At[Child(node, d)]) <= PathLength
    BY <2>4, SyncAssumption
  <2>6. Len(Append(At[node], d)) = Len(At[node]) + 1 /\ Len(At[node]) \in Nat /\ PathLength \in Nat
    BY <1>1, Deeper, PlaceSeq
  <2>. QED
    BY <2>4, <2>5, <2>6
<1>. QED
  BY <1>1, <1>2

\* What two digests have in common is the place at which they part.
LEMMA PartingPlace ==
    ASSUME NEW p \in Places, Len(p) < PathLength, NEW j \in Key, NEW k \in Key,
           Holds(Left(p), j), Holds(Right(p), k)
    PROVE  LongestCommonPrefix({Path[j], Path[k]}) = p
<1> DEFINE paths == {Path[j], Path[k]}
           all == CommonPrefixes(paths)
<1>1. /\ Path[j] \in Places /\ Path[k] \in Places
      /\ Len(Path[j]) = PathLength /\ Len(Path[k]) = PathLength
      /\ PathLength \in Nat /\ Len(p) \in Nat
  BY PathPlace, PlaceSeq
<1>2. /\ Holds(p, j) /\ Path[j][Len(p) + 1] = "L"
      /\ Holds(p, k) /\ Path[k][Len(p) + 1] = "R"
  BY HoldsHalves
<1>3. Above(p, Path[j]) /\ Above(p, Path[k])
  BY <1>2, HoldsAbove
<1>4. \A q \in all : q \in Places /\ IsPrefix(q, Path[j]) /\ IsPrefix(q, Path[k])
  <2> SUFFICES ASSUME NEW q \in all
               PROVE  q \in Places /\ IsPrefix(q, Path[j]) /\ IsPrefix(q, Path[k])
    OBVIOUS
  <2>1. /\ IsPrefix(q, Path[j]) /\ IsPrefix(q, Path[k])
        /\ \E s \in paths : q \in Prefixes(s)
    BY DEF CommonPrefixes
  <2>2. PICK s \in paths : q \in Prefixes(s)
    BY <2>1
  <2>3. PICK i \in Key : s = Path[i]
    OBVIOUS
  <2>4. q \in Locations
    BY <2>2, <2>3 DEF Locations
  <2>. QED
    BY <2>1, <2>4, LocationsPlaces
<1>5. p \in all
  <2>1. p = SubSeq(Path[j], 1, Len(p))
    <3>1. /\ Path[j] \in Seq(Direction) /\ \A i \in 1..Len(p) : Path[j][i] \in Direction
          /\ p \in Seq(Direction) /\ Len(p) \in Int
      BY <1>1, PlaceSeq
    <3>2. /\ SubSeq(Path[j], 1, Len(p)) \in Seq(Direction)
          /\ Len(SubSeq(Path[j], 1, Len(p))) = Len(p)
          /\ \A i \in 1..Len(p) : SubSeq(Path[j], 1, Len(p))[i] = Path[j][i]
      BY <1>1, <3>1, SubSeqProperties
    <3>. QED
      BY <1>3, <3>1, <3>2, SeqEqual DEF Above
  <2>2. Len(p) \in 0..Len(Path[j])
    BY <1>1
  <2>3. p \in Prefixes(Path[j])
    BY <2>1, <2>2 DEF Prefixes
  <2>4. IsPrefix(p, Path[j]) /\ IsPrefix(p, Path[k])
    BY <1>2 DEF Holds
  <2>. QED
    BY <2>3, <2>4 DEF CommonPrefixes
<1>6. ASSUME NEW q \in all
      PROVE  Len(q) <= Len(p) /\ Above(q, Path[j])
  <2>1. q \in Places /\ Above(q, Path[j]) /\ Above(q, Path[k]) /\ Len(q) \in Nat
    BY <1>1, <1>4, AboveFacts, PlaceSeq
  <2>2. ASSUME Len(q) > Len(p)
        PROVE  FALSE
    <3>1. Len(p) + 1 \in 1..Len(q)
      BY <1>1, <2>1, <2>2
    <3>2. Path[j][Len(p) + 1] = q[Len(p) + 1] /\ Path[k][Len(p) + 1] = q[Len(p) + 1]
      BY <2>1, <3>1 DEF Above
    <3>. QED
      BY <1>2, <3>2
  <2>. QED
    BY <1>1, <2>1, <2>2
<1>7. ASSUME NEW q \in all, \A other \in all : Len(other) <= Len(q)
      PROVE  q = p
  <2>1. Len(q) = Len(p) /\ q \in Places
    <3>1. q \in Places
      BY <1>4
    <3>2. Len(q) \in Nat
      BY <3>1, PlaceSeq
    <3>3. Len(p) <= Len(q)
      BY <1>5, <1>7
    <3>4. Len(q) <= Len(p)
      BY <1>6
    <3>. QED
      BY <1>1, <3>1, <3>2, <3>3, <3>4
  <2>2. Above(q, Path[j])
    BY <1>6
  <2>3. Above(q, p) \/ Above(p, q)
    BY <1>1, <1>3, <2>1, <2>2, AboveAbove
  <2>. QED
    BY <2>1, <2>3, AboveFacts
<1> HIDE DEF all
<1>8. LongestCommonPrefix(paths)
        = CHOOSE longest \in all : \A other \in all : Len(other) <= Len(longest)
  BY DEF LongestCommonPrefix, all
<1>. QED
  BY <1>5, <1>6, <1>7, <1>8

\* One step down from a stored node of the tree sent: to an internal child, that is
\* stored too, or nowhere, when both children are leaves.
LEMMA DownStep ==
    ASSUME IInv, job # "insert", NEW node \in DOMAIN At, IsInternal(node), Stored(node)
    PROVE  \/ /\ Down[node] # node
              /\ Down[node] \in DOMAIN At /\ IsInternal(Down[node]) /\ Stored(Down[node])
              /\ Len(At[Down[node]]) = Len(At[node]) + 1
              /\ Above(At[node], At[Down[node]])
           \/ /\ Down[node] = node
              /\ node.left.key \in Key /\ Holds(Left(At[node]), node.left.key)
              /\ node.right.key \in Key /\ Holds(Right(At[node]), node.right.key)
<1>1. /\ Down[node] = IF IsInternal(node.left) THEN node.left
                      ELSE IF IsInternal(node.right) THEN node.right ELSE node
      /\ node \in DOMAIN refs
  BY DEF Down, Stored
<1>2. Child(node, "L") = node.left /\ Child(node, "R") = node.right
  BY DEF Child
<1>3. At[node] \in Places /\ Len(At[node]) < PathLength /\ Len(At[node]) \in Nat
  BY AtPlaces, PlaceSeq
<1>4. ASSUME NEW d \in Direction, Child(node, d) # Empty
      PROVE  /\ Child(node, d) \in DOMAIN At /\ Stored(Child(node, d))
             /\ At[Child(node, d)] = Append(At[node], d)
  <2>1. d \in Sides(node)
    BY <1>4 DEF Sides
  <2>2. Child(node, d) \in DOMAIN At /\ At[Child(node, d)] = Append(At[node], d)
    BY <2>1, ChildAt
  <2> DEFINE edge == Edge(d, node, Child(node, d))
  <2>3. edge \in ChildEdges(node)
    BY <2>1 DEF ChildEdges
  <2>4. edge.to = Child(node, d)
    BY EdgeTo
  <2> HIDE DEF edge
  <2>5. edge \in EdgesOf(DOMAIN refs, table, held)
    BY <1>1, <2>3, InEdges
  <2>6. Stored(Child(node, d))
    BY <2>4, <2>5, ReferredStored
  <2>. QED
    BY <2>2, <2>6
<1>5. ASSUME NEW d \in Direction, IsInternal(Child(node, d)), Down[node] = Child(node, d)
      PROVE  /\ Down[node] # node
             /\ Down[node] \in DOMAIN At /\ IsInternal(Down[node]) /\ Stored(Down[node])
             /\ Len(At[Down[node]]) = Len(At[node]) + 1
             /\ Above(At[node], At[Down[node]])
  <2>1. Child(node, d) # Empty
    BY <1>5 DEF IsInternal, Empty
  <2>2. /\ Child(node, d) \in DOMAIN At /\ Stored(Child(node, d))
        /\ At[Child(node, d)] = Append(At[node], d)
    BY <1>4, <2>1
  <2>3. /\ Len(Append(At[node], d)) = Len(At[node]) + 1 /\ Append(At[node], d) # At[node]
        /\ Append(At[node], d) \in Places
    BY <1>3, Deeper
  <2>4. Above(At[node], Append(At[node], d))
    BY <1>3, AboveFacts
  <2>. QED
    BY <1>5, <2>2, <2>3, <2>4
<1>6. CASE IsInternal(node.left)
  BY <1>1, <1>2, <1>5, <1>6 DEF Direction
<1>7. CASE ~IsInternal(node.left) /\ IsInternal(node.right)
  BY <1>1, <1>2, <1>5, <1>7 DEF Direction
<1>8. CASE ~IsInternal(node.left) /\ ~IsInternal(node.right)
  <2>1. CheckNode(node) /\ ~IsLeaf(node)
    BY SyncAssumption DEF IsInternal, IsLeaf
  <2>2. node.left # Empty /\ node.right # Empty
    BY <1>8, <2>1 DEF CheckNode, WellFormed, Compact
  <2>3. ASSUME NEW d \in Direction
        PROVE  Child(node, d).key \in Key /\ Holds(Append(At[node], d), Child(node, d).key)
    <3>1. ~IsInternal(Child(node, d)) /\ Child(node, d) # Empty
      BY <1>2, <1>8, <2>2 DEF Direction
    <3>2. Child(node, d) \in DOMAIN At /\ At[Child(node, d)] = Append(At[node], d)
      BY <1>4, <3>1
    <3>3. CheckNode(Child(node, d)) /\ (IsLeaf(Child(node, d)) => Child(node, d).key \in Key)
      BY <3>2, SyncAssumption
    <3>. QED
      BY <3>1, <3>2, <3>3 DEF CheckNode, WellFormed
  <2>4. Left(At[node]) = Append(At[node], "L") /\ Right(At[node]) = Append(At[node], "R")
    BY DEF Left, Right
  <2>. QED
    BY <1>1, <1>2, <1>8, <2>3, <2>4 DEF Direction
<1>. QED
  BY <1>6, <1>7, <1>8

\* A node that is stored is found to be where the tree sent has it.
LEMMA LocateTrue ==
    ASSUME IInv, job # "insert", NEW label \in DOMAIN At, IsInternal(label), Stored(label)
    PROVE  Locate(label) = At[label]
<1> DEFINE below == CHOOSE f : f = [n \in 0..PathLength |-> IF n = 0 THEN label ELSE Down[f[n - 1]]]
           ends == { n \in 0..PathLength : Down[below[n]] = below[n] }
           first(n) == /\ below[n] = Down[below[n]]
                       /\ \A m \in 0..(n - 1) : below[m] # below[n]
           dive == CHOOSE n \in 0..PathLength : first(n)
           keys == { below[dive].left.key, below[dive].right.key }
           common == LongestCommonPrefix({ Path[k] : k \in keys })
<1>1. PathLength \in Nat
  BY TreeAssumption
<1>2. Locate(label) = SubSeq(common, 1, Len(common) - dive)
  BY DEF Locate
<1>3. below = [n \in 0..PathLength |-> IF n = 0 THEN label ELSE Down[below[n - 1]]]
  <2>1. \E f : Repeats(f, Down, label, PathLength)
    BY <1>1, RepeatExists
  <2>. QED
    BY <2>1, Zenon DEF Repeats
<1> HIDE DEF below
<1>4. /\ below[0] = label
      /\ \A n \in 0..PathLength : n + 1 <= PathLength => below[n + 1] = Down[below[n]]
  <2>1. below[0] = label
    BY <1>1, <1>3
  <2>2. ASSUME NEW n \in 0..PathLength, n + 1 <= PathLength
        PROVE  below[n + 1] = Down[below[n]]
    <3>1. n + 1 \in 0..PathLength /\ n + 1 # 0 /\ (n + 1) - 1 = n
      BY <1>1, <2>2
    <3>. QED
      BY <1>3, <3>1
  <2>. QED
    BY <2>1, <2>2
<1>5. At[label] \in Places /\ Len(At[label]) \in Nat /\ Above(At[label], At[label])
  BY AtPlaces, PlaceSeq, AboveFacts
<1> DEFINE Fine(n) == /\ below[n] \in DOMAIN At /\ IsInternal(below[n]) /\ Stored(below[n])
                      /\ Len(At[below[n]]) = Len(At[label]) + n
                      /\ Above(At[label], At[below[n]])
           S == { n \in Nat : n <= PathLength => Fine(n) \/ \E m \in ends : m < n }
<1>6. 0 \in S
  BY <1>4, <1>5
<1>7. ASSUME NEW n \in Nat, n \in S
      PROVE  n + 1 \in S
  <2>1. SUFFICES ASSUME n + 1 <= PathLength, \A m \in ends : ~(m < n + 1) PROVE Fine(n + 1)
    OBVIOUS
  <2>2. n \in 0..PathLength /\ n \notin ends /\ \A m \in ends : ~(m < n)
    BY <1>1, <2>1
  <2>3. Fine(n) /\ Down[below[n]] # below[n]
    BY <1>7, <2>1, <2>2
  <2>4. /\ Down[below[n]] \in DOMAIN At /\ IsInternal(Down[below[n]]) /\ Stored(Down[below[n]])
        /\ Len(At[Down[below[n]]]) = Len(At[below[n]]) + 1
        /\ Above(At[below[n]], At[Down[below[n]]])
    BY <2>3, DownStep
  <2>5. below[n + 1] = Down[below[n]]
    BY <1>4, <2>1, <2>2
  <2>6. Above(At[label], At[Down[below[n]]])
    <3>1. At[below[n]] \in Places /\ At[Down[below[n]]] \in Places
      BY <2>3, <2>4, AtPlaces
    <3>. QED
      BY <1>5, <2>3, <2>4, <3>1, AboveAbove
  <2>. QED
    BY <1>5, <2>3, <2>4, <2>5, <2>6
<1>8. Nat \subseteq S
  <2> HIDE DEF S
  <2>. QED
    BY <1>6, <1>7, SetInduction
<1>9. ends # {}
  <2>1. SUFFICES ASSUME ends = {} PROVE FALSE
    OBVIOUS
  <2>2. Fine(PathLength)
    BY <1>1, <1>8, <2>1
  <2>3. Len(At[below[PathLength]]) < PathLength
    BY <2>2, AtPlaces
  <2>. QED
    BY <1>1, <1>5, <2>2, <2>3
<1>10. PICK least \in ends : \A m \in ends : least <= m
  <2>1. ends \in SUBSET Nat
    BY <1>1
  <2> HIDE DEF ends
  <2>. QED
    BY <1>9, <2>1, LeastNatural
<1>11. first(least)
  <2>1. below[least] = Down[below[least]]
    OBVIOUS
  <2>2. ASSUME NEW m \in 0..(least - 1), below[m] = below[least]
        PROVE  FALSE
    <3>1. m \in 0..PathLength /\ m < least
      BY <1>1
    <3>2. m \in ends
      BY <2>1, <2>2, <3>1
    <3>. QED
      BY <1>10, <3>1, <3>2
  <2>. QED
    BY <2>1, <2>2
<1>12. dive \in 0..PathLength /\ first(dive)
  <2> HIDE DEF first
  <2>. QED
    BY <1>11
<1> HIDE DEF dive
<1>13. dive \in ends /\ \A m \in ends : ~(m < dive)
  <2>1. ASSUME NEW m \in ends, m < dive
        PROVE  FALSE
    <3>1. below[m] # below[dive]
      BY <1>1, <1>12, <2>1
    <3> DEFINE T == { n \in Nat : m + n <= PathLength => below[m + n] = below[m] }
    <3>2. 0 \in T
      BY <1>1
    <3>3. ASSUME NEW n \in Nat, n \in T
          PROVE  n + 1 \in T
      <4>1. SUFFICES ASSUME m + (n + 1) <= PathLength PROVE below[m + (n + 1)] = below[m]
        OBVIOUS
      <4>2. m + n \in 0..PathLength /\ (m + n) + 1 <= PathLength /\ m + (n + 1) = (m + n) + 1
        BY <1>1, <4>1
      <4>3. below[m + n] = below[m] /\ below[(m + n) + 1] = Down[below[m + n]]
        BY <1>4, <3>3, <4>2
      <4>. QED
        BY <4>2, <4>3
    <3>4. Nat \subseteq T
      <4> HIDE DEF T
      <4>. QED
        BY <3>2, <3>3, SetInduction
    <3>5. dive - m \in Nat /\ m + (dive - m) = dive /\ dive <= PathLength
      BY <1>1, <1>12, <2>1
    <3>6. below[dive] = below[m]
      BY <3>4, <3>5
    <3>. QED
      BY <3>1, <3>6
  <2>. QED
    BY <1>12, <2>1
<1> DEFINE node == below[dive]
<1>14. Fine(dive) /\ Down[node] = node
  BY <1>1, <1>8, <1>12, <1>13
<1>15. /\ node.left.key \in Key /\ Holds(Left(At[node]), node.left.key)
       /\ node.right.key \in Key /\ Holds(Right(At[node]), node.right.key)
  BY <1>14, DownStep
<1>16. common = At[node]
  <2>1. At[node] \in Places /\ Len(At[node]) < PathLength
    BY <1>14, AtPlaces
  <2>2. { Path[k] : k \in keys } = { Path[node.left.key], Path[node.right.key] }
    OBVIOUS
  <2> HIDE DEF node
  <2>3. LongestCommonPrefix({ Path[node.left.key], Path[node.right.key] }) = At[node]
    BY <1>15, <2>1, PartingPlace
  <2>. QED
    BY <2>2, <2>3 DEF node
<1>17. SubSeq(At[node], 1, Len(At[label])) = At[label]
  <2> DEFINE p == At[label]
             q == At[node]
  <2>1. Above(p, q) /\ Len(p) <= Len(q) /\ q \in Places /\ p \in Places
    BY <1>5, <1>14, AtPlaces DEF Above
  <2> HIDE DEF p, q
  <2>2. /\ p \in Seq(Direction) /\ Len(p) \in Nat /\ Len(q) \in Nat
        /\ \A i \in 1..Len(q) : q[i] \in Direction
    BY <2>1, PlaceSeq
  <2>3. /\ SubSeq(q, 1, Len(p)) \in Seq(Direction)
        /\ Len(SubSeq(q, 1, Len(p))) = Len(p)
        /\ \A i \in 1..Len(p) : SubSeq(q, 1, Len(p))[i] = q[i]
    <3>1. \A i \in 1..Len(p) : q[i] \in Direction
      BY <2>1, <2>2
    <3>. QED
      BY <2>2, <3>1, SubSeqProperties
  <2>4. SubSeq(q, 1, Len(p)) = p
    BY <2>1, <2>2, <2>3, SeqEqual DEF Above
  <2>. QED
    BY <2>4 DEF p, q
<1>18. Len(common) - dive = Len(At[label])
  <2>1. Len(At[node]) = Len(At[label]) + dive /\ dive \in Nat
    BY <1>1, <1>12, <1>14
  <2>. QED
    BY <1>5, <1>16, <2>1
<1> HIDE DEF common, node
<1>. QED
  BY <1>2, <1>16, <1>17, <1>18

\* No node of the tree sent that a receiver has sighted is taken for malicious,
\* whatever became of the answers on the way and of the store meanwhile.
LEMMA NeverMalicious ==
    ASSUME IInv, NEW r \in Receiver, Reads(r), Sighted(r)
    PROVE  ~Malicious(r)
<1>1. /\ Node(r) \in DOMAIN At /\ Location(r) = At[Node(r)] /\ Label(r) = Node(r)
  BY Reading
<1>2. WellFormed(Location(r), Node(r))
  BY <1>1, SyncAssumption DEF CheckNode
<1>3. ASSUME IsInternal(Node(r)), Stored(Label(r))
      PROVE  Locate(Label(r)) = Location(r)
  <2>1. job # "insert"
    BY Alone DEF Reads
  <2>. QED
    BY <1>1, <1>3, <2>1, LocateTrue
<1>. QED
  BY <1>2, <1>3 DEF Malicious, Misplaced

-----------------------------------------------------------------------------
(***************************************************************************)
(* What is left of an answer, over an ordered network.  First come nodes   *)
(* below one that was held, which the receiver does not look for: each may *)
(* lead to as many offences as the sender can grab nodes from it.  Then    *)
(* come nodes it asked for, each once.                                     *)
(***************************************************************************)
Grabs == [node : DOMAIN At, ttl : 0..AnswerDepth]

\* How many nodes the sender grabs from one, at most, itself included.
Weight(ttl) == TwoTo[ttl + 1] - 1

\* The first m grabs lead to n nodes at most: what is left of n after each.
Fits(s, m, n) ==
    \E left \in [0..m -> Nat] :
        /\ left[0] <= n
        /\ \A i \in 1..m : left[i] + Weight(s[i].ttl) <= left[i - 1]

\* A node whose parent is not among those known.
Outside(known, node) ==
    \E above \in DOMAIN At \ known : \E d \in Sides(above) : node = Child(above, d)

Queue(s, m, known, asked, n) ==
    /\ s \in Seq(Grabs) /\ m \in 0..Len(s)
    /\ \A i \in 1..m : Outside(known, s[i].node)
    /\ \A i \in (m + 1)..Len(s) : s[i].node \in asked
    /\ \A i, j \in (m + 1)..Len(s) : i # j => s[i].node # s[j].node
    /\ Fits(s, m, n)

\* A node leads to itself and to what its two children lead to, and no node to more
\* than the bound on offences, but for itself.
LEMMA WeightFacts ==
    ASSUME NEW ttl \in 0..AnswerDepth
    PROVE  /\ Weight(ttl) \in Nat \ {0}
           /\ Weight(ttl) - 1 <= Bound
           /\ ttl > 0 => ttl - 1 \in 0..AnswerDepth /\ Weight(ttl) = 2 * Weight(ttl - 1) + 1
<1>0. AnswerDepth \in Nat /\ ttl \in Nat /\ ttl <= AnswerDepth
  BY SyncAssumption
<1>1. Weight(ttl) \in Nat \ {0}
  <2>1. TwoTo[ttl + 1] = 2 * TwoTo[ttl] /\ TwoTo[ttl] \in Nat \ {0}
    BY <1>0, TwoToFacts
  <2>. QED
    BY <2>1 DEF Weight
<1>2. Weight(ttl) - 1 <= Bound
  <2> DEFINE top == AnswerDepth + 1
             S == { n \in Nat : n <= top => TwoTo[top - n] <= TwoTo[top] }
  <2>0. top \in Nat /\ \A n \in 0..top : TwoTo[n] \in Nat \ {0}
    BY <1>0, TwoToFacts
  <2>1. 0 \in S
    BY <2>0
  <2>2. ASSUME NEW n \in Nat, n \in S
        PROVE  n + 1 \in S
    <3>1. SUFFICES ASSUME n + 1 <= top PROVE TwoTo[top - (n + 1)] <= TwoTo[top]
      OBVIOUS
    <3> DEFINE low == top - (n + 1)
    <3>2. low \in 0..AnswerDepth /\ low + 1 = top - n /\ n <= top
      BY <1>0, <3>1
    <3>3. TwoTo[low + 1] = 2 * TwoTo[low] /\ TwoTo[low] \in Nat /\ TwoTo[top - n] <= TwoTo[top]
      BY <1>0, <2>2, <3>2, TwoToFacts
    <3> HIDE DEF low
    <3>4. TwoTo[low] <= TwoTo[top]
      <4>1. TwoTo[top - n] = 2 * TwoTo[low] /\ TwoTo[top] \in Nat
        BY <2>0, <3>2, <3>3
      <4>. QED
        BY <3>3, <4>1
    <3>. QED
      BY <3>4 DEF low
  <2>3. Nat \subseteq S
    <3> HIDE DEF S
    <3>. QED
      BY <2>1, <2>2, SetInduction
  <2>4. top - (ttl + 1) \in Nat /\ top - (ttl + 1) <= top /\ top - (top - (ttl + 1)) = ttl + 1
    BY <1>0
  <2>5. TwoTo[ttl + 1] <= TwoTo[top]
    <3>1. top - (ttl + 1) \in S
      BY <2>3, <2>4
    <3>. QED
      BY <2>4, <3>1
  <2>6. TwoTo[ttl + 1] \in Nat /\ TwoTo[top] \in Nat
    BY <1>0, <2>0
  <2> HIDE DEF S
  <2>. QED
    BY <2>5, <2>6 DEF Weight, Bound
<1>3. ASSUME ttl > 0
      PROVE  ttl - 1 \in 0..AnswerDepth /\ Weight(ttl) = 2 * Weight(ttl - 1) + 1
  <2>1. ttl - 1 \in 0..AnswerDepth /\ (ttl - 1) + 1 = ttl
    BY <1>0, <1>3
  <2>2. TwoTo[ttl + 1] = 2 * TwoTo[ttl] /\ TwoTo[ttl] \in Nat
    BY <1>0, TwoToFacts
  <2>. QED
    BY <2>1, <2>2 DEF Weight
<1>. QED
  BY <1>1, <1>2, <1>3

\* One element in front of a sequence.
LEMMA InFront ==
    ASSUME NEW S, NEW e \in S, NEW s \in Seq(S)
    PROVE  LET t == <<e>> \o s
           IN  /\ t \in Seq(S) /\ Len(t) = Len(s) + 1 /\ Len(s) \in Nat /\ t[1] = e
               /\ \A i \in 1..Len(s) : t[i + 1] = s[i]
<1> DEFINE one == <<e>>
<1>1. one \in Seq(S) /\ Len(one) = 1 /\ one[1] = e
  OBVIOUS
<1>2. Len(s) \in Nat
  BY LenProperties
<1> HIDE DEF one
<1>3. /\ one \o s \in Seq(S)
      /\ Len(one \o s) = Len(one) + Len(s)
      /\ \A i \in 1..(Len(one) + Len(s)) :
            (one \o s)[i] = IF i <= Len(one) THEN one[i] ELSE s[i - Len(one)]
  BY <1>1, ConcatProperties
<1>4. (one \o s)[1] = e
  BY <1>1, <1>2, <1>3
<1>5. ASSUME NEW i \in 1..Len(s)
      PROVE  (one \o s)[i + 1] = s[i]
  <2>1. i + 1 \in 1..(1 + Len(s)) /\ ~(i + 1 <= 1) /\ (i + 1) - 1 = i
    BY <1>2
  <2>. QED
    BY <1>1, <1>3, <2>1
<1>. QED
  BY <1>1, <1>2, <1>3, <1>4, <1>5 DEF one

\* No grabs lead to no offence.
LEMMA FitsNone ==
    ASSUME NEW s, NEW n \in Nat
    PROVE  Fits(s, 0, n)
<1> DEFINE left == [i \in 0..0 |-> 0]
<1>1. left \in [0..0 -> Nat] /\ left[0] <= n
  OBVIOUS
<1>2. \A i \in 1..0 : left[i] + Weight(s[i].ttl) <= left[i - 1]
  OBVIOUS
<1> HIDE DEF left
<1>. QED
  BY <1>1, <1>2 DEF Fits

\* Nothing is left of an answer.
LEMMA QueueNone ==
    ASSUME NEW known, NEW asked, NEW n \in Nat
    PROVE  Queue(<<>>, 0, known, asked, n)
<1>1. <<>> \in Seq(Grabs) /\ Len(<<>>) = 0
  BY EmptySeq
<1>2. Fits(<<>>, 0, n)
  BY FitsNone
<1>. QED
  BY <1>1, <1>2 DEF Queue

\* What fits a number fits a larger one.
LEMMA QueueMore ==
    ASSUME NEW s, NEW m, NEW known, NEW asked, NEW n \in Int, NEW k \in Int, n <= k,
           Queue(s, m, known, asked, n)
    PROVE  Queue(s, m, known, asked, k)
<1>1. PICK left \in [0..m -> Nat] :
          left[0] <= n /\ \A i \in 1..m : left[i] + Weight(s[i].ttl) <= left[i - 1]
  BY DEF Queue, Fits
<1>2. m \in Nat
  BY LenProperties DEF Queue
<1>3. left[0] <= k
  <2>1. left[0] \in Nat
    BY <1>2
  <2>. QED
    BY <1>1, <2>1
<1>4. Fits(s, m, k)
  BY <1>1, <1>3 DEF Fits
<1>. QED
  BY <1>4 DEF Queue

\* A node the receiver does not look for is taken off.
LEMMA QueueIgnore ==
    ASSUME NEW s, NEW m, NEW known, NEW asked, NEW n \in Int,
           Queue(s, m, known, asked, n), m # 0
    PROVE  /\ s # <<>> /\ Head(s) = s[1] /\ Head(s) \in Grabs
           /\ Outside(known, Head(s).node)
           /\ n - Weight(Head(s).ttl) \in Nat
           /\ Queue(Tail(s), m - 1, known, asked, n - Weight(Head(s).ttl))
<1> DEFINE t == Tail(s)
           w == Weight(Head(s).ttl)
<1>1. s \in Seq(Grabs) /\ Len(s) \in Nat /\ m \in 1..Len(s)
  BY LenProperties DEF Queue
<1>2. s # <<>>
  BY <1>1, EmptySeq
<1>3. /\ Head(s) = s[1] /\ Head(s) \in Grabs
      /\ t \in Seq(Grabs) /\ Len(t) = Len(s) - 1
      /\ \A i \in 1..Len(t) : t[i] = s[i + 1]
  BY <1>1, <1>2, HeadTailProperties
<1>4. w \in Nat \ {0}
  BY <1>3, WeightFacts DEF Grabs
<1> HIDE DEF t
<1>5. PICK left \in [0..m -> Nat] :
          left[0] <= n /\ \A i \in 1..m : left[i] + Weight(s[i].ttl) <= left[i - 1]
  BY DEF Queue, Fits
<1>6. left[1] + w <= n /\ left[1] \in Nat /\ left[0] \in Nat
  <2>1. 1 \in 1..m /\ 0 \in 0..m /\ 1 \in 0..m
    BY <1>1
  <2>2. left[1] + w <= left[1 - 1] /\ left[1] \in Nat /\ left[0] \in Nat
    BY <1>3, <1>5, <2>1
  <2> HIDE DEF w
  <2>. QED
    BY <1>4, <1>5, <2>2
<1>7. n - w \in Nat /\ left[1] <= n - w
  <2> HIDE DEF w
  <2>. QED
    BY <1>4, <1>6
<1>8. Fits(t, m - 1, n - w)
  <2> DEFINE rest == [i \in 0..(m - 1) |-> left[i + 1]]
  <2>1. rest \in [0..(m - 1) -> Nat]
    BY <1>1
  <2>2. rest[0] <= n - w
    BY <1>1, <1>7
  <2>3. ASSUME NEW i \in 1..(m - 1)
        PROVE  rest[i] + Weight(t[i].ttl) <= rest[i - 1]
    <3>1. i + 1 \in 1..m /\ i \in 1..Len(t) /\ i \in 0..(m - 1) /\ i - 1 \in 0..(m - 1)
          /\ (i + 1) - 1 = i /\ (i - 1) + 1 = i
      BY <1>1, <1>3
    <3>2. left[i + 1] + Weight(s[i + 1].ttl) <= left[(i + 1) - 1]
      BY <1>5, <3>1
    <3>3. rest[i] = left[i + 1] /\ rest[i - 1] = left[i] /\ t[i] = s[i + 1]
      BY <1>3, <3>1
    <3>. QED
      BY <3>1, <3>2, <3>3
  <2> HIDE DEF rest, w
  <2>. QED
    BY <2>1, <2>2, <2>3 DEF Fits
<1>9. m - 1 \in 0..Len(t)
  BY <1>1, <1>3
<1>10. \A i \in 1..(m - 1) : Outside(known, t[i].node)
  <2> SUFFICES ASSUME NEW i \in 1..(m - 1) PROVE Outside(known, t[i].node)
    OBVIOUS
  <2>1. i + 1 \in 1..m /\ i \in 1..Len(t)
    BY <1>1, <1>3
  <2>. QED
    BY <1>3, <2>1 DEF Queue
<1>11. ASSUME NEW i \in ((m - 1) + 1)..Len(t)
       PROVE  i + 1 \in (m + 1)..Len(s) /\ t[i] = s[i + 1]
  BY <1>1, <1>3
<1>12. /\ \A i \in ((m - 1) + 1)..Len(t) : t[i].node \in asked
       /\ \A i, j \in ((m - 1) + 1)..Len(t) : i # j => t[i].node # t[j].node
  <2>1. \A i \in ((m - 1) + 1)..Len(t) : t[i].node \in asked
    BY <1>11 DEF Queue
  <2>2. ASSUME NEW i \in ((m - 1) + 1)..Len(t), NEW j \in ((m - 1) + 1)..Len(t), i # j
        PROVE  t[i].node # t[j].node
    <3>1. i + 1 \in (m + 1)..Len(s) /\ j + 1 \in (m + 1)..Len(s) /\ i + 1 # j + 1
      BY <1>1, <1>3, <1>11, <2>2
    <3>. QED
      BY <1>11, <3>1 DEF Queue
  <2>. QED
    BY <2>1, <2>2
<1>13. Outside(known, Head(s).node)
  BY <1>1, <1>3 DEF Queue
<1> HIDE DEF w
<1>14. Queue(t, m - 1, known, asked, n - w)
  BY <1>3, <1>8, <1>9, <1>10, <1>12 DEF Queue
<1>. QED
  BY <1>2, <1>3, <1>7, <1>13, <1>14 DEF t, w

\* A node the receiver asked for is taken off, and asked for no more.
LEMMA QueueRead ==
    ASSUME NEW s, NEW known, NEW asked, NEW n, Queue(s, 0, known, asked, n), s # <<>>,
           NEW k \in Nat
    PROVE  /\ Head(s) \in Grabs /\ Head(s).node \in asked
           /\ Queue(Tail(s), 0, known, asked \ {Head(s).node}, k)
<1> DEFINE t == Tail(s)
<1>1. s \in Seq(Grabs) /\ Len(s) \in Nat /\ Len(s) # 0
  BY LenProperties, EmptySeq DEF Queue
<1>3. /\ Head(s) = s[1] /\ Head(s) \in Grabs
      /\ t \in Seq(Grabs) /\ Len(t) = Len(s) - 1
      /\ \A i \in 1..Len(t) : t[i] = s[i + 1]
  BY <1>1, HeadTailProperties
<1> HIDE DEF t
<1>4. Head(s).node \in asked
  BY <1>1, <1>3 DEF Queue
<1>5. ASSUME NEW i \in 1..Len(t)
      PROVE  t[i].node \in asked \ {Head(s).node}
  <2>1. i + 1 \in 1..Len(s) /\ 1 \in 1..Len(s) /\ i + 1 # 1 /\ 0 + 1 = 1
    BY <1>1, <1>3
  <2>2. s[i + 1].node \in asked /\ s[i + 1].node # s[1].node
    BY <2>1 DEF Queue
  <2>. QED
    BY <1>3, <2>2
<1>6. ASSUME NEW i \in 1..Len(t), NEW j \in 1..Len(t), i # j
      PROVE  t[i].node # t[j].node
  <2>1. i + 1 \in 1..Len(s) /\ j + 1 \in 1..Len(s) /\ i + 1 # j + 1 /\ 0 + 1 = 1
    BY <1>1, <1>3, <1>6
  <2>2. s[i + 1].node # s[j + 1].node
    BY <2>1 DEF Queue
  <2>. QED
    BY <1>3, <2>2
<1>7. Fits(t, 0, k)
  BY FitsNone
<1>8. 0 \in 0..Len(t) /\ 0 + 1 = 1
  BY <1>1, <1>3
<1>9. Queue(t, 0, known, asked \ {Head(s).node}, k)
  BY <1>3, <1>5, <1>6, <1>7, <1>8 DEF Queue
<1>. QED
  BY <1>3, <1>4, <1>9 DEF t

\* Nodes asked for may be so among others, whatever is known.
LEMMA QueueAmong ==
    ASSUME NEW s, NEW known, NEW asked, NEW n, NEW other, NEW more,
           Queue(s, 0, known, asked, n), asked \subseteq more
    PROVE  Queue(s, 0, other, more, n)
BY DEF Queue

\* A node the receiver does not look for comes in front.
LEMMA QueueOut ==
    ASSUME NEW s, NEW m, NEW known, NEW asked, NEW n \in Nat,
           Queue(s, m, known, asked, n), NEW e \in Grabs, Outside(known, e.node)
    PROVE  Queue(<<e>> \o s, m + 1, known, asked, n + Weight(e.ttl))
<1> DEFINE t == <<e>> \o s
           w == Weight(e.ttl)
<1>1. s \in Seq(Grabs) /\ m \in 0..Len(s)
  BY DEF Queue
<1>2. /\ t \in Seq(Grabs) /\ Len(t) = Len(s) + 1 /\ Len(s) \in Nat /\ t[1] = e
      /\ \A i \in 1..Len(s) : t[i + 1] = s[i]
  BY <1>1, InFront
<1>3. w \in Nat
  BY WeightFacts DEF Grabs
<1> HIDE DEF t
<1>4. ASSUME NEW i \in 2..Len(t)
      PROVE  i - 1 \in 1..Len(s) /\ t[i] = s[i - 1] /\ (i - 1) + 1 = i
  BY <1>2
<1>5. PICK left \in [0..m -> Nat] :
          left[0] <= n /\ \A i \in 1..m : left[i] + Weight(s[i].ttl) <= left[i - 1]
  BY DEF Queue, Fits
<1>6. Fits(t, m + 1, n + w)
  <2> DEFINE all == [i \in 0..(m + 1) |-> IF i = 0 THEN n + w ELSE left[i - 1]]
  <2>1. all \in [0..(m + 1) -> Nat]
    <3>1. ASSUME NEW i \in 0..(m + 1), i # 0
          PROVE  left[i - 1] \in Nat
      <4>1. i - 1 \in 0..m
        BY <1>1, <3>1
      <4>. QED
        BY <4>1
    <3>2. n + w \in Nat
      BY <1>3
    <3> HIDE DEF w
    <3>. QED
      BY <3>1, <3>2
  <2>2. all[0] = n + w /\ n + w \in Nat
    BY <1>1, <1>3
  <2>3. ASSUME NEW i \in 1..(m + 1)
        PROVE  all[i] + Weight(t[i].ttl) <= all[i - 1]
    <3>1. CASE i = 1
      <4>1. all[1] = left[0] /\ left[0] \in Nat /\ t[1] = e
        BY <1>1, <1>2
      <4>2. Weight(t[1].ttl) = w
        BY <4>1
      <4> HIDE DEF all, w
      <4>. QED
        BY <1>3, <1>5, <2>2, <3>1, <4>1, <4>2
    <3>2. CASE i # 1
      <4>1. i - 1 \in 1..m /\ i - 1 \in 0..(m + 1) /\ i - 1 # 0 /\ i \in 2..Len(t)
        BY <1>1, <1>2, <3>2
      <4>2. left[i - 1] + Weight(s[i - 1].ttl) <= left[(i - 1) - 1]
        BY <1>5, <4>1
      <4>3. all[i] = left[i - 1] /\ all[i - 1] = left[(i - 1) - 1] /\ t[i] = s[i - 1]
        BY <1>4, <4>1
      <4> HIDE DEF all
      <4>. QED
        BY <4>2, <4>3
    <3>. QED
      BY <3>1, <3>2
  <2>4. all[0] <= n + w
    <3> HIDE DEF all, w
    <3>. QED
      BY <2>2
  <2> HIDE DEF all, w
  <2>. QED
    BY <2>1, <2>3, <2>4 DEF Fits
<1>7. m + 1 \in 0..Len(t)
  BY <1>1, <1>2
<1>8. ASSUME NEW i \in 1..(m + 1)
      PROVE  Outside(known, t[i].node)
  <2>1. CASE i = 1
    BY <1>2, <2>1
  <2>2. CASE i # 1
    <3>1. i \in 2..Len(t) /\ i - 1 \in 1..m
      BY <1>1, <1>2, <2>2
    <3>. QED
      BY <1>4, <3>1 DEF Queue
  <2>. QED
    BY <2>1, <2>2
<1>9. ASSUME NEW i \in ((m + 1) + 1)..Len(t)
      PROVE  i - 1 \in (m + 1)..Len(s) /\ t[i] = s[i - 1]
  BY <1>1, <1>2, <1>4
<1>10. \A i \in ((m + 1) + 1)..Len(t) : t[i].node \in asked
  BY <1>9 DEF Queue
<1>11. ASSUME NEW i \in ((m + 1) + 1)..Len(t), NEW j \in ((m + 1) + 1)..Len(t), i # j
       PROVE  t[i].node # t[j].node
  <2>1. i - 1 \in (m + 1)..Len(s) /\ j - 1 \in (m + 1)..Len(s) /\ i - 1 # j - 1
    BY <1>1, <1>2, <1>9, <1>11
  <2>. QED
    BY <1>9, <2>1 DEF Queue
<1> HIDE DEF w
<1>12. Queue(t, m + 1, known, asked, n + w)
  BY <1>2, <1>6, <1>7, <1>8, <1>10, <1>11 DEF Queue
<1>. QED
  BY <1>12 DEF t, w

\* A node the receiver now asks for comes in front.
LEMMA QueueIn ==
    ASSUME NEW s, NEW known, NEW asked, NEW n, Queue(s, 0, known, asked, n), NEW e \in Grabs,
           e.node \in asked, \A i \in 1..Len(s) : s[i].node # e.node
    PROVE  Queue(<<e>> \o s, 0, known, asked, n)
<1> DEFINE t == <<e>> \o s
<1>1. s \in Seq(Grabs)
  BY DEF Queue
<1>2. /\ t \in Seq(Grabs) /\ Len(t) = Len(s) + 1 /\ Len(s) \in Nat /\ t[1] = e
      /\ \A i \in 1..Len(s) : t[i + 1] = s[i]
  BY <1>1, InFront
<1> HIDE DEF t
<1>4. ASSUME NEW i \in 1..Len(t), i # 1
      PROVE  i - 1 \in 1..Len(s) /\ t[i] = s[i - 1]
  <2>1. i - 1 \in 1..Len(s) /\ (i - 1) + 1 = i
    BY <1>2, <1>4
  <2>. QED
    BY <1>2, <2>1
<1>5. ASSUME NEW i \in 1..Len(s)
      PROVE  s[i].node \in asked /\ \A j \in 1..Len(s) : i # j => s[i].node # s[j].node
  <2>1. 0 + 1 = 1
    OBVIOUS
  <2>. QED
    BY <2>1 DEF Queue
<1>6. ASSUME NEW i \in 1..Len(t)
      PROVE  t[i].node \in asked
  BY <1>2, <1>4, <1>5
<1>7. ASSUME NEW i \in 1..Len(t), NEW j \in 1..Len(t), i # j
      PROVE  t[i].node # t[j].node
  <2>1. CASE i = 1
    BY <1>2, <1>4, <1>7, <2>1
  <2>2. CASE j = 1
    BY <1>2, <1>4, <1>7, <2>2
  <2>3. CASE i # 1 /\ j # 1
    <3>1. i - 1 \in 1..Len(s) /\ j - 1 \in 1..Len(s) /\ i - 1 # j - 1
          /\ t[i] = s[i - 1] /\ t[j] = s[j - 1]
      BY <1>4, <1>7, <2>3
    <3>. QED
      BY <1>5, <3>1
  <2>. QED
    BY <2>1, <2>2, <2>3
<1>8. Fits(t, 0, n)
  <2>1. PICK left \in [0..0 -> Nat] : left[0] <= n
    BY DEF Queue, Fits
  <2>. QED
    BY <2>1 DEF Fits
<1>9. 0 \in 0..Len(t) /\ 0 + 1 = 1
  BY <1>2
<1>10. Queue(t, 0, known, asked, n)
  BY <1>2, <1>6, <1>7, <1>8, <1>9 DEF Queue
<1>. QED
  BY <1>10 DEF t

\* What the sender grabs next, from one node, in front of what is left.
Kid(grab, d) == [node |-> Child(grab.node, d), ttl |-> grab.ttl - 1]

Before(grab, d, rest) ==
    IF Child(grab.node, d) = Empty THEN rest ELSE <<Kid(grab, d)>> \o rest

Expand(grab, rest) ==
    IF IsInternal(grab.node) /\ grab.ttl > 0
    THEN Before(grab, "L", Before(grab, "R", rest)) ELSE rest

\* A child of a node of the tree is grabbed with one level less to go.
LEMMA KidFacts ==
    ASSUME NEW grab \in Grabs, IsInternal(grab.node), grab.ttl > 0, NEW d \in Direction,
           Child(grab.node, d) # Empty
    PROVE  /\ d \in Sides(grab.node)
           /\ Kid(grab, d) \in Grabs /\ Kid(grab, d).node = Child(grab.node, d)
           /\ Weight(grab.ttl) = 2 * Weight(Kid(grab, d).ttl) + 1
           /\ Weight(Kid(grab, d).ttl) \in Nat
<1>1. grab.node \in DOMAIN At /\ grab.ttl \in 0..AnswerDepth
  BY DEF Grabs
<1>2. d \in Sides(grab.node)
  BY DEF Sides
<1>3. Child(grab.node, d) \in DOMAIN At
  BY <1>1, <1>2, ChildAt
<1>4. grab.ttl - 1 \in 0..AnswerDepth /\ Weight(grab.ttl) = 2 * Weight(grab.ttl - 1) + 1
  BY <1>1, WeightFacts
<1>5. Weight(grab.ttl - 1) \in Nat
  BY <1>4, WeightFacts
<1>. QED
  BY <1>2, <1>3, <1>4, <1>5 DEF Kid, Grabs

\* The rest of an answer, in these words.
LEMMA RestIs ==
    ASSUME NEW r \in Receiver, Head(inbox[r]) \in Grabs, Tail(inbox[r]) \in Seq(Grabs)
    PROVE  Rest(r) = Expand(Head(inbox[r]), Tail(inbox[r]))
<1> DEFINE grab == Head(inbox[r])
           tail == Tail(inbox[r])
           node == grab.node
           one(d) == Grab(Child(node, d), grab.ttl - 1)
<1>1. Rest(r) = IF IsInternal(node) /\ grab.ttl > 0
                THEN (Grab(node.left, grab.ttl - 1) \o Grab(node.right, grab.ttl - 1)) \o tail
                ELSE tail
  BY DEF Rest
<1>2. grab \in Grabs /\ tail \in Seq(Grabs)
  OBVIOUS
<1> HIDE DEF grab, tail
<1>3. CASE IsInternal(node) /\ grab.ttl > 0
  <2>1. Child(node, "L") = node.left /\ Child(node, "R") = node.right
    BY <1>3 DEF Child
  <2>2. ASSUME NEW d \in Direction
        PROVE  /\ one(d) \in Seq(Grabs)
               /\ \A s \in Seq(Grabs) : one(d) \o s = Before(grab, d, s)
    <3>1. CASE Child(node, d) = Empty
      <4>1. one(d) = <<>>
        BY <3>1 DEF Grab
      <4>2. \A s \in Seq(Grabs) : <<>> \o s = s
        BY ConcatEmptySeq
      <4>. QED
        BY <3>1, <4>1, <4>2, EmptySeq DEF Before
    <3>2. CASE Child(node, d) # Empty
      <4>1. one(d) = <<Kid(grab, d)>>
        BY <3>2 DEF Grab, Kid
      <4>2. Kid(grab, d) \in Grabs
        BY <1>2, <1>3, <3>2, KidFacts
      <4> HIDE DEF one
      <4>3. one(d) \in Seq(Grabs)
        BY <4>1, <4>2
      <4>. QED
        BY <3>2, <4>1, <4>3 DEF Before
    <3>. QED
      BY <3>1, <3>2
  <2>3. Rest(r) = (one("L") \o one("R")) \o tail
    BY <1>1, <1>3, <2>1
  <2> HIDE DEF one
  <2>4. one("L") \in Seq(Grabs) /\ one("R") \in Seq(Grabs) /\ one("R") \o tail \in Seq(Grabs)
    BY <1>2, <2>2, ConcatProperties DEF Direction
  <2>5. (one("L") \o one("R")) \o tail = one("L") \o (one("R") \o tail)
    <3> DEFINE first == one("L")
               second == one("R")
    <3>1. first \in Seq(Grabs) /\ second \in Seq(Grabs)
      BY <2>4
    <3> HIDE DEF first, second
    <3>2. (first \o second) \o tail = first \o (second \o tail)
      BY <1>2, <3>1, ConcatAssociative
    <3>. QED
      BY <3>2 DEF first, second
  <2>6. one("R") \o tail = Before(grab, "R", tail)
    BY <1>2, <2>2 DEF Direction
  <2>7. one("L") \o (one("R") \o tail) = Before(grab, "L", one("R") \o tail)
    BY <2>2, <2>4 DEF Direction
  <2>8. Rest(r) = Expand(grab, tail)
    BY <1>3, <2>3, <2>5, <2>6, <2>7 DEF Expand
  <2>. QED
    BY <2>8 DEF grab, tail
<1>4. CASE ~(IsInternal(node) /\ grab.ttl > 0)
  <2>1. Rest(r) = tail /\ Expand(grab, tail) = tail
    BY <1>1, <1>4 DEF Expand
  <2>. QED
    BY <2>1 DEF grab, tail
<1>. QED
  BY <1>3, <1>4

\* A child of a node that is not known is not looked for; it leads to its weight.
LEMMA BeforeOut ==
    ASSUME NEW s, NEW m, NEW known, NEW asked, NEW n \in Nat, Queue(s, m, known, asked, n),
           NEW grab \in Grabs, grab.node \notin known, IsInternal(grab.node), grab.ttl > 0,
           NEW d \in Direction
    PROVE  \E k \in Nat : Queue(Before(grab, d, s), k, known, asked, n + Weight(grab.ttl - 1))
<1> DEFINE w == Weight(grab.ttl - 1)
<1>1. m \in Nat
  BY LenProperties DEF Queue
<1>2. w \in Nat
  <2>1. grab.ttl - 1 \in 0..AnswerDepth
    BY WeightFacts DEF Grabs
  <2>. QED
    BY <2>1, WeightFacts
<1>3. CASE Child(grab.node, d) = Empty
  <2> HIDE DEF w
  <2>1. Queue(s, m, known, asked, n + w)
    BY <1>2, QueueMore
  <2>. QED
    BY <1>1, <1>3, <2>1 DEF Before, w
<1>4. CASE Child(grab.node, d) # Empty
  <2>1. /\ d \in Sides(grab.node) /\ grab.node \in DOMAIN At
        /\ Kid(grab, d) \in Grabs /\ Kid(grab, d).node = Child(grab.node, d)
    BY <1>4, KidFacts DEF Grabs
  <2>2. Outside(known, Kid(grab, d).node)
    BY <2>1 DEF Outside
  <2>3. Kid(grab, d).ttl = grab.ttl - 1
    BY DEF Kid
  <2>4. Queue(<<Kid(grab, d)>> \o s, m + 1, known, asked, n + Weight(Kid(grab, d).ttl))
    BY <2>1, <2>2, QueueOut
  <2>5. Queue(<<Kid(grab, d)>> \o s, m + 1, known, asked, n + w)
    BY <2>3, <2>4
  <2>6. m + 1 \in Nat
    BY <1>1
  <2> HIDE DEF w
  <2>7. Queue(Before(grab, d, s), m + 1, known, asked, n + w)
    BY <1>4, <2>5 DEF Before
  <2>. QED
    BY <2>6, <2>7 DEF w
<1>. QED
  BY <1>3, <1>4

\* What is grabbed below a node that is not known leads to one offence less than it.
LEMMA ExpandOut ==
    ASSUME NEW s, NEW m, NEW known, NEW asked, NEW n \in Nat, Queue(s, m, known, asked, n),
           NEW grab \in Grabs, grab.node \notin known
    PROVE  \E k \in Nat : Queue(Expand(grab, s), k, known, asked, n + (Weight(grab.ttl) - 1))
<1>1. m \in Nat
  BY LenProperties DEF Queue
<1>2. Weight(grab.ttl) \in Nat \ {0}
  BY WeightFacts DEF Grabs
<1>3. CASE IsInternal(grab.node) /\ grab.ttl > 0
  <2> DEFINE w == Weight(grab.ttl - 1)
  <2>1. grab.ttl - 1 \in 0..AnswerDepth /\ Weight(grab.ttl) = 2 * w + 1
    BY <1>3, WeightFacts DEF Grabs
  <2>2. w \in Nat
    BY <2>1, WeightFacts
  <2>3. PICK k \in Nat : Queue(Before(grab, "R", s), k, known, asked, n + w)
    BY <1>3, BeforeOut DEF Direction
  <2> HIDE DEF w
  <2>4. n + w \in Nat
    BY <2>2
  <2>5. \E l \in Nat : Queue(Before(grab, "L", Before(grab, "R", s)), l, known, asked, (n + w) + w)
    BY <1>3, <2>3, <2>4, BeforeOut DEF Direction, w
  <2>6. (n + w) + w = n + (Weight(grab.ttl) - 1)
    BY <2>1, <2>2
  <2>. QED
    BY <1>3, <2>5, <2>6 DEF Expand
<1>4. CASE ~(IsInternal(grab.node) /\ grab.ttl > 0)
  <2> DEFINE k == n + (Weight(grab.ttl) - 1)
  <2>1. k \in Nat /\ n <= k
    BY <1>2
  <2> HIDE DEF k
  <2>2. Queue(s, m, known, asked, k)
    BY <2>1, QueueMore
  <2>. QED
    BY <1>1, <1>4, <2>2 DEF Expand, k
<1>. QED
  BY <1>3, <1>4

\* What is grabbed below a node that was new is asked for, and was not before.
LEMMA ExpandIn ==
    ASSUME NEW s, NEW known, NEW asked, NEW n, Queue(s, 0, known, asked, n),
           NEW grab \in Grabs,
           \A d \in Sides(grab.node) :
              /\ Child(grab.node, d) \in asked
              /\ \A i \in 1..Len(s) : s[i].node # Child(grab.node, d)
    PROVE  Queue(Expand(grab, s), 0, known, asked, n)
<1>1. CASE IsInternal(grab.node) /\ grab.ttl > 0
  <2> DEFINE t == Before(grab, "R", s)
  <2>1. Queue(t, 0, known, asked, n)
    <3>1. CASE Child(grab.node, "R") = Empty
      BY <3>1 DEF Before
    <3>2. CASE Child(grab.node, "R") # Empty
      <4>1. /\ "R" \in Sides(grab.node)
            /\ Kid(grab, "R") \in Grabs /\ Kid(grab, "R").node = Child(grab.node, "R")
        BY <1>1, <3>2, KidFacts DEF Direction
      <4>2. Queue(<<Kid(grab, "R")>> \o s, 0, known, asked, n)
        BY <4>1, QueueIn
      <4>. QED
        BY <3>2, <4>2 DEF Before
    <3>. QED
      BY <3>1, <3>2
  <2>2. Queue(Before(grab, "L", t), 0, known, asked, n)
    <3>1. CASE Child(grab.node, "L") = Empty
      BY <2>1, <3>1 DEF Before
    <3>2. CASE Child(grab.node, "L") # Empty
      <4>1. /\ "L" \in Sides(grab.node) /\ grab.node \in DOMAIN At
            /\ Kid(grab, "L") \in Grabs /\ Kid(grab, "L").node = Child(grab.node, "L")
        BY <1>1, <3>2, KidFacts DEF Direction, Grabs
      <4>2. ASSUME NEW i \in 1..Len(t)
            PROVE  t[i].node # Child(grab.node, "L")
        <5>1. CASE Child(grab.node, "R") = Empty
          BY <4>1, <5>1 DEF Before
        <5>2. CASE Child(grab.node, "R") # Empty
          <6>1. /\ "R" \in Sides(grab.node)
                /\ Kid(grab, "R") \in Grabs /\ Kid(grab, "R").node = Child(grab.node, "R")
            BY <1>1, <5>2, KidFacts DEF Direction
          <6>2. Child(grab.node, "L") # Child(grab.node, "R")
            <7>1. /\ At[Child(grab.node, "L")] = Append(At[grab.node], "L")
                  /\ At[Child(grab.node, "R")] = Append(At[grab.node], "R")
                  /\ At[grab.node] \in Seq(Direction)
              BY <4>1, <6>1, ChildAt
            <7>2. Append(At[grab.node], "L") # Append(At[grab.node], "R")
              BY <7>1, AppendInjective DEF Direction
            <7>. QED
              BY <7>1, <7>2
          <6>3. t = <<Kid(grab, "R")>> \o s /\ s \in Seq(Grabs)
            BY <5>2 DEF Before, Queue
          <6>4. /\ Len(t) = Len(s) + 1 /\ Len(s) \in Nat /\ t[1] = Kid(grab, "R")
                /\ \A j \in 1..Len(s) : t[j + 1] = s[j]
            BY <6>1, <6>3, InFront
          <6>5. CASE i = 1
            BY <6>1, <6>2, <6>4, <6>5
          <6>6. CASE i # 1
            <7> HIDE DEF t
            <7>1. i - 1 \in 1..Len(s) /\ (i - 1) + 1 = i
              BY <6>4, <6>6
            <7>2. t[i] = s[i - 1]
              BY <6>4, <7>1
            <7>. QED
              BY <4>1, <7>1, <7>2
          <6>. QED
            BY <6>5, <6>6
        <5>. QED
          BY <5>1, <5>2
      <4> HIDE DEF t
      <4>3. Queue(<<Kid(grab, "L")>> \o t, 0, known, asked, n)
        BY <2>1, <4>1, <4>2, QueueIn
      <4>. QED
        BY <3>2, <4>3 DEF Before
    <3>. QED
      BY <3>1, <3>2
  <2>. QED
    BY <1>1, <2>2 DEF Expand
<1>2. CASE ~(IsInternal(grab.node) /\ grab.ttl > 0)
  BY <1>2 DEF Expand
<1>. QED
  BY <1>1, <1>2

-----------------------------------------------------------------------------
(***************************************************************************)
(* Over an ordered network an honest sender is not refused: the answer is  *)
(* to the question that was asked last, and what the receiver does not     *)
(* look for in it is below the last node it held.                          *)
(***************************************************************************)
Orderly(r) ==
    /\ IsFiniteSet(DOMAIN frontier[r])
    /\ network = "ordered" =>
          /\ phase[r] # "refused"
          /\ phase[r] = "waiting" /\ root[r] # Absent =>
                \A answer \in answers[r] :
                    Queue(answer, 0, acquired[r], DOMAIN frontier[r], Bound)
          /\ phase[r] = "learning" /\ root[r] # Absent =>
                \E m \in Nat :
                    Queue(inbox[r], m, acquired[r], DOMAIN frontier[r], Bound - offences[r])

OrderInv == \A r \in Receiver : Orderly(r)

\* A node whose parent was not acquired is none the receiver knows of.
LEMMA OutsideUnknown ==
    ASSUME NEW r \in Receiver, Begun(r), NEW node, Outside(acquired[r], node)
    PROVE  node \in DOMAIN At /\ node \notin Known(r)
<1>1. PICK above \in DOMAIN At \ acquired[r] : \E d \in Sides(above) : node = Child(above, d)
  BY DEF Outside
<1>2. PICK d \in Sides(above) : node = Child(above, d)
  BY <1>1
<1>3. node \in DOMAIN At /\ node # Sent
  BY <1>2, ChildAt, NoParent DEF Begun
<1>4. ASSUME node \in Known(r)
      PROVE  FALSE
  <2>1. PICK other \in acquired[r] : \E e \in Sides(other) : node = Child(other, e)
    BY <1>3, <1>4 DEF Begun, Placed
  <2>2. other \in DOMAIN At
    BY DEF Begun, Placed, Known
  <2>. QED
    BY <1>1, <1>2, <2>1, <2>2, OneParent
<1>. QED
  BY <1>3, <1>4

\* What is left of an answer after a node the receiver looks for: nodes it asked for.
LEMMA ReadLeaves ==
    ASSUME IInv, NEW r \in Receiver, Orderly(r), network = "ordered", Reads(r), Sighted(r)
    PROVE  /\ Head(inbox[r]) \in Grabs /\ Node(r) \notin acquired[r]
           /\ Queue(Tail(inbox[r]), 0, acquired[r], DOMAIN frontier[r] \ {Node(r)}, 0)
           /\ Rest(r) = Expand(Head(inbox[r]), Tail(inbox[r]))
<1>1. phase[r] = "learning" /\ inbox[r] # <<>>
  BY DEF Reads
<1>2. /\ Node(r) \in DOMAIN At
      /\ root[r] = Absent => Node(r) = Sent /\ Blank(r)
      /\ root[r] # Absent => Node(r) \in DOMAIN frontier[r] /\ Begun(r)
  BY Reading
<1>3. /\ Head(inbox[r]) \in Grabs /\ Node(r) \notin acquired[r]
      /\ Queue(Tail(inbox[r]), 0, acquired[r], DOMAIN frontier[r] \ {Node(r)}, 0)
  <2>1. CASE root[r] = Absent
    <3>1. inbox[r] = Hello /\ acquired[r] = {} /\ Hello # <<>>
      BY <1>1, <1>2, <2>1 DEF Blank
    <3>2. Hello = <<[node |-> Sent, ttl |-> AnswerDepth]>>
      BY <3>1, HelloIs DEF Hello, Grab
    <3>3. Head(Hello) = [node |-> Sent, ttl |-> AnswerDepth] /\ Tail(Hello) = <<>>
      BY <3>2
    <3>4. Sent \in DOMAIN At /\ AnswerDepth \in 0..AnswerDepth
      BY <1>2, <2>1, SyncAssumption
    <3>5. Head(Hello) \in Grabs
      BY <3>3, <3>4 DEF Grabs
    <3>. QED
      BY <3>1, <3>3, <3>5, QueueNone
  <2>2. CASE root[r] # Absent
    <3>1. PICK m \in Nat :
             Queue(inbox[r], m, acquired[r], DOMAIN frontier[r], Bound - offences[r])
      BY <1>1, <2>2 DEF Orderly
    <3>2. Begun(r) /\ Node(r) \in DOMAIN frontier[r] /\ Node(r) \in Known(r)
      BY <1>2, <2>2 DEF Known
    <3>3. m = 0
      <4>1. SUFFICES ASSUME m # 0 PROVE FALSE
        OBVIOUS
      <4>2. 1 \in 1..m
        BY <4>1
      <4>3. Outside(acquired[r], inbox[r][1].node)
        BY <3>1, <4>2 DEF Queue
      <4>4. Head(inbox[r]) = inbox[r][1]
        BY <1>1, <3>1, HeadTailProperties DEF Queue
      <4>. QED
        BY <3>2, <4>3, <4>4, OutsideUnknown DEF Node
    <3>4. Queue(inbox[r], 0, acquired[r], DOMAIN frontier[r], Bound - offences[r])
      BY <3>1, <3>3
    <3>5. /\ Head(inbox[r]) \in Grabs
          /\ Queue(Tail(inbox[r]), 0, acquired[r], DOMAIN frontier[r] \ {Head(inbox[r]).node}, 0)
      BY <1>1, <3>4, QueueRead
    <3>6. Node(r) \notin acquired[r]
      BY <3>2 DEF Begun, Placed
    <3>. QED
      BY <3>5, <3>6 DEF Node
  <2>. QED
    BY <2>1, <2>2
<1>4. Tail(inbox[r]) \in Seq(Grabs)
  BY <1>3 DEF Queue
<1>. QED
  BY <1>3, <1>4, RestIs

\* What is said of a receiver stays true while nothing it depends on changes.
LEMMA OrderlyFrame ==
    ASSUME NEW r \in Receiver, Orderly(r), network' = network,
           phase'[r] = phase[r] \/ phase'[r] \notin {"waiting", "learning", "refused"},
           frontier'[r] = frontier[r] \/ frontier'[r] = <<>>,
           phase'[r] \in {"waiting", "learning"} =>
              /\ root'[r] = root[r] /\ frontier'[r] = frontier[r] /\ acquired'[r] = acquired[r]
              /\ offences'[r] = offences[r] /\ inbox'[r] = inbox[r] /\ answers'[r] = answers[r]
    PROVE  Orderly(r)'
<1>1. IsFiniteSet(DOMAIN frontier'[r])
  <2>1. DOMAIN <<>> = {}
    OBVIOUS
  <2>. QED
    BY <2>1, FS_EmptySet DEF Orderly
<1>2. TwoTo' = TwoTo /\ Bound' = Bound
  OBVIOUS
<1>. QED
  BY <1>1 DEF Orderly

\* An answer arrives: nothing of it has been read.
LEMMA DeliverOrders ==
    ASSUME IInv, ShapeInv, OrderInv, NEW r \in Receiver, Deliver(r)
    PROVE  OrderInv'
<1>1. /\ phase[r] = "waiting" /\ phase' = [phase EXCEPT ![r] = "learning"]
      /\ \E answer \in answers[r] : inbox' = [inbox EXCEPT ![r] = answer]
      /\ offences' = [offences EXCEPT ![r] = 0]
      /\ UNCHANGED <<network, root, frontier, acquired, answers>>
  BY DEF Deliver, memory
<1>2. PICK answer \in answers[r] : inbox' = [inbox EXCEPT ![r] = answer]
  BY <1>1
<1>3. ASSUME NEW s \in Receiver, s # r
      PROVE  Orderly(s)'
  <2>1. /\ phase'[s] = phase[s] /\ inbox'[s] = inbox[s] /\ offences'[s] = offences[s]
    BY <1>1, <1>2, <1>3 DEF IInv, TypeInv, ShapeInv
  <2>. QED
    BY <1>1, <2>1, OrderlyFrame DEF OrderInv
<1>4. Orderly(r)'
  <2>1. Orderly(r) /\ inbox'[r] = answer /\ offences'[r] = 0 /\ phase'[r] = "learning"
    BY <1>1, <1>2 DEF IInv, TypeInv, ShapeInv, OrderInv
  <2>2. ASSUME network = "ordered", root[r] # Absent
        PROVE  Queue(answer, 0, acquired[r], DOMAIN frontier[r], Bound - 0)
    <3>1. Queue(answer, 0, acquired[r], DOMAIN frontier[r], Bound)
      BY <1>1, <2>1, <2>2 DEF Orderly
    <3>2. Bound - 0 = Bound
      BY BoundNat
    <3>. QED
      BY <3>1, <3>2
  <2>. QED
    BY <1>1, <2>1, <2>2 DEF Orderly
<1>. QED
  BY <1>3, <1>4 DEF OrderInv

\* A node that is ignored makes one offence more, and leads to one less.
LEMMA IgnoreOrders ==
    ASSUME IInv, ShapeInv, OrderInv, NEW r \in Receiver, Ignore(r)
    PROVE  OrderInv'
<1>1. /\ phase[r] = "learning" /\ inbox[r] # <<>> /\ root[r] # Absent
      /\ Node(r) \notin DOMAIN frontier[r]
      /\ offences' = [offences EXCEPT ![r] = @ + 1]
      /\ inbox' = [inbox EXCEPT ![r] = Rest(r)]
      /\ UNCHANGED <<network, phase, root, frontier, acquired, answers>>
  BY DEF Ignore, Reads, Sighted, memory
<1>2. ASSUME NEW s \in Receiver, s # r
      PROVE  Orderly(s)'
  <2>1. inbox'[s] = inbox[s] /\ offences'[s] = offences[s]
    BY <1>1, <1>2 DEF IInv, TypeInv, ShapeInv
  <2>. QED
    BY <1>1, <2>1, OrderlyFrame DEF OrderInv
<1>3. Orderly(r)'
  <2>1. /\ Orderly(r) /\ inbox'[r] = Rest(r) /\ offences'[r] = offences[r] + 1
        /\ offences[r] \in Nat
    BY <1>1 DEF IInv, TypeInv, ShapeInv, OrderInv
  <2>2. ASSUME network = "ordered"
        PROVE  \E k \in Nat : Queue(Rest(r), k, acquired[r], DOMAIN frontier[r],
                                    Bound - (offences[r] + 1))
    <3> DEFINE n == Bound - offences[r]
               w == Weight(Head(inbox[r]).ttl)
               s == inbox[r]
    <3>1. PICK m \in Nat : Queue(s, m, acquired[r], DOMAIN frontier[r], n)
      BY <1>1, <2>1, <2>2 DEF Orderly
    <3>2. n \in Int
      BY <2>1, BoundNat
    <3>3. s # <<>> /\ Node(r) = Head(s).node
      BY <1>1 DEF Node
    <3> HIDE DEF n, s
    <3>4. m # 0
      BY <1>1, <3>1, <3>3, QueueRead
    <3>5. /\ Head(s) \in Grabs /\ Outside(acquired[r], Head(s).node)
          /\ n - Weight(Head(s).ttl) \in Nat
          /\ Queue(Tail(s), m - 1, acquired[r], DOMAIN frontier[r], n - Weight(Head(s).ttl))
      BY <3>1, <3>2, <3>4, QueueIgnore
    <3>6. Head(s).node \notin acquired[r]
      <4>1. Begun(r)
        BY <1>1 DEF IInv, GatherInv, Gathers
      <4>. QED
        BY <3>5, <4>1, OutsideUnknown DEF Known
    <3>7. \E k \in Nat : Queue(Expand(Head(s), Tail(s)), k, acquired[r], DOMAIN frontier[r],
                               (n - Weight(Head(s).ttl)) + (Weight(Head(s).ttl) - 1))
      BY <3>5, <3>6, ExpandOut
    <3>8. Weight(Head(s).ttl) \in Nat
      BY <3>5, WeightFacts DEF Grabs
    <3>9. (n - Weight(Head(s).ttl)) + (Weight(Head(s).ttl) - 1) = n - 1
      BY <3>2, <3>8
    <3>10. Rest(r) = Expand(Head(s), Tail(s))
      <4>1. Tail(s) \in Seq(Grabs)
        BY <3>5 DEF Queue
      <4>. QED
        BY <3>5, <4>1, RestIs DEF s
    <3>11. n - 1 = Bound - (offences[r] + 1)
      BY <2>1, BoundNat DEF n
    <3>. QED
      BY <3>7, <3>9, <3>10, <3>11
  <2>. QED
    BY <1>1, <2>1, <2>2 DEF Orderly
<1>. QED
  BY <1>2, <1>3 DEF OrderInv

\* A receiver refuses no answer that came in order.
LEMMA RefuseOrders ==
    ASSUME IInv, ShapeInv, OrderInv, NEW r \in Receiver, Refuse(r)
    PROVE  OrderInv'
<1>1. /\ Reads(r) /\ phase[r] = "learning" /\ inbox[r] # <<>>
      /\ phase' = [phase EXCEPT ![r] = "refused"]
      /\ UNCHANGED <<network, root, frontier, acquired, offences, inbox, answers>>
  BY DEF Refuse, Reads, memory
<1>2. network # "ordered"
  <2>1. SUFFICES ASSUME network = "ordered" PROVE FALSE
    OBVIOUS
  <2>2. ~Sighted(r) /\ ~Tolerable(offences[r] + 1)
    BY <1>1, NeverMalicious DEF Refuse
  <2> DEFINE n == Bound - offences[r]
  <2>3. PICK m \in Nat : Queue(inbox[r], m, acquired[r], DOMAIN frontier[r], n)
    BY <1>1, <2>1, <2>2 DEF Sighted, OrderInv, Orderly
  <2>4. offences[r] \in Nat /\ Bound \in Nat /\ n \in Int
    BY BoundNat DEF ShapeInv
  <2> HIDE DEF n
  <2>5. m # 0
    <3>1. Node(r) \notin DOMAIN frontier[r]
      BY <2>2 DEF Sighted
    <3>. QED
      BY <1>1, <2>3, <3>1, QueueRead DEF Node
  <2>6. Head(inbox[r]) \in Grabs /\ n - Weight(Head(inbox[r]).ttl) \in Nat
    BY <2>3, <2>4, <2>5, QueueIgnore
  <2>7. Weight(Head(inbox[r]).ttl) \in Nat \ {0}
    BY <2>6, WeightFacts DEF Grabs
  <2>8. n >= 1
    BY <2>4, <2>6, <2>7
  <2>. QED
    BY <2>2, <2>4, <2>8 DEF n, Tolerable
<1>3. ASSUME NEW s \in Receiver, s # r
      PROVE  Orderly(s)'
  <2>1. phase'[s] = phase[s]
    BY <1>1, <1>3 DEF IInv, TypeInv
  <2>. QED
    BY <1>1, <2>1, OrderlyFrame DEF OrderInv
<1>4. Orderly(r)'
  BY <1>1, <1>2 DEF OrderInv, Orderly
<1>. QED
  BY <1>3, <1>4 DEF OrderInv

\* The answer to a question has its labels, each once.
LEMMA AskOrders ==
    ASSUME IInv, ShapeInv, OrderInv, NEW r \in Receiver, Ask(r)
    PROVE  OrderInv'
<1> DEFINE asked == DOMAIN frontier[r]
           count == IF Cardinality(asked) < Window THEN Cardinality(asked) ELSE Window
<1>1. /\ phase[r] = "learning" /\ frontier[r] # <<>>
      /\ phase' = [phase EXCEPT ![r] = "waiting"]
      /\ UNCHANGED <<network, root, frontier, acquired, offences, inbox>>
      /\ \E labels \in { s \in SUBSET asked : Cardinality(s) = count } :
         \E question \in SetToSeqs(labels) :
            answers' = [answers EXCEPT ![r] =
                (IF network = "ordered" THEN {} ELSE @) \cup {AnswerTo(question)}]
  BY DEF Ask, memory
<1>2. PICK labels \in { s \in SUBSET asked : Cardinality(s) = count } :
         \E question \in SetToSeqs(labels) :
            answers' = [answers EXCEPT ![r] =
                (IF network = "ordered" THEN {} ELSE @) \cup {AnswerTo(question)}]
  BY <1>1
<1>3. PICK question \in SetToSeqs(labels) :
            answers' = [answers EXCEPT ![r] =
                (IF network = "ordered" THEN {} ELSE @) \cup {AnswerTo(question)}]
  BY <1>2
<1>4. /\ question \in [1..count -> labels] /\ labels \subseteq asked
      /\ \A i, j \in 1..count : i # j => question[i] # question[j]
  BY DEF SetToSeqs
<1>5. count \in Nat
  <2>1. IsFiniteSet(asked)
    BY DEF OrderInv, Orderly
  <2>2. Cardinality(asked) \in Nat
    BY <2>1, FS_CardinalityType
  <2>. QED
    BY <2>2, SyncAssumption
<1>6. asked \subseteq DOMAIN At
  BY DEF ShapeInv
<1>7. ASSUME NEW s \in Receiver, s # r
      PROVE  Orderly(s)'
  <2>1. phase'[s] = phase[s] /\ answers'[s] = answers[s]
    BY <1>1, <1>3, <1>7 DEF IInv, TypeInv
  <2>. QED
    BY <1>1, <2>1, OrderlyFrame DEF OrderInv
<1> HIDE DEF count, asked
<1>8. Queue(AnswerTo(question), 0, acquired[r], asked, Bound)
  <2> DEFINE t == AnswerTo(question)
  <2>1. t = [i \in 1..count |-> [node |-> question[i], ttl |-> AnswerDepth]]
    BY <1>4 DEF AnswerTo
  <2>2. \A i \in 1..count : question[i] \in asked /\ question[i] \in DOMAIN At
    BY <1>4, <1>6
  <2>3. AnswerDepth \in 0..AnswerDepth
    BY SyncAssumption
  <2>4. \A i \in 1..count : t[i] \in Grabs /\ t[i].node = question[i]
    BY <2>1, <2>2, <2>3 DEF Grabs
  <2>5. t \in [1..count -> Grabs]
    BY <2>1, <2>4
  <2> HIDE DEF t
  <2>6. t \in Seq(Grabs) /\ Len(t) = count
    BY <1>5, <2>5
  <2>7. 0 \in 0..count /\ 0 + 1 = 1
    BY <1>5
  <2>8. Fits(t, 0, Bound)
    BY BoundNat, FitsNone
  <2>9. \A i, j \in 1..count : i # j => t[i].node # t[j].node
    BY <1>4, <2>4
  <2>10. Queue(t, 0, acquired[r], asked, Bound)
    BY <2>2, <2>4, <2>6, <2>7, <2>8, <2>9 DEF Queue
  <2>. QED
    BY <2>10 DEF t
<1>9. Orderly(r)'
  <2>1. /\ phase'[r] = "waiting"
        /\ network = "ordered" => answers'[r] = {AnswerTo(question)}
    BY <1>1, <1>3 DEF IInv, TypeInv
  <2>2. Orderly(r)
    BY DEF OrderInv
  <2>. QED
    BY <1>1, <1>8, <2>1, <2>2 DEF Orderly, asked
<1>. QED
  BY <1>7, <1>9 DEF OrderInv

\* What is below a node that was held is not looked for: offences begin again.
LEMMA HoldOrders ==
    ASSUME IInv, ShapeInv, OrderInv, NEW r \in Receiver, Hold(r)
    PROVE  OrderInv'
<1>1. /\ Reads(r) /\ Sighted(r) /\ phase[r] = "learning"
      /\ frontier' = [frontier EXCEPT ![r] = Restrict(@, DOMAIN @ \ {Node(r)})]
      /\ offences' = [offences EXCEPT ![r] = 0]
      /\ inbox' = [inbox EXCEPT ![r] = Rest(r)]
      /\ root' = [root EXCEPT ![r] = IF @ = Absent THEN Label(r) ELSE @]
      /\ UNCHANGED <<network, phase, answers, acquired>>
  BY DEF Hold, Accept, Reads
<1>2. ASSUME NEW s \in Receiver, s # r
      PROVE  Orderly(s)'
  <2>1. /\ frontier'[s] = frontier[s] /\ inbox'[s] = inbox[s] /\ offences'[s] = offences[s]
        /\ root'[s] = root[s]
    BY <1>1, <1>2 DEF IInv, TypeInv, ShapeInv
  <2>. QED
    BY <1>1, <2>1, OrderlyFrame DEF OrderInv
<1>3. Orderly(r)'
  <2>1. /\ Orderly(r) /\ inbox'[r] = Rest(r) /\ offences'[r] = 0
        /\ frontier'[r] = Restrict(frontier[r], DOMAIN frontier[r] \ {Node(r)})
    BY <1>1 DEF IInv, TypeInv, ShapeInv, OrderInv
  <2>2. DOMAIN frontier'[r] = DOMAIN frontier[r] \ {Node(r)}
    BY <2>1 DEF Restrict
  <2>3. IsFiniteSet(DOMAIN frontier'[r])
    BY <2>1, <2>2, FS_Subset DEF Orderly
  <2>4. ASSUME network = "ordered"
        PROVE  \E k \in Nat : Queue(Rest(r), k, acquired[r], DOMAIN frontier[r] \ {Node(r)},
                                    Bound - 0)
    <3> DEFINE grab == Head(inbox[r])
               left == DOMAIN frontier[r] \ {Node(r)}
               n == Weight(grab.ttl) - 1
    <3>1. /\ grab \in Grabs /\ grab.node \notin acquired[r]
          /\ Queue(Tail(inbox[r]), 0, acquired[r], left, 0)
          /\ Rest(r) = Expand(grab, Tail(inbox[r]))
      BY <1>1, <2>1, <2>4, ReadLeaves DEF Node
    <3> HIDE DEF grab, left
    <3>2. n \in Nat /\ n <= Bound /\ 0 + n = n
      BY <3>1, WeightFacts DEF Grabs
    <3>3. \E k \in Nat : Queue(Rest(r), k, acquired[r], left, 0 + n)
      BY <3>1, ExpandOut
    <3> HIDE DEF n
    <3>4. PICK k \in Nat : Queue(Rest(r), k, acquired[r], left, n)
      BY <3>2, <3>3
    <3>5. Bound \in Nat /\ Bound - 0 = Bound
      BY BoundNat
    <3>6. Queue(Rest(r), k, acquired[r], left, Bound)
      BY <3>2, <3>4, <3>5, QueueMore
    <3>. QED
      BY <3>5, <3>6 DEF left
  <2>. QED
    BY <1>1, <2>1, <2>2, <2>3, <2>4 DEF Orderly
<1>. QED
  BY <1>2, <1>3 DEF OrderInv

\* What is below a node that is new is asked for now.
LEMMA AcquireOrders ==
    ASSUME IInv, ShapeInv, OrderInv, NEW r \in Receiver, Acquire(r)
    PROVE  OrderInv'
<1> DEFINE node == Node(r)
           sights == Sights(r)
<1>1. /\ Reads(r) /\ Sighted(r) /\ phase[r] = "learning"
      /\ root' = [root EXCEPT ![r] = IF @ = Absent THEN Label(r) ELSE @]
      /\ acquired' = [acquired EXCEPT ![r] = @ \cup {node}]
      /\ frontier' = [frontier EXCEPT ![r] =
                        [n \in (DOMAIN sights \cup DOMAIN frontier[r]) \ {node} |->
                            IF n \in DOMAIN sights THEN sights[n] ELSE frontier[r][n]]]
      /\ offences' = [offences EXCEPT ![r] = 0]
      /\ inbox' = [inbox EXCEPT ![r] = Rest(r)]
      /\ UNCHANGED <<network, phase, answers>>
  BY DEF Acquire, Accept, Reads
<1>2. ASSUME NEW s \in Receiver, s # r
      PROVE  Orderly(s)'
  <2>1. /\ frontier'[s] = frontier[s] /\ inbox'[s] = inbox[s] /\ offences'[s] = offences[s]
        /\ root'[s] = root[s] /\ acquired'[s] = acquired[s]
    BY <1>1, <1>2 DEF IInv, TypeInv, ShapeInv
  <2>. QED
    BY <1>1, <2>1, OrderlyFrame DEF OrderInv
<1>3. /\ node \in DOMAIN At /\ Location(r) = At[node]
      /\ root[r] = Absent => node = Sent /\ Blank(r)
      /\ root[r] # Absent => node \in DOMAIN frontier[r] /\ Begun(r)
  BY <1>1, Reading
<1>4. DOMAIN sights = { Child(node, d) : d \in Sides(node) }
  BY <1>3, SightsAre
<1>5. Orderly(r)'
  <2> DEFINE asked == (DOMAIN sights \cup DOMAIN frontier[r]) \ {node}
  <2>1. /\ Orderly(r) /\ inbox'[r] = Rest(r) /\ offences'[r] = 0
        /\ DOMAIN frontier'[r] = asked
    BY <1>1 DEF IInv, TypeInv, ShapeInv, OrderInv
  <2>2. IsFiniteSet(asked)
    <3>1. DOMAIN sights \subseteq {Child(node, "L"), Child(node, "R")}
      BY <1>4 DEF Sides, Direction
    <3>2. IsFiniteSet({Child(node, "L"), Child(node, "R")})
      <4>1. IsFiniteSet({Child(node, "L")})
        BY FS_Singleton
      <4>2. IsFiniteSet({Child(node, "L")} \cup {Child(node, "R")})
        BY ONLY <4>1, FS_AddElement
      <4>3. {Child(node, "L")} \cup {Child(node, "R")} = {Child(node, "L"), Child(node, "R")}
        OBVIOUS
      <4>. QED
        BY <4>2, <4>3
    <3>3. IsFiniteSet(DOMAIN sights)
      BY ONLY <3>1, <3>2, FS_Subset
    <3>4. IsFiniteSet(DOMAIN sights \cup DOMAIN frontier[r])
      BY <2>1, <3>3, FS_Union DEF Orderly
    <3>. QED
      BY ONLY <3>4, FS_Subset
  <2>3. ASSUME network = "ordered"
        PROVE  Queue(Rest(r), 0, acquired'[r], asked, Bound - 0)
    <3> DEFINE grab == Head(inbox[r])
               tail == Tail(inbox[r])
               left == DOMAIN frontier[r] \ {node}
    <3>1. /\ grab \in Grabs /\ node \notin acquired[r] /\ grab.node = node
          /\ Queue(tail, 0, acquired[r], left, 0)
          /\ Rest(r) = Expand(grab, tail)
      BY <1>1, <2>1, <2>3, ReadLeaves DEF Node
    <3>2. ASSUME NEW d \in Sides(node)
          PROVE  /\ Child(node, d) \in asked
                 /\ Child(node, d) \notin left
      <4>1. Child(node, d) # node
        <5>1. /\ At[Child(node, d)] = Append(At[node], d) /\ At[node] \in Places
              /\ d \in Direction
          BY <1>3, ChildAt, AtPlaces
        <5>. QED
          BY <5>1, Deeper
      <4>2. Child(node, d) \in DOMAIN sights
        BY <1>4
      <4>3. CASE root[r] = Absent
        <5>1. DOMAIN frontier[r] = {}
          BY <1>3, <4>3 DEF Blank
        <5>. QED
          BY <4>1, <4>2, <5>1
      <4>4. CASE root[r] # Absent
        <5>1. Begun(r)
          BY <1>3, <4>4
        <5>2. Outside(acquired[r], Child(node, d))
          BY <1>3, <3>1 DEF Outside
        <5>3. Child(node, d) \notin DOMAIN frontier[r]
          BY <5>1, <5>2, OutsideUnknown DEF Known
        <5>. QED
          BY <4>1, <4>2, <5>3
      <4>. QED
        BY <4>3, <4>4
    <3>3. left \subseteq asked
      OBVIOUS
    <3> HIDE DEF grab, tail, left, asked
    <3>4. \A i \in 1..Len(tail) : tail[i].node \in left
      <4>1. 0 + 1 = 1
        OBVIOUS
      <4>. QED
        BY <3>1, <4>1 DEF Queue
    <3>5. Queue(tail, 0, acquired'[r], asked, 0)
      BY <3>1, <3>3, QueueAmong
    <3>6. Queue(Rest(r), 0, acquired'[r], asked, 0)
      <4>1. \A d \in Sides(grab.node) :
               /\ Child(grab.node, d) \in asked
               /\ \A i \in 1..Len(tail) : tail[i].node # Child(grab.node, d)
        BY <3>1, <3>2, <3>4
      <4>2. Queue(Expand(grab, tail), 0, acquired'[r], asked, 0)
        BY <3>1, <3>5, <4>1, ExpandIn
      <4>. QED
        BY <3>1, <4>2
    <3>7. 0 <= Bound - 0 /\ Bound - 0 \in Int
      BY BoundNat
    <3>. QED
      BY <3>6, <3>7, QueueMore
  <2> HIDE DEF asked
  <2>4. Bound - 0 = Bound - offences'[r]
    BY <2>1
  <2>. QED
    BY <1>1, <2>1, <2>2, <2>3, <2>4 DEF Orderly
<1>. QED
  BY <1>2, <1>5 DEF OrderInv

\* Every step keeps what is said of the answers.
LEMMA OrderKeeps ==
    ASSUME IInv, ShapeInv, OrderInv, [Next]_vars
    PROVE  OrderInv'
<1> USE DEF memory
<1>1. ASSUME NEW r \in Receiver, Flush(r)
      PROVE  OrderInv'
  <2>1. /\ phase' = [phase EXCEPT ![r] = "flushing"]
        /\ UNCHANGED <<network, root, frontier, acquired, offences, inbox, answers>>
    BY <1>1 DEF Flush
  <2>2. ASSUME NEW s \in Receiver
        PROVE  Orderly(s)'
    <3>1. phase'[s] = phase[s] \/ phase'[s] = "flushing"
      BY <2>1 DEF IInv, TypeInv
    <3>. QED
      BY <2>1, <3>1, OrderlyFrame DEF OrderInv
  <2>. QED
    BY <2>2 DEF OrderInv
<1>2. ASSUME NEW r \in Receiver, Close(r)
      PROVE  OrderInv'
  <2>1. /\ phase' = [phase EXCEPT ![r] = "closing"]
        /\ frontier' = [frontier EXCEPT ![r] = <<>>]
        /\ acquired' = [acquired EXCEPT ![r] = {}]
        /\ inbox' = [inbox EXCEPT ![r] = <<>>]
        /\ answers' = [answers EXCEPT ![r] = {}]
        /\ UNCHANGED <<network, root, offences>>
    BY <1>2 DEF Close
  <2>2. ASSUME NEW s \in Receiver
        PROVE  Orderly(s)'
    <3>1. CASE s = r
      <4>1. phase'[s] = "closing" /\ frontier'[s] = <<>>
        BY <2>1, <3>1 DEF IInv, TypeInv
      <4>. QED
        BY <2>1, <4>1, OrderlyFrame DEF OrderInv
    <3>2. CASE s # r
      <4>1. /\ phase'[s] = phase[s] /\ frontier'[s] = frontier[s] /\ acquired'[s] = acquired[s]
            /\ inbox'[s] = inbox[s] /\ answers'[s] = answers[s]
        BY <2>1, <3>2 DEF IInv, TypeInv
      <4>. QED
        BY <2>1, <4>1, OrderlyFrame DEF OrderInv
    <3>. QED
      BY <3>1, <3>2
  <2>. QED
    BY <2>2 DEF OrderInv
<1>3. CASE Work
  <2>1. UNCHANGED <<network, root, frontier, acquired, offences, inbox, answers>>
    BY <1>3 DEF Work, InsertEnd, DropEnd, Insert, DropNode
  <2>2. ASSUME NEW s \in Receiver
        PROVE  phase'[s] = phase[s] \/ phase'[s] \in {"finished", "gone"}
    BY <1>3 DEF Work, InsertEnd, DropEnd, Insert, DropNode
  <2>. QED
    BY <2>1, <2>2, OrderlyFrame DEF OrderInv
<1>4. CASE (\E o \in Other, tree \in Trees : Create(o, tree)) \/ \E t \in Table : Discard(t)
  <2>1. UNCHANGED <<network, phase, root, frontier, acquired, offences, inbox, answers>>
    BY <1>4 DEF Create, Discard
  <2>. QED
    BY <2>1, OrderlyFrame DEF OrderInv
<1>5. CASE UNCHANGED vars
  BY <1>5, OrderlyFrame DEF vars, OrderInv
<1>. QED
  BY <1>1, <1>2, <1>3, <1>4, <1>5, DeliverOrders, IgnoreOrders, RefuseOrders, AskOrders,
     HoldOrders, AcquireOrders DEF Next, Learn

\* Over an ordered network no receiver ever refuses an honest sender, for any tree,
\* any depth of answers, any window and whatever other tables and receivers store
\* and drop meanwhile: no node of the tree is taken for misplaced or malformed, and
\* the nodes below one that was held are never more offences than are tolerated.
THEOREM HonestNeverRefused == Spec => []HonestAccepted
<1>1. Init => ShapeInv
  BY BoundNat DEF Init, ShapeInv, Phases
<1>2. Init => OrderInv
  <2> SUFFICES ASSUME Init, NEW r \in Receiver PROVE Orderly(r)
    BY DEF OrderInv
  <2>1. frontier[r] = <<>> /\ phase[r] = "waiting" /\ root[r] = Absent
    BY DEF Init
  <2>2. DOMAIN <<>> = {}
    OBVIOUS
  <2>. QED
    BY <2>1, <2>2, FS_EmptySet DEF Orderly
<1>3. IInv /\ IInv' /\ ShapeInv /\ [Next]_vars => ShapeInv'
  BY ShapeKeeps
<1>4. IInv /\ ShapeInv /\ OrderInv /\ [Next]_vars => OrderInv'
  BY OrderKeeps
<1>5. OrderInv => HonestAccepted
  BY DEF OrderInv, Orderly, HonestAccepted
<1>. QED
  BY <1>1, <1>2, <1>3, <1>4, <1>5, Invariance, PTL DEF Spec

=============================================================================

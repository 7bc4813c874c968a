----------------------------- MODULE KeyValue -----------------------------
(***************************************************************************)
(* What a zebra database promises its callers: each table is a map of its  *)
(* own, a transaction reads the map as it was and replaces it in one step  *)
(* between its call and its reply, a clone is a snapshot that goes its own *)
(* way.  The abstract specification of the modules Apply and Table.        *)
(***************************************************************************)
EXTENDS Operations

CONSTANTS Handle, Absent, Batch, Caller

VARIABLES
    table,   \* the map behind each handle, or Absent
    call,    \* the transaction each caller waits for, or Absent
    reply    \* the answers a caller has yet to pick up, or Absent

vars == <<table, call, reply>>

Live == { h \in Handle : table[h] # Absent }

Init ==
    /\ table = [h \in Handle |-> Absent]
    /\ call = [t \in Caller |-> Absent]
    /\ reply = [t \in Caller |-> Absent]

Submit(t, h, batch) ==
    /\ call[t] = Absent
    /\ reply[t] = Absent
    /\ call' = [call EXCEPT ![t] = [handle |-> h, batch |-> batch]]
    /\ h \in Live
    /\ UNCHANGED <<table, reply>>

Execute(t) ==
    /\ call[t] # Absent
    /\ call' = [call EXCEPT ![t] = Absent]
    /\ reply' = [reply EXCEPT ![t] = Answers(table[call[t].handle], call[t].batch)]
    /\ table' = [table EXCEPT ![call[t].handle] = Updated(@, call[t].batch)]

Return(t) ==
    /\ reply[t] # Absent
    /\ reply' = [reply EXCEPT ![t] = Absent]
    /\ UNCHANGED <<table, call>>

Open(h) ==
    /\ UNCHANGED <<call, reply>>
    /\ h \notin Live
    /\ table' = [table EXCEPT ![h] = EmptyMap]

Clone(h, copy) ==
    /\ UNCHANGED <<call, reply>>
    /\ h \in Live
    /\ copy \notin Live
    /\ table' = [table EXCEPT ![copy] = table[h]]

\* A table somebody is still executing on is not dropped.
Drop(h) ==
    /\ UNCHANGED <<call, reply>>
    /\ h \in Live
    /\ \A t \in Caller : call[t] # Absent => call[t].handle # h
    /\ table' = [table EXCEPT ![h] = Absent]

Next ==
    \/ \E t \in Caller, h \in Handle, batch \in Batch : Submit(t, h, batch)
    \/ \E t \in Caller : Execute(t)
    \/ \E t \in Caller : Return(t)
    \/ \E h \in Handle : Open(h)
    \/ \E h, copy \in Handle : Clone(h, copy)
    \/ \E h \in Handle : Drop(h)

Spec == Init /\ [][Next]_vars
=============================================================================

------------------------------ MODULE Durable ------------------------------
(***************************************************************************)
(* What a persistent database promises: its tables, known by their names,  *)
(* outlive the process.  A crash forgets the calls in progress, each of    *)
(* which has been executed or not, and nothing else.  The abstract         *)
(* specification of module Database, where a handle is a name.             *)
(***************************************************************************)
EXTENDS KeyValue

Crash ==
    /\ call' = [t \in Caller |-> Absent]
    /\ reply' = [t \in Caller |-> Absent]
    /\ UNCHANGED table

DurableSpec == Init /\ [][Next \/ Crash]_vars
=============================================================================

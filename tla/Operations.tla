---------------------------- MODULE Operations ----------------------------
(***************************************************************************)
(* The operations of a transaction and what they mean for a table.  A      *)
(* transaction holds at most one operation per key, so its batch is a      *)
(* function of the keys; the order of the operations has no meaning.       *)
(***************************************************************************)
CONSTANTS
    Key,          \* keys of the tables
    Value,        \* values of the tables
    Nothing       \* the `None` of an answer: not a value

ASSUME NothingAssumption == Nothing \notin Value

Skip == [act |-> "skip"]         \* the batch has no operation on the key
Get == [act |-> "get"]
Delete == [act |-> "remove"]
Set(v) == [act |-> "set", value |-> v]

Operation == {Skip, Get, Delete} \cup { Set(v) : v \in Value }

Map == [Key -> Value \cup {Nothing}]
EmptyMap == [k \in Key |-> Nothing]

\* Only a Get has an answer.
Answers(map, batch) ==
    [k \in Key |-> IF batch[k].act = "get" THEN map[k] ELSE Nothing]

Updated(map, batch) ==
    [k \in Key |-> CASE batch[k].act = "set" -> batch[k].value
                     [] batch[k].act = "remove" -> Nothing
                     [] OTHER -> map[k]]
=============================================================================

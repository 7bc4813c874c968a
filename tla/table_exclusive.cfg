CONSTANTS
    a = a
    b = b
    v = v
    Key = {a, b}
    Value = {v}
    Thread = {t1, t2}
    Handle = {h1, h2}
    Nothing = Nothing
    Absent = Absent
    Available = Available
    Lost = Lost
    Batch <- MCBatch
    MaxCalls = 2
    Exclusive = TRUE
    BackupMayFail = TRUE
SPECIFICATION FairSpec
INVARIANTS TypeOK NoUnreachable HeldByOwners RootsOwned
PROPERTIES CallsReturn ImplementsKeyValue
\* Threads stop when they have made their calls, or when the store is lost.
CHECK_DEADLOCK FALSE

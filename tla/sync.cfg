\* See MCSync.tla for the digests of the keys and the trees.
CONSTANTS
    a = a
    b = b
    c = c
    d = d
    v = v
    Key = {a, b, c, d}
    Value = {v}
    Nothing = Nothing
    Absent = Absent
    PathLength = 3
    Depth = 1
    Path <- MCPath
    Receiver = {r1, r2}
    Other = {o1}
    Trees <- MCTrees
    Sent <- MCSent
    At <- MCAt
    AnswerDepth = 1
    Window = 1
    MaxChanges = 2
SPECIFICATION Spec
INVARIANTS TypeOK CountsExact FlushFinds TablesWhole HonestAccepted
PROPERTY ExchangesEnd
CHECK_DEADLOCK FALSE

\* See MCTransaction.tla for the digests of the keys.
CONSTANTS
    a = a
    b = b
    c = c
    bad = bad
    v1 = v1
    Key = {a, b, c}
    Value = {v1, bad}
    Nothing = Nothing
    Absent = Absent
    Panicked = Panicked
    Bytes = 2
    Width = 3
    Digests <- MCDigests
    Tables <- EmptyOrFull
    Splits = 1
    Unhashable = {bad}
    Transactions = {t1, t2}
    MaxCalls = 3
SPECIFICATION Spec
SYMMETRY Symmetry
INVARIANTS PathsAgree WalkDoesAll Answered
PROPERTIES DoesWhatWasAsked
CHECK_DEADLOCK FALSE

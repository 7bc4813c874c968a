\* See MCApply.tla for the digests of the keys.
CONSTANTS
    a = a
    b = b
    c = c
    d = d
    v2 = v2
    Key = {a, b, c, d}
    Value = {v1}
    Handle = {h1}
    Nothing = Nothing
    Absent = Absent
    Unknown = Unknown
    Panicked = Panicked
    PathLength = 3
    Depth = 2
    Path <- MCPath
    Batch <- AnyBatch
SPECIFICATION Spec
SYMMETRY Symmetry
INVARIANTS NoPanic ReferencesExact
PROPERTY ImplementsKeyValue

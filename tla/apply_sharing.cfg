\* See MCApply.tla for the digests of the keys.
CONSTANTS
    a = a
    b = b
    c = c
    d = d
    v2 = v2
    Key = {a, b, c}
    Value = {v1, v2}
    Handle = {h1, h2}
    Nothing = Nothing
    Absent = Absent
    Unknown = Unknown
    Panicked = Panicked
    PathLength = 3
    Depth = 1
    Path <- MCPath
    Batch <- SharingBatch
SPECIFICATION Spec
SYMMETRY Symmetry
INVARIANTS TypeOK NoPanic ReferencesExact SnapshotsIntact Canonical ExportTrue DiffTrue
PROPERTY ImplementsKeyValue

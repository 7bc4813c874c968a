\* See MCPartialMap.tla for the digests of the keys.
CONSTANTS
    a = a
    b = b
    c = c
    Key = {a, b, c}
    Value = {v1, v2, bad}
    Unhashable = {bad}
    bad = bad
    v1 = v1
    v2 = v2
    Nothing = Nothing
    Absent = Absent
    Unknown = Unknown
    PathLength = 3
    Path <- MCPath
    Maps = {m1, m2}
    Careful = TRUE
SPECIFICATION Spec
VIEW WithoutLast
SYMMETRY Symmetry
INVARIANTS CommitsToContents AnswersSound Portable
PROPERTIES UpdatesSound KnowledgeKept
CHECK_DEADLOCK FALSE

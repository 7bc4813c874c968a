CONSTANTS
    k = k
    v = v
    w = w
    Key = {k}
    Value = {v, w}
    Nothing = Nothing
    Absent = Absent
    Unnamed = Unnamed
    Name = {n1, n2, Unnamed}
    Object = {o1, o2, o3}
    First = First
    Instance = {First, Second}
    Thread = {t1, t2}
    Batch <- MCBatch
    Careless = {"receive"}
SPECIFICATION Spec
INVARIANT Reopens
SYMMETRY Symmetry

CONSTANTS
    c1 = c1
    c2 = c2
    l1 = l1
    v1 = v1
    v2 = v2
    s1 = s1
    t1 = t1
    t2 = t2
    k1 = k1
    k2 = k2
    None = None
    Courses = {c1, c2}
    Lessons = {l1}
    Versions = {v1, v2}
    Sessions = {s1}
    Texts = {t1, t2}
    Configs = {k1, k2}
    Datasets <- MCDatasets
    MaxOperations = 3
SPECIFICATION Spec
INVARIANTS ImportedIsWhole PreflightSuffices

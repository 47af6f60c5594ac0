SPECIFICATION Spec
CONSTANTS
    Batches = {b1, b2}
    Sources = {s1}
    Records = {r1, r2}
    Keys = {k1, k2}
    MaxRevision = 2
    None = None
SYMMETRY Symmetry
INVARIANTS FailedAddsNothing

CONSTANTS
    a = a
    b = b
    none = none
    u1 = u1
    u2 = u2
    None <- none
    Names = {a, b}
    MetaNames = {a}
    Vals = {0, 1, 2}
    Buffers = {u1, u2}
    MaxDepth = 2
    Templates <- MCTemplates
SPECIFICATION Spec
INVARIANT TypeOK
INVARIANT EvaluationReadsShared
CHECK_DEADLOCK FALSE

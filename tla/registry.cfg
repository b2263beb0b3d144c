\* Every order of calls; a list that starts with room for one adapter.
SPECIFICATION Spec
CONSTANTS
    a = a
    b = b
    c = c
    NULL = NULL
    Place = {a, b, c}
    AdaptersList_Max_Size = 1
    MaxLength = 3
    MaxAllocated = 7
SYMMETRY MCSymmetry
INVARIANT TypeOK
INVARIANT RulesSuffice
INVARIANT LedgerAgrees
INVARIANT NothingLost
PROPERTY ListSpec
CHECK_DEADLOCK FALSE

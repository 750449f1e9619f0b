SPECIFICATION Spec
CONSTANTS
    Keys = {k1, k2, k3}
    Values = {a, b}
    Absent = Absent
    MaxBatch = 2
    Aborting = TRUE
CHECK_DEADLOCK FALSE
SYMMETRY Symmetry
INVARIANTS
    TypeOK
    Released
PROPERTIES
    NothingEscapes
    AllOrNothing

SPECIFICATION Spec
CONSTANTS
    Keys = {k1, k2}
    Values = {a, b}
    Absent = Absent
    MaxBatch = 2
    Aborting = FALSE
SYMMETRY Symmetry
PROPERTY
    AllOrNothing

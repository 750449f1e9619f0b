SPECIFICATION Spec
CONSTANTS
    Instances = {i1, i2}
    Nobody = Nobody
    MaxTs = 2
    MaxPk = 3
    BatchSize = 2
    MaxBatches = 2
    Overruns = TRUE
    TiesArrive = FALSE
SYMMETRY Symmetry
INVARIANTS
    TypeOK
    NoLoss
    NoRedelivery
PROPERTIES
    CheckpointMonotone
    DeliversInOrder

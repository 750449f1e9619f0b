SPECIFICATION FairSpec
CONSTANTS
    Instances = {i1, i2}
    Nobody = Nobody
    MaxTs = 2
    MaxPk = 2
    BatchSize = 1
    MaxBatches = 1
    Overruns = FALSE
    TiesArrive = FALSE
INVARIANTS
    OneTickAtATime
PROPERTY
    Delivered

SPECIFICATION Spec
CONSTANTS
    Instances = {i1, i2}
    Nobody = Nobody
    MaxTs = 2
    MaxPk = 2
    BatchSize = 1
    MaxBatches = 2
    Overruns = TRUE
    TiesArrive = FALSE
CONSTRAINT
    LeaseLastsUntilHandler
INVARIANT
    OneHandlerAtATime

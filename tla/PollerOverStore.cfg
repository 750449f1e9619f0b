SPECIFICATION PollerSpec
CONSTANTS
    i1 = i1
    i2 = i2
    fp = fp
    Instances <- TwoInstances
    Checkpoints <- SomeCursors
    Empty <- NoCursor
    Fingerprint <- SameSource
    Ttl <- ShortTtl
    Skew <- SameClocks
    NoDoc = NoDoc
    NoLease = NoLease
    NoWrite = NoWrite
    Nobody = Nobody
    MaxNow = 4
    MaxOwners = 1
    MaxWrites = 4
    MaxDeletes = 0
    MaxTs = 2
    MaxPk = 1
    BatchSize = 1
    MaxBatches = 1
    TiesArrive = FALSE
PROPERTY
    ImplementsRunner
SYMMETRY Symmetry

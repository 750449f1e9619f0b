SPECIFICATION Spec
CONSTANTS
    i1 = i1
    i2 = i2
    cp0 = cp0
    cp1 = cp1
    fpA = fpA
    fpB = fpB
    Instances <- TwoInstances
    Checkpoints = {cp0, cp1}
    Empty = cp0
    Fingerprint <- SameSource
    Ttl <- ShortTtl
    Skew <- SkewedClocks
    NoDoc = NoDoc
    NoLease = NoLease
    NoWrite = NoWrite
    MaxNow = 3
    MaxOwners = 1
    MaxWrites = 3
    MaxDeletes = 0
INVARIANTS
    TypeOK
    LeaseExclusive
PROPERTY
    ImplementsFenced

SPECIFICATION Spec
CONSTANTS
    i1 = i1
    i2 = i2
    cp0 = cp0
    cp1 = cp1
    fpA = fpA
    fpB = fpB
    Instances <- TwoInstances
    Checkpoints = {cp0, cp1}
    Empty = cp0
    Fingerprint <- TwoSources
    Ttl <- ShortTtl
    Skew <- SameClocks
    NoDoc = NoDoc
    NoLease = NoLease
    NoWrite = NoWrite
    MaxNow = 2
    MaxOwners = 1
    MaxWrites = 3
    MaxDeletes = 1
INVARIANTS
    SourceNeverMixed
    AckedCommitSticks

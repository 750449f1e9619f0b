------------------------- MODULE MCCheckpointStore -------------------------
(* Instances of CheckpointStore for TLC. *)
EXTENDS CheckpointStore

CONSTANTS i1, i2, cp0, cp1, fpA, fpB

TwoInstances == {i1, i2}

\* ttl 1 s: two half seconds of lease, one of grace
ShortTtl == [i \in Instances |-> 1]

\* i1's clock is half a second behind i2's: as much as the grace absorbs
SkewedClocks == [i \in Instances |-> IF i = i2 THEN 1 ELSE 0]

SameClocks == [i \in Instances |-> 0]

SameSource == [i \in Instances |-> fpA]

\* two versions of the program, configured with different sources
TwoSources == [i \in Instances |-> IF i = i2 THEN fpB ELSE fpA]
=============================================================================

-------------------------- MODULE MCPollerOverStore --------------------------
(* Instances of PollerOverStore for TLC. *)
EXTENDS PollerOverStore, TLC

CONSTANTS i1, i2, fp

TwoInstances == {i1, i2}
ShortTtl == [i \in Instances |-> 1]
SameClocks == [i \in Instances |-> 0]
SkewedClocks == [i \in Instances |-> IF i = i2 THEN 1 ELSE 0]
SameSource == [i \in Instances |-> fp]
NoCursor == [ts |-> 0, pk |-> 0]
SomeCursors == [ts : 1..MaxTs, pk : 1..MaxPk] \cup {NoCursor}
Symmetry == Permutations(Instances)
=============================================================================

------------------------------ MODULE MCDbWriter ------------------------------
(* Instances of DbWriter for TLC. *)
EXTENDS DbWriter, TLC

Symmetry == Permutations(Keys) \cup Permutations(Values)
=============================================================================

---------------------------- MODULE MCLazyEngine ----------------------------
(* Instances of LazyEngine for TLC. *)
EXTENDS LazyEngine

OneDatabase == [h \in Handles |-> CHOOSE u \in Urls : TRUE]
=============================================================================

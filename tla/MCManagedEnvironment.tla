------------------------ MODULE MCManagedEnvironment ------------------------
(* Instances of ManagedEnvironment for TLC. *)
EXTENDS ManagedEnvironment
=============================================================================

----------------------- MODULE MCEnvironmentReconciler -----------------------
(* Instances of EnvironmentReconciler for TLC. *)
EXTENDS EnvironmentReconciler

CONSTANTS e1, e2, c1
TwoEnvs == {e1, e2}
OneClaim == {c1}
=============================================================================

----------------------- MODULE MCNamespaceReconciler -----------------------
(* Instances of NamespaceReconciler for TLC. *)
EXTENDS NamespaceReconciler

CONSTANTS a1, a2

TwoApps == {a1, a2}
=============================================================================

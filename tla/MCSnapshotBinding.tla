-------------------------- MODULE MCSnapshotBinding --------------------------
(* Instances of SnapshotBinding for TLC. *)
EXTENDS SnapshotBinding

CONSTANTS k1, k2
TwoComps == {k1, k2}
=============================================================================

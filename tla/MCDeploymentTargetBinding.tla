---------------------- MODULE MCDeploymentTargetBinding ----------------------
(* Instances of DeploymentTargetBinding for TLC. *)
EXTENDS DeploymentTargetBinding, TLC

CONSTANTS c1, c2, u, s1
TwoClaims == {c1, c2}
OneTarget == {u}
OneSR == {s1}

\* Claims are only compared, and no CHOOSE is over more than one target.
ClaimSymmetry == Permutations(TwoClaims)
=============================================================================

---------------------------- MODULE MCPromotionRun ----------------------------
(* Instances of PromotionRun for TLC. *)
EXTENDS PromotionRun

CONSTANTS k1
OneComp == {k1}
===============================================================================

-------------------------- MODULE MCTaskRetryLoop --------------------------
(* An instance of TaskRetryLoop for TLC.                                   *)
EXTENDS TaskRetryLoop

CONSTANTS a, b, c, t1

Names3 == {a, b, c}
Tasks1 == {t1}
=============================================================================

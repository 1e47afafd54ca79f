----------------------- MODULE MCApplicationEventLoop -----------------------
(* Instances of ApplicationEventLoop for TLC. *)
EXTENDS ApplicationEventLoop

CONSTANTS s1

OneSyncRun == {s1}
=============================================================================

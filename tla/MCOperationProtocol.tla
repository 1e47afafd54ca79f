------------------------ MODULE MCOperationProtocol ------------------------
(* Instances of OperationProtocol for TLC. *)
EXTENDS OperationProtocol

CONSTANTS app1

OneApplication == {app1}
TwoIds == 1..2
=============================================================================

\* one application, created, updated and deleted; two operations at once, one failure
SPECIFICATION Spec
CONSTANTS
  app1 = app1
  Resources <- OneApplication
  Ids <- TwoIds
  NoOp = 0
  Deleted = 3
  MaxFaults = 1
  MaxActiveRunners = 20
INVARIANTS TypeOK 
PROPERTIES ArgoNeverRegresses OperationStateMovesForward WaitEnds Converges
CHECK_DEADLOCK FALSE

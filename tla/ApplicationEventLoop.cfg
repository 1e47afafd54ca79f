\* two GitOpsDeployments of one name, one after the other, and a SyncRun
SPECIFICATION Spec
CONSTANTS
  s1 = s1
  SyncRuns <- OneSyncRun
  MaxUid = 2
  MaxWaiting = 1
  MaxInputs = 3
INVARIANTS EventLoopInv NeverStuck OrphansAreWatched
PROPERTY Reconciled

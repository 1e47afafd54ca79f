\* two rows, two batches; a batch query and another call fail
SPECIFICATION Spec
CONSTANTS
  a1 = a1  a2 = a2
  Apps <- TwoApps
  BatchSize = 1
  MaxVersion = 2
  MaxBatchFaults = 1
  MaxFaults = 1
INVARIANTS NamespaceInv
PROPERTY SelfHeals

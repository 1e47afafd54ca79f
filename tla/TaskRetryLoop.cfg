\* three names compete for two runners
SPECIFICATION Spec
CONSTANTS
  a = a  b = b  c = c  t1 = t1
  NoTask = NoTask
  Names <- Names3
  Tasks <- Tasks1
  MaxActiveRunners = 2
INVARIANTS TypeOK ListMatchesMap OneRunnerPerName NoRequestLost
PROPERTIES ImplementsQueue RequestRuns

SPECIFICATION Spec
CONSTANTS
  e1 = e1  e2 = e2  c1 = c1  None = None
  Envs <- TwoEnvs
  Claims <- OneClaim
  MaxChanges = 2
  MaxFaults = 1
CHECK_DEADLOCK FALSE
  
PROPERTY Settles

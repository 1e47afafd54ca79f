SPECIFICATION Spec
CONSTANTS
  k1 = k1  k2 = k2  None = None
  Comps <- TwoComps
  MaxInputs = 3
CHECK_DEADLOCK FALSE
 
PROPERTIES  Settles

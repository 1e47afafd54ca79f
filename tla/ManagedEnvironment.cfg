SPECIFICATION Spec
CONSTANTS
  None = None
  MaxInputs = 2
CHECK_DEADLOCK FALSE
  
PROPERTY Heals

SPECIFICATION Spec
CONSTANTS
  None = None
  MaxInputs = 3
CHECK_DEADLOCK FALSE
INVARIANTS CredentialInv
PROPERTIES LoopReturns Heals

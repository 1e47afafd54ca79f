SPECIFICATION Spec
CONSTANTS
  k1 = k1  None = None
  Comps <- OneComp
  NumRuns = 2
  MaxInputs = 5
CHECK_DEADLOCK FALSE
INVARIANTS PromotionInv
PROPERTIES PromotesSnapshot 

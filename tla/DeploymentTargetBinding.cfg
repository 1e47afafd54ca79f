SPECIFICATION Spec
CONSTANTS
  c1 = c1  c2 = c2  u = u  s1 = s1  None = None
  Claims <- TwoClaims
  UserTargets <- OneTarget
  SRs <- OneSR
  MaxCreates = 1
  MaxFaults = 1
SYMMETRY ClaimSymmetry
CHECK_DEADLOCK FALSE
INVARIANTS BindingInv ExclusiveBinding
PROPERTY ReleasedWithClaim

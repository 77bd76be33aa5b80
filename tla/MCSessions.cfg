SPECIFICATION Spec
CONSTANTS
  None = None
  k1 = k1
  e1 = e1
  w1 = w1
  s0 = s0
  c1 = c1
  c2 = c2
  c3 = c3
  a1 = a1
  a2 = a2
  a3 = a3
  Req <- MCReq
  Key = {k1}
  Email = {e1}
  Slot = {w1}
  Inputs <- MCInputs
  SeedOf <- MCSeedOf
  SeedProfile <- MCSeedProfile
  SeedChallenge <- MCSeedChallenge
  CreateMax = 1
  MaxFailures = 1
  MaxWindows = 1
SYMMETRY MCSymmetry
INVARIANTS ChallengeSingleUse DeadTokenRefused
PROPERTIES SessionEndsForCause ImplementsSingleSession
CHECK_DEADLOCK FALSE

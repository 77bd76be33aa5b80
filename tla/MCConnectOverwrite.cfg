SPECIFICATION Spec
CONSTANTS
  None = None
  kn = kn
  km = km
  e1 = e1
  w1 = w1
  c1 = c1
  c2 = c2
  c3 = c3
  a1 = a1
  a2 = a2
  a3 = a3
  Req <- MCReq
  Key = {kn, km}
  Email = {e1}
  Slot = {w1}
  Inputs <- MCInputs
  SeedOf <- MCSeedOf
  SeedProfile <- MCSeedProfile
  SeedChallenge <- MCSeedChallenge
  CreateMax = 1
  MaxFailures = 1
  MaxWindows = 2
SYMMETRY MCSymmetry
PROPERTIES ConnectNeverOverwrites
CHECK_DEADLOCK FALSE

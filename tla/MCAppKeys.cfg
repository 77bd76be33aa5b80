SPECIFICATION Spec
CONSTANTS
  None = None
  d1 = d1
  d2 = d2
  e = e
  e2 = e2
  h = h
  b = b
  p = p
  q = q
  l1 = l1
  l2 = l2
  Device = {d1, d2}
  Account = {e, e2, h, b}
  Email = {e, e2}
  Hardware = {h}
  Biometric = {b}
  Uses <- MCUses
  Passkey = {p, q}
  MaxAccounts = 2
  Count = {l1, l2}
SYMMETRY MCSymmetry
INVARIANTS TypeOK SessionKeyOpensWallets RightSecretLogsIn LocalPinsFitSession
CHECK_DEADLOCK FALSE

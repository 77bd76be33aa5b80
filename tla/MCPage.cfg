SPECIFICATION Spec
CONSTANTS
  None = None
  a = a
  b = b
  c1 = c1
  c2 = c2
  x = x
  y = y
  Account = {a, b}
  Cred = {c1, c2}
  Ledger = {x, y}
  MaxCalls = 4
SYMMETRY MCSymmetry
INVARIANTS TypeOK SettledPageFits EnabledMeansUsable UnlockFitsSession ClearedStaysCleared TransportsAccountedFor ConnectedIsUsable
CHECK_DEADLOCK FALSE

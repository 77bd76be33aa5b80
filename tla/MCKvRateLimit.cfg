SPECIFICATION Spec
CONSTANTS
  r1 = r1
  r2 = r2
  r3 = r3
  Caller <- MCCaller
  MaxAttempts = 2
  Window = 3
  MaxLost = 1
INVARIANTS LockoutTakesTwoLosses
PROPERTIES ImplementsWindow Drains

SPECIFICATION Spec
CONSTANTS
  Requests = {r1, r2, r3}
  Tokens = {t1, t2, t3}
  None = none
  Lifetime = 1
  MaxClock = 2
SYMMETRY Symmetric
CHECK_DEADLOCK FALSE
INVARIANTS OneLivePerFamily ChainIsLinear LogoutEndsFamily

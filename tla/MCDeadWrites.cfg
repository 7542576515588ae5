CONSTANTS
  b1 = b1  b2 = b2  b3 = b3
  r1 = r1  r2 = r2
  None = None
  Reg = {r1, r2}
  Block = {b1, b2}
  Functions <- MCInstrs
SPECIFICATION SpecAll
INVARIANTS RunInv SameBehaviour
CHECK_DEADLOCK FALSE

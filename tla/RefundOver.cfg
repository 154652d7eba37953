\* Two refunds sum before either inserts.
SPECIFICATION RefundSpec
CONSTANTS
  r1 = r1
  r2 = r2
  r3 = r3
  Requests = {r1, r2}
  Amount = 2
  Together = {2}
CHECK_DEADLOCK FALSE
INVARIANTS NeverOverRefunded

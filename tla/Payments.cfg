\* One order, two charges, sequential and overlapping requests.
SPECIFICATION Spec
CONSTANTS
  s1 = s1
  s2 = s2
  c1 = c1
  c2 = c2
  n1 = n1
  n2 = n2
  Slots = {s1, s2}
  Overlaps = {1, 2}
  Charges = {c1, c2}
  NoCharge = NoCharge
  Notices = {n1}
  Prices = {1}
  StatusMoves <- Moves
  MaxCash = 2
SYMMETRY Symmetry
CHECK_DEADLOCK FALSE
INVARIANTS PaidAtPrice
PROPERTIES ConfirmAlongMatrix CashIsFirstMoney PaymentConfirmsOrder

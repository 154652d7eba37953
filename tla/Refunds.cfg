\* Three requests of up to three units, one at a time and up to three together,
\* crashes.
SPECIFICATION FairRefundSpec
CONSTANTS
  r1 = r1
  r2 = r2
  r3 = r3
  Requests = {r1, r2, r3}
  Amount = 3
  Together = {1, 2, 3}
CHECK_DEADLOCK FALSE
INVARIANTS CompletedWasReturned
PROPERTIES ImplementsLedger ReservationsSettle

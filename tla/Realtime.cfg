CONSTANTS
  e1 = e1  e2 = e2  c1 = c1
  n1 = n1  n2 = n2
  a = a  b = b
  ClientEvents = {e1, e2}
  Commands = {c1}
  Nodes = {n1, n2}
  Nobody = Nobody
  Names = {a, b}
  Namings <- MCNamings
  MaxFaults = 1
SPECIFICATION FairSpec
INVARIANTS EmittedIsTrue SentOnce
PROPERTIES NeverBackwards EventsSettle
CHECK_DEADLOCK FALSE

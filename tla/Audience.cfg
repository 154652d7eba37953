\* Staff of two laundries; customers' sockets and the events they hear.
SPECIFICATION AudienceSpec
CONSTANTS
  i1 = i1
  i2 = i2
  w1 = w1
  w2 = w2
  b1 = b1
  b2 = b2
  b3 = b3
  r1 = r1
  r2 = r2
  k1 = k1
  k2 = k2
  None = None
  Identities = {i1, i2}
  Washers = {w1, w2}
  Branches = {b1, b2, b3}
  BranchWasher <- MCBranchWasher
  Role <- MCRole
  Slots = {r1, r2}
  Socks = {k1, k2}
  Worlds <- MCWorlds
  MaxSessions = 3
  MaxOrders = 1
SYMMETRY Symmetry
INVARIANTS SessionNamesItsOwn ServedWasMember
PROPERTIES HeardByParties
\* Once everybody is suspended and the bound of changes reached, nobody can act.
CHECK_DEADLOCK FALSE

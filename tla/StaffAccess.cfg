\* One person and one laundry, sequential and overlapping requests.
SPECIFICATION Spec
CONSTANTS
  r1 = r1
  r2 = r2
  owner = owner
  driver = driver
  Slots = {r1, r2}
  Worlds <- MCWorlds
  Roles = {owner, driver}
  NoRole = NoRole
  MaxInvitations = 2
SYMMETRY Symmetry
CHECK_DEADLOCK FALSE
INVARIANTS PendingWasSent GrantsFollowRoles
PROPERTIES UsedOnce

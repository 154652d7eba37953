\* One request at a time with every target, and two at once with few.
SPECIFICATION FairSpec
CONSTANTS
  s1 = s1
  s2 = s2
  d1 = d1
  d2 = d2
  Slots = {s1, s2}
  Drivers = {d1, d2}
  Nobody = Nobody
  Pickup = Pickup
  Worlds <- MCWorlds
INVARIANTS InSight PickupDriverAgrees
PROPERTIES CleanCancelIsFinal OnlyClaimsLeaveMatrix WasherMovesForward
           SettledTasksNeverSwap RequestsAreAnswered

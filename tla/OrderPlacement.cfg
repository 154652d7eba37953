\* One branch, two requests, one after the other and overlapping, a fault.
SPECIFICATION Spec
CONSTANTS
  r1 = r1
  r2 = r2
  here = here
  there = there
  k1 = k1
  k2 = k2
  Slots = {r1, r2}
  Worlds <- MCWorlds
  Places = {here, there}
  Circles <- MCCircles
  Districts <- MCDistricts
  Trips <- MCTrips
  Keys = {k1, k2}
  NoTrip = NoTrip
  NoKey = NoKey
  MaxSaves = 2
SYMMETRY Symmetry
CHECK_DEADLOCK FALSE
INVARIANTS NumbersInSequence SavedTogether
PROPERTIES CacheShowsZones ExclusionsSurvive

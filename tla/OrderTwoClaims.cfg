\* Two drivers claim the same task at once.
SPECIFICATION Spec
CONSTANTS
  s1 = s1
  s2 = s2
  d1 = d1
  d2 = d2
  Slots = {s1, s2}
  Drivers = {d1, d2}
  Nobody = Nobody
  Pickup = Pickup
  Worlds <- TwoDrivers
PROPERTIES OneDriverClaims

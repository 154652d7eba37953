\* Two sessions, three tokens, sequential and overlapping requests.
SPECIFICATION Spec
CONSTANTS
  r1 = r1
  r2 = r2
  Slots = {r1, r2}
  Worlds <- MCWorlds
  MaxSessions = 2
  MaxTokens = 3
SYMMETRY Symmetry
CHECK_DEADLOCK FALSE
INVARIANTS AdmittedWasLive ExactlyOneToken NoFalseLockout SocketsFollow
PROPERTIES CacheFollows

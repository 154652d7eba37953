\* Codes guessed by two at once; an account's life, one request or two at once.
SPECIFICATION FairSpec
CONSTANTS
  r1 = r1
  r2 = r2
  p1 = p1
  p2 = p2
  Slots = {r1, r2}
  Phones = {p1, p2}
  Anon = Anon
  MaxAttempts = 2
  MaxCodes = 3
  MaxIds = 2
  MaxSessions = 2
  Worlds <- MCWorlds
INVARIANTS OtpBudget GoneForGood
PROPERTIES DueIsDeleted

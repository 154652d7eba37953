\* Two dispatchers, two slots of one worker process, one fault.
SPECIFICATION FairSpec
CONSTANTS
  e1 = e1
  e2 = e2
  p1 = p1
  p2 = p2
  w1 = w1
  w2 = w2
  i1 = i1
  d1 = d1
  d2 = d2
  d3 = d3
  t1 = t1
  t2 = t2
  Events = {e1, e2}
  Dispatchers = {p1, p2}
  Slots = {w1, w2}
  Instance <- OneInstance
  Nobody = Nobody
  Devices = {d1, d2, d3}
  Recipient <- Owners
  Token <- SharedToken
  BatchSize = 2
  MaxAttempts = 2
  MaxFaults = 1
  Wirings = {"worker", "documented"}
CHECK_DEADLOCK FALSE
INVARIANTS OneOwner 
PROPERTIES EndedJobSettles PendingIsQueued

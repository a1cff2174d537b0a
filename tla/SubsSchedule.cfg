SPECIFICATION FairSpec
CONSTANTS
  None = None
  c1 = c1
  c2 = c2
  k1 = k1
  k2 = k2
  w1 = w1
  w2 = w2
  Calendars = {c1}
  Requests = {1}
  Subs = {1, 2}
  Scopes = {k1, k2}
  Workers = {w1}
  Batch = 1
  MaxEvents = 2
CHECK_DEADLOCK FALSE
INVARIANTS
  TypeOK
PROPERTIES
  
  FallsSilent
  

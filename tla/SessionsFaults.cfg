SPECIFICATION FairSpec
CONSTANTS
  None = None
  s1 = s1
  s2 = s2
  b1 = b1
  b2 = b2
  w1 = w1
  e1 = e1
  Subjects = {s1}
  EmailOf <- OneEmail
  Verified = {s1}
  Workers = {w1}
  Grants = {1, 2, 3, 4, 5}
  Browsers = {b1}
  Requests = {1, 2}
  Sids = {1, 2, 3, 4}
  Secrets = {1, 2, 3, 4}
  States = {1, 2}
  MaxFaults = 2
CHECK_DEADLOCK FALSE
INVARIANTS
  TypeOK
  NoHalfAccount
  ExpiryIsOfAccess
PROPERTIES
  ConsentKept
  

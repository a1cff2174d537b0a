SPECIFICATION FairSpec
CONSTANTS
  Clients = {a, b}
  Ttl = 3
  MaxDelay = 3
  MaxTokens = 3
  MaxDeaths = 1
  MaxErrors = 1
  Free = Free
  Orphan = Orphan
CHECK_DEADLOCK FALSE
INVARIANTS
  TypeOK
  LapsesOnlyWhenLate
PROPERTIES
  ImplementsMutex
  OnlyOwnersExtend
  EventuallyFree

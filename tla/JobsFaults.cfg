SPECIFICATION Spec
CONSTANTS
  j1 = j1
  j2 = j2
  w1 = w1
  w2 = w2
  c1 = c1
  c2 = c2
  Jobs = {j1}
  TypeOf <- OneSync
  TargetOf <- OneTarget
  Covers <- OneCover
  MaxAttempts = 2
  NoKey = NoKey
  Workers = {w1, w2}
  Callers = {c1, c2}
  NoDoc = NoDoc
  NoMessage = NoMessage
  NoJob = NoJob
  Free = Free
  Orphan = Orphan
  MaxDispatch = 2
  Budget <- ProcessFaults
  EarlyDelivery = FALSE
CHECK_DEADLOCK FALSE
INVARIANTS
  TypeOK
  AttemptsWithinBudget
  
  
SYMMETRY Interchangeable

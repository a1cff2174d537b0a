SPECIFICATION FairSpec
CONSTANTS
  None = None
  t1 = t1
  t2 = t2
  j1 = j1
  Processes = {"api", "worker"}
  Threshold = 2
  MaxAttempts = 2
  MaxEvents = 3
  Tasks = {t1, j1}
  ProcessOf <- OneEach
  MaxVersion = 1
INVARIANTS
  TypeOK
  

  

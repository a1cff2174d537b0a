SPECIFICATION Spec
CONSTANTS
  f1 = f1
  f2 = f2
  s1 = s1
  s2 = s2
  a = a
  b = b
  x = x
  p1 = p1
  p2 = p2
  m1 = m1
  m2 = m2
  None = None
  Fixtures = {f1}
  Contents = {a, b}
  Cancelled = {}
  MadeIds = {m1}
  MadeFor <- MadeForEach
  ConflictPolicy = "fixture_wins"
  CancelledPolicy = "annotate"
  MaxActions = 10
  Subs = {s1}
  Scope <- CoversAll
  Procs = {p1, p2}
  Modes = {"incremental", "reconcile"}
  Exclusive = FALSE
  MaxFixtures = 5
  MaxItemRetries = 2
  Fallible = {"create", "recreate", "update", "cancel", "delete"}
  Budget <- Overlaps
CHECK_DEADLOCK FALSE
INVARIANTS
  AtMostOneEvent

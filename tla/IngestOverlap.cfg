SPECIFICATION Spec
CONSTANTS
  None = None
  c1 = c1
  c2 = c2
  k1 = k1
  k2 = k2
  ta = ta
  tb = tb
  tc = tc
  r1 = r1
  r2 = r2
  Competitions = {c1}
  Pids = {k1, k2}
  Teams = {ta, tb, tc}
  Slots = {1, 2, 4}
  DayLength = 2
  Tolerance = 1
  Windows <- WholeSeason
  Statuses = {"scheduled"}
  CompOf <- InOneLeague
  SidesOf <- SameMatch
  Undated = {}
  Runs = {r1, r2}
  Scopes <- OneScope
  Known = {ta, tb, tc}
  IssueSamples <- Issues
  MaxRows = 3
  Endless = FALSE
  Budget <- Reissued
CHECK_DEADLOCK FALSE

  
PROPERTIES
  ImplementsTable

SPECIFICATION FairSpec
CONSTANTS
  None = None
  c1 = c1
  c2 = c2
  k1 = k1
  k2 = k2
  ta = ta
  tb = tb
  tc = tc
  r1 = r1
  r2 = r2
  Competitions = {c1, c2}
  Pids = {k1, k2}
  Teams = {ta, tb, tc}
  Slots = {0, 3}
  DayLength = 2
  Tolerance = 1
  Windows <- Opening
  Statuses = {"scheduled"}
  CompOf <- InTwoLeagues
  SidesOf <- TwoMatches
  Undated = {}
  Runs = {r1}
  Scopes <- AllScopes
  Known = {ta, tb}
  IssueSamples <- Issues
  MaxRows = 3
  Endless = TRUE
  Budget <- Flaky
CHECK_DEADLOCK FALSE
INVARIANTS
  TypeOK
  OneFlakeNeverDeletes
PROPERTIES
  Converges

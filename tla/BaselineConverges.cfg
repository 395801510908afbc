SPECIFICATION FairSpec
CONSTANTS
  m1 = m1
  m2 = m2
  f1 = f1
  f2 = f2
  skills = skills
  rules = rules
  None = None
  Machines = {m1, m2}
  Files = {f1}
  RootOf <- OneRoot
  SizeOf <- SameSizes
  Tolerance = 0
  Compare = "mtime"
  EqualTimes = "skip"
  DeletePolicy = "never"
  Policies = {"prefer_newer_mtime", "prefer_local"}
  Directions = {"bidirectional"}
  Times = {2, 3}
  SharedTimes = FALSE
  Synced = TRUE
  OneAtATime = TRUE
  Quiet = FALSE
  MaxWrites = 2
  MaxRemovals = 1
  MaxRestamps = 0
  MaxEmptied = 0
  MaxFailures = 1
PROPERTY Converges
CHECK_DEADLOCK FALSE

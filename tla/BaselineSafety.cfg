SPECIFICATION Spec
CONSTANTS
  m1 = m1
  m2 = m2
  f1 = f1
  f2 = f2
  skills = skills
  rules = rules
  None = None
  Machines = {m1, m2}
  Files = {f1, f2}
  RootOf <- TwoInOneRoot
  SizeOf <- SameSizes
  Tolerance = 0
  Compare = "mtime"
  EqualTimes = "manual_abort"
  DeletePolicy = "propagate"
  Policies = {"manual_abort", "prefer_newer_mtime"}
  Directions = {"bidirectional", "to_cloud", "to_local"}
  Times = {2, 3, 4}
  SharedTimes = FALSE
  Synced = TRUE
  OneAtATime = TRUE
  Quiet = TRUE
  MaxWrites = 3
  MaxRemovals = 1
  MaxRestamps = 1
  MaxEmptied = 1
  MaxFailures = 1
SYMMETRY MachineSymmetry
CONSTRAINT FewEvents
INVARIANT NothingLostUnasked
INVARIANT BaselineIsAgreement
INVARIANT DeletedStaysDeleted
CHECK_DEADLOCK FALSE

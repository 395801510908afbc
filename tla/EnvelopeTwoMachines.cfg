SPECIFICATION AttendedSpec
CONSTANTS
  m1 = m1
  m2 = m2
  p1 = p1
  p2 = p2
  f1 = f1
  f2 = f2
  oldText = oldText
  newText = newText
  None = None
  Absent = Absent
  Cloud = Cloud
  Files = {f1, f2}
  Content = {oldText, newText}
  MaxTries = 2
  Machines = {m1, m2}
  Procs = {p1, p2}
  MachineOf <- TwoMachines
  Plans <- BothSides
  Initial <- OldTrees
  Ops = {1, 2}
  MaxCrashes = 1
  MaxRefusals = 0
  MaxEdits = 0
  MaxStarts = 0
  RecoverAlone = TRUE
INVARIANT RollbackStaysPossible
PROPERTY EveryBlockEnds

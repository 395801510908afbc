SPECIFICATION Spec
CONSTANTS
  m1 = m1
  m2 = m2
  p1 = p1
  p2 = p2
  f1 = f1
  f2 = f2
  oldText = oldText
  newText = newText
  None = None
  Absent = Absent
  Cloud = Cloud
  Files = {f1, f2}
  Content = {oldText, newText}
  MaxTries = 2
  Machines = {m1}
  Procs = {p1, p2}
  MachineOf <- SameMachine
  Plans <- MixedPlans
  Initial <- FirstMissing
  Ops = {1, 2}
  MaxCrashes = 1
  MaxRefusals = 1
  MaxEdits = 1
  MaxStarts = 1
  RecoverAlone = TRUE
SYMMETRY ProcSymmetry
CONSTRAINT FewMishaps
INVARIANT OneMutationPerCodexFolder
INVARIANT HalfAppliedBlocks
INVARIANT OneReplaceAfterCodexStarts
PROPERTY MutationIsAtomic

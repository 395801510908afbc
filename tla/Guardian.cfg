SPECIFICATION FairSpec
CONSTANTS
  p1 = p1
  p2 = p2
  big = big
  mid = mid
  small = small
  Torn = Torn
  None = None
  PointerFile = PointerFile
  Procs = {p1, p2}
  Bodies = {big, mid, small}
  SizeOf <- Sizes
  MinCount = 2
  RatioNum = 1
  RatioDen = 4
  Ids = {1, 2, 3, 4}
  MaxWrites = 2
  MaxMishaps = 1
  MaxHolds = 1
  MaxPreviews = 1
INVARIANT GenerationsUnique
INVARIANT NothingNeededPruned
PROPERTY NothingSuspiciousUnasked
PROPERTY SettledStateIsSeen

SPECIFICATION Spec
CONSTANTS
    m1 = m1
    m2 = m2
    Machines = {m1, m2}
    Mirror = Mirror
    None = None
    Absent = Absent
    Setups <- TwoSettings
    Starts <- ThreeStarts
    MaxRecords = 4
    MaxUsed <- Most
    MaxMishaps = 1
    MaxEvents = 2
CONSTRAINT FewMoves
INVARIANT NothingLost
INVARIANT OneFilePerChat
PROPERTY MoverWins
PROPERTY ProjectionHolds
CHECK_DEADLOCK FALSE

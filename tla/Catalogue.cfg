SPECIFICATION FairSpec
CONSTANTS
    Chats = {1, 2}
    n1 = n1
    n2 = n2
    Names = {n1, n2}
    Title = title
    Peers = {p, q}
    Talking = {p}
    Asides = {"aside"}
    Ignored = {}
    FirstHeld <- MCStarts
    MaxEvents = 3
    MaxRuns = 2
    MaxMishaps = 1
    Absent = Absent
INVARIANT PersonNamesStand
PROPERTY RowsFollowFiles
PROPERTY RebuildNotCutShort
PROPERTY CodexStartsAgain
CHECK_DEADLOCK FALSE

SPECIFICATION FairSpec
CONSTANTS
    Projects = {1, 2}
    Chats = {"a", "b", "c"}
    Moving = 1
    Old = "old"
    Target = "new"
    Home <- Homes
    Gone = {"b"}
    Rule <- OldIsNew
    Files = {"f", "g"}
    Newest = 2
    Start <- TwoProjects
    Known = {"a", "c"}
    MaxEvents = 3
    MaxRuns = 1
    MaxMishaps = 1
    None = None
INVARIANT CopyHasItsMarker
PROPERTY MoveLosesNothing
PROPERTY CodexWritesStand
PROPERTY MoveFinishes
CHECK_DEADLOCK FALSE

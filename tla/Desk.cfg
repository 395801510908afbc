SPECIFICATION DeskSpec
CONSTANTS
    Starts <- DeskStarts
    Template <- Current
    Edits <- FewEdits
    KnownNames = {"codex"}
    OwnedRoots = {"agents"}
    MinSeconds = 2
    MaxSeconds = 9
    PerMinute = 3
    Valuable = {1, 2}
    KeepCopies = 1
    FirstCopies <- Shared
    LastTime = 2
    LastMoment = 2
    CopyBudgets <- CopyBudget
    Items = {"a", "b"}
    FirstTree <- TwoTrees
    PeerSaved <- Peers
    KeepSnapshots = 1
    MaxOperations = 4
    BackupStarts <- Kept
    Missing = Missing
    Nothing = None
    None = None
    Odd = Odd
INVARIANT ViewIsCurrent
INVARIANT TasksFollowSettings
PROPERTY NoEditLost
PROPERTY CopiesCanBeUsed
PROPERTY KeptIsPutBack
CHECK_DEADLOCK FALSE

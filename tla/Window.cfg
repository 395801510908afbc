SPECIFICATION WindowSpec
CONSTANTS
    Starts <- FewStarts
    Pids = {1, 2, 3}
    LastBirth = 4
    MoreSamples = 1
    Configs = {f1, f2}
    Options = {c1, c2}
    Usual = c1
    Features <- FewFeatures
    MaxJobs = 2
    Nothing = Nothing
    Failed = Failed
    Done = Done
INVARIANT GoesOnWhenGone
INVARIANT PagesStayTrue
PROPERTY OnlyCodexAsked
PROPERTY ConfirmedIsDone
CHECK_DEADLOCK FALSE

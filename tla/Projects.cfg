SPECIFICATION Spec
CONSTANTS
    LastMachine = 2
    LastProject = 3
    Chats = {c1, c2}
    LastSection = 1
    Dirs = {"D", "E", "opt"}
    Names = {"x"}
    SystemOf <- Systems
    Cwd <- Written
    ConfigRules <- NoRules
    Folders <- Answerable
    Edited <- Touched
    Attended = {2}
    Starts <- Fresh
    Disks <- HomeDisks
    MaxEvents = 2
    MaxEditions = 4
    MaxMishaps = 1
    None = None
    c1 = c1
    c2 = c2
INVARIANT ProjectsStayApart
PROPERTY ListsNotAppliedAgain
CHECK_DEADLOCK FALSE

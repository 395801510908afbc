SPECIFICATION Spec
CONSTANTS
    m1 = m1
    m2 = m2
    config = config
    chat = chat
    Machines = {m1, m2}
    Settings = {config}
    Chats = {chat}
    PolicyOf <- TwoPolicies
    None = None
    MaxOpens = 2
    MaxWrites = 2
    MaxHandoffs = 2
    MaxMishaps = 2
CONSTRAINT MishapBound
ACTION_CONSTRAINT Useful
INVARIANT HandedOffIsInCloud
INVARIANT TakenIsLoaded
PROPERTY NothingForgotten
CHECK_DEADLOCK FALSE

\* Two requests of one process, whose turns may outlive their lease.
SPECIFICATION FairSpec
CONSTANTS
    h1 = h1
    h2 = h2
    h3 = h3
    p1 = p1
    p2 = p2
    Handlers = {h1, h2}
    Processes = {p1, p2}
    ProcessOf <- MCProcessOf
    Chats = {chat}
    NoHandler = none
    Outlive = TRUE
    MaxTurns = 2
    MaxCalls = 1
PROPERTIES
    ClaimIsOwn
    EveryTurnConcludes
CHECK_DEADLOCK FALSE

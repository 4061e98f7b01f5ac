SPECIFICATION ServicesSpec
CONSTANTS
    h1 = h1    h2 = h2    h3 = h3    p1 = p1    p2 = p2
    Handlers = {h1, h3}
    Processes = {p1, p2}
    ProcessOf <- MCProcessOf
    Chats = {chat}
    NoHandler = none
    Outlive = FALSE
    MaxTurns = 2
    MaxCalls = 1

    r1 = r1    r2 = r2
    guest = guest    ann = ann    invite = invite    subject = subject
    Emails = {ann, bob}
    Invites = {invite}
    Invited <- MCInvited
    Subjects = {subject}
    SubjectEmail <- MCSubjectEmail
    Flows = {1}
    Desktops = {r1, r2}
    Seed = ann
    DemoEmail = bob
    Assignable = {"viewer"}
    NoEmail = NoEmail
    NoInvite = NoInvite
    NoSubject = NoSubject
    NoFlow = NoFlow

    Keys = {1}
    Owners = {1}
    Ranks = {1, 2}
    Asks = {1}
    TokenWorkers = {r1, r2}
    MaxTokens = 3
    NoGrant = NoGrant

    turn = turn    long = long    title = title    voice = voice    ip1 = ip1    ip2 = ip2
    report = report
    Turns = {turn, long}
    Titles = {title}
    Voices = {voice}
    Everyone = Everyone
    Address <- MCAddress
    UserOf <- MCUserOf
    Users = {guest, ann}
    Roles = {"admin"}
    FirstRole <- MCFirstRole
    DemoRole = "public_manager"
    Tools = {report}
    MayUse <- MCMayUse
    Delegating = {report}
    GlobalCap = 2
    AddressCap = 1
    Estimate = 1
    Costs = {2}
    Dearest = 2
    MaxSteps = 1
    Slow = TRUE
    NoTool = NoTool

    pen = pen
    ink = ink
    Names = {1, 2, 3, 4, 5, 6}
    Kind <- MCKind
    Row0 <- MCRow0
    NoRow = NoRow
    Null = Null
    All = All
    Changes <- MCChanges
    Queries <- MCQueries
    Offsets = {0}
    PageLimit = 2
    ListReaders = {"reader"}
    ListWriters = {"writer"}
    ProcessAt <- MCTwoProcesses
    Backend = "postgres"
    CacheTTL = 1
    CacheMax = 2
    LastTick = 1
    MaxStatements = 2

    ada = ada    bob = bob    drill = drill
    Annotated = {drill}
    Team = {ada, bob}
    Moderators = {ada}
    Texts <- MCTexts
    Tickets = {1}
    NoteWorkers = {r1, r2}
    NoNote = NoNote
    MaxNotes = 2
    MaxTasks = 3
INVARIANTS
    OneTurnAtATime
    AdminRemains
    ConnectionIsOneChain
    DemoSpendBounded
    ToolsUseLiveRole
    CountsAreRecent
    NeighboursFollowTheList
    InboxFollowsNotes
SYMMETRY MCSymmetry
CHECK_DEADLOCK FALSE

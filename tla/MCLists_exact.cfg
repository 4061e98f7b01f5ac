\* One app process: every write is an in-process write.
SPECIFICATION ListsSpec
CONSTANTS
    pen = pen
    ink = ink
    Names = {1, 2, 3, 4, 5, 6}
    Kind <- MCKind
    Row0 <- MCRow0
    NoRow = NoRow
    Null = Null
    All = All
    Changes <- MCChanges
    Queries <- MCQueries
    Offsets = {0}
    PageLimit = 2
    ListReaders = {"reader"}
    ListWriters = {"writer"}
    ProcessAt <- MCOneProcess
    Backend = "postgres"
    CacheTTL = 1
    CacheMax = 2
    LastTick = 1
    MaxStatements = 2
INVARIANT
    CountsAreExact
CHECK_DEADLOCK FALSE

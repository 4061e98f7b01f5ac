\* Two sessions on PostgreSQL: an original, a return against it and a journal entry
\* that settles both, with edits of the drafts.  The row locks can close a cycle.
\* The system stops when every document is cancelled or discarded.
SPECIFICATION FairSpec
CONSTANTS
    inv = inv
    ret = ret
    pay = pay
    Invoices = {inv}
    Returns = {ret}
    Settlements = {jou}
    Sessions = {s1, s2}
    None = None
    Dialect = "postgres"
    MaxModified = 1
    TillBills = {}
    Tendered <- MCTendered
    Total <- MCTotal
    Against <- MCAgainst
    Alloc <- MCAlloc
    Rank <- MCRank
PROPERTIES
    Serializable
    WriteIsFresh
    EveryRequestEnds
CHECK_DEADLOCK FALSE

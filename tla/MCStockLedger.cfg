SPECIFICATION Spec
CONSTANTS
    bolt = bolt
    nut = nut
    boltA = boltA
    boltB = boltB
    nutA = nutA
    opening = opening
    issue = issue
    transfer = transfer
    ordered = ordered
    received = received
    sentBack = sentBack
    bought = bought
    handedBack = handedBack
    sold = sold
    cameBack = cameBack
    cameAgain = cameAgain
    None = None
    Sessions = {s1, s2}
    Documents = {opening, issue, transfer, ordered, received, sentBack, bought, handedBack, sold, cameBack, cameAgain}
    Items = {bolt, nut}
    Bins = {boltA, boltB, nutA}
    MaxPosted = 4
    ItemOf <- MCItemOf
    NameRank <- MCNameRank
    KindOf <- MCKindOf
    RowsOf <- MCRowsOf
    Original <- MCOriginal
    OrdersOf <- MCOrdersOf
SYMMETRY Symmetry
INVARIANTS
    BinMatchesLedger
    CancelLeavesNothing
    BookedAtCost
    ReturnsWithinOriginal
    NoWaitCycle
CHECK_DEADLOCK FALSE

\* A purchase receipt, a purchase invoice at another price and its return.
SPECIFICATION Spec
CONSTANTS
    bolt = bolt
    nut = nut
    boltA = boltA
    boltB = boltB
    nutA = nutA
    opening = opening
    issue = issue
    transfer = transfer
    ordered = ordered
    received = received
    sentBack = sentBack
    bought = bought
    handedBack = handedBack
    sold = sold
    cameBack = cameBack
    cameAgain = cameAgain
    None = None
    Sessions = {s1}
    Documents = {received, bought, handedBack}
    Items = {bolt, nut}
    Bins = {boltA, boltB, nutA}
    MaxPosted = 3
    ItemOf <- MCItemOf
    NameRank <- MCNameRank
    KindOf <- MCKindOf
    RowsOf <- MCRowsOf
    Original <- MCOriginal
    OrdersOf <- MCOrdersOf
INVARIANT
    StockAccountMatchesBins
CHECK_DEADLOCK FALSE

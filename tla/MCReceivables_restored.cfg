\* A settled original is returned, and the return is cancelled.
SPECIFICATION BooksSpec
CONSTANTS
    inv = inv
    inv2 = inv2
    ret = ret
    ret2 = ret2
    pay = pay
    jou = jou
    off = off
    Invoices = {inv, inv2}
    Returns = {ret, ret2}
    Settlements = {pay, jou, off}
    TillBills = {}
    Tendered <- MCTendered
    Total <- MCTotal
    Against <- MCAgainst
    Alloc <- MCAlloc
INVARIANTS
    RestoredOnCancel
CHECK_DEADLOCK FALSE

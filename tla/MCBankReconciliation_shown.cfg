SPECIFICATION Spec
CONSTANTS
    t1 = t1
    t2 = t2
    both = both
    single = single
    new = new
    chf = chf
    s1 = s1
    s2 = s2
    None = None
    Sessions = {s1, s2}
    Dialect = "sqlite"
    Transactions = {t1, t2}
    Existing = {both, single}
    Made = {new}
    Ledgers = {chf}
    Groups = {1, 2}
    Ledger <- MCLedger
    Amount <- MCAmount
    Movement <- MCMovement
INVARIANTS
    ActiveMatchIsShown
CHECK_DEADLOCK FALSE

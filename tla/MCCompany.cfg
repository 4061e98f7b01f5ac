SPECIFICATION CompanySpec
CONSTANTS
    inv = inv    buy = buy    swap = swap    ret = ret    pos = pos    back = back    single = single    new = new    off = off
    t1 = t1    t2 = t2    t3 = t3    chf = chf    usd = usd
    Invoices = {inv, buy, pos}
    Returns = {ret, back}
    TillBills = {pos, back}
    Tendered <- MCTendered
    Settlements = {single, new, off, swap}
    Total <- MCTotal
    Against <- MCAgainst
    Alloc <- MCAlloc
    Transactions = {t1, t2, t3}
    Ledgers = {chf, usd}
    Groups = {1, 2}
    Ledger <- MCLedger
    Amount <- MCAmount
    Movement <- MCMovement
    Banked = {single, new, swap}
    Made = {new}
    BookedJournals = {off}

    Unit = 10
    Purchases = {buy}
    NetParts <- MCNetParts
    TaxParts <- MCTaxParts
    Transfers = {swap}
    Outgoing = {}
    OnAccount <- MCOnAccount
    BankOf <- MCBankOf
    SwapOf <- MCSwapOf
    OwnLegs <- MCOwnLegs
    AccountCurrency <- MCAccountCurrency
    Currency <- MCCurrency
    DateOf <- MCDateOf
    GivenRate <- MCGivenRate
    BaseCurrency = "CHF"
    Exchange <- MCExchange
    ReceivableAccount = "debtors"
    PayableAccount = "creditors"
    GainLoss = "gains"
    NoGainLoss = "none"

    so = so    so2 = so2    po = po    sLine = sLine    sLine2 = sLine2    pLine = pLine    bin = bin
    note = note    direct = direct    receipt = receipt
    Orders = {so, so2, po}
    Buying = {po}
    OrderLines = {sLine, sLine2, pLine}
    LineOrder <- MCLineOrder
    Ordered <- MCOrdered
    Pairs = {bin}
    PairOf <- MCPairOf
    OrderVouchers = {note, direct, receipt}
    Trades <- MCTrades
    RowRank <- MCRowRank
    r1 = r1    r2 = r2
    Desks = {r1, r2}
    NoVoucher = NoVoucher

    drill1 = drill1    drill2 = drill2    pool1 = pool1    pool2 = pool2    drill = drill
    book1 = book1    book2 = book2    quote = quote    ada = ada    bob = bob
    Machines = {drill1, drill2}
    Pools = {pool1, pool2}
    ItemOf <- MCItemOf
    Bookings = {book1, book2}
    Wishes <- MCWishes
    Refits <- MCRefits
    RentalPapers = {quote}
    Customers = {ada, bob}
    Moments = {0, 1, 2, 3}
    RentalRank <- MCRentalRank
    Clerks = {r1, r2}
    NoMachine = NoMachine
    NoPaper = NoPaper
    NoClaim = NoClaim
    Closed = Closed
    AnyPool = AnyPool

    rentBill = rentBill    mixBill = mixBill    credit = credit    entry = entry
    assets = assets    bank = bank    costs = costs    rent = rent    rounding = rounding
    owed = owed    payable = payable    siteA = siteA    siteB = siteB
    GlVouchers = {rentBill, mixBill, credit, entry}
    Journals = {entry}
    GlLines <- MCGlLines
    RateOf <- MCRateOf
    Expenses = {rent, rounding}
    Disabled = {}
    RoundOff = rounding
    Budgets <- MCBudgets
    Tills = {r1, r2}
    Chart <- MCChart
    DayOf <- MCDayOf
    PageSize = 2
    PresentationRate = 937
    NoCenter = NoCenter
    NoAccount = NoAccount
    NoParty = NoParty
    NoGlVoucher = NoGlVoucher

    bolt = bolt    nut = nut
    Goods = {bolt, nut}
    StandardRate <- MCStandardRate
    ListRows <- MCListRows
    PriceRules <- MCPriceRules
    TaxSets <- MCTaxSets
    Quantities = {1, 3}
    HandRates = {0}
    Rebates = {0, 100}
    MaxLines = 2
    MaxChanges = 4
    Unset = Unset

    Plans = {1}
    StartDay = 1
    Interval = 2
    EndDays = {4, 6, NoDay}
    BillingDesks = {r1, r2}
    LastDay = 6
    MaxWrites = 4
    NoDay = NoDay
    NoPlan = NoPlan

    Receivable = Receivable
    Cash = Cash
    FxAccount = FxAccount
    ClosingRate <- MCClosingRate
    BillRate = 10
    Closers = {r1, r2}
    MaxForeign = 1
    MaxVouchers = 2
    NoCloser = NoCloser

    StatementNodes <- MCStatementNodes
    checking = checking    retired = retired    euros = euros
    BankIds = {checking, retired, euros}
    ClosedIds = {retired}
    IbanOf <- MCIbanOf
    NotProvided = NotProvided
    Uploads <- MCUploads
    Importers = {r1, r2}
    NoReference = NoReference

    MasterNames = {ada, bolt}
    CustomerNames = {ada}
    Structures = {1, 2}
    Referrers = {1}
    Editors = {r1, r2}
    NoMaster = NoMaster

    old = old    fresh = fresh
    Processes = {old, fresh}
    Knows <- MCKnows
    Required = {2, 3}
    Splitting = {1, 3}
    Taken = {1}
    MaxNumber = 3
    Nobody = Nobody

    Firms = {"lambda"}
    Prefix <- MCPrefix
    Packs = {"generic", "swiss"}
    Generic = "generic"
    Variants <- MCVariants
    PackChart <- MCPackChart
    Anchors <- MCAnchors
    PackCurrency <- MCPackCurrency
    PackDefaults <- MCPackDefaults
    PackTemplates <- MCPackTemplates
    SalesTitles = {"Normalsatz", "Sondersatz"}
    PackSalesTax <- MCPackSalesTax
    InLanguage <- MCInLanguage
    Sectors <- MCSectors
    CoreDefaults = {"income"}
    Wanted <- MCWanted
    Founders = {r1, r2}
    Empty = Empty
    MaxSetups = 2
INVARIANTS
    ConfirmedMoneySettlesBills
    AgingMatchesOutstanding
    ControlMatchesOpenItems
    ProgressIsPosted
    LinesNotOverfulfilled
    PlanIsOpenDemand
    EveryVoucherBalances
    CenterWithinBudget
    StatementsAgree
    EachPeriodBilledOnce
    RevaluedOnceAndTakenBack
    EachBookingImportedOnce
    TotalsAddUp
    SavingAgainChangesNothing
    MastersKeepTheirMeaning
    NumbersAreFresh
    SetupConverges
PROPERTIES
    KeepsCalendarPromise
    MigratedOnceThenServed
SYMMETRY MCSymmetry
CHECK_DEADLOCK FALSE

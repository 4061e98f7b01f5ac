-------------------------- MODULE ControlAccounts --------------------------
(***************************************************************************)
(* What bills and their settlements post, and what the party accounts say  *)
(* of them.  Every submit of ReconciledBooks books the lines of its        *)
(* document: a bill at its own exchange rate; a payment that clears each   *)
(* bill at the rate the bill was booked at, moves the bank at the rate of  *)
(* the day and books the difference as exchange gain or loss; a transfer   *)
(* that relieves a foreign account at its average value.  A cancel takes   *)
(* them back.  Amounts are in cents, debits positive, rates in             *)
(* thousandths; a unit of the bills is Unit cents.  Merging, round-off and *)
(* budgets are GeneralLedger's.                                            *)
(***************************************************************************)
EXTENDS ReconciledBooks, Money

CONSTANTS
    Unit,
    Purchases,      \* the invoices that are purchase invoices
    NetParts,       \* NetParts[b]: sequence of [account, amount], the lines of bill b
    TaxParts,       \* TaxParts[b]: set of [account, amount], its taxes
    Transfers,      \* the payment entries that are internal transfers
    Outgoing,       \* the other payment entries that pay, rather than receive
    OnAccount,      \* OnAccount[p]: paid beyond what payment p allocates
    BankOf,         \* BankOf[p]: the bank account of payment p, or of the till of bill p
    SwapOf,         \* SwapOf[p]: [from, to, paid, received] of a transfer
    OwnLegs,        \* OwnLegs[j]: the lines of journal j beside its references
    AccountCurrency,\* currency of the bank accounts
    Currency, GivenRate,   \* of every document; the rate may be 0, to be looked up
    BaseCurrency,
    Exchange,       \* rows of Currency Exchange: [from, to, date, rate]
    ReceivableAccount, PayableAccount, GainLoss, NoGainLoss

\* The payment entries that receive or pay.
Payments == Settlements \ (Transfers \cup BookedJournals)

VARIABLE postings   \* postings[d]: the GL lines of d that are not cancelled

controlVars == <<reconciledVars, postings>>

\* A line for one purpose, in base currency and in its own.
Leg(for, account, base, ccy) == [for |-> for, account |-> account, base |-> base, ccy |-> ccy]

-----------------------------------------------------------------------------
(* Exchange rates *)

\* The rates of a pair that carry forward to a date: the newest one on or before it.
Carried(from, to, date) ==
    LET rows == {r \in Exchange : r.from = from /\ r.to = to /\ r.date <= date}
    IN  {r.rate : r \in {x \in rows : \A y \in rows : y.date <= x.date}}

\* get_exchange_rate: the pair itself, or the inverse of the reverse pair; empty
\* when there is neither.
Looked(from, to, date) ==
    IF Carried(from, to, date) # {} THEN Carried(from, to, date)
    ELSE {Nearest(1000000, r) : r \in Carried(to, from, date)}

\* set_default_currency: 1 for the base currency, the rate that was given, or else
\* the one on file; a document without a rate is refused.
Rates(d) ==
    IF Currency[d] = BaseCurrency THEN {1000}
    ELSE IF GivenRate[d] > 0 THEN {GivenRate[d]}
    ELSE Looked(Currency[d], BaseCurrency, DateOf[d])
RateAt(d) == CHOOSE r \in Rates(d) : TRUE

-----------------------------------------------------------------------------
(* The lines of a bill *)

OriginalOf(b) == IF b \in Returns THEN Against[b] ELSE b
IsPurchase(b) == OriginalOf(b) \in Purchases

\* invoice_account, _set_missing_accounts.
PartyAccount(b) == IF IsPurchase(b) THEN PayableAccount ELSE ReceivableAccount

\* A sale debits the party, its mirror image credits it; a return turns both round.
Facing(b) == Sign(b) * (IF IsPurchase(b) THEN -1 ELSE 1)

\* One line for each account of the lines of a bill.
PartsOn(account, parts) ==
    SumFunctionOnSet([i \in DOMAIN parts |-> parts[i].amount],
                     {i \in DOMAIN parts : parts[i].account = account})
Grouped(parts) ==
    {[account |-> a, amount |-> PartsOn(a, parts)] : a \in {parts[i].account : i \in DOMAIN parts}}

\* The amounts of a bill in its own currency: the party, the income or expense of
\* its lines, its taxes, and at a till the cash and what it settles.
InvoiceLegs(b) ==
    LET grand == Unit * Total[b]
        paid == Unit * Tendered[b]
        turned(for, p) == Leg(for, p.account, -Facing(b) * p.amount, -Facing(b) * p.amount)
    IN  {Leg("party", PartyAccount(b), Facing(b) * grand, Facing(b) * grand)}
        \cup {turned("net", p) : p \in Grouped(NetParts[b])}
        \cup {turned("tax", p) : p \in TaxParts[b]}
        \cup (IF b \notin TillBills \/ paid = 0 THEN {}
              ELSE {Leg("cash", BankOf[b], paid, paid), Leg("paid", PartyAccount(b), -paid, -paid)})

\* to_base_currency, line by line.
AtRate(line, rate) == [line EXCEPT !.base = Nearest(@ * rate, 1000)]
BillLines(b) == {AtRate(l, RateAt(b)) : l \in InvoiceLegs(b)}

-----------------------------------------------------------------------------
(* The lines of a payment *)

Allocated(p) == Unit * SumFunctionOnSet(Alloc[p], Refs(p))
Paid(p) == Allocated(p) + OnAccount[p]
Direction(p) == IF p \in Outgoing THEN -1 ELSE 1

\* Faulty: the bills are cleared at the rate of the payment.
PartyBase_AtPaymentRate(p) == Nearest(Paid(p) * RateAt(p), 1000)

\* _party_ledger_base: each bill is cleared at the rate it was booked at, the rest
\* of the payment at its own.
PartyBase(p) ==
    Nearest(SumFunctionOnSet([b \in Refs(p) |-> Unit * Alloc[p][b] * RateAt(b)], Refs(p))
              + OnAccount[p] * RateAt(p), 1000)

\* _bank_amounts: the bank holds the base currency or that of the payment.
BankAccepts(p) == AccountCurrency[BankOf[p]] \in {BaseCurrency, Currency[p]}
BankBase(p) == Nearest(Paid(p) * RateAt(p), 1000)
BankLeg(p) ==
    Leg("bank", BankOf[p], Direction(p) * BankBase(p),
        Direction(p) * (IF AccountCurrency[BankOf[p]] = BaseCurrency THEN BankBase(p) ELSE Paid(p)))

\* _fx_gl_entry, when there is a difference.
Realized(amount) == IF amount = 0 THEN {} ELSE {Leg("exchange", GainLoss, amount, amount)}

\* paid_from or paid_to: the account of the bills it settles, else of a customer.
PartyOf(p) == IF \E b \in Refs(p) : IsPurchase(b) THEN PayableAccount ELSE ReceivableAccount

\* _get_gl_entries of a payment that receives or pays.
PaymentLines(p) ==
    {BankLeg(p), Leg("party", PartyOf(p), -Direction(p) * PartyBase(p), -Direction(p) * Paid(p))}
    \cup Realized(Direction(p) * (PartyBase(p) - BankBase(p)))

-----------------------------------------------------------------------------
(* The lines of transfers and journals *)

Lines == UNION {{<<d, l>> : l \in postings[d]} : d \in Documents}
BookedTo(account) == {x \in Lines : x[2].account = account}
BaseBalance(account) == SumFunctionOnSet([x \in Lines |-> x[2].base], BookedTo(account))
CcyBalance(account) == SumFunctionOnSet([x \in Lines |-> x[2].ccy], BookedTo(account))

\* The nearest whole number to n / d.
Quotient(n, d) == IF d > 0 THEN Nearest(n, d) ELSE Nearest(-n, -d)

IsBase(account) == AccountCurrency[account] = BaseCurrency

\* What a transfer takes from its source: the amount itself, or of a foreign
\* account its share of the carrying value (get_account_balances).
GivenUp(s) ==
    IF IsBase(s.from) THEN s.paid
    ELSE IF CcyBalance(s.from) = 0 THEN s.paid
    ELSE Quotient(s.paid * BaseBalance(s.from), CcyBalance(s.from))

TransferLines(p) ==
    LET s == SwapOf[p]
        out == GivenUp(s)
        in == IF IsBase(s.to) THEN s.received ELSE out
    IN  {Leg("to", s.to, in, s.received), Leg("from", s.from, -out, -s.paid)} \cup Realized(out - in)

\* journal_reduction: a row that settles a bill relieves the party account at the
\* rate of the bill, which has to come out in whole cents.
Relief(j, b) == Unit * Alloc[j][b] * RateAt(b)
SettlingLeg(j, b) ==
    LET amount == -Facing(b) * (Relief(j, b) \div 1000)
    IN  Leg(b, PartyAccount(b), amount, amount)
JournalLines(j) == {SettlingLeg(j, b) : b \in Refs(j)} \cup OwnLegs[j]

LinesBooked(d) ==
    IF d \in Bills THEN BillLines(d)
    ELSE IF d \in Transfers THEN TransferLines(d)
    ELSE IF d \in BookedJournals THEN JournalLines(d)
    ELSE PaymentLines(d)

\* The checks that booking adds: a rate for the document, a bank that can take a
\* payment, a conversion with the base currency on one side, journal rows at the
\* booked rate, and an account for an exchange difference.
Bookable(d) ==
    /\ Rates(d) # {}
    /\ d \in BookedJournals => \A b \in Refs(d) : Relief(d, b) % 1000 = 0
    /\ d \in Transfers => IsBase(SwapOf[d].from) \/ IsBase(SwapOf[d].to)
    /\ d \in Payments => BankAccepts(d)
    /\ GainLoss = NoGainLoss => \A l \in LinesBooked(d) : l.account # GainLoss

-----------------------------------------------------------------------------
(* What the documents of one company are *)

PartyAccounts == {ReceivableAccount, PayableAccount}

\* Accounts of another type: _validate_accounts_and_amounts wants a bank or cash
\* account where it does not want the party's.
Others(accounts) == accounts \cap PartyAccounts = {}

\* A till makes no purchases, and a return is made at the rate of its original
\* (make_sales_return, make_purchase_return, make_pos_return).  A payment has the
\* direction, party and account of each bill it refers to (_validate_references); a
\* transfer refers to none.  Journals move a party account only by rows that settle a bill.
ASSUME ControlAssumption ==
    /\ IsFiniteSet(Invoices) /\ Purchases \subseteq Invoices \ TillBills /\ Unit \in Nat
    /\ ReceivableAccount # PayableAccount
    /\ \A b \in Bills :
          /\ b \in TillBills => Others({BankOf[b]})
          /\ Others({NetParts[b][i].account : i \in DOMAIN NetParts[b]})
          /\ Others({t.account : t \in TaxParts[b]})
    /\ \A r \in Returns : Rates(r) = Rates(Against[r])
    /\ \A p \in Payments :
          /\ OnAccount[p] \in Nat /\ Others({BankOf[p], GainLoss})
          /\ \A b \in Refs(p) : Facing(b) = Direction(p) /\ PartyAccount(b) = PartyOf(p)
    /\ Transfers \subseteq Settlements \ BookedJournals
    /\ \A p \in Transfers : Refs(p) = {} /\ Others({SwapOf[p].from, SwapOf[p].to, GainLoss})
    /\ \A j \in BookedJournals : Others({l.account : l \in OwnLegs[j]})
    /\ \A d \in Documents : GivenRate[d] \in Nat
    /\ \A x \in Exchange : x.rate \in Nat \ {0}

-----------------------------------------------------------------------------
(* Steps *)

\* _allocation_profile, reconcile_with_payment: a payment made for a bank transaction
\* takes account, currency, direction and amount from it.
FitsTransaction(p, t) ==
    /\ BankOf[p] = Ledger[t] /\ Currency[p] = AccountCurrency[Ledger[t]]
    /\ Unit * Amount[t] = Direction(p) * Paid(p)

ControlInit == ReconciledInit /\ postings = [d \in Documents |-> {}]

\* make_gl_entries in the submit of a document, make_reverse_gl_entries in its cancel.
Book ==
    /\ \A d \in Documents : status'[d] = "submitted" /\ status[d] # "submitted" => Bookable(d)
    /\ \A r \in active' \ active : r.voucher \in Made => FitsTransaction(r.voucher, r.tx)
    /\ postings' = [d \in Documents |->
          IF status'[d] # "submitted" THEN {}
          ELSE IF status[d] = "submitted" THEN postings[d]
          ELSE LinesBooked(d)]

ControlNext == ReconciledNext /\ Book

ControlSpec == ControlInit /\ [][ControlNext]_controlVars

-----------------------------------------------------------------------------
(* Properties *)

\* What a till leaves in the account that is outstanding on no bill: what was paid
\* beyond the total of a sale, and what came back and was not refunded.
LeftAtTill(b) == Sign(b) * Total[b] - Tendered[b] - Opening(b)

\* What the documents say a party account holds, in thousandths of a cent: the
\* open part of every original and the refunded part of every return, at the rate
\* of the bill, less what was paid on account, at the rate of the payment.
Open(b) == IF b \in TillBills THEN outstanding[b] + LeftAtTill(b)
           ELSE IF b \in Invoices THEN outstanding[b] ELSE outstanding[b] + Total[b]
OpenItems(account) ==
    LET mine == {b \in Bills : status[b] = "submitted" /\ PartyAccount(b) = account}
        side == IF account = PayableAccount THEN -1 ELSE 1
        payments == {p \in PostedSettlements \cap Payments : PartyOf(p) = account}
    IN  side * SumFunctionOnSet([b \in mine |-> Unit * RateAt(b) * Open(b)], mine)
        - SumFunctionOnSet([p \in payments |-> Direction(p) * OnAccount[p] * RateAt(p)], payments)

\* The receivable and the payable account agree with the open items, whatever
\* rates the payments were made at and whatever was cancelled since, to half a
\* cent for each line that was rounded and but for what tills leave in the account.
\* Where a return was cut off at the floor, the open items show more debt than the
\* account, never less.
ControlMatchesOpenItems ==
    \A account \in {ReceivableAccount, PayableAccount} :
        LET tolerance == 500 * Cardinality(BookedTo(account))
            side == IF account = PayableAccount THEN -1 ELSE 1
            gap == side * (1000 * BaseBalance(account) - OpenItems(account))
        IN  /\ gap <= tolerance
            /\ (\A b \in floored : PartyAccount(b) # account) => gap >= -tolerance

=============================================================================

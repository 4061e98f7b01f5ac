------------------------------ MODULE Reports ------------------------------
(***************************************************************************)
(* The financial statements over the general ledger: trial balance, profit *)
(* and loss, balance sheet, chart of accounts with its group totals, and   *)
(* the pages of the ledger with their running balance.  Each is computed   *)
(* from GL Entry anew; nothing keeps them in step but what they add up.    *)
(***************************************************************************)
EXTENDS GeneralLedger, SequencesExt

CONSTANTS
    Chart,             \* Chart[account]: [parent, root, group, disabled]
    DayOf,             \* DayOf[v]: posting_date of a voucher
    PageSize,          \* rows on a page of the ledger
    PresentationRate   \* thousandths: base to presentation currency

PostingDays == {DayOf[v] : v \in GlVouchers}
ChartAccounts == DOMAIN Chart
Leaves == {a \in ChartAccounts : ~Chart[a].group}
SheetRoots == {"Asset", "Liability", "Equity"}
Top(a) == Chart[a].parent = NoAccount

\* Up the chain of parents: the least set with the parent of an account and the
\* parents of all its members.
Ancestors ==
    [a \in ChartAccounts |->
        {b \in ChartAccounts :
            \A S \in SUBSET ChartAccounts :
                (\A c \in S \cup {a} : Top(c) \/ Chart[c].parent \in S) => b \in S}]

\* The rows that are shown: enabled accounts and the groups above them.
Shown == {a \in ChartAccounts :
             \/ ~Chart[a].disabled
             \/ \E b \in ChartAccounts : ~Chart[b].disabled /\ a \in Ancestors[b]}

Roots(root) == {a \in Shown : Top(a) /\ Chart[a].root = root}

\* Every way up ends at a root, which is shown; a group holds accounts of its own
\* kind; and what is booked is booked on accounts that are no groups.
ASSUME ReportsAssumption ==
    /\ IsFiniteSet(ChartAccounts)
    /\ \A a \in ChartAccounts :
          /\ Chart[a].root \in SheetRoots \cup {"Income", "Expense"}
          /\ IF Top(a) THEN a \in Shown
             ELSE LET p == Chart[a].parent
                  IN  p \in ChartAccounts /\ Chart[p].group /\ Chart[p].root = Chart[a].root
          /\ \E b \in Ancestors[a] \cup {a} : Top(b)
    /\ \A v \in GlVouchers : /\ DayOf[v] \in Nat
                             /\ \A i \in DOMAIN GlLines[v] : GlLines[v][i].account \in Leaves
    /\ RoundOff # NoAccount => RoundOff \in Leaves
    /\ PageSize \in Nat \ {0}

\* is_cancelled = 0, within the dates.
Between(from, to) == {e \in Live(glEntries) : DayOf[e.voucher] \in from..to}

DebitsOf(a, E) == SumDebits({e \in E : e.account = a})
CreditsOf(a, E) == SumCredits({e \in E : e.account = a})

\* _trial_balance: total_debit and total_credit of the accounts listed.
TrialBalance(from, to) ==
    [debit |-> SumFunction([a \in Leaves |-> DebitsOf(a, Between(from, to))]),
     credit |-> SumFunction([a \in Leaves |-> CreditsOf(a, Between(from, to))])]

\* Debit balances of assets and expenses, credit balances of the others.
Natural(a, E) ==
    IF Chart[a].root \in {"Asset", "Expense"} THEN DebitsOf(a, E) - CreditsOf(a, E)
    ELSE CreditsOf(a, E) - DebitsOf(a, E)

TotalOn(root, E) ==
    SumFunction([a \in {b \in Leaves : Chart[b].root = root} |-> Natural(a, E)])

\* _profit_and_loss.
NetProfit(from, to) ==
    TotalOn("Income", Between(from, to)) - TotalOn("Expense", Between(from, to))

\* Faulty: equity without the profit that has not been closed.
BalanceSheet_NoEarnings(day) ==
    [assets |-> TotalOn("Asset", Between(0, day)),
     liabilities |-> TotalOn("Liability", Between(0, day)),
     equity |-> TotalOn("Equity", Between(0, day))]

\* _balance_sheet: the profit up to the day is shown within equity.
BalanceSheet(day) ==
    [assets |-> TotalOn("Asset", Between(0, day)),
     liabilities |-> TotalOn("Liability", Between(0, day)),
     equity |-> TotalOn("Equity", Between(0, day)) + NetProfit(0, day)]

\* What an account adds to the tree: its balance on the last day, or its movement
\* within the period when it belongs to profit and loss.
ReportedOn(root, from, to) == Between(IF root \in SheetRoots THEN 0 ELSE from, to)
OwnBalance(a, from, to) == Natural(a, ReportedOn(Chart[a].root, from, to))

\* _chart_of_accounts: a group shows all that is below it, also what is hidden.
Subtree(a) == {b \in ChartAccounts : a \in Ancestors[b]}
ChartBalance(a, from, to) ==
    OwnBalance(a, from, to)
    + (IF Chart[a].group THEN SumFunction([b \in Subtree(a) |-> OwnBalance(b, from, to)]) ELSE 0)

\* ORDER BY posting_date, name; names are drawn at random.
RowsBefore(row, i) ==
    LET day(j) == DayOf[row[j].voucher]
    IN  {j \in DOMAIN row : day(j) < day(i) \/ (day(j) = day(i) /\ j < i)}

ByDay(row) ==
    [n \in DOMAIN row |-> row[CHOOSE i \in DOMAIN row : Cardinality(RowsBefore(row, i)) = n - 1]]

AccountEntries(a) == {e \in Live(glEntries) : e.account = a}
LedgerOf(a) == ByDay(SetToSeq(AccountEntries(a)))

NetOfRows(rows) == SumFunction([i \in DOMAIN rows |-> rows[i].debit - rows[i].credit])

\* _general_ledger: the page at an offset, its opening balance summed over the
\* rows before it and its running balances.
LedgerPage(rows, offset) ==
    LET page == SubSeq(rows, offset + 1, Min({offset + PageSize, Len(rows)}))
        opening == IF offset > 0 THEN NetOfRows(SubSeq(rows, 1, offset)) ELSE 0
    IN  [opening |-> opening,
         balances |-> [i \in DOMAIN page |-> opening + NetOfRows(SubSeq(page, 1, i))]]

\* _scale_amounts: every amount of a report, converted by itself.
Presented(x) == Nearest(x * PresentationRate, 1000)

-----------------------------------------------------------------------------
(* Properties *)

\* A page has its rows, each with the balance of the account up to it.
GoesOn(rows, offset) ==
    LET balances == LedgerPage(rows, offset).balances
    IN  /\ offset + Len(balances) = Min({offset + PageSize, Len(rows)})
        /\ \A i \in DOMAIN balances :
              balances[i] = Difference(ToSet(SubSeq(rows, 1, offset + i)))

\* The statements agree with each other for every period, whatever was posted and
\* cancelled: the trial balance balances, also in another currency; assets are
\* liabilities and equity; the roots of the chart, which include accounts that are
\* hidden, show the totals of the balance sheet and the profit of the period; and
\* an account's ledger lists its entries, each with the balance up to it, whichever
\* page it is on.
StatementsAgree ==
    RoundOff # NoAccount /\ glEntries # {} =>
        /\ \A from \in PostingDays \cup {0}, to \in PostingDays :
              LET sheetOf == BalanceSheet(to)
                  trial == TrialBalance(from, to)
                  shownAs(root) == SumFunction([a \in Roots(root) |-> ChartBalance(a, from, to)])
              IN  /\ Presented(trial.debit) = Presented(trial.credit)
                  /\ sheetOf.assets = sheetOf.liabilities + sheetOf.equity
                  /\ shownAs("Asset") = sheetOf.assets
                  /\ shownAs("Liability") = sheetOf.liabilities
                  /\ shownAs("Equity") + NetProfit(0, to) = sheetOf.equity
                  /\ shownAs("Income") - shownAs("Expense") = NetProfit(from, to)
        /\ \A a \in Leaves :
              LET rows == LedgerOf(a)
              IN  /\ ToSet(rows) = AccountEntries(a)
                  /\ \A offset \in 0..(Len(rows) - 1) : GoesOn(rows, offset)

=============================================================================

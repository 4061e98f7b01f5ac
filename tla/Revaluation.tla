---------------------------- MODULE Revaluation ----------------------------
(***************************************************************************)
(* Revaluation of open balances in a foreign currency: their value in base *)
(* currency is compared with the closing rate of a day, and the difference *)
(* is posted on that day and taken back on the next.                       *)
(***************************************************************************)
EXTENDS Integers, FiniteSetsExt, Functions

CONSTANTS
    Receivable, Cash,   \* the accounts of the open bills and of the bank
    FxAccount,          \* default_unrealized_exchange_account
    ClosingRate,        \* ClosingRate[day]: base currency for a unit
    BillRate,           \* the rate at which bills and deposits are booked
    Closers,            \* requests
    MaxForeign,         \* bound: open amount of an account
    MaxVouchers,        \* bound: revaluations
    NoCloser

VARIABLES
    foreign,        \* foreign[a]: open amount in foreign currency
    revalued,       \* GL rows of the revaluations: [no, day, account, amount, reversal]
    closer,         \* closer[c]: [at, day, deltas]
    dayLock         \* the advisory lock of the company

closingVars == <<foreign, revalued, closer, dayLock>>

Days == DOMAIN ClosingRate
ForeignAccounts == {Receivable, Cash}
OffDuty == [at |-> "idle", day |-> 0, deltas |-> [a \in ForeignAccounts |-> 0]]

\* The exchange account is none that is revalued: those are party and bank accounts.
ASSUME ClosingAssumption ==
    /\ FxAccount \notin ForeignAccounts /\ NoCloser \notin Closers
    /\ Days \subseteq Int /\ BillRate \in Int /\ \A day \in Days : ClosingRate[day] \in Int

AmountOf(rows) == SumFunctionOnSet([r \in rows |-> r.amount], rows)
NetOf(a, rows) == AmountOf({r \in rows : r.account = a})

\* The base value collect_revaluation_lines starts from: bills at their own rate,
\* a bank account at the balance of its entries, of whatever day.
BaseValue(a) ==
    foreign[a] * BillRate + (IF a = Cash THEN NetOf(a, revalued) ELSE 0)

ClosingInit ==
    /\ foreign = [a \in ForeignAccounts |-> 0]
    /\ revalued = {}
    /\ closer = [c \in Closers |-> OffDuty]
    /\ dayLock = NoCloser

\* An invoice or its settlement, a deposit or a withdrawal.
Trade(a, amount) ==
    /\ foreign[a] + amount \in 0..MaxForeign
    /\ foreign' = [foreign EXCEPT ![a] = @ + amount]
    /\ UNCHANGED <<revalued, closer, dayLock>>

\* collect_revaluation_lines, before the transaction.
Collect(c, day) ==
    /\ closer[c] = OffDuty
    /\ LET delta == [a \in ForeignAccounts |-> foreign[a] * ClosingRate[day] - BaseValue(a)]
       IN  /\ \E a \in ForeignAccounts : delta[a] # 0
           /\ closer' = [closer EXCEPT ![c] = [at |-> "collected", day |-> day, deltas |-> delta]]
    /\ UNCHANGED <<foreign, revalued, dayLock>>

RevaluedOn(day) == \E r \in revalued : r.day = day /\ ~r.reversal

\* Faulty: nothing keeps a second request from passing the same check.
LockDay_None(c) ==
    /\ closer[c].at = "collected" /\ ~RevaluedOn(closer[c].day)
    /\ closer' = [closer EXCEPT ![c].at = "posting"]
    /\ UNCHANGED <<foreign, revalued, dayLock>>

\* The company's lock, and the search for a revaluation of that day.
LockDay(c) ==
    /\ closer[c].at = "collected" /\ dayLock = NoCloser /\ ~RevaluedOn(closer[c].day)
    /\ dayLock' = c
    /\ closer' = [closer EXCEPT ![c].at = "posting"]
    /\ UNCHANGED <<foreign, revalued>>

\* _build_entries: the accounts that moved, and the exchange account against them.
EntriesOf(no, day, deltas, reversal) ==
    LET sign == IF reversal THEN -1 ELSE 1
    IN  {[no |-> no, day |-> day, account |-> a, amount |-> sign * deltas[a], reversal |-> reversal] :
             a \in {x \in ForeignAccounts : deltas[x] # 0}}
        \cup {[no |-> no, day |-> day, account |-> FxAccount, reversal |-> reversal,
               amount |-> -sign * SumFunctionOnSet(deltas, ForeignAccounts)]}

NextNo == 1 + Max({0} \cup {r.no : r \in revalued})

\* The voucher and its reversal, committed together.
CommitRevaluation(c) ==
    /\ closer[c].at = "posting"
    /\ NextNo < 2 * MaxVouchers
    /\ revalued' = revalued \cup EntriesOf(NextNo, closer[c].day, closer[c].deltas, FALSE)
                            \cup EntriesOf(NextNo + 1, closer[c].day + 1, closer[c].deltas, TRUE)
    /\ closer' = [closer EXCEPT ![c] = OffDuty]
    /\ dayLock' = IF dayLock = c THEN NoCloser ELSE dayLock
    /\ UNCHANGED foreign

\* Already revalued, no exchange account, or the process dies.
DropRevaluation(c) ==
    /\ closer[c] # OffDuty
    /\ closer' = [closer EXCEPT ![c] = OffDuty]
    /\ dayLock' = IF dayLock = c THEN NoCloser ELSE dayLock
    /\ UNCHANGED <<foreign, revalued>>

ClosingNext ==
    \/ \E a \in ForeignAccounts, n \in {-1, 1} : Trade(a, n)
    \/ \E c \in Closers : \/ \E day \in Days : Collect(c, day)
                          \/ LockDay(c) \/ CommitRevaluation(c) \/ DropRevaluation(c)

ClosingSpec == ClosingInit /\ [][ClosingNext]_closingVars

-----------------------------------------------------------------------------
(* Properties *)

\* "posting again would double the unrealized FX": a day is revalued once, every
\* account is back where it was when the next day begins, and before that the
\* books of the day balance.
RevaluedOnceAndTakenBack ==
    /\ \A r, s \in revalued : r.day = s.day /\ ~r.reversal /\ ~s.reversal => r.no = s.no
    /\ \A a \in ForeignAccounts \cup {FxAccount} : NetOf(a, revalued) = 0
    /\ \A day \in Days : AmountOf({r \in revalued : r.day = day}) = 0
=============================================================================

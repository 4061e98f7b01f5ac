--------------------------- MODULE GeneralLedger ---------------------------
(***************************************************************************)
(* Posting to the general ledger.  A voucher hands make_gl_entries its     *)
(* lines in document currency; they are converted, merged, rounded,        *)
(* balanced by a round-off line, checked against the budgets of their      *)
(* expense accounts and stored, and reversed when the voucher is           *)
(* cancelled.  Tills are requests posting in concurrent transactions on    *)
(* PostgreSQL.  Amounts of lines are in thousandths, of entries in cents.  *)
(***************************************************************************)
EXTENDS Money, Sequences, FiniteSetsExt

CONSTANTS
    GlVouchers,
    Journals,       \* the Journal Entries among them
    GlLines,        \* GlLines[v]: sequence of [account, center, party, debit, credit]
    RateOf,         \* RateOf[v]: conversion_rate in thousandths
    Expenses,       \* accounts whose root_type is Expense
    Disabled,       \* accounts that take no entries
    RoundOff,       \* round_off_account or else default_expense_account, or NoAccount
    Budgets,        \* set of [account, center, limit, action]
    Tills, NoCenter, NoAccount, NoParty, NoGlVoucher

ASSUME GlAssumption ==
    /\ IsFiniteSet(GlVouchers) /\ NoGlVoucher \notin GlVouchers
    /\ \A v \in GlVouchers :
          /\ RateOf[v] \in Nat
          /\ IsFiniteSet(DOMAIN GlLines[v])
          /\ \A i \in DOMAIN GlLines[v] :
                /\ DOMAIN GlLines[v][i] = {"account", "center", "party", "debit", "credit"}
                /\ GlLines[v][i].debit \in Int /\ GlLines[v][i].credit \in Int
    /\ \A b \in Budgets : b.limit \in Nat

VARIABLES
    posting,        \* posting[v]: "draft", "posted" or "cancelled"
    glEntries,      \* rows of GL Entry
    till            \* what every request is doing

glVars == <<posting, glEntries, till>>

Calm == [doc |-> NoGlVoucher, entries |-> {}, todo |-> {}, locked |-> {}]

-----------------------------------------------------------------------------
(* The entries of a voucher *)

\* JournalEntry._validate_debit_credit and the rows it posts.
JournalValid(lines) ==
    /\ lines # <<>>
    /\ AbsOf(SumFunction([i \in DOMAIN lines |-> lines[i].debit - lines[i].credit])) <= 10
    /\ \E i \in DOMAIN lines : lines[i].debit # 0 \/ lines[i].credit # 0

\* _get_gl_entries of a Journal Entry, to_base_currency of any other voucher.
InBase(v, line) ==
    LET convert(x) == IF v \in Journals THEN 10 * Cents(x)
                      ELSE IF RateOf[v] = 1000 THEN x
                      ELSE 10 * Nearest(x * RateOf[v], 10000)
    IN  [line EXCEPT !.debit = convert(@), !.credit = convert(@)]

\* toggle_debit_credit_if_negative: negative debits become credits, then
\* negative credits debits; in cents.
Toggled(e) ==
    LET onCredit == IF e.debit < 0 THEN e.credit - e.debit ELSE e.credit
        onDebit == IF e.debit < 0 THEN 0 ELSE e.debit
    IN  [e EXCEPT !.debit = Cents(IF onCredit < 0 THEN onDebit - onCredit ELSE onDebit),
                  !.credit = Cents(IF onCredit < 0 THEN 0 ELSE onCredit)]

\* merge_similar_entries: one entry per account, cost center and party.
KeyOf(line) == [account |-> line.account, center |-> line.center, party |-> line.party]

SideTotal(v, k, side) ==
    LET lines == {i \in DOMAIN GlLines[v] : KeyOf(GlLines[v][i]) = k}
    IN  SumFunctionOnSet([i \in lines |-> InBase(v, GlLines[v][i])[side]], lines)

Merged(v) ==
    {e \in {[voucher |-> v, role |-> "line", mirror |-> FALSE, account |-> k.account, center |-> k.center,
             party |-> k.party, cancelled |-> FALSE,
             debit |-> SideTotal(v, k, "debit"), credit |-> SideTotal(v, k, "credit")] :
                k \in {KeyOf(GlLines[v][i]) : i \in DOMAIN GlLines[v]}} :
        Cents(e.debit) # 0 \/ Cents(e.credit) # 0}

\* process_gl_map.
Processed(v) == {Toggled(e) : e \in Merged(v)}

Difference(E) == SumFunctionOnSet([e \in E |-> e.debit - e.credit], E)

\* The round-off line.
RoundOffLine(v, diff) ==
    [voucher |-> v, role |-> "roundoff", mirror |-> FALSE, account |-> RoundOff, center |-> NoCenter,
     party |-> NoParty, cancelled |-> FALSE,
     debit |-> IF diff < 0 THEN -diff ELSE 0, credit |-> IF diff > 0 THEN diff ELSE 0]

\* Faulty: a difference of a single cent is left in the books.
WithRoundOff_NoCent(v) ==
    LET diff == Difference(Processed(v))
    IN  IF AbsOf(diff) <= 1 \/ RoundOff = NoAccount THEN Processed(v)
        ELSE Processed(v) \cup {RoundOffLine(v, diff)}

\* process_debit_credit_difference: the entries with their round-off line.
WithRoundOff(v) ==
    LET diff == Difference(Processed(v))
    IN  IF diff = 0 \/ RoundOff = NoAccount THEN Processed(v)
        ELSE Processed(v) \cup {RoundOffLine(v, diff)}

\* make_gl_entries refuses a single entry, one that is off by more than half a
\* unit and one on a disabled account; no entries at all are accepted.
Postable(v) ==
    /\ v \in Journals => JournalValid(GlLines[v])
    /\ Cardinality(Processed(v)) # 1
    /\ AbsOf(Difference(Processed(v))) <= 50
    /\ \A e \in WithRoundOff(v) : e.account \notin Disabled

-----------------------------------------------------------------------------
(* Budgets *)

\* The budgets validate_expense_against_budget finds for an entry.
BudgetsFor(e) ==
    {b \in Budgets : /\ e.debit > 0 /\ e.account \in Expenses
                     /\ b.account = e.account /\ (e.center # NoCenter => b.center = e.center)}

Live(E) == {e \in E : ~e.cancelled}

\* What is stored on an account, whatever the cost center.
ActualExpense(account) ==
    Difference({e \in Live(glEntries) : e.account = account})

WithinBudget(e, b) == b.action = "Stop" => ActualExpense(e.account) + e.debit <= b.limit

-----------------------------------------------------------------------------
(* Posting and cancelling *)

GlInit ==
    /\ posting = [v \in GlVouchers |-> "draft"]
    /\ glEntries = {}
    /\ till = [t \in Tills |-> Calm]

Handled(v) == \E t \in Tills : till[t].doc = v

\* submit under the row lock of the draft, up to the budgets.
StartPosting(t, v) ==
    /\ till[t] = Calm /\ posting[v] = "draft" /\ ~Handled(v)
    /\ Postable(v)
    /\ till' = [till EXCEPT ![t] = [doc |-> v, entries |-> WithRoundOff(v),
                                    todo |-> WithRoundOff(v), locked |-> {}]]
    /\ UNCHANGED <<posting, glEntries>>

\* Faulty: the budgets are not locked.
CheckBudget_Unlocked(t, e) ==
    /\ e \in till[t].todo
    /\ \A b \in BudgetsFor(e) : WithinBudget(e, b)
    /\ till' = [till EXCEPT ![t].todo = @ \ {e}]
    /\ UNCHANGED <<posting, glEntries>>

\* validate_expense_against_budget of one entry: the Stop budgets are locked
\* before the account is summed, and stay locked until the commit.
CheckBudget(t, e) ==
    /\ e \in till[t].todo
    /\ LET stops == {b \in BudgetsFor(e) : b.action = "Stop"}
       IN  /\ \A u \in Tills \ {t} : till[u].locked \cap stops = {}
           /\ \A b \in BudgetsFor(e) : WithinBudget(e, b)
           /\ till' = [till EXCEPT ![t].todo = @ \ {e}, ![t].locked = @ \cup stops]
    /\ UNCHANGED <<posting, glEntries>>

\* save_entries, and the commit of the submit.
CommitPosting(t) ==
    /\ till[t] # Calm /\ till[t].todo = {}
    /\ glEntries' = glEntries \cup till[t].entries
    /\ posting' = [posting EXCEPT ![till[t].doc] = "posted"]
    /\ till' = [till EXCEPT ![t] = Calm]

\* A check fails, or two requests wait for each other's budgets.
AbortPosting(t) ==
    /\ till[t] # Calm
    /\ till' = [till EXCEPT ![t] = Calm]
    /\ UNCHANGED <<posting, glEntries>>

\* make_reverse_gl_entries, from the cancel of the voucher.
VoucherEntries(v) == {e \in glEntries : e.voucher = v}

Struck(e) == [e EXCEPT !.cancelled = TRUE]
Mirrored(e) == [e EXCEPT !.cancelled = TRUE, !.mirror = TRUE, !.debit = e.credit, !.credit = e.debit]

CancelPosting(v) ==
    /\ posting[v] = "posted"
    /\ glEntries' = (glEntries \ VoucherEntries(v)) \cup {Struck(e) : e \in VoucherEntries(v)}
                                               \cup {Mirrored(e) : e \in VoucherEntries(v)}
    /\ posting' = [posting EXCEPT ![v] = "cancelled"]
    /\ UNCHANGED till

GlNext ==
    \/ \E t \in Tills : \/ \E v \in GlVouchers : StartPosting(t, v)
                        \/ \E e \in till[t].todo : CheckBudget(t, e)
                        \/ CommitPosting(t) \/ AbortPosting(t)
    \/ \E v \in GlVouchers : CancelPosting(v)

GlSpec == GlInit /\ [][GlNext]_glVars

-----------------------------------------------------------------------------
(* Properties *)

\* "total debits MUST equal total credits for every voucher": whatever rounding,
\* conversion and merging leave over is booked as well, and a cancelled voucher
\* leaves nothing live and nothing on balance.
EveryVoucherBalances ==
    RoundOff # NoAccount =>
        \A v \in GlVouchers :
            LET mine == VoucherEntries(v)
            IN  /\ Difference(mine) = 0 /\ Difference(Live(mine)) = 0
                /\ posting[v] = "cancelled" =>
                      /\ Live(mine) = {}
                      /\ \A account \in {e.account : e \in mine} :
                            Difference({e \in mine : e.account = account}) = 0

Booked(b, E) == {e \in E : e.account = b.account /\ e.center = b.center}

SumDebits(E) == SumFunctionOnSet([e \in E |-> e.debit], E)
SumCredits(E) == SumFunctionOnSet([e \in E |-> e.credit], E)

\* What a cancelled credit note gives back to the account, unchecked.
GivenBack(b) == SumCredits({e \in Booked(b, glEntries) : e.cancelled /\ ~e.mirror})

\* Credit notes of other cost centers: the sum is that of the whole account.
CreditedElsewhere(b) ==
    SumCredits({e \in glEntries : e.account = b.account /\ e.center # b.center /\ ~e.mirror})

\* The lines of a posted voucher that were each checked without the others.
Unseen(E) == IF E = {} THEN 0 ELSE SumDebits(E) - Max({e.debit : e \in E})

CheckedAlone(b) ==
    SumFunction([v \in GlVouchers |->
        Unseen({e \in Booked(b, Live(glEntries)) : e.voucher = v /\ e.debit > 0})])

\* However many postings run at once, the expenses of a cost center pass its Stop
\* budget only by what the code does not compare with it: further entries of one
\* voucher, credit notes cancelled afterwards, and those of other cost centers.
CenterWithinBudget ==
    \A b \in Budgets : b.action = "Stop" /\ b.account \in Expenses =>
        Difference(Booked(b, Live(glEntries))) <= b.limit + GivenBack(b) + CreditedElsewhere(b) + CheckedAlone(b)

=============================================================================

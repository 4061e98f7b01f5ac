-------------------------- MODULE ReconciledBooks --------------------------
(***************************************************************************)
(* Receivables and Matching together.  A bank transaction is matched with  *)
(* a payment or journal entry, which settles bills: creating the voucher   *)
(* of a match submits a settlement, and cancelling a settlement, by the    *)
(* undo of a match or as a document, returns its bank transactions to the  *)
(* queue.  A bill is in reach of neither, except through its settlements.  *)
(***************************************************************************)
EXTENDS Receivables

CONSTANTS
    Transactions, Ledgers, Groups, Ledger, Amount,   \* as in Matching
    Banked,        \* the settlements with a leg on a bank account
    Made,          \* the settlements among them that reconciliation creates
    Movement,      \* Movement[v][a]: bank movement of voucher v on account a
    BookedJournals,\* the settlements among them that are journal entries
    DateOf         \* posting_date of every document

ASSUME ReconciledAssumption ==
    /\ Made \subseteq Banked /\ Banked \subseteq Settlements
    /\ Movement \in [Banked \ Made -> [Ledgers -> Int]]
    /\ BookedJournals \subseteq Settlements
    /\ DateOf \in [Documents -> Int]

VARIABLE active    \* the Active rows of "Bank Reconciliation"

reconciledVars == <<books, active>>

\* What reconciliation sees of a document: a draft is as good as unsaved.
AsVoucher(v) == IF status[v] \in {"submitted", "cancelled"} THEN status[v] ELSE "unsaved"

Bank == INSTANCE Matching WITH
            Existing <- Banked \ Made,
            posted <- [v \in Banked |-> AsVoucher(v)]

ReconciledInit == BooksInit /\ active = {}

\* reconcile_with_payment, reconcile_with_journal: the voucher is created,
\* submitted and matched in one transaction.
PostMatched(t, v, g) == Submit(v) /\ Bank!Create(t, v, g)

\* A document is submitted by hand.
PostUnmatched(d) == d \notin Made /\ Submit(d) /\ UNCHANGED active

LinkPosted(T, v, g) == UNCHANGED books /\ Bank!Link(T, v, g)

UnlinkPosted(g) == UNCHANGED books /\ Bank!Unlink(g)

\* Faulty: a settlement is cancelled without the hook that frees its transactions.
CancelDocument_Unhooked(d) == Cancel(d) /\ UNCHANGED active

\* on_cancel reverses the bills and, for a settlement, the matches.
CancelDocument(d) ==
    /\ Cancel(d)
    /\ IF d \in Banked THEN Bank!CancelVoucher(d) ELSE UNCHANGED active

\* A voucher that reconciliation makes is never a draft on its own.
DiscardDraft(d) == d \notin Made /\ Discard(d) /\ UNCHANGED active

ReconciledNext ==
    \/ \E g \in Groups :
          \/ \E t \in Transactions, v \in Made : PostMatched(t, v, g)
          \/ \E T \in SUBSET Transactions, v \in Banked \ Made : LinkPosted(T, v, g)
          \/ UnlinkPosted(g)
    \/ \E d \in Documents : PostUnmatched(d) \/ CancelDocument(d) \/ DiscardDraft(d)

ReconciledSpec == ReconciledInit /\ [][ReconciledNext]_reconciledVars

-----------------------------------------------------------------------------
(* The ageing reports *)

\* The documents of S that are posted on a date or before.
Upto(S, asOf) == {d \in S : DateOf[d] <= asOf}

\* What payment entries, but not journal entries, and returns had taken off bill b by
\* a date.
PaidBy(b, asOf) == AllocOf(Upto(PostedSettlements \ BookedJournals, asOf), b)
ReturnedBy(b, asOf) == CreditOf(Upto(PostedReturns(b), asOf))

\* Faulty: allocations of cancelled payments are counted.
Unpaid_AnyPayment(b, asOf) ==
    LET ever == {v \in Settlements \ BookedJournals : status[v] # "draft"}
    IN  Total[b] - AllocOf(Upto(ever, asOf), b) - ReturnedBy(b, asOf)

\* Rebuilt from the documents instead of read from the bill, as of a date.
Unpaid(b, asOf) == Total[b] - PaidBy(b, asOf) - ReturnedBy(b, asOf)

\* The rows of the report: submitted originals of a date or before with something left
\* to pay on that date.  Invoices of a till are of a doctype it does not read.
Aging(asOf) == {[invoice |-> b, owed |-> Unpaid(b, asOf)] :
                  b \in {i \in Upto(Invoices \ TillBills, asOf) :
                            status[i] = "submitted" /\ Unpaid(i, asOf) > 0}}

Aged(b, asOf) ==
    LET rows == {r \in Aging(asOf) : r.invoice = b} IN SumFunctionOnSet([r \in rows |-> r.owed], rows)

-----------------------------------------------------------------------------
(* Properties *)

\* The two accounts of what is owed agree for every date: the outstanding amount that
\* postings and cancellations keep up to date on the invoice, and the one the ageing
\* report rebuilds from the documents, differ only by what journal entries settle,
\* which the report does not see, and by payments and returns of a later date.  After
\* a return was cut off at the floor the invoice shows more, never less.
AgingMatchesOutstanding ==
    \A b \in Invoices \ TillBills, asOf \in Range(DateOf) :
        status[b] = "submitted" /\ DateOf[b] <= asOf =>
            LET payments == PostedSettlements \ BookedJournals
                later == AllocOf(payments \ Upto(payments, asOf), b)
                         + CreditOf(PostedReturns(b) \ Upto(PostedReturns(b), asOf))
                stored == outstanding[b] + AllocOf(PostedSettlements \cap BookedJournals, b) + later
            IN  IF b \in floored THEN Aged(b, asOf) <= stored ELSE Aged(b, asOf) = stored

\* What the bank has confirmed stands: the voucher a bank transaction is matched
\* with is posted, and so is every bill that voucher settles; a bill that was
\* paid through the bank is cancelled only after its payment has been, which
\* returns the bank transaction to the queue.
ConfirmedMoneySettlesBills ==
    \A r \in active :
        /\ status[r.voucher] = "submitted"
        /\ \A b \in Refs(r.voucher) :
              /\ status[b] = "submitted"
              /\ b \notin floored =>
                    Sign(b) * outstanding[b] <= Sign(b) * Opening(b) - Alloc[r.voucher][b]

=============================================================================

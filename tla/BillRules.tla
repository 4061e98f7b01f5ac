----------------------------- MODULE BillRules -----------------------------
(***************************************************************************)
(* The settlement rules of receivables and payables, as the submit and     *)
(* cancel workflows of Document read and write them: which documents may   *)
(* be submitted or cancelled in a given state of the books, and what each  *)
(* of the two does to the `outstanding_amount` of the bills it touches.    *)
(*                                                                         *)
(* A bill is a Sales Invoice or a Purchase Invoice (the two are mirror     *)
(* images) or a POS Invoice, paid at the till when it is submitted; an     *)
(* original or a return against an original.  A settlement is a Payment    *)
(* Entry or a Journal Entry with references to bills.  Amounts are whole   *)
(* units of one currency, so the cent tolerances of the code decide        *)
(* nothing.                                                                *)
(*                                                                         *)
(* This module holds the state of the books and the rules; Receivables     *)
(* runs them one workflow at a time, Settlement as concurrent database     *)
(* transactions.                                                           *)
(***************************************************************************)
EXTENDS Integers, FiniteSets, Functions

CONSTANTS
    Invoices,      \* original invoices, sales or purchase
    Returns,       \* credit and debit notes
    TillBills,     \* the POS invoices and POS returns among them
    Tendered,      \* Tendered[b]: paid at the till, negative when a return refunds
    Settlements,   \* payment entries and journal entries
    Total,         \* Total[b]: |grand_total| of a bill
    Against,       \* Against[r]: the original a return is made against
    Alloc          \* Alloc[v][b]: net reduction of bill b by settlement v

Bills == Invoices \cup Returns
Documents == Bills \cup Settlements

ASSUME BillAssumption ==
    /\ Invoices \cap Returns = {}
    /\ Settlements \cap Bills = {}
    /\ IsFiniteSet(Returns) /\ IsFiniteSet(Settlements)
    /\ Total \in [Bills -> Nat \ {0}]
    /\ Against \in [Returns -> Invoices]
    /\ Alloc \in [Settlements -> [Bills -> Nat]]
    /\ TillBills \subseteq Bills /\ Tendered \in [Bills -> Int]
    /\ \A r \in Returns : r \in TillBills <=> Against[r] \in TillBills

VARIABLES
    status,        \* docstatus and `discarded` of every document, as one word
    outstanding,   \* outstanding_amount of every bill; negative on a return
    floored        \* history: originals a return reduced to the floor of zero

books == <<status, outstanding, floored>>

Statuses == {"draft", "submitted", "cancelled", "discarded"}

\* The sign of a bill's outstanding amount: a return carries a negative one.
Sign(b) == IF b \in Returns THEN -1 ELSE 1

Floor(x) == IF x > 0 THEN x ELSE 0

\* What validate() writes as outstanding_amount, on save and submit: grand_total, or
\* at a till (_calculate_payments) what the payments leave of it, floored at zero.
Opening(b) == IF b \in TillBills THEN Floor(Sign(b) * Total[b] - Tendered[b]) ELSE Sign(b) * Total[b]

\* Credit[r]: what a return takes off its original's outstanding amount.  A POS return
\* leaves its original alone.
Credit == [b \in Bills |-> IF b \in TillBills THEN 0 ELSE Total[b]]

\* The rows a submit or cancel of d reads and writes beside its own.
Refs(d) == IF d \in Settlements THEN {b \in Bills : Alloc[d][b] > 0}
           ELSE IF d \in Returns THEN {Against[d]}
           ELSE {}

-----------------------------------------------------------------------------
(* Sums over the documents posted so far *)

CreditOf(S) == SumFunctionOnSet(Credit, S)
AllocOf(S, b) == SumFunctionOnSet([v \in S |-> Alloc[v][b]], S)

PostedReturns(o) == {r \in Returns : Against[r] = o /\ status[r] = "submitted"}
PostedSettlements == {v \in Settlements : status[v] = "submitted"}

Returned(o) == CreditOf(PostedReturns(o))
Settled(b) == AllocOf(PostedSettlements, b)

-----------------------------------------------------------------------------
(* Validation *)

\* _validate_references + validate_reduction: every bill is submitted, and the
\* amount allocated to it moves its outstanding towards zero without crossing it.
SettlementValid(v) ==
    \A b \in Refs(v) : /\ status[b] = "submitted"
                       /\ Sign(b) * outstanding[b] >= Alloc[v][b]

\* validate_return + _validate_return_value: the original is submitted and the
\* returns posted against it, this one included, stay within its total.  The value
\* of a POS return is not compared with anything.
ReturnValid(r) ==
    /\ status[Against[r]] = "submitted"
    /\ Returned(Against[r]) + Credit[r] <= Total[Against[r]]

\* validate(), run by save and by submit.
Valid(d) == /\ d \in Settlements => SettlementValid(d)
            /\ d \in Returns => ReturnValid(d)

\* validate_cancellation: no submitted settlement or return depends on the bill.
Unreferenced(b) ==
    /\ \A v \in PostedSettlements : b \notin Refs(v)
    /\ \A r \in Returns : Against[r] = b => status[r] # "submitted"

Releasable(d) == d \in Bills => Unreferenced(d)

-----------------------------------------------------------------------------
(* Posting *)

\* on_submit: the outstanding amount of bill b once d is posted.
\* _update_original_outstanding floors the original's at zero.
PostedOn(d, b) ==
    IF b = d THEN Opening(b)
    ELSE IF d \in Returns THEN Floor(outstanding[b] - Credit[d])
    ELSE outstanding[b] - Sign(b) * Alloc[d][b]

\* on_cancel: the outstanding amount of bill b once d is reversed; that of a POS
\* invoice stays as it was.
ReversedOn(d, b) ==
    IF b = d THEN (IF d \in TillBills THEN outstanding[d] ELSE 0)
    ELSE IF d \in Returns THEN outstanding[b] + Credit[d]
    ELSE outstanding[b] + Sign(b) * Alloc[d][b]

\* The originals whose outstanding the posting of d cuts off at zero.
CutOff(d) == {o \in Invoices : d \in Returns /\ Against[d] = o
                                 /\ outstanding[o] < Credit[d]}

-----------------------------------------------------------------------------
(* What the rules keep true of the books *)

\* An original's outstanding amount is never negative and a return's never positive,
\* unless more was refunded at the till than came back: no settlement has carried a
\* debt across zero (validate_reduction).
BooksTypeOK ==
    /\ status \in [Documents -> Statuses]
    /\ outstanding \in [Bills -> Int]
    /\ \A b \in Bills \ (Returns \cap TillBills) : Sign(b) * outstanding[b] >= 0
    /\ floored \subseteq Invoices

\* validate_cancellation's purpose: a submitted payment or journal entry always
\* points at submitted bills, whatever is being cancelled at the same time.
NoOrphanAllocation ==
    \A v \in PostedSettlements : \A b \in Refs(v) : status[b] = "submitted"

\* The original of a submitted return is itself still submitted.
ReturnsBacked ==
    \A r \in Returns : status[r] = "submitted" => status[Against[r]] = "submitted"

\* validate_return and _validate_return_value: the returns posted against an
\* original never give back more than was billed.  (Those of a till count for nothing.)
ReturnsCovered == \A o \in Invoices : Returned(o) <= Total[o]

\* The stored outstanding amount of a submitted bill is what it opened with less every
\* posted allocation and return: no update is lost, none is applied twice.
\* (What happens once the floor has bitten is the subject of RestoredOnCancel.)
OutstandingExact ==
    \A b \in Bills : status[b] = "submitted" /\ b \notin floored =>
        Sign(b) * outstanding[b] =
            Sign(b) * Opening(b) - Settled(b) - (IF b \in Invoices THEN Returned(b) ELSE 0)

\* Even when the floor bit, the books never show less debt than is owed.
NeverUnderstated ==
    \A b \in Invoices : status[b] = "submitted" =>
        outstanding[b] >= Opening(b) - Settled(b) - Returned(b)

\* on_cancel resets a cancelled bill, though not one of a till, and no payment or
\* return cancelled later gives an amount back to it.
CancelledIsZero == \A b \in Bills \ TillBills : status[b] = "cancelled" => outstanding[b] = 0

\* "Restore original invoice outstanding when a return is cancelled": with no
\* return left, the original owes what it opened with less the posted settlements.
RestoredOnCancel ==
    \A o \in Invoices : status[o] = "submitted" /\ PostedReturns(o) = {} =>
        outstanding[o] = Opening(o) - Settled(o)

=============================================================================

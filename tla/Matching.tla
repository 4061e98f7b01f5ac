------------------------------ MODULE Matching ------------------------------
(***************************************************************************)
(* What bank reconciliation promises, one whole operation per step: which  *)
(* vouchers are posted and which imported bank transactions are matched    *)
(* with the bank leg of which voucher.  The status and reference columns   *)
(* shown on a bank transaction are not part of the promise; they belong to *)
(* BankReconciliation, whose concurrent requests implement this module.    *)
(*                                                                         *)
(* A match is one row of "Bank Reconciliation" with status Active.  The    *)
(* rows of one group cover one bank leg of one voucher together.  Amounts  *)
(* are whole units of one currency, positive for a deposit.                *)
(***************************************************************************)
EXTENDS Integers, FiniteSetsExt

CONSTANTS
    Transactions,  \* imported bank transactions with a movement
    Existing,      \* submitted Payment Entries and Journal Entries
    Made,          \* names of vouchers that reconciliation itself creates
    Ledgers,       \* ledger accounts of the bank accounts
    Groups,        \* values of `group_id`
    Ledger,        \* Ledger[t]: `bank_account` of a transaction
    Amount,        \* Amount[t]: signed movement of a transaction
    Movement       \* Movement[v][a]: bank movement of voucher v on account a

Vouchers == Existing \cup Made

ASSUME MatchingAssumption ==
    /\ Existing \cap Made = {}
    /\ Ledger \in [Transactions -> Ledgers]
    /\ Amount \in [Transactions -> Int \ {0}]
    /\ Movement \in [Existing -> [Ledgers -> Int]]

VARIABLES
    posted,        \* docstatus of every voucher
    active         \* the Active rows of "Bank Reconciliation"

matchingVars == <<posted, active>>

Rows == [group : Groups, tx : Transactions, voucher : Vouchers]

Row(g, t, v) == [group |-> g, tx |-> t, voucher |-> v]
Matched(rows) == {r.tx : r \in rows}
Group(rows, g) == {r \in rows : r.group = g}
Of(rows, v) == {r \in rows : r.voucher = v}
TotalMovement(T) == MapThenSumSet(LAMBDA t : Amount[t], T)

-----------------------------------------------------------------------------
(* The operations *)

\* Faulty: the unique index on (voucher_type, voucher_no, bank_account) is lost.
NoDuplicate_LegsFree(rows, T, v) == T \cap Matched(rows) = {}

\* The unique indexes, which the checks of the code repeat: one active row per
\* transaction, one active group per voucher and bank account.
NoDuplicate(rows, T, v) ==
    /\ T \cap Matched(rows) = {}
    /\ \A r \in Of(rows, v), t \in T : Ledger[r.tx] # Ledger[t]

\* _validate_existing_voucher_group: the same bank account and direction, a leg
\* that is not in use, and a sum that is exactly the movement of the leg.
Covers(rows, T, v) ==
    /\ \A t, u \in T : Ledger[t] = Ledger[u] /\ (Amount[t] > 0 <=> Amount[u] > 0)
    /\ NoDuplicate(rows, T, v)
    /\ \A t \in T : TotalMovement(T) = Movement[v][Ledger[t]]

MatchingInit ==
    /\ posted = [v \in Vouchers |-> IF v \in Existing THEN "submitted" ELSE "unsaved"]
    /\ active = {}

\* A payment or journal entry is created and submitted for one transaction.
Create(t, v, g) ==
    /\ v \in Made /\ posted[v] = "unsaved"
    /\ NoDuplicate(active, {t}, v)
    /\ Group(active, g) = {}
    /\ posted' = [posted EXCEPT ![v] = "submitted"]
    /\ active' = active \cup {Row(g, t, v)}

\* A group of transactions is linked to a voucher that is already posted.
Link(T, v, g) ==
    /\ v \in Existing /\ posted[v] = "submitted"
    /\ T # {}
    /\ Covers(active, T, v)
    /\ Group(active, g) = {}
    /\ active' = active \cup {Row(g, t, v) : t \in T}
    /\ UNCHANGED posted

\* Undo of a link: the voucher stays posted.
Unlink(g) ==
    /\ Group(active, g) # {}
    /\ \A r \in Group(active, g) : r.voucher \in Existing
    /\ active' = active \ Group(active, g)
    /\ UNCHANGED posted

\* A voucher is cancelled, by undo or through its own lifecycle, and everything
\* matched with it returns to the queue.
CancelVoucher(v) ==
    /\ posted[v] = "submitted"
    /\ posted' = [posted EXCEPT ![v] = "cancelled"]
    /\ active' = active \ Of(active, v)

MatchingNext ==
    \/ \E g \in Groups :
          \/ \E t \in Transactions, v \in Made : Create(t, v, g)
          \/ \E T \in SUBSET Transactions, v \in Existing : Link(T, v, g)
          \/ Unlink(g)
    \/ \E v \in Vouchers : CancelVoucher(v)

MatchingSpec == MatchingInit /\ [][MatchingNext]_matchingVars

-----------------------------------------------------------------------------
(* What the promise amounts to *)

MatchingTypeOK ==
    /\ posted \in [Vouchers -> {"unsaved", "submitted", "cancelled"}]
    /\ active \subseteq Rows

\* A bank transaction never has two active reconciliations.
OneActivePerTransaction ==
    \A r, q \in active : r.tx = q.tx => r = q

\* Whatever is matched with the bank leg of a voucher belongs to one group and
\* adds up to exactly that leg: no leg is used twice and none is used in part,
\* whatever was linked, undone or cancelled before.
LegsCoveredExactly ==
    \A r \in active : r.voucher \in Existing =>
        LET leg == {q.tx : q \in {p \in Of(active, r.voucher) : Ledger[p.tx] = Ledger[r.tx]}}
        IN  /\ leg = Matched(Group(active, r.group))
            /\ TotalMovement(leg) = Movement[r.voucher][Ledger[r.tx]]

\* A match always points to a voucher whose ledger entries stand: cancelling a
\* voucher returns all of its bank transactions to the queue.
MatchedVoucherIsPosted ==
    \A r \in active : posted[r.voucher] = "submitted"

\* A voucher that reconciliation created is posted exactly as long as the bank
\* transaction it was created for is matched with it; cash is never booked for
\* a transaction that is back in the queue.
MadeVoucherIsMatched ==
    \A v \in Made : posted[v] = "submitted" <=> Of(active, v) # {}
=============================================================================

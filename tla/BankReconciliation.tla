------------------------- MODULE BankReconciliation -------------------------
(***************************************************************************)
(* Bank reconciliation as concurrent requests.  A request first reads      *)
(* outside any transaction what the user sees (_transaction,               *)
(* _ensure_available, _active_reconciliation, cls.load) and only then      *)
(* enters Database.atomic(), where it locks, reads again as far as the     *)
(* code does, and writes.  The steps of a request:                         *)
(*                                                                         *)
(*   RequestPayment, RequestMatch, RequestUndo, RequestCancel              *)
(*                the reads before the transaction                         *)
(*   Begin        BEGIN IMMEDIATE on SQLite, a snapshot-free transaction   *)
(*                on PostgreSQL                                            *)
(*   Take         one row lock or unique index entry, in program order     *)
(*   Read         the checks and reads inside the transaction              *)
(*   Commit       all writes of the request become visible                 *)
(*   Rollback     a failed check, a unique violation, a deadlock, a lost   *)
(*                connection                                               *)
(*                                                                         *)
(* The settlement side of submitting and cancelling a voucher is in the    *)
(* module Settlement; here a voucher is what a match points to.            *)
(***************************************************************************)
EXTENDS Matching, SequencesExt

CONSTANTS
    Sessions,
    Dialect,       \* "postgres" or "sqlite"
    None           \* no voucher: the transaction shows as Unreconciled

ASSUME BankAssumption ==
    /\ Dialect \in {"postgres", "sqlite"}
    /\ None \notin Vouchers

VARIABLES
    reference,     \* reference_name of a bank transaction; status Reconciled
                   \* and a reference are always written together
    used,          \* the group ids handed out so far
    held,          \* held[s]: row locks and uncommitted index entries of s
    todo,          \* todo[s]: the locks s still has to take, in program order
    job            \* job[s]: the request session s is working on

vars == <<posted, active, reference, used, held, todo, job>>

Ops == {"create", "match", "unlink", "cancel"}
Stages == {"idle", "ready", "first", "second"}

Jobs == [at : Stages, op : Ops, txs : SUBSET Transactions,
         voucher : Vouchers \cup {None}, rows : SUBSET Rows]
NoJob == [at |-> "idle", op |-> "match", txs |-> {}, voucher |-> None, rows |-> {}]

VoucherRow(v) == <<"voucher", v>>
BankRow(t) == <<"transaction", t>>
AuditRow(r) == <<"audit", r>>
EntryOf(t) == <<"index entry", t>>
LegEntry(v, a) == <<"leg entry", <<v, a>> >>

Locks == {VoucherRow(v) : v \in Vouchers} \cup {BankRow(t) : t \in Transactions}
         \cup {AuditRow(r) : r \in Rows} \cup {EntryOf(t) : t \in Transactions}
         \cup {LegEntry(v, a) : v \in Vouchers, a \in Ledgers}

-----------------------------------------------------------------------------
(* Locks *)

InTransaction(s) == job[s].at \in {"first", "second"}

\* Faulty: the existing voucher is not locked while the group is validated.
FirstLocks_NoVoucher(j) ==
    IF j.op = "cancel" THEN <<VoucherRow(j.voucher)>> ELSE <<>>

\* Locks taken before the request reads inside its transaction: the existing
\* voucher (_lock_existing_voucher), the voucher to cancel
\* (_check_write_state), before it the audit row whose `reversed_by` undo sets.
FirstLocks(j) ==
    CASE j.op = "match"  -> <<VoucherRow(j.voucher)>>
      [] j.op = "cancel" -> IF j.rows = {} THEN <<VoucherRow(j.voucher)>>
                            ELSE <<AuditRow(CHOOSE r \in j.rows : TRUE), VoucherRow(j.voucher)>>
      [] OTHER           -> <<>>

\* Locks taken by the writes, for transactions or audit rows in some order: one
\* insert per transaction and the updates of the bank rows; undo updates an
\* audit row and then its bank row, on_cancel the other way round.
SecondLocks(j) ==
    CASE j.op \in {"create", "match"} ->
            { [i \in DOMAIN o |-> EntryOf(o[i])]
              \o << LegEntry(j.voucher, Ledger[o[1]]) >>
              \o [i \in DOMAIN o |-> BankRow(o[i])] : o \in SetToSeqs(j.txs) }
      [] j.op = "unlink" ->
            { FlattenSeq([i \in DOMAIN o |-> <<AuditRow(o[i]), BankRow(o[i].tx)>>])
              : o \in SetToSeqs(j.rows) }
      [] j.op = "cancel" ->
            { FlattenSeq([i \in DOMAIN o |-> <<BankRow(o[i].tx), AuditRow(o[i])>>])
              : o \in SetToSeqs(j.rows) }

\* The index entries of an active row: an insert that would collide with them
\* waits while another session is updating that row.
Entries(k) ==
    IF k[1] = "audit" /\ k[2] \in active
    THEN {k, EntryOf(k[2].tx), LegEntry(k[2].voucher, Ledger[k[2].tx])}
    ELSE {k}

Grantable(s, k) ==
    \A o \in Sessions \ {s} : k \notin UNION {Entries(h) : h \in held[o]}

-----------------------------------------------------------------------------
(* What a request reads and requires inside its transaction *)

\* The audit rows reverse_generated_reconciliation finds for a voucher.
LinkedTo(v) == Of(active, v)

\* The audit rows an undo or a cancel will reverse.  An undo whose group is no
\* longer active falls back to the row it read before the transaction:
\* `_group_rows(...) or [audit]`.
Found(j) ==
    CASE j.op = "unlink" ->
            LET group == UNION {Group(active, r.group) : r \in j.rows}
            IN  IF group # {} THEN group ELSE j.rows
      [] j.op = "cancel" -> LinkedTo(j.voucher)
      [] OTHER           -> {}

\* A payment was checked before the transaction and is not checked again; the
\* version check on a voucher to cancel comes down to its docstatus.
Passes(j) ==
    CASE j.op = "match" ->
            /\ posted[j.voucher] = "submitted"
            /\ \A t \in j.txs : reference[t] = None
            /\ Covers(active, j.txs, j.voucher)
      [] j.op = "cancel" -> posted[j.voucher] = "submitted"
      [] OTHER           -> TRUE

-----------------------------------------------------------------------------
(* The steps of a request *)

Init ==
    /\ MatchingInit
    /\ reference = [t \in Transactions |-> None]
    /\ used = {}
    /\ held = [s \in Sessions |-> {}]
    /\ todo = [s \in Sessions |-> <<>>]
    /\ job = [s \in Sessions |-> NoJob]

\* The end of a transaction: its locks go, the session is free.
Finish(s) ==
    /\ held' = [held EXCEPT ![s] = {}]
    /\ todo' = [todo EXCEPT ![s] = <<>>]
    /\ job' = [job EXCEPT ![s] = NoJob]

Request(s, op, T, v, rows) ==
    /\ job[s].at = "idle"
    /\ job' = [job EXCEPT ![s] = [at |-> "ready", op |-> op, txs |-> T,
                                  voucher |-> v, rows |-> rows]]
    /\ UNCHANGED <<posted, active, reference, used, held, todo>>

\* reconcile_with_payment and reconcile_with_journal, with a fresh voucher name.
RequestPayment(s) ==
    \E t \in Transactions, v \in Made :
        /\ t \notin Matched(active) /\ reference[t] = None
        /\ posted[v] = "unsaved"
        /\ \A o \in Sessions : job[o].voucher # v
        /\ Request(s, "create", {t}, v, {})

RequestMatch(s) ==
    \E T \in (SUBSET Transactions) \ {{}}, v \in Existing : Request(s, "match", T, v, {})

\* Undo of a link keeps the voucher; undo of a created voucher cancels it.
RequestUndo(s) ==
    \E r \in active :
        Request(s, IF r.voucher \in Made THEN "cancel" ELSE "unlink", {}, r.voucher, {r})

\* The voucher is cancelled as a document, not through the reconciliation.
RequestCancel(s) ==
    \E v \in Vouchers : posted[v] = "submitted" /\ Request(s, "cancel", {}, v, {})

Begin(s) ==
    /\ job[s].at = "ready"
    /\ Dialect = "sqlite" => \A o \in Sessions : ~InTransaction(o)
    /\ job' = [job EXCEPT ![s] = [@ EXCEPT !.at = "first"]]
    /\ todo' = [todo EXCEPT ![s] = FirstLocks(job[s])]
    /\ UNCHANGED <<posted, active, reference, used, held>>

Take(s) ==
    /\ InTransaction(s) /\ todo[s] # <<>>
    /\ Grantable(s, Head(todo[s]))
    /\ held' = [held EXCEPT ![s] = @ \cup {Head(todo[s])}]
    /\ todo' = [todo EXCEPT ![s] = Tail(@)]
    /\ UNCHANGED <<posted, active, reference, used, job>>

Read(s) ==
    /\ job[s].at = "first" /\ todo[s] = <<>>
    /\ Passes(job[s])
    /\ job' = [job EXCEPT ![s] = [@ EXCEPT !.at = "second", !.rows = Found(job[s])]]
    /\ \E locks \in SecondLocks(job'[s]) : todo' = [todo EXCEPT ![s] = locks]
    /\ UNCHANGED <<posted, active, reference, used, held>>

\* _new_audit and activate_generated_reconciliation; a created voucher is
\* submitted in between.
CommitMatch(s) ==
    LET j == job[s]
    IN  /\ j.at = "second" /\ todo[s] = <<>> /\ j.op \in {"create", "match"}
        /\ NoDuplicate(active, j.txs, j.voucher)
        /\ \E g \in Groups \ used :
               /\ active' = active \cup {Row(g, t, j.voucher) : t \in j.txs}
               /\ used' = used \cup {g}
        /\ posted' = IF j.op = "create" THEN [posted EXCEPT ![j.voucher] = "submitted"]
                     ELSE posted
        /\ reference' = [t \in Transactions |->
                            IF t \in j.txs THEN j.voucher ELSE reference[t]]
        /\ Finish(s)

\* Faulty: undo reverses the audit rows and leaves the bank rows Reconciled.
Requeued_Unlinked(j) ==
    IF j.op = "unlink" THEN {} ELSE Matched(j.rows)

\* The bank transactions an undo or a cancel sets back to Unreconciled.
Requeued(j) == Matched(j.rows)

\* The unlinking half of undo_reconciliation, and on_cancel of a voucher.
CommitUndo(s) ==
    LET j == job[s]
    IN  /\ j.at = "second" /\ todo[s] = <<>> /\ j.op \in {"unlink", "cancel"}
        /\ active' = active \ j.rows
        /\ reference' = [t \in Transactions |->
                            IF t \in Requeued(j) THEN None ELSE reference[t]]
        /\ posted' = IF j.op = "cancel" THEN [posted EXCEPT ![j.voucher] = "cancelled"]
                     ELSE posted
        /\ Finish(s)
        /\ UNCHANGED used

\* Faulty: an aborted transaction keeps its locks, as a connection returned to
\* the pool without a rollback would.
Rollback_KeepsLocks(s) ==
    /\ job[s].at # "idle"
    /\ todo' = [todo EXCEPT ![s] = <<>>]
    /\ job' = [job EXCEPT ![s] = NoJob]
    /\ UNCHANGED <<posted, active, reference, used, held>>

\* A failed check or write, a deadlock victim, a lost connection.
Rollback(s) ==
    /\ job[s].at # "idle"
    /\ Finish(s)
    /\ UNCHANGED <<posted, active, reference, used>>

Next ==
    \E s \in Sessions :
        \/ RequestPayment(s) \/ RequestMatch(s) \/ RequestUndo(s) \/ RequestCancel(s)
        \/ Begin(s) \/ Take(s) \/ Read(s)
        \/ CommitMatch(s) \/ CommitUndo(s) \/ Rollback(s)

Spec == Init /\ [][Next]_vars

-----------------------------------------------------------------------------
(* Correctness *)

TypeOK ==
    /\ MatchingTypeOK
    /\ reference \in [Transactions -> Vouchers \cup {None}]
    /\ used \in SUBSET Groups
    /\ job \in [Sessions -> Jobs]
    /\ held \in [Sessions -> SUBSET Locks]
    /\ \A s \in Sessions :
        /\ todo[s] \in Seq(Locks)
        /\ held[s] # {} => InTransaction(s)

\* However requests interleave, the audit rows and the vouchers change as if
\* each request had run alone: every commit is one operation of Matching, or
\* changes nothing there.
Serializable == MatchingSpec

\* A bank transaction that shows as reconciled has an active audit row for the
\* voucher it shows; undo and cancel never leave it behind.
ShownMatchIsActive ==
    \A t \in Transactions : reference[t] # None =>
        \E r \in active : r.tx = t /\ r.voucher = reference[t]

\* An active reconciliation shows on its bank transaction.  The code breaks it:
\* an undo that read its audit row before another request undid the same row
\* resets the transaction even when it has since been matched again.
ActiveMatchIsShown ==
    \A r \in active : reference[r.tx] = r.voucher
=============================================================================

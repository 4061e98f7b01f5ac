---------------------- MODULE BankReconciliationProofs ----------------------
(***************************************************************************)
(* BankReconciliation implements Matching, for any number of sessions,     *)
(* transactions and vouchers and on either database.  The inductive        *)
(* invariant says what a request may still rely on when it commits:        *)
(*   - whoever read a voucher as submitted holds its row until the end, so *)
(*     nobody cancels it or links it meanwhile;                            *)
(*   - whatever an undo found stays a superset of its group, because a     *)
(*     group never grows and its id is never handed out again;             *)
(*   - a voucher being created is unknown to everybody else.               *)
(* The unique indexes do the rest at the commit itself.  And StatementImport*)
(* brings each booking into the books once, whatever files a bank sends.   *)
(***************************************************************************)
EXTENDS BankReconciliation, StatementImport, Sums, TLAPS

\* Matching: the rows of a group hang together (GroupsAreLegs), so what is matched with a
\* leg is one group, and its sum was checked when the group was linked.  The sums stay
\* opaque: only the equality of the summed sets is used.

\* The rows of a group belong to one voucher and one bank account, no other
\* group of that voucher is on the account, and the sum is the leg.
GroupsAreLegs ==
    /\ \A r, q \in active : r.group = q.group => r.voucher = q.voucher
    /\ \A r, q \in active : r.group = q.group /\ r.voucher \in Existing
                            => Ledger[r.tx] = Ledger[q.tx]
    /\ \A r, q \in active : r.voucher = q.voucher /\ Ledger[r.tx] = Ledger[q.tx]
                            => r.group = q.group
    /\ \A r \in active : r.voucher \in Existing =>
           TotalMovement(Matched(Group(active, r.group))) = Movement[r.voucher][Ledger[r.tx]]

MatchingInv ==
    /\ MatchingTypeOK
    /\ OneActivePerTransaction
    /\ GroupsAreLegs
    /\ MatchedVoucherIsPosted
    /\ MadeVoucherIsMatched

\* The initial books satisfy the invariant: nothing is matched yet.
LEMMA InitialMatching == MatchingInit => MatchingInv
BY MatchingAssumption DEF MatchingInit, MatchingInv, MatchingTypeOK,
   OneActivePerTransaction, GroupsAreLegs, MatchedVoucherIsPosted,
   MadeVoucherIsMatched, Rows, Vouchers, Of

\* Removing a union of whole groups leaves the other groups as they were.
LEMMA RemovedGroup ==
    ASSUME NEW rows, NEW gone \in SUBSET rows,
           \A r \in rows, q \in gone : r.group = q.group => r \in gone
    PROVE  \A r \in rows \ gone : Group(rows \ gone, r.group) = Group(rows, r.group)
BY DEF Group

\* Creating a voucher for one transaction preserves the invariant.
LEMMA CreatePreserves ==
    ASSUME MatchingInv, NEW t \in Transactions, NEW v \in Made, NEW g \in Groups,
           Create(t, v, g)
    PROVE  MatchingInv'
<1> USE MatchingAssumption DEF Vouchers
<1> DEFINE new == Row(g, t, v)
<1>1. /\ active' = active \cup {new} /\ new \in Rows
      /\ v \notin Existing /\ new.group = g /\ new.tx = t /\ new.voucher = v
      /\ \A r \in active : r.group # g
      /\ \A r \in active : r.tx # t
      /\ \A r \in active : r.voucher # v
      /\ posted' = [posted EXCEPT ![v] = "submitted"]
  BY DEF Create, Row, Rows, Group, Of, Matched, NoDuplicate, MatchingInv,
     MatchedVoucherIsPosted, MatchingTypeOK
<1>2. MatchingTypeOK'
  BY <1>1 DEF MatchingInv, MatchingTypeOK
<1>3. OneActivePerTransaction'
  BY <1>1 DEF MatchingInv, OneActivePerTransaction
<1>4. \A r \in active : Group(active', r.group) = Group(active, r.group)
  BY <1>1 DEF Group
<1>5. GroupsAreLegs'
  <2>1. \A r, q \in active' : r.group = q.group => r.voucher = q.voucher
    BY <1>1 DEF MatchingInv, GroupsAreLegs
  <2>2. \A r, q \in active' : r.group = q.group /\ r.voucher \in Existing
                              => Ledger[r.tx] = Ledger[q.tx]
    BY <1>1 DEF MatchingInv, GroupsAreLegs
  <2>3. \A r, q \in active' : r.voucher = q.voucher /\ Ledger[r.tx] = Ledger[q.tx]
                              => r.group = q.group
    BY <1>1 DEF MatchingInv, GroupsAreLegs
  <2>4. \A r \in active' : r.voucher \in Existing =>
           TotalMovement(Matched(Group(active', r.group))) = Movement[r.voucher][Ledger[r.tx]]
    BY <1>1, <1>4 DEF MatchingInv, GroupsAreLegs
  <2> QED BY <2>1, <2>2, <2>3, <2>4 DEF GroupsAreLegs
<1>6. MatchedVoucherIsPosted'
  BY <1>1 DEF MatchingInv, MatchedVoucherIsPosted, MatchingTypeOK
<1>7. MadeVoucherIsMatched'
  BY <1>1 DEF MatchingInv, MadeVoucherIsMatched, MatchingTypeOK, Of
<1> QED BY <1>2, <1>3, <1>5, <1>6, <1>7 DEF MatchingInv

\* Linking a group to a posted voucher preserves the invariant.
LEMMA LinkPreserves ==
    ASSUME MatchingInv, NEW T \in SUBSET Transactions, NEW v \in Existing,
           NEW g \in Groups, Link(T, v, g)
    PROVE  MatchingInv'
<1> USE MatchingAssumption DEF Vouchers
<1> DEFINE new == {Row(g, t, v) : t \in T}
<1>1. /\ active' = active \cup new /\ new \subseteq Rows
      /\ v \notin Made /\ posted[v] = "submitted" /\ posted' = posted
      /\ \A r \in new : r.group = g /\ r.tx \in T /\ r.voucher = v /\ r = Row(g, r.tx, v)
      /\ \A r \in active : r.group # g /\ r.tx \notin T
      /\ \A r \in active, q \in new : r.voucher = v => Ledger[r.tx] # Ledger[q.tx]
      /\ \A r, q \in new : Ledger[r.tx] = Ledger[q.tx]
  BY DEF Link, Row, Rows, Group, Of, Matched, NoDuplicate, Covers
<1>2. /\ Matched(Group(active', g)) = T
      /\ \A h : h # g => Group(active', h) = Group(active, h)
  <2>1. Group(active', g) = new
    BY <1>1 DEF Group
  <2>2. \A t \in T : Row(g, t, v) \in new /\ Row(g, t, v).tx = t
    BY DEF Row
  <2>3. Matched(new) \subseteq T
    BY <1>1 DEF Matched
  <2>4. T \subseteq Matched(new)
    <3> SUFFICES ASSUME NEW t \in T PROVE t \in {r.tx : r \in new}
      BY DEF Matched
    <3> QED BY <2>2
  <2>5. \A h : h # g => Group(active', h) = Group(active, h)
    BY <1>1 DEF Group
  <2> QED BY <2>1, <2>3, <2>4, <2>5
<1>3. \A r \in new : TotalMovement(T) = Movement[v][Ledger[r.tx]]
  BY <1>1 DEF Link, Covers
<1>4. MatchingTypeOK'
  BY <1>1 DEF MatchingInv, MatchingTypeOK
<1>5. OneActivePerTransaction'
  BY <1>1 DEF MatchingInv, OneActivePerTransaction
<1>6. GroupsAreLegs'
  <2>1. \A r, q \in active' : r.group = q.group => r.voucher = q.voucher
    BY <1>1 DEF MatchingInv, GroupsAreLegs
  <2>2. \A r, q \in active' : r.group = q.group /\ r.voucher \in Existing
                              => Ledger[r.tx] = Ledger[q.tx]
    BY <1>1 DEF MatchingInv, GroupsAreLegs
  <2>3. \A r, q \in active' : r.voucher = q.voucher /\ Ledger[r.tx] = Ledger[q.tx]
                              => r.group = q.group
    BY <1>1 DEF MatchingInv, GroupsAreLegs
  <2>4. ASSUME NEW r \in active', r.voucher \in Existing
        PROVE  TotalMovement(Matched(Group(active', r.group)))
                 = Movement[r.voucher][Ledger[r.tx]]
    <3>1. CASE r \in new
      BY <3>1, <1>1, <1>2, <1>3
    <3>2. CASE r \in active
      <4>1. Group(active', r.group) = Group(active, r.group)
        BY <3>2, <1>1, <1>2
      <4> QED BY <3>2, <2>4, <4>1 DEF MatchingInv, GroupsAreLegs
    <3> QED BY <3>1, <3>2, <1>1
  <2> QED BY <2>1, <2>2, <2>3, <2>4 DEF GroupsAreLegs
<1>7. MatchedVoucherIsPosted'
  BY <1>1 DEF MatchingInv, MatchedVoucherIsPosted
<1>8. MadeVoucherIsMatched'
  BY <1>1 DEF MatchingInv, MadeVoucherIsMatched, Of
<1> QED BY <1>4, <1>5, <1>6, <1>7, <1>8 DEF MatchingInv

\* Unlinking a group and cancelling a voucher remove whole groups.
LEMMA RemovalPreserves ==
    ASSUME MatchingInv, NEW gone \in SUBSET active, active' = active \ gone,
           \A r \in active, q \in gone : r.group = q.group => r \in gone
    PROVE  OneActivePerTransaction' /\ GroupsAreLegs' /\ active' \subseteq Rows
<1>1. \A r \in active' : Group(active', r.group) = Group(active, r.group)
  BY RemovedGroup
<1>2. OneActivePerTransaction' /\ active' \subseteq Rows
  BY DEF MatchingInv, OneActivePerTransaction, MatchingTypeOK
<1>3. GroupsAreLegs'
  BY <1>1 DEF MatchingInv, GroupsAreLegs
<1> QED BY <1>2, <1>3

\* Undo of a link preserves the invariant.
LEMMA UnlinkPreserves ==
    ASSUME MatchingInv, NEW g \in Groups, Unlink(g)
    PROVE  MatchingInv'
<1> USE MatchingAssumption DEF Vouchers
<1> DEFINE gone == Group(active, g)
<1>1. /\ active' = active \ gone /\ gone \in SUBSET active /\ posted' = posted
      /\ \A r \in active, q \in gone : r.group = q.group => r \in gone
      /\ \A r \in gone : r.voucher \notin Made
  BY DEF Unlink, Group
<1>2. OneActivePerTransaction' /\ GroupsAreLegs' /\ active' \subseteq Rows
  BY <1>1, RemovalPreserves
<1>3. MatchingTypeOK' /\ MatchedVoucherIsPosted' /\ MadeVoucherIsMatched'
  BY <1>1, <1>2 DEF MatchingInv, MatchingTypeOK, MatchedVoucherIsPosted,
     MadeVoucherIsMatched, Of
<1> QED BY <1>2, <1>3 DEF MatchingInv

\* Cancelling a voucher preserves the invariant.
LEMMA CancelPreserves ==
    ASSUME MatchingInv, NEW v \in Vouchers, CancelVoucher(v)
    PROVE  MatchingInv'
<1> DEFINE gone == Of(active, v)
<1>1. /\ active' = active \ gone /\ gone \in SUBSET active
      /\ posted' = [posted EXCEPT ![v] = "cancelled"]
      /\ \A r \in active, q \in gone : r.group = q.group => r \in gone
  BY DEF CancelVoucher, Of, MatchingInv, GroupsAreLegs
<1>2. OneActivePerTransaction' /\ GroupsAreLegs' /\ active' \subseteq Rows
  BY <1>1, RemovalPreserves
<1>3. MatchingTypeOK' /\ MatchedVoucherIsPosted'
  BY <1>1, <1>2 DEF MatchingInv, MatchingTypeOK, MatchedVoucherIsPosted, Of
<1>4. MadeVoucherIsMatched'
  <2> SUFFICES ASSUME NEW w \in Made
               PROVE  posted'[w] = "submitted" <=> Of(active', w) # {}
    BY DEF MadeVoucherIsMatched
  <2>1. CASE w = v
    BY <2>1, <1>1 DEF MatchingInv, MatchingTypeOK, Of
  <2>2. CASE w # v
    <3>1. Of(active', w) = Of(active, w)
      BY <2>2, <1>1 DEF Of
    <3> QED BY <2>2, <3>1, <1>1 DEF MatchingInv, MatchingTypeOK, MadeVoucherIsMatched
  <2> QED BY <2>1, <2>2
<1> QED BY <1>2, <1>3, <1>4 DEF MatchingInv

\* Every state of the abstract bank satisfies the inductive invariant.
THEOREM MatchingInvariant == MatchingSpec => []MatchingInv
<1>1. MatchingInit => MatchingInv
  BY InitialMatching
<1>2. MatchingInv /\ [MatchingNext]_matchingVars => MatchingInv'
  <2> SUFFICES ASSUME MatchingInv, [MatchingNext]_matchingVars PROVE MatchingInv'
    OBVIOUS
  <2>1. CASE MatchingNext
    BY <2>1, CreatePreserves, LinkPreserves, UnlinkPreserves, CancelPreserves
    DEF MatchingNext
  <2>2. CASE UNCHANGED matchingVars
    BY <2>2 DEF matchingVars, MatchingInv, MatchingTypeOK, OneActivePerTransaction,
       GroupsAreLegs, MatchedVoucherIsPosted, MadeVoucherIsMatched
  <2> QED BY <2>1, <2>2
<1> QED BY <1>1, <1>2, PTL DEF MatchingSpec

\* A bank transaction never has two active reconciliations.
THEOREM OneReconciliationEach == MatchingSpec => []OneActivePerTransaction
<1>1. MatchingInv => OneActivePerTransaction
  BY DEF MatchingInv
<1> QED BY <1>1, MatchingInvariant, PTL

\* What is matched with a bank leg is one group that sums to exactly the leg.
THEOREM LegsStayExact == MatchingSpec => []LegsCoveredExactly
<1>1. MatchingInv => LegsCoveredExactly
  <2> SUFFICES ASSUME MatchingInv, NEW r \in active, r.voucher \in Existing
               PROVE  LET leg == {q.tx : q \in {p \in Of(active, r.voucher) :
                                                   Ledger[p.tx] = Ledger[r.tx]}}
                      IN  /\ leg = Matched(Group(active, r.group))
                          /\ TotalMovement(leg) = Movement[r.voucher][Ledger[r.tx]]
    BY DEF LegsCoveredExactly
  <2>1. {p \in Of(active, r.voucher) : Ledger[p.tx] = Ledger[r.tx]}
          = Group(active, r.group)
    BY DEF MatchingInv, GroupsAreLegs, Of, Group
  <2> QED BY <2>1 DEF Matched, MatchingInv, GroupsAreLegs
<1> QED BY <1>1, MatchingInvariant, PTL

\* A created voucher is posted exactly while its transaction is matched.
THEOREM MadeVouchersMatched ==
    MatchingSpec => [](MatchedVoucherIsPosted /\ MadeVoucherIsMatched)
<1>1. MatchingInv => MatchedVoucherIsPosted /\ MadeVoucherIsMatched
  BY DEF MatchingInv
<1> QED BY <1>1, MatchingInvariant, PTL

-----------------------------------------------------------------------------
\* BankReconciliation: requests that interleave implement it.

Typed ==
    /\ posted \in [Vouchers -> {"unsaved", "submitted", "cancelled"}]
    /\ active \subseteq Rows
    /\ used \subseteq Groups
    /\ job \in [Sessions -> Jobs]
    /\ DOMAIN held = Sessions /\ held = [s \in Sessions |-> held[s]]
    /\ DOMAIN todo = Sessions /\ todo = [s \in Sessions |-> todo[s]]

\* Two sessions never hold the row of one voucher, and a session holds no row
\* outside a transaction.
Exclusive ==
    /\ \A s, o \in Sessions, v \in Vouchers :
          VoucherRow(v) \in held[s] /\ VoucherRow(v) \in held[o] => s = o
    /\ \A r \in active : r.group \in used /\ posted[r.voucher] # "unsaved"

NeedsVoucher(s) == job[s].op \in {"match", "cancel"}

\* A request that needs its voucher has the row or has it last on its list.
FirstPhase(s) ==
    job[s].at = "first" /\ NeedsVoucher(s) =>
        \/ VoucherRow(job[s].voucher) \in held[s]
        \/ /\ todo[s] \in Seq(Locks) /\ todo[s] # <<>>
           /\ todo[s][Len(todo[s])] = VoucherRow(job[s].voucher)

CreateOk(s) ==
    job[s].at # "idle" /\ job[s].op = "create" =>
        /\ job[s].voucher \in Made /\ posted[job[s].voucher] = "unsaved"
        /\ \E t \in Transactions : job[s].txs = {t}
        /\ \A o \in Sessions : job[o].voucher = job[s].voucher => o = s

MatchOk(s) ==
    job[s].at # "idle" /\ job[s].op = "match" =>
        /\ job[s].voucher \in Existing /\ job[s].txs # {}
        /\ job[s].at = "second" =>
              /\ VoucherRow(job[s].voucher) \in held[s]
              /\ posted[job[s].voucher] = "submitted"
              /\ \A t, u \in job[s].txs : /\ Ledger[t] = Ledger[u]
                                          /\ Amount[t] > 0 <=> Amount[u] > 0
              /\ \A t \in job[s].txs :
                    TotalMovement(job[s].txs) = Movement[job[s].voucher][Ledger[t]]

CancelOk(s) ==
    job[s].at # "idle" /\ job[s].op = "cancel" =>
        /\ job[s].voucher \in Vouchers
        /\ job[s].at = "second" =>
              /\ VoucherRow(job[s].voucher) \in held[s]
              /\ posted[job[s].voucher] = "submitted"
              /\ Of(active, job[s].voucher) \subseteq job[s].rows
              /\ \A r \in job[s].rows : r.voucher = job[s].voucher

UnlinkOk(s) ==
    job[s].at # "idle" /\ job[s].op = "unlink" =>
        /\ job[s].rows # {}
        /\ \A r, q \in job[s].rows : r.group = q.group
        /\ \A r \in job[s].rows : r.group \in used /\ r.voucher \in Existing
        /\ \A r \in job[s].rows, q \in active : r.group = q.group =>
              /\ q.voucher \in Existing
              /\ job[s].at = "second" => q \in job[s].rows

SessionOk(s) == FirstPhase(s) /\ CreateOk(s) /\ MatchOk(s) /\ CancelOk(s) /\ UnlinkOk(s)

\* The rows of a group belong to one voucher.
OneVoucherPerGroup == \A r, q \in active : r.group = q.group => r.voucher = q.voucher

BankInv == Typed /\ Exclusive /\ OneVoucherPerGroup /\ \A s \in Sessions : SessionOk(s)

\* An empty database keeps the bank's invariant.
LEMMA InitialBank == Init => BankInv
BY MatchingAssumption, BankAssumption
DEF Init, MatchingInit, BankInv, Typed, Exclusive, OneVoucherPerGroup, SessionOk,
    FirstPhase, CreateOk, MatchOk, CancelOk, UnlinkOk, NeedsVoucher, NoJob, Jobs,
    Stages, Ops, Rows, Vouchers

\* A lock is granted only while no other session holds it.
LEMMA GrantedIsFree ==
    ASSUME NEW s \in Sessions, NEW k, Grantable(s, k), NEW o \in Sessions \ {s}
    PROVE  k \notin held[o]
<1>1. k \in Entries(k)
  BY DEF Entries
<1> QED BY <1>1 DEF Grantable

\* A step of s that leaves the books alone leaves every other session valid,
\* unless s picks the voucher another session is about to create.
LEMMA OthersUndisturbed ==
    ASSUME BankInv, NEW s \in Sessions, NEW o \in Sessions, o # s,
           UNCHANGED <<posted, active, used>>,
           \A p \in Sessions \ {s} : /\ job'[p] = job[p] /\ held'[p] = held[p]
                                     /\ todo'[p] = todo[p],
           CreateOk(o) /\ job[o].at # "idle" /\ job[o].op = "create" =>
               job'[s].voucher # job[o].voucher
    PROVE  SessionOk(o)'
<1>1. SessionOk(o) /\ job'[o] = job[o] /\ held'[o] = held[o] /\ todo'[o] = todo[o]
  BY DEF BankInv
<1>2. FirstPhase(o)'
  BY <1>1 DEF SessionOk, FirstPhase, NeedsVoucher
<1>3. CreateOk(o)'
  BY <1>1 DEF SessionOk, CreateOk
<1>4. MatchOk(o)'
  BY <1>1 DEF SessionOk, MatchOk
<1>5. CancelOk(o)'
  BY <1>1 DEF SessionOk, CancelOk
<1>6. UnlinkOk(o)'
  BY <1>1 DEF SessionOk, UnlinkOk
<1> QED BY <1>2, <1>3, <1>4, <1>5, <1>6 DEF SessionOk

\* The four kinds of request read and touch nothing but the session itself.
LEMMA RequestPreserves ==
    ASSUME BankInv, NEW s \in Sessions,
           RequestPayment(s) \/ RequestMatch(s) \/ RequestUndo(s) \/ RequestCancel(s)
    PROVE  BankInv'
<1> USE MatchingAssumption, BankAssumption DEF Vouchers
<1>1. PICK op \in Ops, T \in SUBSET Transactions, v \in Vouchers, rows \in SUBSET Rows :
        /\ Request(s, op, T, v, rows)
        /\ op = "create" => /\ v \in Made /\ posted[v] = "unsaved"
                            /\ \E t \in Transactions : T = {t}
                            /\ \A o \in Sessions : job[o].voucher # v
        /\ op # "create" => posted[v] # "unsaved" \/ v \in Existing
        /\ op = "match" => v \in Existing /\ T # {}
        /\ op = "unlink" => \E r \in active : rows = {r} /\ r.voucher \in Existing
  <2>1. CASE RequestPayment(s)
    <3>1. PICK t \in Transactions, v \in Made :
            /\ posted[v] = "unsaved"
            /\ \A o \in Sessions : job[o].voucher # v
            /\ Request(s, "create", {t}, v, {})
      BY <2>1 DEF RequestPayment
    <3> QED BY <3>1 DEF Ops
  <2>2. CASE RequestMatch(s)
    BY <2>2 DEF RequestMatch, Ops
  <2>3. CASE RequestUndo(s)
    <3>1. PICK r \in active : Request(s, IF r.voucher \in Made THEN "cancel" ELSE "unlink",
                                      {}, r.voucher, {r})
      BY <2>3 DEF RequestUndo
    <3>2. r \in Rows /\ r.voucher \in Vouchers /\ posted[r.voucher] # "unsaved"
      BY DEF BankInv, Typed, Exclusive, Rows
    <3>3. CASE r.voucher \in Made
      BY <3>1, <3>2, <3>3 DEF Ops
    <3>4. CASE r.voucher \notin Made
      BY <3>1, <3>2, <3>4 DEF Ops
    <3> QED BY <3>3, <3>4
  <2>4. CASE RequestCancel(s)
    BY <2>4 DEF RequestCancel, Ops
  <2> QED BY <2>1, <2>2, <2>3, <2>4
<1>2. /\ job[s].at = "idle"
      /\ job' = [job EXCEPT ![s] = [at |-> "ready", op |-> op, txs |-> T,
                                    voucher |-> v, rows |-> rows]]
      /\ UNCHANGED <<posted, active, reference, used, held, todo>>
  BY <1>1 DEF Request
<1>3. job \in [Sessions -> Jobs]
  BY DEF BankInv, Typed
<1>4. /\ job'[s] = [at |-> "ready", op |-> op, txs |-> T, voucher |-> v, rows |-> rows]
      /\ \A p \in Sessions \ {s} : job'[p] = job[p]
  BY <1>2, <1>3
<1>5. Typed'
  BY <1>2, <1>3 DEF BankInv, Typed, Jobs, Stages
<1>6. Exclusive' /\ OneVoucherPerGroup'
  BY <1>2 DEF BankInv, Exclusive, OneVoucherPerGroup
<1>7. ASSUME NEW o \in Sessions, o # s PROVE SessionOk(o)'
  <2>1. CreateOk(o) /\ job[o].at # "idle" /\ job[o].op = "create" =>
          job'[s].voucher # job[o].voucher
    BY <1>1, <1>4 DEF CreateOk
  <2> QED BY <2>1, <1>2, <1>4, <1>7, OthersUndisturbed
<1>8. SessionOk(s)'
  <2>1. FirstPhase(s)'
    BY <1>4 DEF FirstPhase
  <2>2. CreateOk(s)'
    BY <1>1, <1>2, <1>4 DEF CreateOk
  <2>3. MatchOk(s)' /\ CancelOk(s)'
    BY <1>1, <1>4 DEF MatchOk, CancelOk
  <2>4. UnlinkOk(s)'
    <3>1. CASE op = "unlink"
      <4>1. PICK r \in active : rows = {r} /\ r.voucher \in Existing
        BY <3>1, <1>1
      <4>2. r.group \in used /\ \A q \in active : r.group = q.group => q.voucher \in Existing
        BY <4>1 DEF BankInv, Exclusive, OneVoucherPerGroup
      <4>3. job'[s].rows = {r} /\ job'[s].at = "ready"
        BY <4>1, <1>4
      <4> QED BY <4>1, <4>2, <4>3, <1>2 DEF UnlinkOk
    <3>2. CASE op # "unlink"
      BY <3>2, <1>4 DEF UnlinkOk
    <3> QED BY <3>1, <3>2
  <2> QED BY <2>1, <2>2, <2>3, <2>4 DEF SessionOk
<1> QED BY <1>5, <1>6, <1>7, <1>8 DEF BankInv

\* Entering the transaction puts the voucher last on the list of locks.
LEMMA BeginPreserves ==
    ASSUME BankInv, NEW s \in Sessions, Begin(s)
    PROVE  BankInv'
<1>1. /\ job' = [job EXCEPT ![s] = [@ EXCEPT !.at = "first"]]
      /\ todo' = [todo EXCEPT ![s] = FirstLocks(job[s])]
      /\ job[s].at = "ready"
      /\ UNCHANGED <<posted, active, reference, used, held>>
      /\ job \in [Sessions -> Jobs] /\ DOMAIN todo = Sessions
  BY DEF Begin, BankInv, Typed
<1>2. /\ job'[s] = [job[s] EXCEPT !.at = "first"] /\ todo'[s] = FirstLocks(job[s])
      /\ \A p \in Sessions \ {s} : job'[p] = job[p] /\ todo'[p] = todo[p]
  BY <1>1
<1>3. /\ job'[s].at = "first" /\ job'[s].op = job[s].op /\ job'[s].txs = job[s].txs
      /\ job'[s].voucher = job[s].voucher /\ job'[s].rows = job[s].rows
  BY <1>1, <1>2 DEF Jobs
<1>4. Typed'
  BY <1>1 DEF BankInv, Typed, Jobs, Stages
<1>5. Exclusive' /\ OneVoucherPerGroup'
  BY <1>1 DEF BankInv, Exclusive, OneVoucherPerGroup
<1>6. ASSUME NEW o \in Sessions, o # s PROVE SessionOk(o)'
  <2>1. CreateOk(o) /\ job[o].at # "idle" /\ job[o].op = "create" =>
          job'[s].voucher # job[o].voucher
    BY <1>3, <1>6 DEF CreateOk
  <2> QED BY <2>1, <1>1, <1>2, <1>6, OthersUndisturbed
<1>7. SessionOk(s)'
  <2>1. SessionOk(s)
    BY DEF BankInv
  <2>2. FirstPhase(s)'
    <3> SUFFICES ASSUME NeedsVoucher(s)
                 PROVE  /\ todo'[s] \in Seq(Locks) /\ todo'[s] # <<>>
                        /\ todo'[s][Len(todo'[s])] = VoucherRow(job[s].voucher)
      BY <1>3 DEF FirstPhase, NeedsVoucher
    <3> DEFINE V == VoucherRow(job[s].voucher)
    <3>1. job[s].voucher \in Vouchers
      BY <2>1, <1>1 DEF SessionOk, MatchOk, CancelOk, NeedsVoucher, Vouchers
    <3>2. V \in Locks
      BY <3>1 DEF Locks
    <3>3. ASSUME job[s].rows # {} PROVE AuditRow(CHOOSE r \in job[s].rows : TRUE) \in Locks
      <4>1. job[s].rows \subseteq Rows
        BY <1>1 DEF Jobs
      <4>2. (CHOOSE r \in job[s].rows : TRUE) \in Rows
        BY <3>3, <4>1
      <4>3. \A x \in Rows : AuditRow(x) \in Locks
        BY DEF Locks
      <4> QED BY <4>2, <4>3
    <3> HIDE DEF V
    <3>4. \/ todo'[s] = <<V>>
          \/ /\ todo'[s] = <<AuditRow(CHOOSE r \in job[s].rows : TRUE), V>>
             /\ job[s].rows # {}
      BY <1>2 DEF FirstLocks, NeedsVoucher, V
    <3> HIDE DEF V
    <3>5. todo'[s] \in Seq(Locks) /\ todo'[s] # <<>> /\ todo'[s][Len(todo'[s])] = V
      <4> DEFINE A == AuditRow(CHOOSE r \in job[s].rows : TRUE)
      <4> HIDE DEF A
      <4>1. CASE todo'[s] = <<V>>
        BY <4>1, <3>2
      <4>2. CASE todo'[s] = <<A, V>> /\ job[s].rows # {}
        <5>1. A \in Locks
          BY <4>2, <3>3 DEF A
        <5> QED BY <4>2, <5>1, <3>2
      <4> QED BY <4>1, <4>2, <3>4 DEF A
    <3> QED BY <3>5 DEF V
  <2>3. CreateOk(s)'
    BY <2>1, <1>1, <1>2, <1>3 DEF SessionOk, CreateOk
  <2>4. MatchOk(s)' /\ CancelOk(s)'
    BY <2>1, <1>1, <1>3 DEF SessionOk, MatchOk, CancelOk
  <2>5. UnlinkOk(s)'
    BY <2>1, <1>1, <1>3 DEF SessionOk, UnlinkOk
  <2> QED BY <2>2, <2>3, <2>4, <2>5 DEF SessionOk
<1> QED BY <1>4, <1>5, <1>6, <1>7 DEF BankInv

\* A list of locks that does not begin with its last lock still ends with it
\* after the first has been taken.
LEMMA TailKeepsLast ==
    ASSUME NEW S, NEW q \in Seq(S), q # <<>>, q[Len(q)] # Head(q)
    PROVE  Tail(q) \in Seq(S) /\ Tail(q) # <<>> /\ Tail(q)[Len(Tail(q))] = q[Len(q)]
<1>1. Len(q) \in Nat /\ Len(q) > 0 /\ Head(q) = q[1]
  OBVIOUS
<1>2. Len(q) > 1
  BY <1>1
<1>3. Tail(q) \in Seq(S) /\ Len(Tail(q)) = Len(q) - 1
  BY <1>1
<1>4. Tail(q)[Len(q) - 1] = q[Len(q)]
  BY <1>1, <1>2
<1>5. Tail(q) # <<>>
  BY <1>1, <1>2, <1>3
<1> QED BY <1>3, <1>4, <1>5

\* One more lock: nobody else has it, and the voucher comes closer.
LEMMA TakePreserves ==
    ASSUME BankInv, NEW s \in Sessions, Take(s)
    PROVE  BankInv'
<1> DEFINE k == Head(todo[s])
<1>1. /\ todo[s] # <<>> /\ Grantable(s, k)
      /\ held' = [held EXCEPT ![s] = @ \cup {k}]
      /\ todo' = [todo EXCEPT ![s] = Tail(@)]
      /\ UNCHANGED <<posted, active, reference, used, job>>
      /\ DOMAIN held = Sessions /\ DOMAIN todo = Sessions
  BY DEF Take, BankInv, Typed
<1> HIDE DEF k
<1>2. /\ held'[s] = held[s] \cup {k} /\ todo'[s] = Tail(todo[s])
      /\ \A p \in Sessions \ {s} : held'[p] = held[p] /\ todo'[p] = todo[p]
      /\ \A p \in Sessions : job'[p] = job[p]
  BY <1>1
<1>3. \A p \in Sessions \ {s} : k \notin held[p]
  BY <1>1, GrantedIsFree
<1>4. Typed'
  BY <1>1 DEF BankInv, Typed
<1>5. Exclusive'
  <2>1. ASSUME NEW p \in Sessions, NEW o \in Sessions, NEW v \in Vouchers,
               VoucherRow(v) \in held'[p], VoucherRow(v) \in held'[o]
        PROVE  p = o
    BY <2>1, <1>2, <1>3 DEF BankInv, Exclusive
  <2> QED BY <2>1, <1>1 DEF BankInv, Exclusive
<1>6. OneVoucherPerGroup'
  BY <1>1 DEF BankInv, OneVoucherPerGroup
<1>7. ASSUME NEW o \in Sessions, o # s PROVE SessionOk(o)'
  <2>1. CreateOk(o) /\ job[o].at # "idle" /\ job[o].op = "create" =>
          job'[s].voucher # job[o].voucher
    BY <1>2, <1>7 DEF CreateOk
  <2> QED BY <2>1, <1>1, <1>2, <1>7, OthersUndisturbed
<1>8. SessionOk(s)'
  <2>1. SessionOk(s)
    BY DEF BankInv
  <2>2. FirstPhase(s)'
    <3> SUFFICES ASSUME job[s].at = "first", NeedsVoucher(s),
                        VoucherRow(job[s].voucher) \notin held'[s]
                 PROVE  /\ todo'[s] \in Seq(Locks) /\ todo'[s] # <<>>
                        /\ todo'[s][Len(todo'[s])] = VoucherRow(job[s].voucher)
      BY <1>2 DEF FirstPhase, NeedsVoucher
    <3> DEFINE V == VoucherRow(job[s].voucher)
    <3>1. /\ todo[s] \in Seq(Locks) /\ todo[s] # <<>>
          /\ todo[s][Len(todo[s])] = V /\ V # Head(todo[s])
      BY <2>1, <1>2 DEF SessionOk, FirstPhase, k
    <3> HIDE DEF V
    <3>3. /\ Tail(todo[s]) \in Seq(Locks) /\ Tail(todo[s]) # <<>>
          /\ Tail(todo[s])[Len(Tail(todo[s]))] = V
      BY <3>1, TailKeepsLast
    <3> QED BY <3>3, <1>2 DEF V
  <2>3. CreateOk(s)' /\ UnlinkOk(s)'
    BY <2>1, <1>1, <1>2 DEF SessionOk, CreateOk, UnlinkOk
  <2>4. MatchOk(s)' /\ CancelOk(s)'
    BY <2>1, <1>1, <1>2 DEF SessionOk, MatchOk, CancelOk
  <2> QED BY <2>2, <2>3, <2>4 DEF SessionOk
<1> QED BY <1>4, <1>5, <1>6, <1>7, <1>8 DEF BankInv

\* The reads inside the transaction: with the voucher held, what was read as
\* submitted stays so; what undo finds is the whole group, or rows of a group
\* that is gone.
LEMMA ReadPreserves ==
    ASSUME BankInv, NEW s \in Sessions, Read(s)
    PROVE  BankInv'
<1>1. /\ job' = [job EXCEPT ![s] = [@ EXCEPT !.at = "second", !.rows = Found(job[s])]]
      /\ \E locks \in SecondLocks(job'[s]) : todo' = [todo EXCEPT ![s] = locks]
      /\ job[s].at = "first" /\ todo[s] = <<>> /\ Passes(job[s])
      /\ UNCHANGED <<posted, active, reference, used, held>>
      /\ job \in [Sessions -> Jobs] /\ DOMAIN todo = Sessions
      /\ active \subseteq Rows
  BY DEF Read, BankInv, Typed
<1>2. /\ job'[s] = [job[s] EXCEPT !.at = "second", !.rows = Found(job[s])]
      /\ \A p \in Sessions \ {s} : job'[p] = job[p] /\ todo'[p] = todo[p]
  BY <1>1
<1>3. /\ job'[s].at = "second" /\ job'[s].op = job[s].op /\ job'[s].txs = job[s].txs
      /\ job'[s].voucher = job[s].voucher /\ job'[s].rows = Found(job[s])
  BY <1>1, <1>2 DEF Jobs
<1>4. SessionOk(s)
  BY DEF BankInv
<1>5. Found(job[s]) \in SUBSET Rows
  <2>1. job[s].rows \subseteq Rows
    BY <1>1 DEF Jobs
  <2> QED BY <2>1, <1>1 DEF Found, Group, LinkedTo, Of
<1>6. Typed'
  <2>1. job' \in [Sessions -> Jobs]
    <3>1. [job[s] EXCEPT !.at = "second", !.rows = Found(job[s])] \in Jobs
      BY <1>1, <1>5 DEF Jobs, Stages
    <3> QED BY <3>1, <1>1
  <2>2. DOMAIN todo' = Sessions /\ todo' = [p \in Sessions |-> todo'[p]]
    BY <1>1 DEF BankInv, Typed
  <2> QED BY <1>1, <2>1, <2>2 DEF BankInv, Typed
<1>7. Exclusive' /\ OneVoucherPerGroup'
  BY <1>1 DEF BankInv, Exclusive, OneVoucherPerGroup
<1>8. ASSUME NEW o \in Sessions, o # s PROVE SessionOk(o)'
  <2>1. CreateOk(o) /\ job[o].at # "idle" /\ job[o].op = "create" =>
          job'[s].voucher # job[o].voucher
    BY <1>3, <1>8 DEF CreateOk
  <2> QED BY <2>1, <1>1, <1>2, <1>8, OthersUndisturbed
<1>9. NeedsVoucher(s) => VoucherRow(job[s].voucher) \in held[s]
  BY <1>1, <1>4 DEF SessionOk, FirstPhase
<1>10. SessionOk(s)'
  <2>1. FirstPhase(s)'
    BY <1>3 DEF FirstPhase
  <2>2. CreateOk(s)'
    BY <1>4, <1>1, <1>2, <1>3 DEF SessionOk, CreateOk
  <2>3. MatchOk(s)'
    BY <1>4, <1>1, <1>3, <1>9 DEF SessionOk, MatchOk, Passes, Covers, NeedsVoucher
  <2>4. CancelOk(s)'
    BY <1>4, <1>1, <1>3, <1>9 DEF SessionOk, CancelOk, Passes, Found, LinkedTo, Of,
       NeedsVoucher
  <2>5. UnlinkOk(s)'
    <3> SUFFICES ASSUME job[s].op = "unlink"
                 PROVE  UnlinkOk(s)'
      BY <1>3 DEF UnlinkOk
    <3> DEFINE group == UNION {Group(active, r.group) : r \in job[s].rows}
    <3>1. /\ job[s].rows # {}
          /\ \A r, q \in job[s].rows : r.group = q.group
          /\ \A r \in job[s].rows : r.group \in used /\ r.voucher \in Existing
          /\ \A r \in job[s].rows, q \in active : r.group = q.group => q.voucher \in Existing
      BY <1>4, <1>1 DEF SessionOk, UnlinkOk
    <3>2. PICK r \in job[s].rows : TRUE
      BY <3>1
    <3>3. group = Group(active, r.group)
      BY <3>1, <3>2 DEF Group
    <3>4. CASE group # {}
      <4>1. Found(job[s]) = Group(active, r.group)
        BY <3>3, <3>4 DEF Found
      <4>2. \A q \in Found(job[s]) : q \in active /\ q.group = r.group
        BY <4>1 DEF Group
      <4>3. \A q \in active : q.group = r.group => q \in Found(job[s])
        BY <4>1 DEF Group
      <4> QED BY <4>1, <4>2, <4>3, <3>1, <3>2, <3>3, <3>4, <1>1, <1>3 DEF UnlinkOk
    <3>5. CASE group = {}
      <4>1. Found(job[s]) = job[s].rows
        BY <3>5 DEF Found
      <4>2. \A q \in active : q.group # r.group
        BY <3>3, <3>5 DEF Group
      <4> QED BY <4>1, <4>2, <3>1, <3>2, <1>1, <1>3 DEF UnlinkOk
    <3> QED BY <3>4, <3>5
  <2> QED BY <2>1, <2>2, <2>3, <2>4, <2>5 DEF SessionOk
<1> QED BY <1>6, <1>7, <1>8, <1>10 DEF BankInv

\* The end of a transaction leaves a free session without locks.
LEMMA Finished ==
    ASSUME BankInv, NEW s \in Sessions, Finish(s)
    PROVE  /\ job' \in [Sessions -> Jobs] /\ job'[s] = NoJob
           /\ DOMAIN held' = Sessions /\ held' = [p \in Sessions |-> held'[p]]
           /\ DOMAIN todo' = Sessions /\ todo' = [p \in Sessions |-> todo'[p]]
           /\ held'[s] = {}
           /\ \A p \in Sessions \ {s} : /\ job'[p] = job[p] /\ held'[p] = held[p]
                                        /\ todo'[p] = todo[p]
           /\ SessionOk(s)'
<1>1. /\ held' = [held EXCEPT ![s] = {}] /\ todo' = [todo EXCEPT ![s] = <<>>]
      /\ job' = [job EXCEPT ![s] = NoJob]
      /\ job \in [Sessions -> Jobs] /\ DOMAIN held = Sessions /\ DOMAIN todo = Sessions
  BY DEF Finish, BankInv, Typed
<1>2. NoJob \in Jobs /\ NoJob.at = "idle"
  BY DEF NoJob, Jobs, Stages, Ops
<1>3. job'[s] = NoJob
  BY <1>1
<1>4. SessionOk(s)'
  BY <1>2, <1>3 DEF SessionOk, FirstPhase, CreateOk, MatchOk, CancelOk, UnlinkOk
<1> QED BY <1>1, <1>2, <1>3, <1>4

\* A request that rolls back leaves no marked bank line behind.
LEMMA RollbackPreserves ==
    ASSUME BankInv, NEW s \in Sessions, Rollback(s)
    PROVE  BankInv'
<1> USE BankAssumption
<1>1. Finish(s) /\ UNCHANGED <<posted, active, reference, used>>
  BY DEF Rollback
<1>2. Typed'
  BY <1>1, Finished DEF BankInv, Typed
<1>3. Exclusive' /\ OneVoucherPerGroup'
  BY <1>1, Finished DEF BankInv, Exclusive, OneVoucherPerGroup
<1>4. ASSUME NEW o \in Sessions, o # s PROVE SessionOk(o)'
  <2>1. CreateOk(o) /\ job[o].at # "idle" /\ job[o].op = "create" =>
          job'[s].voucher # job[o].voucher
    BY <1>1, Finished DEF CreateOk, NoJob, Vouchers
  <2> QED BY <2>1, <1>1, <1>4, Finished, OthersUndisturbed
<1> QED BY <1>1, <1>2, <1>3, <1>4, Finished DEF BankInv

\* A committed match is one Create or one Link of Matching.
LEMMA MatchIsAtomic ==
    ASSUME BankInv, NEW s \in Sessions, CommitMatch(s)
    PROVE  MatchingNext
<1>1. PICK g \in Groups \ used : active' = active \cup {Row(g, t, job[s].voucher) : t \in job[s].txs}
  BY DEF CommitMatch
<1>2. Group(active, g) = {}
  BY <1>1 DEF BankInv, Exclusive, Group
<1>3. SessionOk(s) /\ job[s] \in Jobs /\ job[s].at = "second"
  BY DEF BankInv, Typed, CommitMatch
<1>4. CASE job[s].op = "create"
  <2>1. PICK t \in Transactions : job[s].txs = {t}
    BY <1>3, <1>4 DEF SessionOk, CreateOk
  <2>2. {Row(g, u, job[s].voucher) : u \in job[s].txs} = {Row(g, t, job[s].voucher)}
    BY <2>1
  <2>3. Create(t, job[s].voucher, g)
    BY <1>1, <1>2, <1>3, <1>4, <2>1, <2>2 DEF SessionOk, CreateOk, Create, CommitMatch
  <2> QED BY <1>1, <1>3, <1>4, <2>3 DEF MatchingNext, SessionOk, CreateOk
<1>5. CASE job[s].op = "match"
  <2>1. Covers(active, job[s].txs, job[s].voucher)
    BY <1>3, <1>5 DEF SessionOk, MatchOk, Covers, CommitMatch
  <2>2. Link(job[s].txs, job[s].voucher, g)
    BY <1>1, <1>2, <1>3, <1>5, <2>1 DEF SessionOk, MatchOk, Link, CommitMatch
  <2>3. job[s].txs \in SUBSET Transactions
    BY <1>3 DEF Jobs
  <2> QED BY <1>1, <1>3, <1>5, <2>2, <2>3 DEF MatchingNext, SessionOk, MatchOk
<1> QED BY <1>4, <1>5 DEF CommitMatch

\* A committed undo or cancel is one Unlink or one CancelVoucher, or changes
\* nothing when the group it found is already gone.
LEMMA UndoIsAtomic ==
    ASSUME BankInv, NEW s \in Sessions, CommitUndo(s)
    PROVE  MatchingNext \/ UNCHANGED matchingVars
<1>1. /\ SessionOk(s) /\ job[s] \in Jobs /\ job[s].at = "second"
      /\ active' = active \ job[s].rows /\ used \subseteq Groups
  BY DEF BankInv, Typed, CommitUndo
<1>2. CASE job[s].op = "unlink"
  <2>1. PICK r \in job[s].rows : TRUE
    BY <1>1, <1>2 DEF SessionOk, UnlinkOk
  <2>2. /\ \A q \in job[s].rows : q.group = r.group
        /\ r.group \in Groups
        /\ \A q \in active : q.group = r.group => q \in job[s].rows /\ q.voucher \in Existing
    BY <1>1, <1>2, <2>1 DEF SessionOk, UnlinkOk
  <2>3. active' = active \ Group(active, r.group)
    BY <1>1, <2>2 DEF Group
  <2>4. UNCHANGED posted
    BY <1>2 DEF CommitUndo
  <2>5. CASE Group(active, r.group) = {}
    BY <2>3, <2>4, <2>5 DEF matchingVars
  <2>6. CASE Group(active, r.group) # {}
    <3>1. Unlink(r.group)
      BY <2>2, <2>3, <2>4, <2>6 DEF Unlink, Group
    <3> QED BY <3>1, <2>2 DEF MatchingNext
  <2> QED BY <2>5, <2>6
<1>3. CASE job[s].op = "cancel"
  <2>1. /\ job[s].voucher \in Vouchers /\ posted[job[s].voucher] = "submitted"
        /\ Of(active, job[s].voucher) \subseteq job[s].rows
        /\ \A q \in job[s].rows : q.voucher = job[s].voucher
        /\ posted' = [posted EXCEPT ![job[s].voucher] = "cancelled"]
    BY <1>1, <1>3 DEF SessionOk, CancelOk, CommitUndo
  <2>2. active' = active \ Of(active, job[s].voucher)
    BY <1>1, <2>1 DEF Of
  <2>3. CancelVoucher(job[s].voucher)
    BY <2>1, <2>2 DEF CancelVoucher
  <2> QED BY <2>1, <2>3 DEF MatchingNext
<1> QED BY <1>2, <1>3 DEF CommitUndo

\* A committed match leaves the other sessions what they rely on.
LEMMA MatchPreserves ==
    ASSUME BankInv, NEW s \in Sessions, CommitMatch(s)
    PROVE  BankInv'
<1> USE MatchingAssumption, BankAssumption
<1> DEFINE v == job[s].voucher
           T == job[s].txs
<1>1. PICK g \in Groups \ used :
        /\ active' = active \cup {Row(g, t, v) : t \in T}
        /\ used' = used \cup {g}
  BY DEF CommitMatch
<1>2. /\ Finish(s) /\ SessionOk(s) /\ job[s] \in Jobs /\ job[s].at = "second"
      /\ posted' = IF job[s].op = "create" THEN [posted EXCEPT ![v] = "submitted"]
                   ELSE posted
      /\ job[s].op \in {"create", "match"}
      /\ posted \in [Vouchers -> {"unsaved", "submitted", "cancelled"}]
  BY DEF CommitMatch, BankInv, Typed
<1>3. /\ v \in Vouchers /\ posted'[v] = "submitted"
      /\ job[s].op = "create" => v \in Made /\ posted[v] = "unsaved"
      /\ job[s].op = "match" => VoucherRow(v) \in held[s] /\ posted[v] = "submitted"
      /\ \A w \in Vouchers \ {v} : posted'[w] = posted[w]
      /\ posted' \in [Vouchers -> {"unsaved", "submitted", "cancelled"}]
  BY <1>2 DEF SessionOk, CreateOk, MatchOk, Vouchers
<1>4. \A r \in active' : r \notin active => r.group = g /\ r.voucher = v /\ r.tx \in T /\ r \in Rows
  BY <1>1, <1>2, <1>3 DEF Row, Rows, Jobs
<1>5. active \subseteq active' /\ active \subseteq Rows /\ \A r \in active : r.group # g
  BY <1>1 DEF BankInv, Exclusive, Typed
<1>6. Typed'
  BY <1>1, <1>2, <1>3, <1>4, <1>5, Finished DEF BankInv, Typed
<1>7. Exclusive'
  <2>1. \A r \in active' : r.group \in used' /\ posted'[r.voucher] # "unsaved"
    <3> SUFFICES ASSUME NEW r \in active'
                 PROVE  r.group \in used' /\ posted'[r.voucher] # "unsaved"
      OBVIOUS
    <3>1. CASE r \in active
      <4>1. r.group \in used /\ posted[r.voucher] # "unsaved" /\ r.voucher \in Vouchers
        BY <3>1, <1>5 DEF BankInv, Exclusive, Rows
      <4> QED BY <4>1, <1>1, <1>3
    <3>2. CASE r \notin active
      BY <3>2, <1>1, <1>3, <1>4
    <3> QED BY <3>1, <3>2
  <2> QED BY <2>1, <1>2, Finished DEF BankInv, Exclusive
<1>8. OneVoucherPerGroup'
  BY <1>4, <1>5 DEF BankInv, OneVoucherPerGroup
<1>9. ASSUME NEW o \in Sessions, o # s PROVE SessionOk(o)'
  <2>1. SessionOk(o) /\ job'[o] = job[o] /\ held'[o] = held[o] /\ todo'[o] = todo[o]
    BY <1>2, <1>9, Finished DEF BankInv
  <2>2. FirstPhase(o)'
    BY <2>1 DEF SessionOk, FirstPhase, NeedsVoucher
  <2>3. CreateOk(o)'
    <3> SUFFICES ASSUME job[o].at # "idle", job[o].op = "create" PROVE CreateOk(o)'
      BY <2>1 DEF CreateOk
    <3>1. /\ job[o].voucher \in Made /\ posted[job[o].voucher] = "unsaved"
          /\ \E t \in Transactions : job[o].txs = {t}
          /\ \A p \in Sessions : job[p].voucher = job[o].voucher => p = o
      BY <2>1 DEF SessionOk, CreateOk
    <3>2. posted'[job[o].voucher] = "unsaved"
      BY <3>1, <1>3, <1>9 DEF Vouchers
    <3>3. \A p \in Sessions : job'[p].voucher = job'[o].voucher => p = o
      BY <3>1, <2>1, <1>2, Finished DEF NoJob, Vouchers
    <3> QED BY <3>1, <3>2, <3>3, <2>1 DEF CreateOk
  <2>4. MatchOk(o)'
    <3>1. job[o].at = "second" /\ job[o].op = "match" => posted'[job[o].voucher] = "submitted"
      BY <2>1, <1>3 DEF SessionOk, MatchOk, Vouchers
    <3> QED BY <3>1, <2>1 DEF SessionOk, MatchOk
  <2>5. CancelOk(o)'
    <3> SUFFICES ASSUME job[o].at = "second", job[o].op = "cancel"
                 PROVE  /\ posted'[job[o].voucher] = "submitted"
                        /\ Of(active', job[o].voucher) \subseteq job[o].rows
      BY <2>1 DEF SessionOk, CancelOk
    <3>1. /\ job[o].voucher \in Vouchers /\ posted[job[o].voucher] = "submitted"
          /\ VoucherRow(job[o].voucher) \in held[o]
          /\ Of(active, job[o].voucher) \subseteq job[o].rows
      BY <2>1 DEF SessionOk, CancelOk
    <3>2. job[o].voucher # v
      BY <3>1, <1>2, <1>3, <1>9 DEF BankInv, Exclusive
    <3>3. Of(active', job[o].voucher) = Of(active, job[o].voucher)
      BY <3>2, <1>4, <1>5 DEF Of
    <3> QED BY <3>1, <3>2, <3>3, <1>3
  <2>6. UnlinkOk(o)'
    <3> SUFFICES ASSUME job[o].at # "idle", job[o].op = "unlink" PROVE UnlinkOk(o)'
      BY <2>1 DEF UnlinkOk
    <3>1. \A r \in job[o].rows : r.group \in used
      BY <2>1 DEF SessionOk, UnlinkOk
    <3>2. \A r \in job[o].rows, q \in active' : r.group = q.group => q \in active
      BY <3>1, <1>1, <1>4
    <3> QED BY <3>1, <3>2, <2>1, <1>1 DEF SessionOk, UnlinkOk
  <2> QED BY <2>2, <2>3, <2>4, <2>5, <2>6 DEF SessionOk
<1> QED BY <1>2, <1>6, <1>7, <1>8, <1>9, Finished DEF BankInv

\* A committed undo or cancel leaves the other sessions what they rely on.
LEMMA UndoPreserves ==
    ASSUME BankInv, NEW s \in Sessions, CommitUndo(s)
    PROVE  BankInv'
<1> USE MatchingAssumption, BankAssumption
<1> DEFINE v == job[s].voucher
<1>1. /\ Finish(s) /\ SessionOk(s) /\ job[s] \in Jobs /\ job[s].at = "second"
      /\ active' \subseteq active /\ used' = used
      /\ posted' = IF job[s].op = "cancel" THEN [posted EXCEPT ![v] = "cancelled"]
                   ELSE posted
      /\ posted \in [Vouchers -> {"unsaved", "submitted", "cancelled"}]
      /\ active \subseteq Rows
  BY DEF CommitUndo, BankInv, Typed
<1>2. /\ posted' \in [Vouchers -> {"unsaved", "submitted", "cancelled"}]
      /\ \A w \in Vouchers : posted'[w] # posted[w] =>
            job[s].op = "cancel" /\ w = v /\ posted[w] = "submitted"
            /\ posted'[w] = "cancelled" /\ VoucherRow(v) \in held[s]
  BY <1>1 DEF SessionOk, CancelOk
<1>3. Typed'
  BY <1>1, <1>2, Finished DEF BankInv, Typed
<1>4. Exclusive'
  <2>1. \A r \in active' : r.group \in used' /\ posted'[r.voucher] # "unsaved"
    BY <1>1, <1>2 DEF BankInv, Exclusive, Rows
  <2> QED BY <2>1, <1>1, Finished DEF BankInv, Exclusive
<1>5. OneVoucherPerGroup'
  BY <1>1 DEF BankInv, OneVoucherPerGroup
<1>6. ASSUME NEW o \in Sessions, o # s PROVE SessionOk(o)'
  <2>1. SessionOk(o) /\ job'[o] = job[o] /\ held'[o] = held[o] /\ todo'[o] = todo[o]
    BY <1>1, <1>6, Finished DEF BankInv
  <2>2. FirstPhase(o)'
    BY <2>1 DEF SessionOk, FirstPhase, NeedsVoucher
  <2>3. CreateOk(o)'
    <3> SUFFICES ASSUME job[o].at # "idle", job[o].op = "create" PROVE CreateOk(o)'
      BY <2>1 DEF CreateOk
    <3>1. /\ job[o].voucher \in Made /\ posted[job[o].voucher] = "unsaved"
          /\ \E t \in Transactions : job[o].txs = {t}
          /\ \A p \in Sessions : job[p].voucher = job[o].voucher => p = o
      BY <2>1 DEF SessionOk, CreateOk
    <3>2. posted'[job[o].voucher] = "unsaved"
      BY <3>1, <1>2 DEF Vouchers
    <3>3. \A p \in Sessions : job'[p].voucher = job'[o].voucher => p = o
      BY <3>1, <2>1, <1>1, Finished DEF NoJob, Vouchers
    <3> QED BY <3>1, <3>2, <3>3, <2>1 DEF CreateOk
  <2>4. MatchOk(o)'
    <3>1. job[o].at = "second" /\ job[o].op = "match" => posted'[job[o].voucher] = "submitted"
      BY <2>1, <1>2, <1>6 DEF SessionOk, MatchOk, Vouchers, BankInv, Exclusive
    <3> QED BY <3>1, <2>1 DEF SessionOk, MatchOk
  <2>5. CancelOk(o)'
    <3> SUFFICES ASSUME job[o].at = "second", job[o].op = "cancel"
                 PROVE  /\ posted'[job[o].voucher] = "submitted"
                        /\ Of(active', job[o].voucher) \subseteq job[o].rows
      BY <2>1 DEF SessionOk, CancelOk
    <3>1. posted'[job[o].voucher] = "submitted"
      BY <2>1, <1>2, <1>6 DEF SessionOk, CancelOk, BankInv, Exclusive
    <3>2. Of(active', job[o].voucher) \subseteq job[o].rows
      BY <2>1, <1>1 DEF SessionOk, CancelOk, Of
    <3> QED BY <3>1, <3>2
  <2>6. UnlinkOk(o)'
    BY <2>1, <1>1 DEF SessionOk, UnlinkOk
  <2> QED BY <2>2, <2>3, <2>4, <2>5, <2>6 DEF SessionOk
<1> QED BY <1>1, <1>3, <1>4, <1>5, <1>6, Finished DEF BankInv

\* Every reachable state satisfies the inductive invariant.
THEOREM BankInvariant == Spec => []BankInv
<1>1. Init => BankInv
  BY InitialBank
<1>2. BankInv /\ [Next]_vars => BankInv'
  <2> SUFFICES ASSUME BankInv, [Next]_vars PROVE BankInv'
    OBVIOUS
  <2>1. CASE Next
    BY <2>1, RequestPreserves, BeginPreserves, TakePreserves, ReadPreserves,
       MatchPreserves, UndoPreserves, RollbackPreserves DEF Next
  <2>2. CASE UNCHANGED vars
    BY <2>2 DEF vars, BankInv, Typed, Exclusive, OneVoucherPerGroup, SessionOk,
       FirstPhase, NeedsVoucher, CreateOk, MatchOk, CancelOk, UnlinkOk
  <2> QED BY <2>1, <2>2
<1> QED BY <1>1, <1>2, PTL DEF Spec

\* However requests interleave, every step is one whole operation of Matching on
\* the audit rows and the vouchers, or leaves them alone.
THEOREM BankImplementation == Spec => Serializable
<1>1. Init => MatchingInit
  BY DEF Init
<1>2. BankInv /\ [Next]_vars => [MatchingNext]_matchingVars
  <2> SUFFICES ASSUME BankInv, Next PROVE MatchingNext \/ UNCHANGED matchingVars
    BY DEF vars, matchingVars
  <2> PICK s \in Sessions :
        \/ RequestPayment(s) \/ RequestMatch(s) \/ RequestUndo(s) \/ RequestCancel(s)
        \/ Begin(s) \/ Take(s) \/ Read(s)
        \/ CommitMatch(s) \/ CommitUndo(s) \/ Rollback(s)
    BY DEF Next
  <2>1. CASE \/ RequestPayment(s) \/ RequestMatch(s) \/ RequestUndo(s) \/ RequestCancel(s)
             \/ Begin(s) \/ Take(s) \/ Read(s) \/ Rollback(s)
    BY <2>1 DEF RequestPayment, RequestMatch, RequestUndo, RequestCancel, Request,
       Begin, Take, Read, Rollback, matchingVars
  <2>2. CASE CommitMatch(s)
    BY <2>2, MatchIsAtomic
  <2>3. CASE CommitUndo(s)
    BY <2>3, UndoIsAtomic
  <2> QED BY <2>1, <2>2, <2>3
<1> QED BY <1>1, <1>2, BankInvariant, PTL DEF Spec, Serializable, MatchingSpec

\* Concurrent requests never reconcile a transaction twice, use a bank leg twice
\* or in part, or keep a match with a cancelled voucher.
THEOREM ConcurrentMatching ==
    Spec => [](OneActivePerTransaction /\ LegsCoveredExactly
               /\ MatchedVoucherIsPosted /\ MadeVoucherIsMatched)
BY BankImplementation, OneReconciliationEach, LegsStayExact, MadeVouchersMatched, PTL
DEF Serializable

\* A transaction that shows as reconciled is reconciled, whatever interleaves.
THEOREM ShownIsActive == Spec => []ShownMatchIsActive
<1> DEFINE Inv == /\ ShownMatchIsActive
                  /\ active \subseteq Rows
                  /\ reference \in [Transactions -> Vouchers \cup {None}]
<1>1. Init => Inv
  BY DEF Init, MatchingInit, ShownMatchIsActive
<1>2. BankInv /\ Inv /\ [Next]_vars => Inv'
  <2> SUFFICES ASSUME BankInv, Inv, [Next]_vars PROVE Inv'
    OBVIOUS
  <2>1. CASE UNCHANGED <<active, reference>>
    BY <2>1 DEF ShownMatchIsActive
  <2>2. ASSUME NEW s \in Sessions, CommitMatch(s) PROVE Inv'
    <3>1. PICK g \in Groups :
            /\ active' = active \cup {Row(g, t, job[s].voucher) : t \in job[s].txs}
            /\ reference' = [t \in Transactions |->
                               IF t \in job[s].txs THEN job[s].voucher ELSE reference[t]]
      BY <2>2 DEF CommitMatch
    <3>2. job[s].voucher \in Vouchers /\ job[s].txs \subseteq Transactions
      BY <2>2 DEF CommitMatch, BankInv, Typed, Jobs, SessionOk, CreateOk, MatchOk, Vouchers
    <3>3. \A t \in job[s].txs : /\ Row(g, t, job[s].voucher) \in active'
                                /\ Row(g, t, job[s].voucher).tx = t
                                /\ Row(g, t, job[s].voucher).voucher = job[s].voucher
      BY <3>1 DEF Row
    <3>4. ShownMatchIsActive'
      <4> SUFFICES ASSUME NEW t \in Transactions, reference'[t] # None
                   PROVE  \E r \in active' : r.tx = t /\ r.voucher = reference'[t]
        BY DEF ShownMatchIsActive
      <4>1. CASE t \in job[s].txs
        BY <4>1, <3>1, <3>3
      <4>2. CASE t \notin job[s].txs
        BY <4>2, <3>1 DEF ShownMatchIsActive
      <4> QED BY <4>1, <4>2
    <3>5. active' \subseteq Rows
      BY <3>1, <3>2 DEF Row, Rows
    <3>6. reference' \in [Transactions -> Vouchers \cup {None}]
      BY <3>1, <3>2
    <3> QED BY <3>4, <3>5, <3>6
  <2>3. ASSUME NEW s \in Sessions, CommitUndo(s) PROVE Inv'
    <3>1. /\ active' = active \ job[s].rows
          /\ reference' = [t \in Transactions |->
                             IF t \in Matched(job[s].rows) THEN None ELSE reference[t]]
      BY <2>3 DEF CommitUndo, Requeued
    <3>2. ShownMatchIsActive'
      BY <3>1 DEF ShownMatchIsActive, Matched
    <3> QED BY <3>1, <3>2
  <2>4. Next => \/ UNCHANGED <<active, reference>>
                \/ \E s \in Sessions : CommitMatch(s) \/ CommitUndo(s)
    BY DEF Next, RequestPayment, RequestMatch, RequestUndo, RequestCancel, Request,
       Begin, Take, Read, Rollback
  <2> QED BY <2>1, <2>2, <2>3, <2>4 DEF vars
<1>3. Inv => ShownMatchIsActive
  OBVIOUS
<1> QED BY <1>1, <1>2, <1>3, BankInvariant, PTL DEF Spec

-----------------------------------------------------------------------------
\* StatementImport: each booking the bank names is imported once.

\* The same id is the same booking of the same account.
LEMMA IdIsOneBooking ==
    ASSUME NEW s \in Statements, NEW t \in Statements,
           NEW m \in BookedEntries(s.entries), NEW n \in BookedEntries(t.entries),
           ExternalId(s, m) = ExternalId(t, n)
    PROVE  /\ s.iban = t.iban
           /\ s.entries[m].booking = t.entries[n].booking
           /\ s.entries[m].amount = t.entries[n].amount
<1>1. PICK d, e : d = s.entries[m] /\ e = t.entries[n]
  OBVIOUS
<1>2. s.iban = t.iban /\ ExternalId(s, m)[2] = ExternalId(t, n)[2]
  BY DEF ExternalId
<1>3. PICK p, q : p = BankReferences(d) /\ q = BankReferences(e)
  OBVIOUS
<1>4. /\ (\E k \in 1..3 : p[k] = q[k] /\ p[k] # NoReference) =>
             d.booking = e.booking /\ d.amount = e.amount
      /\ s.statement = t.statement /\ m = n
         /\ (\A k \in 1..3 : p[k] = NoReference /\ q[k] = NoReference) =>
             d.booking = e.booking /\ d.amount = e.amount
  BY <1>1, <1>2, <1>3, StatementAssumption
<1>5. /\ p[1] = d.service /\ p[2] = d.own
      /\ p[3] = IF Len(d.details) = 1 THEN d.details[1].uetr ELSE NoReference
      /\ q[1] = e.service /\ q[2] = e.own
      /\ q[3] = IF Len(e.details) = 1 THEN e.details[1].uetr ELSE NoReference
  BY <1>3 DEF BankReferences
<1>6. /\ ExternalId(s, m)[2] = IF p[1] # NoReference THEN <<"ASR", p[1]>>
                               ELSE IF p[2] # NoReference THEN <<"NTRY", p[2]>>
                               ELSE IF p[3] # NoReference THEN <<"UETR", p[3]>>
                               ELSE <<"POSITION", s.statement, m>>
      /\ ExternalId(t, n)[2] = IF q[1] # NoReference THEN <<"ASR", q[1]>>
                               ELSE IF q[2] # NoReference THEN <<"NTRY", q[2]>>
                               ELSE IF q[3] # NoReference THEN <<"UETR", q[3]>>
                               ELSE <<"POSITION", t.statement, n>>
  BY <1>1, <1>5 DEF ExternalId
<1>7. \/ \E k \in 1..3 : p[k] = q[k] /\ p[k] # NoReference
      \/ /\ s.statement = t.statement /\ m = n
         /\ \A k \in 1..3 : p[k] = NoReference /\ q[k] = NoReference
  BY <1>2, <1>6
<1> QED BY <1>1, <1>2, <1>4, <1>7

\* The same booking has the same id, if the bank refers to it at all.
LEMMA BookingHasOneId ==
    ASSUME NEW s \in Statements, NEW t \in Statements,
           NEW m \in BookedEntries(s.entries), NEW n \in BookedEntries(t.entries),
           s.entries[m].booking = t.entries[n].booking
    PROVE  ExternalId(s, m) = ExternalId(t, n) \/ IsWeak(s, m)
<1>1. PICK d, e : d = s.entries[m] /\ e = t.entries[n]
  OBVIOUS
<1>2. PICK p, q : p = BankReferences(d) /\ q = BankReferences(e)
  OBVIOUS
<1>3. s.iban = t.iban /\ p = q
  BY <1>1, <1>2, StatementAssumption
<1>4. /\ p[1] = d.service /\ p[2] = d.own
      /\ p[3] = IF Len(d.details) = 1 THEN d.details[1].uetr ELSE NoReference
      /\ q[1] = e.service /\ q[2] = e.own
      /\ q[3] = IF Len(e.details) = 1 THEN e.details[1].uetr ELSE NoReference
  BY <1>2 DEF BankReferences
<1>5. /\ ExternalId(s, m) = <<s.iban, IF p[1] # NoReference THEN <<"ASR", p[1]>>
                               ELSE IF p[2] # NoReference THEN <<"NTRY", p[2]>>
                               ELSE IF p[3] # NoReference THEN <<"UETR", p[3]>>
                               ELSE <<"POSITION", s.statement, m>> >>
      /\ ExternalId(t, n) = <<t.iban, IF q[1] # NoReference THEN <<"ASR", q[1]>>
                               ELSE IF q[2] # NoReference THEN <<"NTRY", q[2]>>
                               ELSE IF q[3] # NoReference THEN <<"UETR", q[3]>>
                               ELSE <<"POSITION", t.statement, n>> >>
  BY <1>1, <1>4 DEF ExternalId
<1> QED BY <1>3, <1>5 DEF IsWeak

\* A line is what some statement has booked, on an account of its IBAN.
From(r, s, n) ==
    /\ r.id = ExternalId(s, n) /\ r.source = s.source /\ IbanOf[r.account] = s.iban
    /\ r.booking = s.entries[n].booking /\ r.amount = s.entries[n].amount
Grounded(r) == \E s \in Statements : \E n \in BookedEntries(s.entries) : From(r, s, n)

\* No two lines with one id; a line for every booked entry of a statement.
OneLineEach(L) == \A r, q \in L : r.id = q.id => r = q
Complete(s, L) == \A n \in BookedEntries(s.entries) : ExternalId(s, n) \in Ids(L)

\* An upload: what it has read is grounded, and complete with what is in the books.
UploadFields == {"upload", "mapping", "todo", "imports", "lines"}
UploadGood(u, B) ==
    /\ u = [f \in UploadFields |-> u[f]]
    /\ \A n \in DOMAIN u.upload : u.upload[n] \in Statements
    /\ u.todo \subseteq DOMAIN u.upload
    /\ OneLineEach(u.lines) /\ \A r \in u.lines : Grounded(r)
    /\ \A s \in Statements : s.source \in Sources(u.imports) => Complete(s, B \cup u.lines)

ImportInv ==
    /\ importer = [i \in Importers |-> importer[i]]
    /\ OneLineEach(bankLines) /\ \A r \in bankLines : Grounded(r)
    /\ \A s \in Statements : s.source \in Sources(imports) => Complete(s, bankLines)
    /\ \A i \in Importers : UploadGood(importer[i], bankLines)

\* An importer at rest has read nothing.
LEMMA NoUploadGood == ASSUME NEW B PROVE UploadGood(NoUpload, B)
BY DEF UploadGood, UploadFields, NoUpload, OneLineEach, Sources

\* Nothing is imported at first.
LEMMA ImportInvInit == ImportInit => ImportInv
<1> SUFFICES ASSUME ImportInit PROVE ImportInv
  OBVIOUS
<1>1. \A i \in Importers : UploadGood(importer[i], bankLines)
  BY NoUploadGood DEF ImportInit
<1> QED BY <1>1 DEF ImportInit, ImportInv, OneLineEach, Sources

\* Booking more lines takes nothing away.
LEMMA StillGood ==
    ASSUME NEW u, NEW B, NEW C, UploadGood(u, B), B \subseteq C
    PROVE  UploadGood(u, C)
<1>1. \A s \in Statements : Complete(s, B \cup u.lines) => Complete(s, C \cup u.lines)
  BY DEF Complete, Ids
<1> QED BY <1>1 DEF UploadGood

\* parse_camt_xml yields statements.
LEMMA ParsedAreStatements ==
    ASSUME NEW u \in ParsedUploads
    PROVE  \A n \in DOMAIN u : u[n] \in Statements
BY StatementAssumption DEF ParsedUploads, Statements

\* Of the entries with one id, the first is read, unless the id is known.
LEMMA FirstIsNew ==
    ASSUME NEW s \in Statements, NEW known, NEW n \in BookedEntries(s.entries),
           ExternalId(s, n) \notin known
    PROVE  \E m \in NewEntries(s, known) : ExternalId(s, m) = ExternalId(s, n)
<1> DEFINE Like == {m \in BookedEntries(s.entries) : ExternalId(s, m) = ExternalId(s, n)}
<1>1. Like \subseteq Nat /\ n \in Like /\ DOMAIN s.entries = 1..Len(s.entries)
  BY StatementAssumption DEF BookedEntries
<1>2. PICK m \in Like : \A k \in Like : m <= k
  BY <1>1, SmallestNumber
<1>3. m \in DOMAIN s.entries /\ s.entries[m].booked /\ ExternalId(s, m) = ExternalId(s, n)
  BY <1>2 DEF BookedEntries
<1>4. \A k \in 1..(m - 1) : s.entries[k].booked => ExternalId(s, k) # ExternalId(s, m)
  <2> SUFFICES ASSUME NEW k \in 1..(m - 1), s.entries[k].booked, ExternalId(s, k) = ExternalId(s, m)
               PROVE  FALSE
    OBVIOUS
  <2>1. k \in 1..Len(s.entries)
    BY <1>1, <1>3, StatementAssumption
  <2>2. k \in Like
    BY <1>1, <1>3, <2>1 DEF BookedEntries
  <2>3. m <= k
    BY <1>2, <2>2
  <2> QED BY <1>1, <1>3, <2>3, StatementAssumption
<1>5. m \in NewEntries(s, known)
  BY <1>3, <1>4 DEF NewEntries
<1> QED BY <1>3, <1>5

\* Lines M are lines L and what statement s adds to them on account a, beside lines B.
ReadInto(M, L, s, a, B) ==
    M = L \cup {LineOf(s, m, a) : m \in NewEntries(s, Ids(B) \cup Ids(L))}

\* Reading one statement: no id comes twice, and none that is booked is left out.
LEMMA LinesOfStatement ==
    ASSUME NEW s \in Statements, NEW L, OneLineEach(L), \A r \in L : Grounded(r),
           NEW a, IbanOf[a] = s.iban, NEW B, NEW M, ReadInto(M, L, s, a, B)
    PROVE  OneLineEach(M) /\ (\A r \in M : Grounded(r)) /\ Complete(s, B \cup M)
<1> DEFINE known == Ids(B) \cup Ids(L)
           New == NewEntries(s, known)
<1>1. \A m \in New : /\ m \in BookedEntries(s.entries) /\ m \in 1..Len(s.entries)
                     /\ LineOf(s, m, a).id = ExternalId(s, m) /\ ExternalId(s, m) \notin known
                     /\ From(LineOf(s, m, a), s, m)
                     /\ \A k \in 1..(m-1) : s.entries[k].booked => ExternalId(s, k) # ExternalId(s, m)
  BY StatementAssumption DEF NewEntries, BookedEntries, LineOf, From
<1>2. \A r \in L : r.id \in known
  BY DEF Ids
<1>3. \A m, k \in New : ExternalId(s, k) = ExternalId(s, m) => k = m
  <2>1. \A m \in New : m \in Nat /\ m \in DOMAIN s.entries /\ s.entries[m].booked
    <3>1. \A m \in New : m \in 1..Len(s.entries) /\ m \in BookedEntries(s.entries)
      BY <1>1
    <3> HIDE DEF New, known
    <3>2. \A m \in 1..Len(s.entries) : m \in Nat
      OBVIOUS
    <3> QED BY <3>1, <3>2 DEF BookedEntries
  <2>2. ASSUME NEW m \in New, NEW k \in New, ExternalId(s, k) = ExternalId(s, m) PROVE ~(k < m)
    <3> SUFFICES ASSUME k < m PROVE FALSE
      OBVIOUS
    <3>1. k \in 1..(m - 1)
      <4>1. k \in Nat /\ m \in Nat /\ k \in 1..Len(s.entries) /\ Len(s.entries) \in Nat
        BY <1>1, <2>1, StatementAssumption
      <4> QED BY <4>1
    <3> QED BY <1>1, <2>1, <2>2, <3>1
  <2> HIDE DEF New, known
  <2>3. \A m, k \in Nat : ~(k < m) /\ ~(m < k) => k = m
    OBVIOUS
  <2> QED BY <2>1, <2>2, <2>3
<1>4. M = L \cup {LineOf(s, m, a) : m \in New}
  BY DEF ReadInto
<1>5. ASSUME NEW n \in BookedEntries(s.entries) PROVE ExternalId(s, n) \in Ids(B \cup M)
  <2>1. CASE ExternalId(s, n) \in known
    BY <1>4, <2>1 DEF Ids
  <2>2. CASE ExternalId(s, n) \notin known
    <3>1. PICK m \in New : ExternalId(s, m) = ExternalId(s, n)
      BY <2>2, FirstIsNew
    <3>2. LineOf(s, m, a) \in M /\ LineOf(s, m, a).id = ExternalId(s, n)
      BY <1>1, <1>4, <3>1
    <3> QED BY <3>2 DEF Ids
  <2> QED BY <2>1, <2>2
<1> HIDE DEF New, known
<1>6. OneLineEach(M)
  <2> SUFFICES ASSUME NEW r \in M, NEW q \in M, r.id = q.id PROVE r = q
    BY DEF OneLineEach
  <2>1. \A x \in M : x \in L \/ \E m \in New : x = LineOf(s, m, a) /\ x.id = ExternalId(s, m)
                                                /\ x.id \notin known
    BY <1>1, <1>4
  <2>2. CASE r \in L \/ q \in L
    <3>1. r \in L /\ q \in L
      BY <1>2, <2>1, <2>2
    <3> QED BY <3>1 DEF OneLineEach
  <2>3. CASE r \notin L /\ q \notin L
    <3>1. PICK m \in New, k \in New : /\ r = LineOf(s, m, a) /\ q = LineOf(s, k, a)
                                     /\ ExternalId(s, k) = ExternalId(s, m)
      BY <2>1, <2>3
    <3>2. k = m
      BY <1>3, <3>1
    <3> QED BY <3>1, <3>2
  <2> QED BY <2>2, <2>3
<1>7. \A r \in M : Grounded(r)
  BY <1>1, <1>4 DEF Grounded
<1> QED BY <1>5, <1>6, <1>7 DEF Complete

\* An upload reads one more statement.
LEMMA FileKeepsInv ==
    ASSUME ImportInv, NEW i \in Importers, ImportFile(i)
    PROVE  ImportInv'
<1>1. PICK u : u = importer[i]
  OBVIOUS
<1>2. PICK n, a : /\ n \in u.todo /\ a \in Mapped(u.mapping, u.upload[n])
                  /\ importer' = [importer EXCEPT ![i] = AfterFile(u, n, a)]
  BY <1>1 DEF ImportFile
<1>3. PICK s, L, M, w :
          /\ s = u.upload[n] /\ L = u.lines /\ w = AfterFile(u, n, a)
          /\ M = L \cup {LineOf(s, m, a) : m \in NewEntries(s, Ids(bankLines) \cup Ids(L))}
  OBVIOUS
<1>4. UploadGood(u, bankLines) /\ s \in Statements /\ IbanOf[a] = s.iban
  BY <1>1, <1>2, <1>3 DEF ImportInv, UploadGood, Mapped
<1>5. /\ importer' = [importer EXCEPT ![i] = w]
      /\ w = [f \in UploadFields |-> w[f]]
      /\ w.upload = u.upload /\ w.todo = u.todo \ {n} /\ w.lines = M
      /\ w.imports = u.imports \cup {[source |-> s.source, statement |-> s.statement]}
  BY <1>2, <1>3, <1>4 DEF UploadGood, UploadFields, AfterFile
<1>6. OneLineEach(M) /\ (\A r \in M : Grounded(r)) /\ Complete(s, bankLines \cup M)
  <2>1. /\ s \in Statements /\ OneLineEach(L) /\ (\A r \in L : Grounded(r)) /\ IbanOf[a] = s.iban
        /\ ReadInto(M, L, s, a, bankLines)
    BY <1>3, <1>4 DEF UploadGood, ReadInto
  <2> QED BY ONLY <2>1, LinesOfStatement
<1>7. \A t \in Statements : t.source \in Sources(w.imports) => Complete(t, bankLines \cup M)
  <2> SUFFICES ASSUME NEW t \in Statements, t.source \in Sources(w.imports)
               PROVE  Complete(t, bankLines \cup M)
    OBVIOUS
  <2>1. CASE t.source = s.source
    BY <1>4, <1>6, <2>1, StatementAssumption
  <2>2. CASE t.source # s.source
    <3>1. t.source \in Sources(u.imports)
      BY <1>5, <2>2 DEF Sources
    <3>2. Complete(t, bankLines \cup u.lines)
      BY <1>4, <3>1 DEF UploadGood
    <3> QED BY <1>3, <3>2 DEF Complete, Ids
  <2> QED BY <2>1, <2>2
<1>8. UploadGood(w, bankLines)
  BY <1>4, <1>5, <1>6, <1>7 DEF UploadGood
<1>9. imports' = imports /\ bankLines' = bankLines
  BY DEF ImportFile
<1>10. \A j \in Importers : UploadGood(importer'[j], bankLines')
  BY <1>5, <1>8, <1>9 DEF ImportInv
<1>11. importer' = [j \in Importers |-> importer'[j]]
  BY <1>5 DEF ImportInv
<1> QED BY <1>9, <1>10, <1>11 DEF ImportInv

\* The index lets no id through twice.
LEMMA CommitKeepsInv ==
    ASSUME ImportInv, NEW i \in Importers, CommitImport(i)
    PROVE  ImportInv'
<1>1. PICK u : u = importer[i]
  OBVIOUS
<1>2. UploadGood(u, bankLines)
  BY <1>1 DEF ImportInv
<1>3. /\ imports' = imports \cup u.imports /\ bankLines' = bankLines \cup u.lines
      /\ Ids(u.lines) \cap Ids(bankLines) = {}
      /\ importer' = [importer EXCEPT ![i] = NoUpload]
  BY <1>1 DEF CommitImport
<1>4. OneLineEach(bankLines') /\ \A r \in bankLines' : Grounded(r)
  <2>1. \A r \in u.lines, q \in bankLines : r.id # q.id
    BY <1>3 DEF Ids
  <2> QED BY <1>2, <1>3, <2>1 DEF ImportInv, OneLineEach, UploadGood
<1>5. \A s \in Statements : s.source \in Sources(imports') => Complete(s, bankLines')
  <2> SUFFICES ASSUME NEW s \in Statements, s.source \in Sources(imports')
               PROVE  Complete(s, bankLines')
    OBVIOUS
  <2>1. CASE s.source \in Sources(imports)
    BY <1>3, <2>1 DEF ImportInv, Complete, Ids
  <2>2. CASE s.source \in Sources(u.imports)
    BY <1>2, <1>3, <2>2 DEF UploadGood
  <2> QED BY <1>3, <2>1, <2>2 DEF Sources
<1>6. \A j \in Importers : UploadGood(importer'[j], bankLines')
  <2> SUFFICES ASSUME NEW j \in Importers PROVE UploadGood(importer'[j], bankLines')
    OBVIOUS
  <2>1. importer'[j] = NoUpload \/ importer'[j] = importer[j]
    BY <1>3 DEF ImportInv
  <2>2. UploadGood(importer[j], bankLines) /\ bankLines \subseteq bankLines'
    BY <1>3 DEF ImportInv
  <2>3. UploadGood(importer[j], bankLines')
    BY <2>2, StillGood
  <2> QED BY <2>1, <2>3, NoUploadGood
<1>7. importer' = [j \in Importers |-> importer'[j]]
  BY <1>3 DEF ImportInv
<1> QED BY <1>4, <1>5, <1>6, <1>7 DEF ImportInv

\* Opening, starting and leaving an upload touch no book.
LEMMA OtherKeepsInv ==
    ASSUME ImportInv, NEW i \in Importers,
           \/ \E u \in ParsedUploads : PreviewUpload(i, u)
           \/ StartImport(i)
           \/ AbortImport(i)
    PROVE  ImportInv'
<1>1. imports' = imports /\ bankLines' = bankLines
  <2>1. \A u : PreviewUpload(i, u) => imports' = imports /\ bankLines' = bankLines
    BY DEF PreviewUpload
  <2>2. StartImport(i) \/ AbortImport(i) => imports' = imports /\ bankLines' = bankLines
    BY DEF StartImport, AbortImport
  <2> QED BY <2>1, <2>2
<1>2. PICK v, w : v = importer[i] /\ w = importer'[i]
  OBVIOUS
<1>3. UploadGood(v, bankLines)
  BY <1>2 DEF ImportInv
<1>4. importer' = [importer EXCEPT ![i] = w] /\ UploadGood(w, bankLines)
  <2>1. ASSUME NEW u \in ParsedUploads, PreviewUpload(i, u)
        PROVE  importer' = [importer EXCEPT ![i] = w] /\ UploadGood(w, bankLines)
    <3>1. PICK mapping : importer' = [importer EXCEPT ![i].upload = u, ![i].mapping = mapping]
      BY <2>1 DEF PreviewUpload
    <3>2. v = NoUpload
      BY <1>2, <2>1 DEF PreviewUpload
    <3>3. w = [NoUpload EXCEPT !.upload = u, !.mapping = mapping]
      BY <1>2, <3>1, <3>2 DEF ImportInv
    <3>4. importer' = [importer EXCEPT ![i] = w]
      BY <1>2, <3>1 DEF ImportInv
    <3>5. /\ importer' = [importer EXCEPT ![i] = w] /\ w = [f \in UploadFields |-> w[f]]
          /\ w.upload = u /\ w.todo = {} /\ w.lines = {} /\ w.imports = {}
      BY <3>3, <3>4 DEF UploadFields, NoUpload
    <3>6. \A n \in DOMAIN u : u[n] \in Statements
      BY <2>1, ParsedAreStatements
    <3>7. UploadGood(w, bankLines)
      BY <3>5, <3>6 DEF UploadGood, OneLineEach, Sources
    <3> QED BY <3>5, <3>7
  <2>2. ASSUME StartImport(i)
        PROVE  importer' = [importer EXCEPT ![i] = w] /\ UploadGood(w, bankLines)
    <3>1. PICK pending : pending = Prepared(v.upload)
      OBVIOUS
    <3>2. importer' = [importer EXCEPT ![i].todo = pending] /\ pending \subseteq DOMAIN v.upload
      BY <1>2, <2>2, <3>1 DEF StartImport, Prepared
    <3>3. /\ importer' = [importer EXCEPT ![i] = w] /\ w = [f \in UploadFields |-> w[f]]
          /\ w.upload = v.upload /\ w.todo = pending /\ w.lines = v.lines /\ w.imports = v.imports
      BY <1>2, <1>3, <3>2 DEF ImportInv, UploadGood, UploadFields
    <3>4. UploadGood(w, bankLines)
      BY <1>3, <3>2, <3>3 DEF UploadGood
    <3> QED BY <3>3, <3>4
  <2>3. ASSUME AbortImport(i)
        PROVE  importer' = [importer EXCEPT ![i] = w] /\ UploadGood(w, bankLines)
    <3>1. importer' = [importer EXCEPT ![i] = NoUpload] /\ w = NoUpload
      BY <1>2, <2>3 DEF AbortImport, ImportInv
    <3> QED BY <3>1, NoUploadGood
  <2> QED BY <2>1, <2>2, <2>3
<1>5. \A j \in Importers : UploadGood(importer'[j], bankLines')
  BY <1>1, <1>4 DEF ImportInv
<1>6. importer' = [j \in Importers |-> importer'[j]]
  BY <1>4 DEF ImportInv
<1> QED BY <1>1, <1>5, <1>6 DEF ImportInv

\* Every line in the books is grounded, under an id of its own, and every imported statement
\* complete, in every reachable state.
THEOREM ImportInvariant == ImportSpec => []ImportInv
<1>1. ImportInv /\ [ImportNext]_importVars => ImportInv'
  <2> SUFFICES ASSUME ImportInv, [ImportNext]_importVars PROVE ImportInv'
    OBVIOUS
  <2>1. CASE UNCHANGED importVars
    BY <2>1 DEF importVars, ImportInv
  <2>2. CASE ImportNext
    BY <2>2, FileKeepsInv, CommitKeepsInv, OtherKeepsInv DEF ImportNext
  <2> QED BY <2>1, <2>2
<1> QED BY ImportInvInit, <1>1, PTL DEF ImportSpec

\* The movement of a statement without warnings.
LEMMA RightBalances ==
    ASSUME NEW s \in Statements, ~s.warned
    PROVE  s.opening + EntriesAmount(BookedEntries(s.entries), s.entries) = s.closing
<1>1. PICK node \in StatementNodes : s = Parsed(node)
  BY DEF Statements
<1>2. PICK entries : entries = [n \in DOMAIN node.entries |-> Entry(node.entries[n])]
  OBVIOUS
<1>3. s.entries = entries /\ s.opening = node.opening /\ s.closing = node.closing
  BY <1>1, <1>2 DEF Parsed
<1>4. node.opening + EntriesAmount(BookedEntries(entries), entries) # node.closing => s.warned
  BY <1>1, <1>2 DEF Parsed
<1> QED BY <1>3, <1>4

\* The lines in the books for what a statement has booked.
RowsOf(s) == {r \in bankLines : \E n \in BookedEntries(s.entries) : r.id = ExternalId(s, n)}

\* Each is one of its bookings, and each of its bookings is one of them.
LEMMA RowsOfStatement ==
    ASSUME ImportInv, NEW s \in Statements, s.source \in Sources(imports),
           NEW rows, rows = RowsOf(s)
    PROVE  /\ \A r \in rows : \A n \in BookedEntries(s.entries) : r.id = ExternalId(s, n) =>
                 /\ r.booking = s.entries[n].booking /\ r.amount = s.entries[n].amount
                 /\ IbanOf[r.account] = s.iban
           /\ \A n \in BookedEntries(s.entries) : \E r \in rows : r.id = ExternalId(s, n)
           /\ \A r, q \in rows : r.id = q.id => r = q
<1>1. ASSUME NEW r \in rows, NEW n \in BookedEntries(s.entries), r.id = ExternalId(s, n)
      PROVE  /\ r.booking = s.entries[n].booking /\ r.amount = s.entries[n].amount
             /\ IbanOf[r.account] = s.iban
  <2>1. PICK t \in Statements : \E m \in BookedEntries(t.entries) : From(r, t, m)
    BY DEF ImportInv, Grounded, RowsOf
  <2>2. PICK m \in BookedEntries(t.entries) : From(r, t, m)
    BY <2>1
  <2>3. ExternalId(s, n) = ExternalId(t, m)
    BY <1>1, <2>2 DEF From
  <2>4. /\ s.iban = t.iban /\ s.entries[n].booking = t.entries[m].booking
        /\ s.entries[n].amount = t.entries[m].amount
    BY <2>3, IdIsOneBooking
  <2> QED BY <2>2, <2>4 DEF From
<1>2. \A n \in BookedEntries(s.entries) : \E r \in rows : r.id = ExternalId(s, n)
  BY DEF ImportInv, Complete, Ids, RowsOf
<1>3. \A r, q \in rows : r.id = q.id => r = q
  BY DEF ImportInv, OneLineEach, RowsOf
<1> QED BY <1>1, <1>2, <1>3

\* They add up to the movement of the statement.
LEMMA RowsAddUp ==
    ASSUME ImportInv, NEW s \in Statements, s.source \in Sources(imports), ~s.warned,
           NEW rows, rows = RowsOf(s)
    PROVE  SumFunctionOnSet([r \in rows |-> r.amount], rows) = s.closing - s.opening
<1>1. PICK B, f, g, row :
          /\ B = BookedEntries(s.entries)
          /\ f = [r \in rows |-> r.amount] /\ g = [n \in B |-> s.entries[n].amount]
          /\ row = [n \in B |-> CHOOSE r \in rows : r.id = ExternalId(s, n)]
  OBVIOUS
<1>2. /\ \A r \in rows : \A n \in B : r.id = ExternalId(s, n) => r.amount = s.entries[n].amount
      /\ \A n \in B : \E r \in rows : r.id = ExternalId(s, n)
      /\ \A r, q \in rows : r.id = q.id => r = q
  BY <1>1, RowsOfStatement
<1>3. \A n \in B : row[n] \in rows /\ row[n].id = ExternalId(s, n)
  BY <1>1, <1>2
<1>4. B \subseteq 1..Len(s.entries) /\ Len(s.entries) \in Nat /\ \A n \in B : s.entries[n].amount \in Int
  BY <1>1, StatementAssumption DEF BookedEntries
<1>5. IsFiniteSet(B)
  <2>1. IsFiniteSet(1..Len(s.entries))
    BY <1>4, FS_Interval
  <2> QED BY <1>4, <2>1, FS_Subset
<1>6. \A m, n \in B : row[m] = row[n] => m = n
  <2> SUFFICES ASSUME NEW m \in B, NEW n \in B, row[m] = row[n] PROVE m = n
    OBVIOUS
  <2>1. ExternalId(s, m) = ExternalId(s, n)
    BY <1>3
  <2>2. s.entries[m].booking = s.entries[n].booking
    BY <1>1, <2>1, IdIsOneBooking
  <2> QED BY <1>1, <2>2, StatementAssumption DEF BookedEntries
<1>7. \A n \in B : g[n] \in Int /\ f[row[n]] = g[n]
  <2> SUFFICES ASSUME NEW n \in B PROVE g[n] \in Int /\ f[row[n]] = g[n]
    OBVIOUS
  <2>1. row[n] \in rows /\ row[n].id = ExternalId(s, n)
    BY <1>3
  <2>2. PICK e : e = row[n]
    OBVIOUS
  <2>3. f[e] = e.amount /\ g[n] = s.entries[n].amount
    BY <1>1, <2>1, <2>2
  <2>4. e.amount = s.entries[n].amount
    BY <1>2, <2>1, <2>2
  <2> QED BY <1>4, <2>2, <2>3, <2>4
<1>8. {row[n] : n \in B} = rows
  <2>1. ASSUME NEW r \in rows PROVE \E n \in B : r = row[n]
    <3>1. PICK n \in B : r.id = ExternalId(s, n)
      BY <1>1 DEF RowsOf
    <3> QED BY <1>2, <1>3, <3>1
  <2> QED BY <1>3, <2>1
<1>9. SumFunctionOnSet(f, rows) = SumFunctionOnSet(g, B)
  <2>1. /\ IsFiniteSet(B) /\ (\A m, n \in B : row[m] = row[n] => m = n)
        /\ \A n \in B : g[n] \in Int /\ f[row[n]] = g[n]
    BY <1>5, <1>6, <1>7
  <2>2. SumFunctionOnSet(f, {row[n] : n \in B}) = SumFunctionOnSet(g, B)
    BY ONLY <2>1, SumRenamed
  <2> QED BY <1>8, <2>2
<1>10. SumFunctionOnSet(g, B) \in Int
  <2>1. IsFiniteSet(B) /\ \A n \in B : g[n] \in Int
    BY <1>5, <1>7
  <2> QED BY ONLY <2>1, SumIsNumber
<1>11. s.opening + SumFunctionOnSet(g, B) = s.closing
  BY <1>1, RightBalances DEF EntriesAmount
<1> QED BY <1>1, <1>9, <1>10, <1>11, StatementAssumption

\* The invariant says what the property says.
LEMMA ImportedOnce == ImportInv => EachBookingImportedOnce
<1> SUFFICES ASSUME ImportInv PROVE EachBookingImportedOnce
  OBVIOUS
<1>1. ASSUME NEW r \in bankLines, NEW q \in bankLines \ {r}, q.booking = r.booking
      PROVE  \E s \in Statements : \E n \in DOMAIN s.entries :
                 s.entries[n].booking = r.booking /\ IsWeak(s, n)
  <2>1. PICK s \in Statements, t \in Statements : /\ \E n \in BookedEntries(s.entries) : From(r, s, n)
                                                  /\ \E m \in BookedEntries(t.entries) : From(q, t, m)
    BY DEF ImportInv, Grounded
  <2>2. PICK n \in BookedEntries(s.entries) : From(r, s, n)
    BY <2>1
  <2>3. PICK m \in BookedEntries(t.entries) : From(q, t, m)
    BY <2>1
  <2>4. s.entries[n].booking = t.entries[m].booking /\ s.entries[n].booking = r.booking
    BY <1>1, <2>2, <2>3 DEF From
  <2>5. ExternalId(s, n) # ExternalId(t, m)
    BY <2>2, <2>3 DEF From, ImportInv, OneLineEach
  <2>6. IsWeak(s, n)
    BY <2>4, <2>5, BookingHasOneId
  <2> QED BY <2>4, <2>6 DEF BookedEntries
<1>2. ASSUME NEW s \in Statements, s.source \in Sources(imports), NEW rows,
             rows = RowsOf(s)
      PROVE  /\ \A n \in DOMAIN s.entries :
                   IF s.entries[n].booked
                   THEN \E r \in rows : r.booking = s.entries[n].booking
                   ELSE \A r \in bankLines : r.source = s.source => r.booking # s.entries[n].booking
             /\ \A r \in rows : IbanOf[r.account] = s.iban
             /\ ~s.warned => SumFunctionOnSet([r \in rows |-> r.amount], rows) = s.closing - s.opening
  <2>1. /\ \A r \in rows : \A n \in BookedEntries(s.entries) : r.id = ExternalId(s, n) =>
                 r.booking = s.entries[n].booking /\ IbanOf[r.account] = s.iban
        /\ \A n \in BookedEntries(s.entries) : \E r \in rows : r.id = ExternalId(s, n)
    BY <1>2, RowsOfStatement
  <2>2. ASSUME NEW n \in DOMAIN s.entries, s.entries[n].booked
        PROVE  \E r \in rows : r.booking = s.entries[n].booking
    <3>1. n \in BookedEntries(s.entries)
      BY <2>2 DEF BookedEntries
    <3> QED BY <2>1, <3>1
  <2>3. ASSUME NEW n \in DOMAIN s.entries, ~s.entries[n].booked,
               NEW r \in bankLines, r.source = s.source
        PROVE  r.booking # s.entries[n].booking
    <3>1. PICK t \in Statements : \E m \in BookedEntries(t.entries) : From(r, t, m)
      BY DEF ImportInv, Grounded
    <3>2. PICK m \in BookedEntries(t.entries) : From(r, t, m)
      BY <3>1
    <3>3. t = s
      <4>1. t.source = s.source
        BY <2>3, <3>2 DEF From
      <4>2. \A x, y \in Statements : x.source = y.source => x = y
        BY StatementAssumption
      <4> QED BY <4>1, <4>2
    <3>4. m \in DOMAIN s.entries /\ s.entries[m].booked /\ r.booking = s.entries[m].booking
      BY <3>2, <3>3 DEF From, BookedEntries
    <3> QED BY <2>3, <3>4, StatementAssumption
  <2>4. \A r \in rows : IbanOf[r.account] = s.iban
    BY <1>2, <2>1 DEF RowsOf
  <2>5. ~s.warned => SumFunctionOnSet([r \in rows |-> r.amount], rows) = s.closing - s.opening
    BY <1>2, RowsAddUp
  <2> QED BY <2>2, <2>3, <2>4, <2>5
<1> QED BY <1>1, <1>2 DEF EachBookingImportedOnce, RowsOf

\* A booking that the bank names is in the books once, an imported statement is there whole, and
\* one whose balances are right moves the books from its opening to its closing balance,
\* whatever files bring it and whoever uploads them at once.
THEOREM BookingsAreImportedOnce == ImportSpec => []EachBookingImportedOnce
BY ImportInvariant, ImportedOnce, PTL

=============================================================================

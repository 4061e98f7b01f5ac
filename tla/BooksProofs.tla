----------------------------- MODULE BooksProofs ----------------------------
(***************************************************************************)
(* What the books keep true.  Concurrent sessions keep them as if every    *)
(* workflow ran alone: for any documents, any number of sessions and either*)
(* database, Settlement implements Receivables.  The argument is two-phase *)
(* locking: from the moment its checks have passed, a session holds every  *)
(* row they rest on.  And whatever the general ledger posts, reverses and  *)
(* rounds off, every voucher balances and every budget is kept as far as the*)
(* code compares with it.  And a revaluation of foreign currency posts once*)
(* for a day and is taken back the next.  And the statements made of the   *)
(* ledger agree with each other, and its party accounts with the open items*)
(* of the documents.                                                       *)
(***************************************************************************)
EXTENDS Settlement, ControlAccounts, GeneralLedger, Revaluation, Reports, Sums,
        SequenceTheorems, TLAPS

\* Receivables: what the workflows keep true when each runs alone, for any bills, settlements,
\* totals and allocations.

\* A document is a bill or a settlement and not both, and its references are
\* bills other than itself.
LEMMA RefsAreBills ==
    ASSUME NEW d \in Documents
    PROVE  /\ Refs(d) \subseteq Bills
           /\ d \notin Refs(d)
           /\ d \in Returns => Refs(d) = {Against[d]} /\ Against[d] \in Invoices
           /\ d \in Invoices => Refs(d) = {}
           /\ d \in Settlements => d \notin Bills
BY BillAssumption DEF Refs, Documents, Bills

\* The returns of a till, which alone may show an amount of the wrong sign.
TillReturns == Returns \cap TillBills

\* What a bill opens with is a number of its sign, and what a return takes off too.
LEMMA OpeningSigned ==
    ASSUME NEW b \in Bills
    PROVE  /\ Opening(b) \in Int /\ Sign(b) \in {1, -1}
           /\ b \notin TillReturns => Sign(b) * Opening(b) >= 0
           /\ b \in Invoices => Sign(b) = 1 /\ Opening(b) \in Nat
           /\ Credit[b] \in Nat
           /\ b \notin TillBills => Credit[b] = Total[b] /\ Opening(b) = Sign(b) * Total[b]
<1>1. /\ Total[b] \in Nat /\ Tendered[b] \in Int /\ Invoices \cap Returns = {}
      /\ Sign(b) = (IF b \in Returns THEN -1 ELSE 1)
  BY BillAssumption DEF Sign
<1>2. Credit[b] = IF b \in TillBills THEN 0 ELSE Total[b]
  BY DEF Credit
<1>3. CASE b \in Returns
  <2>1. Sign(b) = -1 /\ b \notin Invoices
    BY <1>1, <1>3
  <2> QED BY <1>1, <1>2, <1>3, <2>1 DEF Opening, Floor, TillReturns
<1>4. CASE b \notin Returns
  <2>1. Sign(b) = 1
    BY <1>1, <1>4
  <2> QED BY <1>1, <1>2, <1>4, <2>1 DEF Opening, Floor
<1> QED BY <1>3, <1>4

\* Posting a document leaves every amount a number of the sign of its bill.
LEMMA PostedSigned ==
    ASSUME BooksTypeOK, NEW d \in Documents, Valid(d), NEW b \in Bills,
           b \in {d} \cup Refs(d)
    PROVE  /\ PostedOn(d, b) \in Int
           /\ b \notin TillReturns => Sign(b) * PostedOn(d, b) >= 0
<1>1. outstanding[b] \in Int /\ (b \notin TillReturns => Sign(b) * outstanding[b] >= 0)
  BY DEF BooksTypeOK, TillReturns
<1>2. CASE b = d
  BY <1>2, OpeningSigned DEF PostedOn
<1>3. CASE b # d /\ d \in Returns
  <2>1. b \in Invoices /\ b \notin Returns /\ Credit[d] \in Nat
    BY <1>3, RefsAreBills, BillAssumption, OpeningSigned DEF Bills
  <2>2. Floor(outstanding[b] - Credit[d]) \in Nat
    BY <1>1, <2>1 DEF Floor
  <2> QED BY <1>3, <2>1, <2>2 DEF PostedOn, Sign
<1>4. CASE b # d /\ d \notin Returns
  <2>1. d \in Settlements
    BY <1>4, RefsAreBills DEF Documents, Bills
  <2>2. Alloc[d][b] \in Nat /\ Sign(b) * outstanding[b] >= Alloc[d][b]
    BY <1>4, <2>1, BillAssumption DEF Valid, SettlementValid
  <2> QED BY <1>1, <1>4, <2>2 DEF PostedOn, Sign
<1> QED BY <1>2, <1>3, <1>4

\* So does reversing it.
LEMMA ReversedSigned ==
    ASSUME BooksTypeOK, NEW d \in Documents, NEW b \in Bills,
           b \in {d} \cup Refs(d)
    PROVE  /\ ReversedOn(d, b) \in Int
           /\ b \notin TillReturns => Sign(b) * ReversedOn(d, b) >= 0
<1>1. outstanding[b] \in Int /\ (b \notin TillReturns => Sign(b) * outstanding[b] >= 0)
  BY DEF BooksTypeOK, TillReturns
<1>2. CASE b = d
  BY <1>1, <1>2 DEF ReversedOn, Sign
<1>3. CASE b # d /\ d \in Returns
  <2>1. b \notin Returns /\ b \notin TillReturns /\ Credit[d] \in Nat
    BY <1>3, RefsAreBills, BillAssumption, OpeningSigned DEF Bills, TillReturns
  <2> QED BY <1>1, <1>3, <2>1 DEF ReversedOn, Sign
<1>4. CASE b # d /\ d \notin Returns
  <2>1. Alloc[d][b] \in Nat
    BY <1>4, RefsAreBills, BillAssumption DEF Documents, Bills
  <2> QED BY <1>1, <1>4, <2>1 DEF ReversedOn, Sign
<1> QED BY <1>2, <1>3, <1>4

\* The inductive invariant: types and signs, and the references between
\* submitted documents.
BooksInv == /\ BooksTypeOK
            /\ NoOrphanAllocation
            /\ ReturnsBacked
            /\ CancelledIsZero

\* Saved drafts refer to nothing that is not there.
LEMMA BooksInvInit == BooksInit => BooksInv
<1> SUFFICES ASSUME BooksInit PROVE BooksInv
  OBVIOUS
<1>1. BooksTypeOK
  BY OpeningSigned DEF BooksInit, BooksTypeOK, Statuses, TillReturns
<1>2. NoOrphanAllocation /\ ReturnsBacked /\ CancelledIsZero
  BY DEF BooksInit, NoOrphanAllocation, PostedSettlements, ReturnsBacked, CancelledIsZero,
         Documents, Bills
<1> QED BY <1>1, <1>2 DEF BooksInv

\* A submit validates its references first, and a cancelled bill has none.
LEMMA BooksInvSubmit ==
    ASSUME BooksInv, NEW d \in Documents, Submit(d)
    PROVE  BooksInv'
<1> USE DEF BooksInv
<1>1. BooksTypeOK'
  <2>1. status' \in [Documents -> Statuses]
    BY DEF Submit, BooksTypeOK, Statuses
  <2>2. \A b \in Bills : /\ outstanding'[b] \in Int
                         /\ b \notin TillReturns => Sign(b) * outstanding'[b] >= 0
    BY PostedSigned DEF Submit, BooksTypeOK, TillReturns
  <2>3. outstanding' \in [Bills -> Int]
    BY <2>2 DEF Submit
  <2>4. floored' \subseteq Invoices
    BY DEF Submit, BooksTypeOK, CutOff
  <2> QED BY <2>1, <2>2, <2>3, <2>4 DEF BooksTypeOK, Sign, TillReturns
<1>2. NoOrphanAllocation'
  <2> SUFFICES ASSUME NEW v \in Settlements, status'[v] = "submitted", NEW b \in Refs(v)
               PROVE  status'[b] = "submitted"
    BY DEF NoOrphanAllocation, PostedSettlements, Refs
  <2>1. v \in Documents /\ b \in Documents /\ b \in Bills
    BY DEF Documents, Refs, Bills
  <2>2. status[b] = "submitted"
    BY <2>1 DEF Submit, Valid, SettlementValid, NoOrphanAllocation, PostedSettlements,
                BooksTypeOK
  <2> QED BY <2>1, <2>2 DEF Submit, BooksTypeOK
<1>3. ReturnsBacked'
  <2> SUFFICES ASSUME NEW r \in Returns, status'[r] = "submitted"
               PROVE  status'[Against[r]] = "submitted"
    BY DEF ReturnsBacked
  <2>1. r \in Documents /\ Against[r] \in Documents
    BY BillAssumption DEF Documents, Bills
  <2>2. status[Against[r]] = "submitted"
    BY <2>1 DEF Submit, Valid, ReturnValid, ReturnsBacked, BooksTypeOK
  <2> QED BY <2>1, <2>2 DEF Submit, BooksTypeOK
<1>4. CancelledIsZero'
  <2> SUFFICES ASSUME NEW b \in Bills \ TillBills, status'[b] = "cancelled"
               PROVE  outstanding'[b] = 0
    BY DEF CancelledIsZero
  <2>1. b # d /\ status[b] = "cancelled"
    BY DEF Submit, BooksTypeOK, Documents
  <2>2. b \notin Refs(d)
    BY <2>1, RefsAreBills
       DEF Submit, Valid, SettlementValid, ReturnValid, Refs
  <2> QED BY <2>1, <2>2 DEF Submit, CancelledIsZero
<1> QED BY <1>1, <1>2, <1>3, <1>4

\* A cancel is let through only when nothing posted refers to the document.
LEMMA BooksInvCancel ==
    ASSUME BooksInv, NEW d \in Documents, Cancel(d)
    PROVE  BooksInv'
<1> USE DEF BooksInv
<1>1. BooksTypeOK'
  <2>1. status' \in [Documents -> Statuses]
    BY DEF Cancel, BooksTypeOK, Statuses
  <2>2. \A b \in Bills : /\ outstanding'[b] \in Int
                         /\ b \notin TillReturns => Sign(b) * outstanding'[b] >= 0
    BY ReversedSigned DEF Cancel, BooksTypeOK, TillReturns
  <2>3. outstanding' \in [Bills -> Int]
    BY <2>2 DEF Cancel
  <2> QED BY <2>1, <2>2, <2>3 DEF BooksTypeOK, Cancel, Sign, TillReturns
<1>2. NoOrphanAllocation'
  <2> SUFFICES ASSUME NEW v \in Settlements, status'[v] = "submitted", NEW b \in Refs(v)
               PROVE  status'[b] = "submitted"
    BY DEF NoOrphanAllocation, PostedSettlements, Refs
  <2>1. v \in Documents /\ b \in Documents /\ b \in Bills
    BY DEF Documents, Refs, Bills
  <2>2. status[v] = "submitted" /\ status[b] = "submitted"
    BY <2>1 DEF Cancel, NoOrphanAllocation, PostedSettlements, BooksTypeOK
  <2>3. b # d
    BY <2>1, <2>2 DEF Cancel, Releasable, Unreferenced, PostedSettlements
  <2> QED BY <2>1, <2>2, <2>3 DEF Cancel, BooksTypeOK
<1>3. ReturnsBacked'
  <2> SUFFICES ASSUME NEW r \in Returns, status'[r] = "submitted"
               PROVE  status'[Against[r]] = "submitted"
    BY DEF ReturnsBacked
  <2>1. r \in Documents /\ Against[r] \in Documents /\ Against[r] \in Bills
    BY BillAssumption DEF Documents, Bills
  <2>2. status[r] = "submitted" /\ status[Against[r]] = "submitted"
    BY <2>1 DEF Cancel, ReturnsBacked, BooksTypeOK
  <2>3. Against[r] # d
    BY <2>1, <2>2 DEF Cancel, Releasable, Unreferenced
  <2> QED BY <2>1, <2>2, <2>3 DEF Cancel, BooksTypeOK
<1>4. CancelledIsZero'
  <2> SUFFICES ASSUME NEW b \in Bills \ TillBills, status'[b] = "cancelled"
               PROVE  outstanding'[b] = 0
    BY DEF CancelledIsZero
  <2>1. CASE b = d
    BY <2>1 DEF Cancel, ReversedOn
  <2>2. CASE b # d
    <3>1. status[b] = "cancelled"
      BY <2>2 DEF Cancel, BooksTypeOK, Documents
    <3>2. b \notin Refs(d)
      BY <3>1, RefsAreBills
         DEF Cancel, Refs, NoOrphanAllocation, PostedSettlements, ReturnsBacked
    <3> QED BY <2>2, <3>1, <3>2 DEF Cancel, CancelledIsZero
  <2> QED BY <2>1, <2>2
<1> QED BY <1>1, <1>2, <1>3, <1>4

\* A voided draft was referred to by nothing that is posted.
LEMMA BooksInvDiscard ==
    ASSUME BooksInv, NEW d \in Documents, Discard(d)
    PROVE  BooksInv'
<1> USE DEF BooksInv
<1>1. \A e \in Documents : status'[e] \in {"submitted", "cancelled"} <=>
                           status[e] \in {"submitted", "cancelled"}
  BY DEF Discard, BooksTypeOK
<1>2. \A e \in Documents : status'[e] = status[e] \/ status'[e] = "discarded"
  BY DEF Discard, BooksTypeOK
<1>3. BooksTypeOK'
  BY DEF Discard, BooksTypeOK, Statuses, Sign
<1>4. NoOrphanAllocation' /\ ReturnsBacked' /\ CancelledIsZero'
  BY <1>1, <1>2, BillAssumption
     DEF Discard, NoOrphanAllocation, PostedSettlements, ReturnsBacked, CancelledIsZero,
         Documents, Bills, Refs
<1> QED BY <1>3, <1>4

\* Nothing else touches the books.
LEMMA BooksInvStutter ==
    ASSUME BooksInv, UNCHANGED books
    PROVE  BooksInv'
BY DEF books, BooksInv, BooksTypeOK, NoOrphanAllocation, PostedSettlements, ReturnsBacked,
       CancelledIsZero, Sign

\* Types and signs, allocations that point at submitted bills, returns backed by
\* submitted originals and cancelled bills worth zero, in every reachable state.
THEOREM BooksInvariant == BooksSpec => []BooksInv
<1>1. BooksInv /\ [BooksNext]_books => BooksInv'
  BY BooksInvSubmit, BooksInvCancel, BooksInvDiscard, BooksInvStutter DEF BooksNext
<1> QED BY BooksInvInit, <1>1, PTL DEF BooksSpec

\* No settlement carries an outstanding amount across zero.
THEOREM BooksTyped == BooksSpec => []BooksTypeOK
<1>1. BooksInv => BooksTypeOK
  BY DEF BooksInv
<1> QED BY BooksInvariant, <1>1, PTL

\* A submitted payment or journal entry never points at a bill that is not
\* submitted: validate_cancellation and validate_references close the loop.
THEOREM AllocationsBacked == BooksSpec => []NoOrphanAllocation
<1>1. BooksInv => NoOrphanAllocation
  BY DEF BooksInv
<1> QED BY BooksInvariant, <1>1, PTL

\* The original of a submitted return stays submitted.
THEOREM ReturnsStayBacked == BooksSpec => []ReturnsBacked
<1>1. BooksInv => ReturnsBacked
  BY DEF BooksInv
<1> QED BY BooksInvariant, <1>1, PTL

\* Nothing gives an amount back to a cancelled bill.
THEOREM CancelledStaysZero == BooksSpec => []CancelledIsZero
<1>1. BooksInv => CancelledIsZero
  BY DEF BooksInv
<1> QED BY BooksInvariant, <1>1, PTL

-----------------------------------------------------------------------------
\* Settlement: sessions that interleave implement it.

\* The stages in which a session has passed _check_write_state.
Inside == {"refs", "post", "commit"}
Checked == {"post", "commit"}

SettlementTypes ==
    /\ status \in [Documents -> Statuses]
    /\ outstanding \in [Bills -> Int]
    /\ modified \in [Documents -> Nat]
    /\ lock \in [Documents -> Sessions \cup {None}]
    /\ job \in [Sessions -> Jobs]

\* A session at work holds its own row, and that row is still the one it loaded.
HoldsOwn(s) ==
    job[s].pc \in Inside =>
        /\ job[s].doc \in Documents
        /\ \A r \in OwnLocks(job[s].doc) : lock[r] = s
        /\ AsLoaded(job[s].op, job[s].doc, job[s].seen)

\* It holds every referenced row it is not still waiting for.
HoldsRefs(s) ==
    job[s].pc \in Inside =>
        \A b \in RefLocks(job[s].op, job[s].doc) : b \in job[s].todo \/ lock[b] = s

\* What it has validated still holds, and what it has read is still current.
StillAllowed(s) ==
    job[s].pc \in Checked =>
        /\ job[s].todo = {}
        /\ job[s].op = "submit" => Valid(job[s].doc)
        /\ job[s].op = "cancel" => Releasable(job[s].doc)

StillCurrent(s) ==
    job[s].pc = "commit" =>
        \A b \in Written(job[s].op, job[s].doc) :
            job[s].read[b] = AmountOn(job[s].op, job[s].doc, b)

SessionInv(s) == /\ job[s].pc # "idle" => job[s].doc \in Documents
                 /\ HoldsOwn(s)
                 /\ HoldsRefs(s)
                 /\ StillAllowed(s)
                 /\ StillCurrent(s)

LockInv == SettlementTypes /\ \A s \in Sessions : SessionInv(s)

-----------------------------------------------------------------------------
(* Types *)

\* The kinds of documents and what they refer to.
LEMMA BillFacts ==
    /\ Bills \subseteq Documents
    /\ Settlements \subseteq Documents
    /\ Settlements \cap Bills = {}
    /\ \A d \in Documents : Refs(d) \subseteq Bills
    /\ \A r \in Returns : r \in Documents /\ r \notin Settlements /\ Against[r] \in Bills
                          /\ Refs(r) = {Against[r]}
BY BillAssumption DEF Bills, Documents, Refs

\* The amount a session computes for a row is a number.
LEMMA AmountType ==
    ASSUME SettlementTypes, NEW o, NEW d \in Documents, NEW b \in Written(o, d)
    PROVE  AmountOn(o, d, b) \in Int
<1>1. b \in Bills /\ b \in {d} \cup Refs(d) /\ outstanding[b] \in Int
  BY DEF Written, SettlementTypes
<1>2. CASE b = d
  BY <1>1, <1>2, OpeningSigned DEF AmountOn, PostedOn, ReversedOn
<1>3. CASE b # d /\ d \in Returns
  <2>1. Credit[d] \in Int
    BY <1>3, OpeningSigned DEF Bills
  <2> QED BY <1>1, <1>3, <2>1 DEF AmountOn, PostedOn, ReversedOn, Floor
<1>4. CASE b # d /\ d \notin Returns
  <2>1. Alloc[d][b] \in Int
    BY <1>1, <1>4, BillAssumption DEF Refs
  <2> QED BY <1>1, <1>4, <2>1 DEF AmountOn, PostedOn, ReversedOn, Sign
<1> QED BY <1>2, <1>3, <1>4

\* An idle session has a job like any other.
LEMMA NoJobType == NoJob \in Jobs
BY DEF NoJob, Jobs, Stages, Ops, Unread

\* What the steps of a session do to its job keeps it a job.
LEMMA JobUpdates ==
    ASSUME NEW j \in Jobs, NEW p \in Stages, NEW todo \in SUBSET Bills,
           NEW read \in [Bills -> Int]
    PROVE  /\ [j EXCEPT !.pc = p] \in Jobs
           /\ [j EXCEPT !.todo = todo] \in Jobs
           /\ [j EXCEPT !.pc = p, !.todo = todo] \in Jobs
           /\ [j EXCEPT !.pc = p, !.read = read] \in Jobs
BY DEF Jobs

\* Every step of every session keeps the types.
LEMMA TypesStep ==
    ASSUME LockInv, [Next]_vars
    PROVE  SettlementTypes'
<1> USE DEF LockInv, SettlementTypes
<1>1. ASSUME NEW s \in Sessions, NEW o \in Ops, NEW d \in Documents, Load(s, o, d)
      PROVE  SettlementTypes'
  BY <1>1, NoJobType DEF Load, Jobs, Stages, NoJob
<1>2. ASSUME NEW s \in Sessions, TakeOwn(s)
      PROVE  SettlementTypes'
  <2>1. RefLocks(job[s].op, job[s].doc) \subseteq Bills
    BY <1>2, BillFacts DEF TakeOwn, RefLocks, SessionInv
  <2>2. lock' \in [Documents -> Sessions \cup {None}]
    BY <1>2 DEF TakeOwn
  <2>3. job' \in [Sessions -> Jobs]
    BY <1>2, <2>1, JobUpdates DEF TakeOwn, Stages
  <2> QED BY <1>2, <2>2, <2>3 DEF TakeOwn
<1>3. ASSUME NEW s \in Sessions, TakeRef(s)
      PROVE  SettlementTypes'
  <2>1. \A b : job[s].todo \ {b} \in SUBSET Bills
    BY DEF Jobs
  <2>2. job' \in [Sessions -> Jobs]
    <3>1. PICK b : job' = [job EXCEPT ![s] = [job[s] EXCEPT !.todo = job[s].todo \ {b}]]
      BY <1>3 DEF TakeRef
    <3>2. job[s] \in Jobs /\ "refs" \in Stages /\ Unread \in [Bills -> Int]
      BY DEF Stages, Unread
    <3>3. [job[s] EXCEPT !.todo = job[s].todo \ {b}] \in Jobs
      BY <2>1, <3>2, JobUpdates
    <3> QED BY <3>1, <3>3
  <2>3. lock' \in [Documents -> Sessions \cup {None}]
    BY <1>3 DEF TakeRef
  <2> QED BY <1>3, <2>2, <2>3 DEF TakeRef
<1>4. ASSUME NEW s \in Sessions, Validate(s)
      PROVE  SettlementTypes'
  BY <1>4, JobUpdates DEF Validate, Stages
<1>5. ASSUME NEW s \in Sessions, Post(s)
      PROVE  SettlementTypes'
  <2> DEFINE read == [b \in Bills |-> IF b \in Written(job[s].op, job[s].doc)
                                      THEN AmountOn(job[s].op, job[s].doc, b) ELSE 0]
  <2>1. \A b \in Written(job[s].op, job[s].doc) : AmountOn(job[s].op, job[s].doc, b) \in Int
    BY <1>5, AmountType DEF Post, SessionInv
  <2>2. read \in [Bills -> Int]
    BY <2>1
  <2>3. job' = [job EXCEPT ![s] = [job[s] EXCEPT !.pc = "commit", !.read = read]]
    BY <1>5 DEF Post
  <2>4. job' \in [Sessions -> Jobs]
    <3> HIDE DEF read
    <3> QED BY <2>2, <2>3, JobUpdates DEF Stages
  <2> QED BY <1>5, <2>4 DEF Post
<1>6. ASSUME NEW s \in Sessions, Commit(s)
      PROVE  SettlementTypes'
  <2>1. job[s] \in Jobs /\ job[s].doc \in Documents
    BY <1>6 DEF Commit, SessionInv
  <2>2. StatusAfter(job[s].op, job[s].doc) \in Statuses
    BY <2>1 DEF StatusAfter, Statuses, Jobs, Ops
  <2> QED BY <1>6, <2>1, <2>2, NoJobType DEF Commit, Jobs, Released
<1>7. ASSUME NEW s \in Sessions, Rollback(s)
      PROVE  SettlementTypes'
  BY <1>7, NoJobType DEF Rollback, Released
<1>8. CASE UNCHANGED vars
  BY <1>8 DEF vars
<1> QED BY <1>1, <1>2, <1>3, <1>4, <1>5, <1>6, <1>7, <1>8 DEF Next, Step, Refuse, Fail, Victim

-----------------------------------------------------------------------------
(* Locks *)

\* Once its references are locked, a session that will write amounts holds its
\* own row and every referenced row.
LEMMA HoldsAll ==
    ASSUME LockInv, NEW s \in Sessions, job[s].pc \in Inside, job[s].todo = {},
           job[s].op \in {"submit", "cancel"}
    PROVE  \A r \in {job[s].doc} \cup Refs(job[s].doc) : lock[r] = s
<1>1. \A r \in OwnLocks(job[s].doc) : lock[r] = s
  BY DEF LockInv, SessionInv, HoldsOwn
<1>2. job[s].doc \in Documents /\ Refs(job[s].doc) \subseteq Documents
  BY BillFacts DEF LockInv, SessionInv, HoldsOwn
<1>3. CASE Dialect = "postgres"
  BY <1>1, <1>3 DEF LockInv, SessionInv, HoldsRefs, OwnLocks, RefLocks
<1>4. CASE Dialect # "postgres"
  BY <1>1, <1>2, <1>4 DEF OwnLocks
<1> QED BY <1>3, <1>4

\* A session is not disturbed by a step of another that changes no book and
\* takes none of its locks.
LEMMA QuietStep ==
    ASSUME LockInv, NEW s \in Sessions, job'[s] = job[s],
           \A r \in Documents : lock[r] = s => lock'[r] = s,
           UNCHANGED <<status, outstanding, modified>>
    PROVE  SessionInv(s)'
<1>1. SessionInv(s) /\ job[s] \in Jobs
  BY DEF LockInv, SettlementTypes
<1>2. HoldsOwn(s)'
  BY <1>1 DEF SessionInv, HoldsOwn, AsLoaded, OwnLocks
<1>3. HoldsRefs(s)'
  BY <1>1, BillFacts DEF SessionInv, HoldsRefs, HoldsOwn, RefLocks
<1>4. StillAllowed(s)'
  BY <1>1 DEF SessionInv, StillAllowed, Valid, SettlementValid, ReturnValid, Returned,
              PostedReturns, Releasable, Unreferenced, PostedSettlements
<1>5. StillCurrent(s)'
  BY <1>1 DEF SessionInv, StillCurrent, AmountOn, PostedOn, ReversedOn, Written
<1> QED BY <1>1, <1>2, <1>3, <1>4, <1>5 DEF SessionInv

\* The steps a session takes before it commits keep its own invariant.
LEMMA OwnStep ==
    ASSUME LockInv, NEW s \in Sessions,
           \/ \E o \in Ops, d \in Documents : Load(s, o, d)
           \/ TakeOwn(s) \/ TakeRef(s) \/ Validate(s) \/ Post(s) \/ Rollback(s)
    PROVE  SessionInv(s)'
<1>0. SessionInv(s) /\ job[s] \in Jobs /\ job \in [Sessions -> Jobs]
  BY DEF LockInv, SettlementTypes
<1>1. ASSUME NEW o \in Ops, NEW d \in Documents, Load(s, o, d)
      PROVE  SessionInv(s)'
  <2>1. job'[s].pc = "own" /\ job'[s].doc = d
    BY <1>0, <1>1 DEF Load, NoJob
  <2> QED BY <2>1 DEF SessionInv, HoldsOwn, HoldsRefs, StillAllowed, StillCurrent,
                     Inside, Checked
<1>2. CASE TakeOwn(s)
  <2> DEFINE d == job[s].doc
  <2>1. /\ job'[s].pc = "refs" /\ job'[s].op = job[s].op /\ job'[s].doc = d
        /\ job'[s].seen = job[s].seen /\ job'[s].todo = RefLocks(job[s].op, d)
    BY <1>0, <1>2 DEF TakeOwn, Jobs
  <2>2. d \in Documents
    BY <1>0, <1>2 DEF TakeOwn, SessionInv
  <2>3. \A r \in OwnLocks(d) : lock'[r] = s
    BY <1>2, <2>2 DEF TakeOwn, OwnLocks
  <2>4. HoldsOwn(s)'
    BY <1>2, <2>1, <2>2, <2>3 DEF TakeOwn, HoldsOwn, AsLoaded
  <2> QED BY <2>1, <2>2, <2>4 DEF SessionInv, HoldsRefs, StillAllowed, StillCurrent, Checked
<1>3. CASE TakeRef(s)
  <2>1. PICK b \in job[s].todo :
           /\ lock' = [lock EXCEPT ![b] = s]
           /\ job' = [job EXCEPT ![s] = [job[s] EXCEPT !.todo = job[s].todo \ {b}]]
    BY <1>3 DEF TakeRef
  <2>2. /\ job'[s].pc = "refs" /\ job'[s].op = job[s].op /\ job'[s].doc = job[s].doc
        /\ job'[s].seen = job[s].seen /\ job'[s].todo = job[s].todo \ {b}
    BY <1>0, <1>3, <2>1 DEF TakeRef, Jobs
  <2>3. b \in Documents /\ lock \in [Documents -> Sessions \cup {None}]
    BY <1>0, BillFacts DEF Jobs, LockInv, SettlementTypes
  <2>4. \A r \in Documents : lock'[r] = IF r = b THEN s ELSE lock[r]
    BY <2>1, <2>3
  <2>5. OwnLocks(job[s].doc) \subseteq Documents /\ RefLocks(job[s].op, job[s].doc) \subseteq Documents
    BY <1>0, <1>3, BillFacts DEF TakeRef, SessionInv, OwnLocks, RefLocks
  <2>6. HoldsOwn(s)'
    BY <1>0, <1>3, <2>2, <2>4, <2>5 DEF TakeRef, SessionInv, HoldsOwn, AsLoaded, Inside
  <2>7. HoldsRefs(s)'
    BY <1>0, <1>3, <2>2, <2>4, <2>5 DEF TakeRef, SessionInv, HoldsRefs, Inside
  <2> QED BY <1>0, <1>3, <2>2, <2>6, <2>7
          DEF TakeRef, SessionInv, StillAllowed, StillCurrent, Checked
<1>4. CASE Validate(s)
  <2>1. /\ job'[s].pc = "post" /\ job'[s].op = job[s].op /\ job'[s].doc = job[s].doc
        /\ job'[s].seen = job[s].seen /\ job'[s].todo = {}
    BY <1>0, <1>4 DEF Validate, Jobs
  <2>2. HoldsOwn(s)' /\ HoldsRefs(s)'
    BY <1>0, <1>4, <2>1 DEF Validate, SessionInv, HoldsOwn, HoldsRefs, AsLoaded, Inside
  <2>3. StillAllowed(s)'
    BY <1>4, <2>1 DEF Validate, Allowed, StillAllowed, Valid, SettlementValid, ReturnValid,
                      Returned, PostedReturns, Releasable, Unreferenced, PostedSettlements
  <2> QED BY <1>0, <1>4, <2>1, <2>2, <2>3 DEF Validate, SessionInv, StillCurrent
<1>5. CASE Post(s)
  <2>1. /\ job'[s].pc = "commit" /\ job'[s].op = job[s].op /\ job'[s].doc = job[s].doc
        /\ job'[s].seen = job[s].seen /\ job'[s].todo = job[s].todo
        /\ \A b \in Bills : b \in Written(job[s].op, job[s].doc) =>
              job'[s].read[b] = AmountOn(job[s].op, job[s].doc, b)
    BY <1>0, <1>5 DEF Post, Jobs
  <2>2. HoldsOwn(s)' /\ HoldsRefs(s)'
    BY <1>0, <1>5, <2>1 DEF Post, SessionInv, HoldsOwn, HoldsRefs, AsLoaded, Inside
  <2>3. StillAllowed(s)'
    BY <1>0, <1>5, <2>1
       DEF Post, SessionInv, StillAllowed, Checked, Valid, SettlementValid, ReturnValid,
           Returned, PostedReturns, Releasable, Unreferenced, PostedSettlements
  <2>4. Written(job[s].op, job[s].doc) \subseteq Bills
    BY DEF Written
  <2>5. StillCurrent(s)'
    BY <1>5, <2>1, <2>4 DEF Post, StillCurrent, AmountOn, PostedOn, ReversedOn, Written
  <2> QED BY <1>0, <1>5, <2>1, <2>2, <2>3, <2>5 DEF Post, SessionInv
<1>6. CASE Rollback(s)
  <2>1. job'[s].pc = "idle"
    BY <1>0, <1>6 DEF Rollback, NoJob
  <2> QED BY <2>1 DEF SessionInv, HoldsOwn, HoldsRefs, StillAllowed, StillCurrent,
                     Inside, Checked
<1> QED BY <1>1, <1>2, <1>3, <1>4, <1>5, <1>6

\* What a session holds and loaded when it commits.
LEMMA Committing ==
    ASSUME LockInv, NEW t \in Sessions, Commit(t)
    PROVE  /\ job[t] \in Jobs /\ job[t].doc \in Documents
           /\ lock[job[t].doc] = t
           /\ AsLoaded(job[t].op, job[t].doc, job[t].seen)
           /\ job[t].op \in {"submit", "cancel"} =>
                 \A r \in Refs(job[t].doc) : lock[r] = t
           /\ \A b \in Written(job[t].op, job[t].doc) :
                 /\ lock[b] = t
                 /\ job[t].read[b] = AmountOn(job[t].op, job[t].doc, b)
<1>1. SessionInv(t) /\ job[t] \in Jobs /\ job[t].pc = "commit" /\ job[t].todo = {}
  BY DEF LockInv, SettlementTypes, SessionInv, StillAllowed, Checked, Commit
<1>2. job[t].doc \in OwnLocks(job[t].doc) /\ job[t].doc \in Documents
  BY <1>1 DEF SessionInv, OwnLocks
<1>3. lock[job[t].doc] = t /\ AsLoaded(job[t].op, job[t].doc, job[t].seen)
  BY <1>1, <1>2 DEF SessionInv, HoldsOwn, Inside
<1>4. job[t].op \in {"submit", "cancel"} =>
         \A r \in {job[t].doc} \cup Refs(job[t].doc) : lock[r] = t
  BY <1>1, HoldsAll DEF Inside
<1>5. \A b \in Written(job[t].op, job[t].doc) : lock[b] = t
  BY <1>4 DEF Written
<1> QED BY <1>1, <1>2, <1>3, <1>4, <1>5 DEF SessionInv, StillCurrent

\* A commit changes nothing that another session has checked or read: every row
\* it writes, and every row its document refers to, it has locked itself.
LEMMA CommitStep ==
    ASSUME LockInv, NEW t \in Sessions, Commit(t), NEW s \in Sessions, s # t
    PROVE  SessionInv(s)'
<1> DEFINE e == job[t].doc
           d == job[s].doc
<1>1. SessionInv(s) /\ job'[s] = job[s] /\ job[s] \in Jobs
  BY DEF LockInv, SettlementTypes, Commit
<1>2. \A r \in Documents : lock[r] = s => lock'[r] = s
  BY DEF Commit, Released
<1>3. \A r \in Documents : lock[r] = s =>
         r # e /\ status'[r] = status[r] /\ modified'[r] = modified[r]
  <2>1. lock[e] = t
    BY Committing
  <2>2. /\ status' = [status EXCEPT ![e] = StatusAfter(job[t].op, e)]
        /\ modified' = [modified EXCEPT ![e] = modified[e] + 1]
    BY DEF Commit
  <2> QED BY <2>1, <2>2 DEF LockInv, SettlementTypes
<1>4. \A b \in Bills : lock[b] = s => outstanding'[b] = outstanding[b]
  BY Committing DEF Commit
<1>5. \A r \in Documents : status'[r] = "submitted" /\ status[r] # "submitted" =>
         \A b \in Refs(r) : lock[b] # s
  <2> SUFFICES ASSUME NEW r \in Documents, status'[r] # status[r], status'[r] = "submitted",
                      NEW b \in Refs(r)
               PROVE  lock[b] # s
    OBVIOUS
  <2>1. r = e /\ StatusAfter(job[t].op, e) = "submitted"
    BY Committing DEF Commit, LockInv, SettlementTypes
  <2>2. job[t].op = "submit"
    BY <2>1, Committing DEF StatusAfter, AsLoaded, Expected, Jobs, Ops, Commit, LockInv,
                            SettlementTypes
  <2> QED BY <2>1, <2>2, Committing
<1>6. \A r \in Documents : status[r] = "submitted" /\ status'[r] # "submitted" =>
         \A b \in Refs(r) : lock[b] # s
  <2> SUFFICES ASSUME NEW r \in Documents, status[r] = "submitted", status'[r] # "submitted",
                      NEW b \in Refs(r)
               PROVE  lock[b] # s
    OBVIOUS
  <2>1. r = e
    BY Committing DEF Commit, LockInv, SettlementTypes
  <2>2. job[t].op = "cancel"
    BY <2>1, Committing DEF AsLoaded, Expected
  <2> QED BY <2>1, <2>2, Committing
<1>7. HoldsOwn(s)'
  <2>1. d \in Documents => OwnLocks(d) \subseteq Documents /\ d \in OwnLocks(d)
    BY DEF OwnLocks
  <2> QED BY <1>1, <1>2, <1>3, <2>1 DEF SessionInv, HoldsOwn, AsLoaded
<1>8. HoldsRefs(s)'
  BY <1>1, <1>2, BillFacts DEF SessionInv, HoldsRefs, HoldsOwn, RefLocks
<1>9. ASSUME job[s].pc \in Checked, job[s].op \in {"submit", "cancel"}
      PROVE  /\ d \in Documents
             /\ \A r \in {d} \cup Refs(d) : r \in Documents /\ lock[r] = s
  <2>1. job[s].pc \in Inside /\ job[s].todo = {}
    BY <1>1, <1>9 DEF SessionInv, StillAllowed, Checked, Inside
  <2> QED BY <1>1, <1>9, <2>1, HoldsAll, BillFacts DEF SessionInv, HoldsOwn
<1>10. StillAllowed(s)'
  <2>1. ASSUME job[s].pc \in Checked, job[s].op = "submit", d \in Settlements
        PROVE  SettlementValid(d)'
    <3>1. SettlementValid(d) /\ Refs(d) \subseteq Bills
      BY <1>1, <1>9, <2>1, BillFacts DEF SessionInv, StillAllowed, Valid
    <3> QED BY <1>1, <1>3, <1>4, <1>9, <2>1, <3>1 DEF SettlementValid
  <2>2. ASSUME job[s].pc \in Checked, job[s].op = "submit", d \in Returns
        PROVE  ReturnValid(d)'
    <3>1. ReturnValid(d) /\ Against[d] \in Documents /\ lock[Against[d]] = s
      BY <1>1, <1>9, <2>2, BillFacts DEF SessionInv, StillAllowed, Valid
    <3>2. \A r \in Returns : Against[r] = Against[d] =>
             (status'[r] = "submitted" <=> status[r] = "submitted")
      BY <1>5, <1>6, <3>1, BillFacts
    <3>3. PostedReturns(Against[d])' = PostedReturns(Against[d])
      BY <1>1, <3>2 DEF PostedReturns
    <3> QED BY <1>1, <1>3, <3>1, <3>3 DEF ReturnValid, Returned
  <2>3. ASSUME job[s].pc \in Checked, job[s].op = "cancel", d \in Bills
        PROVE  Unreferenced(d)'
    <3>1. Unreferenced(d) /\ lock[d] = s
      BY <1>1, <1>9, <2>3 DEF SessionInv, StillAllowed, Releasable
    <3>2. \A r \in Documents : d \in Refs(r) => (status'[r] = "submitted" => status[r] = "submitted")
      BY <1>5, <3>1
    <3> QED BY <1>1, <3>1, <3>2, BillFacts DEF Unreferenced, PostedSettlements
  <2> QED BY <1>1, <2>1, <2>2, <2>3 DEF SessionInv, StillAllowed, Valid, Releasable
<1>11. StillCurrent(s)'
  <2> SUFFICES ASSUME job[s].pc = "commit", NEW b \in Written(job[s].op, d)
               PROVE  job[s].read[b] = AmountOn(job[s].op, d, b)'
    BY <1>1 DEF StillCurrent, Written
  <2>1. b \in Bills /\ lock[b] = s /\ job[s].read[b] = AmountOn(job[s].op, d, b)
    BY <1>1, <1>9 DEF SessionInv, StillCurrent, Written, Checked
  <2> QED BY <1>1, <1>4, <2>1 DEF AmountOn, PostedOn, ReversedOn
<1> QED BY <1>1, <1>7, <1>8, <1>10, <1>11 DEF SessionInv

\* A session leaves every lock of another where it is.
LEMMA LocksStay ==
    ASSUME LockInv, NEW t \in Sessions, NEW s \in Sessions, s # t,
           \/ \E o \in Ops, d \in Documents : Load(t, o, d)
           \/ TakeOwn(t) \/ TakeRef(t) \/ Validate(t) \/ Post(t) \/ Rollback(t)
    PROVE  /\ job'[s] = job[s]
           /\ \A r \in Documents : lock[r] = s => lock'[r] = s
           /\ UNCHANGED <<status, outstanding, modified>>
<1>1. job \in [Sessions -> Jobs] /\ lock \in [Documents -> Sessions \cup {None}] /\ s # None
  BY SettlementAssumption DEF LockInv, SettlementTypes
<1> QED BY <1>1 DEF Load, TakeOwn, TakeRef, Validate, Post, Rollback, Released

\* No session is at work at first.
LEMMA LockInvInit == Init => LockInv
<1> SUFFICES ASSUME Init PROVE LockInv
  OBVIOUS
<1>1. outstanding \in [Bills -> Int]
  BY OpeningSigned DEF Init
<1>2. SettlementTypes
  BY <1>1, NoJobType DEF Init, SettlementTypes, Statuses
<1>3. \A s \in Sessions : SessionInv(s)
  BY DEF Init, NoJob, SessionInv, HoldsOwn, HoldsRefs, StillAllowed, StillCurrent,
         Inside, Checked
<1> QED BY <1>2, <1>3 DEF LockInv

\* Every step of every session keeps the lock invariant.
LEMMA LockInvStep == LockInv /\ [Next]_vars => LockInv'
<1> SUFFICES ASSUME LockInv, [Next]_vars PROVE LockInv'
  OBVIOUS
<1>1. SettlementTypes'
  BY TypesStep
<1>2. ASSUME NEW s \in Sessions
      PROVE  SessionInv(s)'
  <2>1. CASE UNCHANGED vars
    BY <2>1, QuietStep DEF vars
  <2>2. ASSUME NEW t \in Sessions, Commit(t)
        PROVE  SessionInv(s)'
    <3>1. CASE s = t
      <4>1. job'[s].pc = "idle"
        BY <2>2, <3>1 DEF Commit, LockInv, SettlementTypes, NoJob
      <4> QED BY <4>1 DEF SessionInv, HoldsOwn, HoldsRefs, StillAllowed, StillCurrent,
                          Inside, Checked
    <3> QED BY <2>2, <3>1, CommitStep
  <2>3. ASSUME NEW t \in Sessions,
               \/ \E o \in Ops, d \in Documents : Load(t, o, d)
               \/ TakeOwn(t) \/ TakeRef(t) \/ Validate(t) \/ Post(t) \/ Rollback(t)
        PROVE  SessionInv(s)'
    <3>1. CASE s = t
      BY <2>3, <3>1, OwnStep
    <3>2. CASE s # t
      <4>1. /\ job'[s] = job[s]
            /\ \A r \in Documents : lock[r] = s => lock'[r] = s
            /\ UNCHANGED <<status, outstanding, modified>>
        BY <2>3, <3>2, LocksStay
      <4> QED BY <4>1, QuietStep
    <3> QED BY <3>1, <3>2
  <2> QED BY <2>1, <2>2, <2>3 DEF Next, Step, Refuse, Fail, Victim
<1> QED BY <1>1, <1>2 DEF LockInv

\* Two-phase locking: whatever a session has checked or read stays true until it
\* commits.
THEOREM LockInvariant == Spec => []LockInv
BY LockInvInit, LockInvStep, PTL DEF Spec

-----------------------------------------------------------------------------
(* The results *)

\* A commit is a whole workflow of Receivables, and no other step shows.
LEMMA CommitRefines ==
    ASSUME LockInv, NEW s \in Sessions, Commit(s)
    PROVE  [BooksNext]_books
<1> DEFINE d == job[s].doc
           o == job[s].op
<1>1. /\ d \in Documents /\ o \in Ops /\ status[d] = Expected(o)
      /\ \A b \in Written(o, d) : job[s].read[b] = AmountOn(o, d, b)
  BY Committing DEF Jobs, AsLoaded
<1>2. (o = "submit" => Valid(d)) /\ (o = "cancel" => Releasable(d))
  BY DEF LockInv, SessionInv, StillAllowed, Checked, Commit
<1>3. /\ status \in [Documents -> Statuses] /\ outstanding \in [Bills -> Int]
      /\ status' = [status EXCEPT ![d] = StatusAfter(o, d)]
      /\ outstanding' = [b \in Bills |-> IF b \in Written(o, d) THEN AmountOn(o, d, b)
                                         ELSE outstanding[b]]
      /\ floored' = IF o = "submit" THEN floored \cup CutOff(d) ELSE floored
  BY <1>1 DEF LockInv, SettlementTypes, Commit
<1>4. CASE o = "submit"
  <2>1. \A b \in Bills : b \in Written(o, d) <=> b \in {d} \cup Refs(d)
    BY <1>4 DEF Written
  <2>2. Submit(d)
    BY <1>1, <1>2, <1>3, <1>4, <2>1 DEF Submit, Expected, StatusAfter, AmountOn
  <2> QED BY <1>1, <2>2 DEF BooksNext
<1>5. CASE o = "cancel"
  <2>1. \A b \in Bills : b \in Written(o, d) <=> b \in {d} \cup Refs(d)
    BY <1>5 DEF Written
  <2>2. Cancel(d)
    BY <1>1, <1>2, <1>3, <1>5, <2>1 DEF Cancel, Expected, StatusAfter, AmountOn
  <2> QED BY <1>1, <2>2 DEF BooksNext
<1>6. ASSUME o \in {"save", "discard"}
      PROVE  outstanding' = outstanding /\ floored' = floored
  BY <1>3, <1>6 DEF Written
<1>7. CASE o = "discard"
  <2>1. Discard(d)
    BY <1>1, <1>3, <1>6, <1>7 DEF Discard, Expected, StatusAfter
  <2> QED BY <1>1, <2>1 DEF BooksNext
<1>8. CASE o = "save"
  BY <1>1, <1>3, <1>6, <1>8 DEF StatusAfter, books
<1> QED BY <1>1, <1>4, <1>5, <1>7, <1>8 DEF Ops

\* Any number of concurrent sessions leave the books as some sequence of whole
\* workflows would, on PostgreSQL and on SQLite.
THEOREM Implementation == Spec => Serializable
<1>1. Init => BooksInit
  BY DEF Init, BooksInit
<1>2. LockInv /\ [Next]_vars => [BooksNext]_books
  <2> SUFFICES ASSUME LockInv, [Next]_vars PROVE [BooksNext]_books
    OBVIOUS
  <2>1. ASSUME NEW s \in Sessions, Commit(s)
        PROVE  [BooksNext]_books
    BY <2>1, CommitRefines
  <2> QED BY <2>1 DEF Next, Step, Refuse, Fail, Victim, Load, TakeOwn, TakeRef, Validate,
                      Post, Rollback, books, vars
<1> QED BY <1>1, <1>2, LockInvariant, PTL DEF Spec, Serializable, BooksSpec, books

\* Optimistic locking: no commit overwrites a version its request did not load.
THEOREM FreshWrites == Spec => WriteIsFresh
<1> DEFINE Fresh == \A d \in Documents : modified'[d] # modified[d] =>
                       \E s \in Sessions : job[s].doc = d /\ job[s].seen = modified[d]
<1>1. LockInv /\ [Next]_vars => [Fresh]_vars
  <2> SUFFICES ASSUME LockInv, [Next]_vars, NEW d \in Documents, modified'[d] # modified[d]
               PROVE  \E s \in Sessions : job[s].doc = d /\ job[s].seen = modified[d]
    OBVIOUS
  <2>1. PICK s \in Sessions : Commit(s)
    BY DEF Next, Step, Refuse, Fail, Victim, Load, TakeOwn, TakeRef, Validate, Post,
           Rollback, vars
  <2>2. job[s].doc = d
    BY <2>1 DEF Commit, LockInv, SettlementTypes
  <2> QED BY <2>1, <2>2, Committing DEF AsLoaded
<1> QED BY <1>1, LockInvariant, PTL DEF Spec, WriteIsFresh

\* Concurrent sessions never leave a submitted settlement that points at a bill
\* which is not submitted.
THEOREM ConcurrentAllocationsBacked == Spec => []NoOrphanAllocation
BY Implementation, AllocationsBacked DEF Serializable

\* The types of the whole state, and no outstanding amount across zero.
THEOREM TypeCorrect == Spec => []TypeOK
<1>1. LockInv /\ BooksTypeOK => TypeOK
  BY DEF LockInv, SettlementTypes, TypeOK
<1>2. Spec => []BooksTypeOK
  BY Implementation, BooksTyped DEF Serializable
<1> QED BY <1>1, <1>2, LockInvariant, PTL

-----------------------------------------------------------------------------
\* GeneralLedger: every voucher balances.

\* A row of GL Entry.
EntryFields ==
    {"voucher", "role", "mirror", "account", "center", "party", "cancelled", "debit", "credit"}

IsEntry(e) ==
    /\ e = [n \in EntryFields |-> e[n]]
    /\ e.voucher \in GlVouchers /\ e.mirror \in BOOLEAN /\ e.cancelled \in BOOLEAN
    /\ e.debit \in Int /\ e.credit \in Int

Entries(E) == IsFiniteSet(E) /\ \A e \in E : IsEntry(e)

\* The entries of a voucher that is being posted or is posted.
Balanced(E, v) ==
    /\ Entries(E) /\ \A e \in E : e.voucher = v /\ e.cancelled = FALSE /\ e.mirror = FALSE
    /\ RoundOff # NoAccount => Difference(E) = 0

\* Those of a cancelled one.
Undone(E) ==
    /\ \A e \in E : e.cancelled = TRUE
    /\ Difference(E) = 0
    /\ \A account : Difference({e \in E : e.account = account}) = 0

GlTypes ==
    /\ posting \in [GlVouchers -> {"draft", "posted", "cancelled"}]
    /\ DOMAIN till = Tills
    /\ \A t \in Tills : DOMAIN till[t] = {"doc", "entries", "todo", "locked"}
    /\ Entries(glEntries)

TillsReady ==
    /\ \A t \in Tills : till[t] # Calm =>
          /\ till[t].doc \in GlVouchers /\ posting[till[t].doc] = "draft"
          /\ Balanced(till[t].entries, till[t].doc)
    /\ \A t, u \in Tills : till[t] # Calm /\ till[u] # Calm /\ till[t].doc = till[u].doc => t = u

BooksBalance ==
    \A v \in GlVouchers :
        /\ posting[v] = "draft" => VoucherEntries(v) = {}
        /\ posting[v] = "posted" => Balanced(VoucherEntries(v), v)
        /\ posting[v] = "cancelled" => Undone(VoucherEntries(v))

LedgerInv == GlTypes /\ TillsReady /\ BooksBalance

-----------------------------------------------------------------------------
\* Rounding gives a whole number.
LEMMA NearestIsInt ==
    ASSUME NEW n \in Int, NEW unit \in Nat \ {0} PROVE Nearest(n, unit) \in Int
BY DEF Nearest

\* A row as it is written.
LEMMA EntryRecord ==
    ASSUME NEW v \in GlVouchers, NEW role, NEW a, NEW c, NEW p, NEW d \in Int, NEW r \in Int, NEW x,
           x = [voucher |-> v, role |-> role, mirror |-> FALSE, account |-> a, center |-> c,
                party |-> p, cancelled |-> FALSE, debit |-> d, credit |-> r]
    PROVE  IsEntry(x)
<1>1. x = [n \in EntryFields |-> x[n]]
  BY DEF EntryFields
<1> QED BY <1>1 DEF IsEntry

\* Amounts in cents are whole numbers.
LEMMA CentsIsInt == ASSUME NEW n \in Int PROVE Cents(n) \in Int
BY NearestIsInt DEF Cents

\* The difference of finitely many entries is a number.
LEMMA DifferenceIsInt ==
    ASSUME NEW E, Entries(E) PROVE Difference(E) \in Int
<1> DEFINE f == [e \in E |-> e.debit - e.credit]
<1>1. \A e \in E : f[e] \in Int
  BY DEF Entries, IsEntry
<1> HIDE DEF f
<1>2. SumFunctionOnSet(f, E) \in Int
  BY <1>1, SumIsNumber DEF Entries
<1> QED BY <1>2 DEF Difference, f

\* Nothing has no difference.
LEMMA NoDifference == Difference({}) = 0
<1> DEFINE f == [e \in {} |-> e.debit - e.credit]
<1> HIDE DEF f
<1>1. SumFunctionOnSet(f, {}) = 0
  BY SumOfNone
<1> QED BY <1>1 DEF Difference, f

\* An entry more changes the difference by what it debits less what it credits.
LEMMA DifferenceOfOneMore ==
    ASSUME NEW E, Entries(E), NEW x, IsEntry(x), x \notin E
    PROVE  /\ Entries(E \cup {x})
           /\ Difference(E \cup {x}) = Difference(E) + x.debit - x.credit
<1> DEFINE f == [e \in E |-> e.debit - e.credit]
           g == [e \in E \cup {x} |-> e.debit - e.credit]
<1>1. \A e \in E \cup {x} : e.debit \in Int /\ e.credit \in Int /\ g[e] = e.debit - e.credit
  BY DEF Entries, IsEntry
<1>2. \A e \in E : f[e] = e.debit - e.credit
  OBVIOUS
<1> HIDE DEF f, g
<1>3. \A e \in E \cup {x} : g[e] \in Int
  BY <1>1
<1>4. \A e \in E : g[e] \in Int /\ f[e] = g[e]
  BY <1>1, <1>2
<1>5. IsFiniteSet(E)
  BY DEF Entries
<1>6. SumFunctionOnSet(g, E \cup {x}) = SumFunctionOnSet(g, E) + g[x] /\ IsFiniteSet(E \cup {x})
  BY <1>3, <1>5, SumAdd
<1>7. SumFunctionOnSet(f, E) = SumFunctionOnSet(g, E)
  BY <1>4, <1>5, SumSame
<1>8. SumFunctionOnSet(f, E) \in Int
  BY <1>4, <1>5, <1>7, SumIsNumber
<1>9. SumFunctionOnSet(g, E \cup {x}) = SumFunctionOnSet(f, E) + x.debit - x.credit
  BY <1>1, <1>6, <1>7, <1>8
<1>10. Entries(E \cup {x})
  BY <1>6 DEF Entries
<1> QED BY <1>9, <1>10 DEF Difference, f, g

\* An entry that is struck off, and its mirror.
LEMMA StruckEntry ==
    ASSUME NEW e, IsEntry(e)
    PROVE  /\ IsEntry(Struck(e)) /\ Struck(e).cancelled = TRUE /\ Struck(e).mirror = e.mirror
           /\ Struck(e).account = e.account /\ Struck(e).center = e.center
           /\ Struck(e).voucher = e.voucher
           /\ Struck(e).debit = e.debit /\ Struck(e).credit = e.credit
<1>1. PICK x : x = Struck(e)
  OBVIOUS
<1>2. /\ {"cancelled", "mirror", "account", "center", "voucher", "debit", "credit"} \subseteq EntryFields
      /\ e = [n \in EntryFields |-> e[n]] /\ x = [e EXCEPT !.cancelled = TRUE]
  BY <1>1 DEF IsEntry, Struck, EntryFields
<1>3. x = [n \in EntryFields |-> x[n]]
  BY <1>2
<1> QED BY <1>1, <1>2, <1>3 DEF IsEntry

\* The mirror of an entry is an entry of the same voucher with its sides exchanged.
LEMMA MirroredEntry ==
    ASSUME NEW e, IsEntry(e)
    PROVE  /\ IsEntry(Mirrored(e)) /\ Mirrored(e).cancelled = TRUE /\ Mirrored(e).mirror = TRUE
           /\ Mirrored(e).debit = e.credit /\ Mirrored(e).credit = e.debit
<1>1. PICK x : x = Mirrored(e)
  OBVIOUS
<1>2. /\ {"cancelled", "mirror", "account", "center", "voucher", "debit", "credit"} \subseteq EntryFields
      /\ e = [n \in EntryFields |-> e[n]]
  BY DEF IsEntry, EntryFields
<1>3. x = [e EXCEPT !.cancelled = TRUE, !.mirror = TRUE, !.debit = e.credit, !.credit = e.debit]
  BY <1>1 DEF Mirrored
<1>4. /\ x = [n \in EntryFields |-> x[n]] /\ x.voucher = e.voucher /\ x.cancelled = TRUE /\ x.mirror = TRUE
      /\ x.debit = e.credit /\ x.credit = e.debit
  BY <1>2, <1>3
<1> QED BY <1>1, <1>4 DEF IsEntry

\* What the cancel of a voucher leaves behind is undone, on every account.
LEMMA MirrorBalances ==
    ASSUME NEW M, Entries(M), \A e \in M : e.cancelled = FALSE /\ e.mirror = FALSE
    PROVE  LET Left == {Struck(e) : e \in M} \cup {Mirrored(e) : e \in M}
           IN  Entries(Left) /\ Difference(Left) = 0
<1> DEFINE s == [e \in M |-> Struck(e)]
           m == [e \in M |-> Mirrored(e)]
           S == {s[e] : e \in M}
           R == {m[e] : e \in M}
           Left == S \cup R
           d == [e \in Left |-> e.debit - e.credit]
           f == [e \in M |-> e.debit - e.credit]
           g == [e \in M |-> e.credit - e.debit]
           z == [e \in M |-> 0]
<1>0. S = {Struck(e) : e \in M} /\ R = {Mirrored(e) : e \in M}
  OBVIOUS
<1>1. \A e \in M : /\ IsEntry(s[e]) /\ s[e].mirror = FALSE
                   /\ s[e].debit = e.debit /\ s[e].credit = e.credit
  BY StruckEntry DEF Entries
<1>2. \A e \in M : /\ IsEntry(m[e]) /\ m[e].mirror = TRUE
                   /\ m[e].debit = e.credit /\ m[e].credit = e.debit
  BY MirroredEntry DEF Entries
<1>3. \A x, y \in M : s[x] = s[y] => x = y
  <2> SUFFICES ASSUME NEW x \in M, NEW y \in M, s[x] = s[y] PROVE x = y
    OBVIOUS
  <2>1. /\ Struck(x) = Struck(y) /\ x.cancelled = y.cancelled
        /\ x = [n \in EntryFields |-> x[n]] /\ y = [n \in EntryFields |-> y[n]]
    BY DEF Entries, IsEntry
  <2>2. ASSUME NEW n \in EntryFields PROVE x[n] = y[n]
    <3>1. CASE n = "cancelled"
      BY <2>1, <3>1
    <3>2. CASE n # "cancelled"
      <4>1. Struck(x)[n] = x[n] /\ Struck(y)[n] = y[n]
        BY <2>1, <3>2 DEF Struck
      <4> QED BY <2>1, <4>1
    <3> QED BY <3>1, <3>2
  <2> QED BY <2>1, <2>2
<1>4. \A x, y \in M : m[x] = m[y] => x = y
  <2> SUFFICES ASSUME NEW x \in M, NEW y \in M, m[x] = m[y] PROVE x = y
    OBVIOUS
  <2>1. /\ Mirrored(x) = Mirrored(y) /\ x.cancelled = y.cancelled /\ x.mirror = y.mirror
        /\ x = [n \in EntryFields |-> x[n]] /\ y = [n \in EntryFields |-> y[n]]
    BY DEF Entries, IsEntry
  <2>2. x.debit = y.debit /\ x.credit = y.credit
    <3>1. /\ Mirrored(x).debit = x.credit /\ Mirrored(x).credit = x.debit
          /\ Mirrored(y).debit = y.credit /\ Mirrored(y).credit = y.debit
      BY <2>1 DEF Mirrored, EntryFields
    <3> QED BY <2>1, <3>1
  <2>3. ASSUME NEW n \in EntryFields PROVE x[n] = y[n]
    <3>1. CASE n \in {"cancelled", "mirror", "debit", "credit"}
      BY <2>1, <2>2, <3>1
    <3>2. CASE n \notin {"cancelled", "mirror", "debit", "credit"}
      <4>1. Mirrored(x)[n] = x[n] /\ Mirrored(y)[n] = y[n]
        BY <2>1, <3>2 DEF Mirrored
      <4> QED BY <2>1, <4>1
    <3> QED BY <3>1, <3>2
  <2> QED BY <2>1, <2>3
<1>5. /\ \A e \in M : s[e] \in Left /\ m[e] \in Left
      /\ \A e \in Left : d[e] = e.debit - e.credit
      /\ \A e \in M : e.debit \in Int /\ e.credit \in Int
      /\ \A e \in M : f[e] = e.debit - e.credit /\ g[e] = e.credit - e.debit /\ z[e] = 0
  BY DEF Entries, IsEntry
<1>6. IsFiniteSet(M) /\ S \in SUBSET Left /\ Left \ S = R
  <2>1. \A x, y \in M : s[x] # m[y]
    BY <1>1, <1>2
  <2> QED BY <2>1 DEF Entries
<1>7. \A e \in Left : IsEntry(e)
  BY <1>1, <1>2
<1>8. d = [e \in Left |-> e.debit - e.credit]
  OBVIOUS
<1>9. \A e \in M : f[e] \in Int /\ g[e] \in Int /\ z[e] = f[e] + g[e] /\ d[s[e]] = f[e] /\ d[m[e]] = g[e]
  <2> HIDE DEF s, m, d, f, g, z, Left
  <2> QED BY <1>1, <1>2, <1>5
<1> HIDE DEF s, m, d, f, g, z, Left
<1>10. IsFiniteSet(S) /\ SumFunctionOnSet(d, S) = SumFunctionOnSet(f, M)
  BY <1>3, <1>6, <1>9, SumRenamed
<1>11. IsFiniteSet(R) /\ SumFunctionOnSet(d, R) = SumFunctionOnSet(g, M)
  BY <1>4, <1>6, <1>9, SumRenamed
<1>12. SumFunctionOnSet(f, M) + SumFunctionOnSet(g, M) = 0
  <2>1. SumFunctionOnSet(z, M) = SumFunctionOnSet(f, M) + SumFunctionOnSet(g, M)
    BY <1>6, <1>9, SumOfSums
  <2>2. SumFunctionOnSet(z, M) = 0
    BY <1>5, <1>6, SumOfZeros
  <2> QED BY <2>1, <2>2
<1> HIDE DEF S, R
<1>13. IsFiniteSet(Left)
  BY <1>10, <1>11, FS_Union DEF Left
<1>14. \A e \in Left : d[e] \in Int
  BY <1>5, <1>7 DEF IsEntry
<1>15. SumFunctionOnSet(d, Left) = SumFunctionOnSet(d, S) + SumFunctionOnSet(d, R)
  BY <1>6, <1>13, <1>14, SumParts
<1>16. SumFunctionOnSet(d, Left) = 0
  BY <1>10, <1>11, <1>12, <1>15
<1>17. Entries(Left) /\ Difference(Left) = 0
  BY <1>7, <1>8, <1>13, <1>16 DEF Entries, Difference
<1> QED BY <1>0, <1>17 DEF Left

\* So is each account's share of it.
LEMMA CancelUndoes ==
    ASSUME NEW M, Entries(M), \A e \in M : e.cancelled = FALSE /\ e.mirror = FALSE
    PROVE  LET Left == {Struck(e) : e \in M} \cup {Mirrored(e) : e \in M}
           IN  Entries(Left) /\ Undone(Left) /\ \A e \in Left : \E x \in M : e.voucher = x.voucher
<1> DEFINE LeftOf(N) == {Struck(e) : e \in N} \cup {Mirrored(e) : e \in N}
<1>1. Entries(LeftOf(M)) /\ Difference(LeftOf(M)) = 0
  BY MirrorBalances
<1>2. \A e \in M : /\ Struck(e).cancelled = TRUE /\ Mirrored(e).cancelled = TRUE
                   /\ Struck(e).account = e.account /\ Mirrored(e).account = e.account
                   /\ Struck(e).voucher = e.voucher /\ Mirrored(e).voucher = e.voucher
  BY DEF Entries, IsEntry, Struck, Mirrored
<1>3. ASSUME NEW account PROVE Difference({e \in LeftOf(M) : e.account = account}) = 0
  <2> DEFINE N == {e \in M : e.account = account}
  <2>1. {e \in LeftOf(M) : e.account = account} = LeftOf(N)
    BY <1>2
  <2>2. Entries(N) /\ \A e \in N : e.cancelled = FALSE /\ e.mirror = FALSE
    BY FS_Subset DEF Entries
  <2> HIDE DEF N
  <2>3. Difference(LeftOf(N)) = 0
    BY <2>2, MirrorBalances
  <2> QED BY <2>1, <2>3
<1>4. \A e \in LeftOf(M) : e.cancelled = TRUE /\ \E x \in M : e.voucher = x.voucher
  BY <1>2
<1> QED BY <1>1, <1>3, <1>4 DEF Undone

\* The merged lines of a voucher are entries.
LEMMA MergedLines ==
    ASSUME NEW v \in GlVouchers
    PROVE  /\ IsFiniteSet(Merged(v))
           /\ \A e \in Merged(v) : /\ IsEntry(e) /\ e.voucher = v /\ e.role = "line"
                                   /\ e.cancelled = FALSE /\ e.mirror = FALSE
<1> DEFINE D == DOMAIN GlLines[v]
           K == {KeyOf(GlLines[v][i]) : i \in D}
           T(k) == [voucher |-> v, role |-> "line", mirror |-> FALSE, account |-> k.account,
                    center |-> k.center, party |-> k.party, cancelled |-> FALSE,
                    debit |-> SideTotal(v, k, "debit"), credit |-> SideTotal(v, k, "credit")]
<1>1. IsFiniteSet(D)
  BY GlAssumption
<1>2. \A i \in D : InBase(v, GlLines[v][i])["debit"] \in Int /\ InBase(v, GlLines[v][i])["credit"] \in Int
  <2> SUFFICES ASSUME NEW i \in D
               PROVE  InBase(v, GlLines[v][i])["debit"] \in Int /\ InBase(v, GlLines[v][i])["credit"] \in Int
    OBVIOUS
  <2> DEFINE convert(x) == IF v \in Journals THEN 10 * Cents(x)
                           ELSE IF RateOf[v] = 1000 THEN x
                           ELSE 10 * Nearest(x * RateOf[v], 10000)
  <2>1. ASSUME NEW x \in Int PROVE convert(x) \in Int
    <3>1. RateOf[v] \in Int /\ 10000 \in Nat \ {0}
      BY GlAssumption
    <3>2. x * RateOf[v] \in Int
      BY <3>1
    <3>3. Cents(x) \in Int /\ Nearest(x * RateOf[v], 10000) \in Int
      BY <3>1, <3>2, CentsIsInt, NearestIsInt
    <3> QED BY <3>3
  <2>2. /\ DOMAIN GlLines[v][i] = {"account", "center", "party", "debit", "credit"}
        /\ GlLines[v][i].debit \in Int /\ GlLines[v][i].credit \in Int
    BY GlAssumption
  <2>3. /\ InBase(v, GlLines[v][i])["debit"] = convert(GlLines[v][i].debit)
        /\ InBase(v, GlLines[v][i])["credit"] = convert(GlLines[v][i].credit)
    BY <2>2 DEF InBase
  <2> HIDE DEF convert
  <2> QED BY <2>1, <2>2, <2>3
<1>3. ASSUME NEW k, NEW side \in {"debit", "credit"} PROVE SideTotal(v, k, side) \in Int
  <2> DEFINE lines == {i \in D : KeyOf(GlLines[v][i]) = k}
             f == [i \in lines |-> InBase(v, GlLines[v][i])[side]]
  <2>1. IsFiniteSet(lines)
    BY <1>1, FS_Subset
  <2>2. \A i \in lines : f[i] \in Int
    BY <1>2
  <2> HIDE DEF f
  <2>3. SumFunctionOnSet(f, lines) \in Int
    BY <2>1, <2>2, SumIsNumber
  <2> QED BY <2>3 DEF f, SideTotal
<1>4. IsFiniteSet(K)
  <2> DEFINE key == [i \in D |-> KeyOf(GlLines[v][i])]
  <2>1. IsFiniteSet({key[i] : i \in D})
    <3> HIDE DEF key
    <3> QED BY <1>1, FiniteImage
  <2> QED BY <2>1
<1>5. IsFiniteSet({T(k) : k \in K})
  <2> DEFINE t == [k \in K |-> T(k)]
  <2>1. IsFiniteSet({t[k] : k \in K})
    <3> HIDE DEF t, K
    <3> QED BY <1>4, FiniteImage
  <2>2. {t[k] : k \in K} = {T(k) : k \in K}
    <3> HIDE DEF T, K
    <3> QED OBVIOUS
  <2> QED BY <2>1, <2>2
<1>6. Merged(v) \in SUBSET {T(k) : k \in K}
  BY DEF Merged
<1>7. \A e \in Merged(v) : IsEntry(e) /\ e.voucher = v /\ e.role = "line" /\ e.cancelled = FALSE /\ e.mirror = FALSE
  <2> SUFFICES ASSUME NEW k \in K
               PROVE  IsEntry(T(k)) /\ T(k).voucher = v /\ T(k).role = "line"
                      /\ T(k).cancelled = FALSE /\ T(k).mirror = FALSE
    BY <1>6
  <2>1. SideTotal(v, k, "debit") \in Int /\ SideTotal(v, k, "credit") \in Int
    BY <1>3
  <2>2. PICK a, c, p, d, r : /\ d = SideTotal(v, k, "debit") /\ r = SideTotal(v, k, "credit")
                             /\ a = k.account /\ c = k.center /\ p = k.party
    OBVIOUS
  <2>3. PICK x : /\ x = T(k)
                 /\ x = [voucher |-> v, role |-> "line", mirror |-> FALSE, account |-> a, center |-> c,
                         party |-> p, cancelled |-> FALSE, debit |-> d, credit |-> r]
    BY <2>2
  <2> HIDE DEF T, K
  <2>4. IsEntry(x)
    BY <2>1, <2>2, <2>3, EntryRecord
  <2> QED BY <2>3, <2>4
<1> HIDE DEF T, K
<1>8. IsFiniteSet(Merged(v))
  BY <1>5, <1>6, FS_Subset
<1> QED BY <1>7, <1>8

\* What is posted for a voucher: lines and, unless they are equal, the round-off.
LEMMA LinesAreEntries ==
    ASSUME NEW v \in GlVouchers
    PROVE  Entries(Processed(v)) /\ \A e \in Processed(v) : /\ e.voucher = v /\ e.role = "line"
                                                            /\ e.cancelled = FALSE /\ e.mirror = FALSE
<1>1. ASSUME NEW e \in Merged(v)
      PROVE  /\ IsEntry(Toggled(e)) /\ Toggled(e).voucher = v /\ Toggled(e).role = "line"
             /\ Toggled(e).cancelled = FALSE /\ Toggled(e).mirror = FALSE
  <2>1. e.debit \in Int /\ e.credit \in Int
    BY MergedLines DEF IsEntry
  <2>2. PICK a, b : a \in Int /\ b \in Int /\ Toggled(e) = [e EXCEPT !.debit = Cents(a), !.credit = Cents(b)]
    <3> DEFINE onCredit == IF e.debit < 0 THEN e.credit - e.debit ELSE e.credit
               onDebit == IF e.debit < 0 THEN 0 ELSE e.debit
    <3>1. onCredit \in Int /\ onDebit \in Int
      BY <2>1
    <3>2. Toggled(e) = [e EXCEPT !.debit = Cents(IF onCredit < 0 THEN onDebit - onCredit ELSE onDebit),
                                 !.credit = Cents(IF onCredit < 0 THEN 0 ELSE onCredit)]
      BY DEF Toggled
    <3> HIDE DEF onCredit, onDebit
    <3>3. (IF onCredit < 0 THEN onDebit - onCredit ELSE onDebit) \in Int
          /\ (IF onCredit < 0 THEN 0 ELSE onCredit) \in Int
      BY <3>1
    <3> QED BY <3>2, <3>3
  <2>3. Cents(a) \in Int /\ Cents(b) \in Int
    BY <2>2, CentsIsInt
  <2>4. PICK x : x = Toggled(e)
    OBVIOUS
  <2>5. /\ {"debit", "credit"} \subseteq EntryFields /\ e = [n \in EntryFields |-> e[n]]
        /\ x = [e EXCEPT !.debit = Cents(a), !.credit = Cents(b)]
    BY MergedLines, <2>2, <2>4 DEF IsEntry, EntryFields
  <2>6. x = [n \in EntryFields |-> x[n]]
    BY <2>5
  <2>7. /\ x.voucher = e.voucher /\ x.mirror = e.mirror /\ x.cancelled = e.cancelled
        /\ x.role = e.role /\ x.debit = Cents(a) /\ x.credit = Cents(b)
    BY <2>5 DEF EntryFields
  <2>8. /\ e.voucher = v /\ e.role = "line" /\ e.cancelled = FALSE /\ e.mirror = FALSE
    BY MergedLines
  <2> QED BY <2>3, <2>4, <2>6, <2>7, <2>8 DEF IsEntry
<1>2. IsFiniteSet(Processed(v))
  <2> DEFINE t == [e \in Merged(v) |-> Toggled(e)]
  <2>0. IsFiniteSet(Merged(v))
    BY MergedLines
  <2>1. IsFiniteSet({t[e] : e \in Merged(v)})
    <3> HIDE DEF t
    <3> QED BY <2>0, FiniteImage
  <2>2. {t[e] : e \in Merged(v)} = Processed(v)
    BY DEF Processed
  <2> QED BY <2>1, <2>2
<1> QED BY <1>1, <1>2 DEF Processed, Entries

\* What a voucher posts, with its line for the rounding, balances.
LEMMA PostingBalances ==
    ASSUME NEW v \in GlVouchers PROVE Balanced(WithRoundOff(v), v)
<1> DEFINE diff == Difference(Processed(v))
           r == RoundOffLine(v, diff)
<1>1. diff \in Int
  BY LinesAreEntries, DifferenceIsInt
<1>2. CASE diff = 0 \/ RoundOff = NoAccount
  BY <1>2, LinesAreEntries DEF WithRoundOff, Balanced
<1>3. CASE ~(diff = 0 \/ RoundOff = NoAccount)
  <2>1. WithRoundOff(v) = Processed(v) \cup {r}
    BY <1>3 DEF WithRoundOff
  <2> HIDE DEF diff
  <2>2. /\ IsEntry(r) /\ r.voucher = v /\ r.role = "roundoff" /\ r.cancelled = FALSE /\ r.mirror = FALSE
        /\ r.debit - r.credit = -diff
    <3>1. PICK d, c : /\ d = (IF diff < 0 THEN -diff ELSE 0) /\ c = (IF diff > 0 THEN diff ELSE 0)
                      /\ d \in Int /\ c \in Int /\ d - c = -diff
      BY <1>1
    <3>2. r = [voucher |-> v, role |-> "roundoff", mirror |-> FALSE, account |-> RoundOff,
               center |-> NoCenter, party |-> NoParty, cancelled |-> FALSE, debit |-> d, credit |-> c]
      BY <3>1 DEF RoundOffLine
    <3> HIDE DEF r
    <3>3. IsEntry(r)
      BY <3>1, <3>2, EntryRecord
    <3> QED BY <3>1, <3>2, <3>3
  <2> HIDE DEF r
  <2>3. r \notin Processed(v)
    BY <2>2, LinesAreEntries
  <2>4. Entries(Processed(v) \cup {r}) /\ Difference(Processed(v) \cup {r}) = diff + r.debit - r.credit
    <3>1. PICK P : P = Processed(v)
      OBVIOUS
    <3>2. Entries(P) /\ IsEntry(r) /\ r \notin P
      BY <2>2, <2>3, <3>1, LinesAreEntries
    <3>3. Entries(P \cup {r}) /\ Difference(P \cup {r}) = Difference(P) + r.debit - r.credit
      BY <3>2, DifferenceOfOneMore
    <3> QED BY <3>1, <3>3 DEF diff
  <2>5. diff + r.debit - r.credit = 0
    BY <1>1, <2>2 DEF IsEntry
  <2> QED BY <2>1, <2>2, <2>4, <2>5, LinesAreEntries DEF Balanced
<1> QED BY <1>2, <1>3

-----------------------------------------------------------------------------
\* A ledger as it is set up.
LEMMA LedgerStarts == GlInit => LedgerInv
<1> SUFFICES ASSUME GlInit PROVE LedgerInv
  OBVIOUS
<1>1. GlTypes
  BY FS_EmptySet DEF GlInit, GlTypes, Calm, Entries
<1>2. TillsReady
  BY DEF GlInit, TillsReady
<1>3. BooksBalance
  BY DEF GlInit, BooksBalance, VoucherEntries
<1> QED BY <1>1, <1>2, <1>3 DEF LedgerInv

\* Every step keeps the ledger in order.
LEMMA LedgerStep == LedgerInv /\ [GlNext]_glVars => LedgerInv'
<1> SUFFICES ASSUME LedgerInv, [GlNext]_glVars PROVE LedgerInv'
  OBVIOUS
<1> USE DEF LedgerInv
<1>0. NoGlVoucher \notin GlVouchers /\ Calm.doc = NoGlVoucher
  BY GlAssumption DEF Calm
<1>1. ASSUME NEW t \in Tills, NEW v \in GlVouchers, StartPosting(t, v) PROVE LedgerInv'
  <2>1. /\ till[t] = Calm /\ posting[v] = "draft" /\ \A u \in Tills : till[u].doc # v
        /\ till' = [till EXCEPT ![t] = [doc |-> v, entries |-> WithRoundOff(v),
                                        todo |-> WithRoundOff(v), locked |-> {}]]
        /\ posting' = posting /\ glEntries' = glEntries
    BY <1>1 DEF StartPosting, Handled
  <2>2. GlTypes'
    BY <2>1 DEF GlTypes
  <2>3. /\ till'[t].doc = v /\ till'[t].entries = WithRoundOff(v)
        /\ \A u \in Tills \ {t} : till'[u] = till[u]
    BY <2>1 DEF GlTypes
  <2>4. Balanced(WithRoundOff(v), v)
    BY PostingBalances
  <2>5. TillsReady'
    BY <2>1, <2>3, <2>4 DEF TillsReady
  <2>6. BooksBalance'
    BY <2>1 DEF BooksBalance, VoucherEntries
  <2> QED BY <2>2, <2>5, <2>6
<1>2. ASSUME NEW t \in Tills, NEW e \in till[t].todo, CheckBudget(t, e) PROVE LedgerInv'
  <2>1. PICK L : /\ till' = [till EXCEPT ![t].todo = @ \ {e}, ![t].locked = L]
                 /\ posting' = posting /\ glEntries' = glEntries
    BY <1>2 DEF CheckBudget
  <2>2. GlTypes'
    BY <2>1 DEF GlTypes
  <2>3. /\ till'[t].doc = till[t].doc /\ till'[t].entries = till[t].entries
        /\ \A u \in Tills \ {t} : till'[u] = till[u]
        /\ till[t] # Calm
    BY <1>2, <2>1 DEF GlTypes, Calm
  <2>4. TillsReady'
    <3>1. \A u \in Tills : /\ till'[u].doc = till[u].doc /\ till'[u].entries = till[u].entries
                           /\ till'[u] # Calm => till[u] # Calm
      BY <2>3
    <3>2. posting' = posting
      BY <2>1
    <3> QED BY <3>1, <3>2 DEF TillsReady
  <2>5. BooksBalance'
    BY <2>1 DEF BooksBalance, VoucherEntries
  <2> QED BY <2>2, <2>4, <2>5
<1>3. ASSUME NEW t \in Tills, CommitPosting(t) PROVE LedgerInv'
  <2>3. PICK v, E : v = till[t].doc /\ E = till[t].entries
    OBVIOUS
  <2>1. /\ v \in GlVouchers /\ posting[v] = "draft" /\ Balanced(E, v)
        /\ \A u \in Tills : u # t /\ till[u] # Calm => till[u].doc # v
    BY <1>3, <2>3 DEF CommitPosting, TillsReady
  <2>2. /\ glEntries' = glEntries \cup E
        /\ posting' = [posting EXCEPT ![v] = "posted"]
        /\ till' = [till EXCEPT ![t] = Calm]
    BY <1>3, <2>3 DEF CommitPosting
  <2>4. GlTypes'
    <3>1. Entries(glEntries')
      BY <2>1, <2>2, FS_Union DEF GlTypes, Entries, Balanced
    <3> QED BY <2>1, <2>2, <3>1 DEF GlTypes, Calm
  <2>5. TillsReady'
    <3>1. \A u \in Tills : till'[u] = (IF u = t THEN Calm ELSE till[u])
      BY <2>2 DEF GlTypes
    <3>2. \A x \in GlVouchers : x # v => posting'[x] = posting[x]
      BY <2>2 DEF GlTypes
    <3> QED BY <2>1, <3>1, <3>2 DEF TillsReady
  <2>6. BooksBalance'
    <3>1. VoucherEntries(v) = {} /\ \A e \in E : e.voucher = v
      BY <2>1 DEF BooksBalance, Balanced
    <3>2. VoucherEntries(v)' = E
      BY <2>2, <3>1 DEF VoucherEntries
    <3>3. \A x \in GlVouchers : x # v => VoucherEntries(x)' = VoucherEntries(x) /\ posting'[x] = posting[x]
      BY <2>2, <3>1 DEF VoucherEntries, GlTypes
    <3>4. posting'[v] = "posted"
      BY <2>1, <2>2 DEF GlTypes
    <3> QED BY <2>1, <3>2, <3>3, <3>4 DEF BooksBalance
  <2> QED BY <2>4, <2>5, <2>6
<1>4. ASSUME NEW t \in Tills, AbortPosting(t) PROVE LedgerInv'
  <2>1. till' = [till EXCEPT ![t] = Calm] /\ posting' = posting /\ glEntries' = glEntries
    BY <1>4 DEF AbortPosting
  <2>2. GlTypes'
    BY <2>1 DEF GlTypes, Calm
  <2>3. \A u \in Tills : till'[u] = (IF u = t THEN Calm ELSE till[u])
    BY <2>1 DEF GlTypes
  <2>4. TillsReady'
    BY <2>1, <2>3 DEF TillsReady
  <2>5. BooksBalance'
    BY <2>1 DEF BooksBalance, VoucherEntries
  <2> QED BY <2>2, <2>4, <2>5
<1>5. ASSUME NEW v \in GlVouchers, CancelPosting(v) PROVE LedgerInv'
  <2> DEFINE M == VoucherEntries(v)
             Left == {Struck(e) : e \in M} \cup {Mirrored(e) : e \in M}
  <2>1. /\ posting[v] = "posted"
        /\ glEntries' = (glEntries \ M) \cup Left
        /\ posting' = [posting EXCEPT ![v] = "cancelled"]
        /\ till' = till
    BY <1>5 DEF CancelPosting
  <2>2. Balanced(M, v)
    BY <2>1 DEF BooksBalance
  <2>3. Entries(Left) /\ Undone(Left) /\ \A e \in Left : e.voucher = v
    BY <2>2, CancelUndoes DEF Balanced
  <2> HIDE DEF Left
  <2>4. GlTypes'
    <3>1. Entries(glEntries \ M)
      BY FS_Difference DEF GlTypes, Entries
    <3>2. Entries(glEntries')
      BY <2>1, <2>3, <3>1, FS_Union DEF Entries
    <3> QED BY <2>1, <3>2 DEF GlTypes
  <2>5. TillsReady'
    BY <2>1 DEF TillsReady, GlTypes
  <2>6. BooksBalance'
    <3>1. VoucherEntries(v)' = Left
      BY <2>1, <2>3 DEF VoucherEntries
    <3>2. \A x \in GlVouchers : x # v => VoucherEntries(x)' = VoucherEntries(x) /\ posting'[x] = posting[x]
      BY <2>1, <2>3 DEF VoucherEntries, GlTypes
    <3>3. posting'[v] = "cancelled"
      BY <2>1 DEF GlTypes
    <3> QED BY <2>3, <3>1, <3>2, <3>3 DEF BooksBalance
  <2> QED BY <2>4, <2>5, <2>6
<1>6. CASE UNCHANGED glVars
  BY <1>6 DEF glVars, GlTypes, TillsReady, BooksBalance, VoucherEntries
<1> QED BY <1>1, <1>2, <1>3, <1>4, <1>5, <1>6 DEF GlNext

\* "total debits MUST equal total credits for every voucher" (general_ledger.py):
\* with a round-off account, whatever was rounded, converted, merged or cancelled.
LEMMA LedgerBalances == LedgerInv => EveryVoucherBalances
<1> SUFFICES ASSUME LedgerInv, RoundOff # NoAccount, NEW v \in GlVouchers
             PROVE  LET mine == VoucherEntries(v)
                    IN  /\ Difference(mine) = 0 /\ Difference(Live(mine)) = 0
                        /\ posting[v] = "cancelled" =>
                              /\ Live(mine) = {}
                              /\ \A account \in {e.account : e \in mine} :
                                    Difference({e \in mine : e.account = account}) = 0
  BY DEF EveryVoucherBalances
<1> USE DEF LedgerInv, BooksBalance
<1>1. CASE posting[v] = "draft"
  BY <1>1, NoDifference DEF Live
<1>2. CASE posting[v] = "posted"
  <2>1. Balanced(VoucherEntries(v), v)
    BY <1>2
  <2>2. Live(VoucherEntries(v)) = VoucherEntries(v)
    BY <2>1 DEF Balanced, Live
  <2> QED BY <1>2, <2>1, <2>2 DEF Balanced
<1>3. CASE posting[v] = "cancelled"
  <2>1. Undone(VoucherEntries(v))
    BY <1>3
  <2>2. Live(VoucherEntries(v)) = {}
    BY <2>1 DEF Undone, Live
  <2> QED BY <2>1, <2>2, NoDifference DEF Undone
<1> QED BY <1>1, <1>2, <1>3 DEF GlTypes

\* Every voucher in the general ledger balances to the cent, whatever is posted,
\* cancelled and posted again, for any accounts, budgets, tills and amounts.
THEOREM VouchersBalance == GlSpec => []EveryVoucherBalances
<1>1. GlSpec => []LedgerInv
  BY LedgerStarts, LedgerStep, PTL DEF GlSpec
<1> QED BY <1>1, LedgerBalances, PTL

-----------------------------------------------------------------------------
\* GeneralLedger: budgets.  The locks of a request keep the room that its checks found; what
\* a voucher debits beyond its largest line is what its own checks could not see.

\* Entries that are written: neither side is negative.
Positive(E) == Entries(E) /\ \A e \in E : e.debit >= 0 /\ e.credit >= 0

\* The two sides of an account.
LEMMA SidesOf ==
    ASSUME NEW E, Entries(E)
    PROVE  /\ SumDebits(E) \in Int /\ SumCredits(E) \in Int
           /\ Difference(E) = SumDebits(E) - SumCredits(E)
<1> DEFINE d == [e \in E |-> e.debit]
           c == [e \in E |-> e.credit]
           n == [e \in E |-> -e.credit]
           f == [e \in E |-> e.debit - e.credit]
           z == [e \in E |-> 0]
<1>1. /\ IsFiniteSet(E)
      /\ \A e \in E : /\ d[e] \in Int /\ c[e] \in Int /\ n[e] \in Int /\ f[e] \in Int
                      /\ f[e] = d[e] + n[e] /\ z[e] = c[e] + n[e] /\ z[e] = 0
  BY DEF Entries, IsEntry
<1>2. SumDebits(E) = SumFunctionOnSet(d, E) /\ SumCredits(E) = SumFunctionOnSet(c, E)
      /\ Difference(E) = SumFunctionOnSet(f, E)
  BY DEF SumDebits, SumCredits, Difference
<1> HIDE DEF d, c, n, f, z
<1>3. SumFunctionOnSet(f, E) = SumFunctionOnSet(d, E) + SumFunctionOnSet(n, E)
  BY <1>1, SumOfSums
<1>4. SumFunctionOnSet(z, E) = SumFunctionOnSet(c, E) + SumFunctionOnSet(n, E)
  BY <1>1, SumOfSums
<1>5. SumFunctionOnSet(z, E) = 0
  BY <1>1, SumOfZeros
<1>6. SumFunctionOnSet(d, E) \in Int /\ SumFunctionOnSet(c, E) \in Int /\ SumFunctionOnSet(n, E) \in Int
  BY <1>1, SumIsNumber
<1> QED BY <1>2, <1>3, <1>4, <1>5, <1>6

\* Accounts add up.
LEMMA SumsJoin ==
    ASSUME NEW E, NEW F, Entries(E), Entries(F), E \cap F = {}
    PROVE  /\ Entries(E \cup F)
           /\ SumDebits(E \cup F) = SumDebits(E) + SumDebits(F)
           /\ SumCredits(E \cup F) = SumCredits(E) + SumCredits(F)
           /\ Difference(E \cup F) = Difference(E) + Difference(F)
<1> DEFINE U == E \cup F
           d == [e \in U |-> e.debit]   dE == [e \in E |-> e.debit]   dF == [e \in F |-> e.debit]
           c == [e \in U |-> e.credit]  cE == [e \in E |-> e.credit]  cF == [e \in F |-> e.credit]
<1>1. Entries(U)
  BY FS_Union DEF Entries
<1>2. /\ IsFiniteSet(U) /\ IsFiniteSet(E) /\ IsFiniteSet(F) /\ E \in SUBSET U /\ U \ E = F
      /\ \A e \in U : d[e] \in Int /\ c[e] \in Int
      /\ \A e \in E : dE[e] = d[e] /\ cE[e] = c[e] /\ d[e] \in Int /\ c[e] \in Int
      /\ \A e \in F : dF[e] = d[e] /\ cF[e] = c[e] /\ d[e] \in Int /\ c[e] \in Int
  BY <1>1 DEF Entries, IsEntry
<1>3. /\ SumDebits(U) = SumFunctionOnSet(d, U) /\ SumCredits(U) = SumFunctionOnSet(c, U)
      /\ SumDebits(E) = SumFunctionOnSet(dE, E) /\ SumCredits(E) = SumFunctionOnSet(cE, E)
      /\ SumDebits(F) = SumFunctionOnSet(dF, F) /\ SumCredits(F) = SumFunctionOnSet(cF, F)
  BY DEF SumDebits, SumCredits
<1> HIDE DEF U, d, dE, dF, c, cE, cF
<1>4. SumFunctionOnSet(d, U) = SumFunctionOnSet(d, E) + SumFunctionOnSet(d, F)
  BY <1>2, SumParts
<1>5. SumFunctionOnSet(c, U) = SumFunctionOnSet(c, E) + SumFunctionOnSet(c, F)
  BY <1>2, SumParts
<1>6. SumFunctionOnSet(dE, E) = SumFunctionOnSet(d, E) /\ SumFunctionOnSet(dF, F) = SumFunctionOnSet(d, F)
  BY <1>2, SumSame
<1>7. SumFunctionOnSet(cE, E) = SumFunctionOnSet(c, E) /\ SumFunctionOnSet(cF, F) = SumFunctionOnSet(c, F)
  BY <1>2, SumSame
<1>8. SumDebits(U) = SumDebits(E) + SumDebits(F) /\ SumCredits(U) = SumCredits(E) + SumCredits(F)
  BY <1>3, <1>4, <1>5, <1>6, <1>7
<1>9. Difference(U) = Difference(E) + Difference(F)
  BY <1>1, <1>8, SidesOf
<1> QED BY <1>1, <1>8, <1>9 DEF U

\* No side of an account is negative, and part of it is not more than the whole.
LEMMA PositiveSums ==
    ASSUME NEW E, Positive(E)
    PROVE  SumDebits(E) \in Nat /\ SumCredits(E) \in Nat
<1> DEFINE d == [e \in E |-> e.debit]
           c == [e \in E |-> e.credit]
<1>1. IsFiniteSet(E) /\ \A e \in E : d[e] \in Nat /\ c[e] \in Nat
  BY DEF Positive, Entries, IsEntry
<1> HIDE DEF d, c
<1>2. SumFunctionOnSet(d, E) \in Nat /\ SumFunctionOnSet(c, E) \in Nat
  BY <1>1, SumNotNegative
<1> QED BY <1>2 DEF SumDebits, SumCredits, d, c

\* A part of entries without negative amounts has none either.
LEMMA PartPositive ==
    ASSUME NEW E, NEW F, Positive(E), F \subseteq E
    PROVE  Positive(F) /\ Positive(E \ F)
BY FS_Subset DEF Positive, Entries

\* It adds up to no more than the whole.
LEMMA PartOfSums ==
    ASSUME NEW E, NEW F, Positive(E), F \subseteq E
    PROVE  SumDebits(F) <= SumDebits(E) /\ SumCredits(F) <= SumCredits(E)
<1>1. Positive(F) /\ Positive(E \ F) /\ F \cap (E \ F) = {} /\ F \cup (E \ F) = E
  BY PartPositive
<1>2. SumDebits(E) = SumDebits(F) + SumDebits(E \ F) /\ SumCredits(E) = SumCredits(F) + SumCredits(E \ F)
  BY <1>1, SumsJoin DEF Positive
<1>3. /\ SumDebits(F) \in Nat /\ SumDebits(E \ F) \in Nat
      /\ SumCredits(F) \in Nat /\ SumCredits(E \ F) \in Nat
  BY <1>1, PositiveSums
<1> QED BY <1>2, <1>3

\* Lines without a debit debit nothing.
LEMMA NoDebits ==
    ASSUME NEW E, Entries(E), \A e \in E : e.debit = 0 PROVE SumDebits(E) = 0
<1> DEFINE d == [e \in E |-> e.debit]
<1>1. IsFiniteSet(E) /\ \A e \in E : d[e] = 0
  BY DEF Entries
<1> HIDE DEF d
<1>2. SumFunctionOnSet(d, E) = 0
  BY <1>1, SumOfZeros
<1> QED BY <1>2 DEF SumDebits, d

\* Striking entries off leaves what they credit.
LEMMA StruckCredits ==
    ASSUME NEW M, Entries(M), \A e \in M : e.cancelled = FALSE
    PROVE  SumCredits({Struck(e) : e \in M}) = SumCredits(M)
<1> DEFINE s == [e \in M |-> Struck(e)]
           S == {s[e] : e \in M}
           f == [e \in S |-> e.credit]
           g == [e \in M |-> e.credit]
<1>1. S = {Struck(e) : e \in M}
  OBVIOUS
<1>2. \A x, y \in M : s[x] = s[y] => x = y
  <2> SUFFICES ASSUME NEW x \in M, NEW y \in M, s[x] = s[y] PROVE x = y
    OBVIOUS
  <2>1. /\ Struck(x) = Struck(y) /\ x.cancelled = y.cancelled
        /\ x = [n \in EntryFields |-> x[n]] /\ y = [n \in EntryFields |-> y[n]]
    BY DEF Entries, IsEntry
  <2>2. ASSUME NEW n \in EntryFields PROVE x[n] = y[n]
    <3>1. CASE n = "cancelled"
      BY <2>1, <3>1
    <3>2. CASE n # "cancelled"
      <4>1. Struck(x)[n] = x[n] /\ Struck(y)[n] = y[n]
        BY <2>1, <3>2 DEF Struck
      <4> QED BY <2>1, <4>1
    <3> QED BY <3>1, <3>2
  <2> QED BY <2>1, <2>2
<1>3. \A e \in M : Struck(e).credit = e.credit
  <2> SUFFICES ASSUME NEW e \in M PROVE Struck(e).credit = e.credit
    OBVIOUS
  <2>1. e = [n \in EntryFields |-> e[n]] /\ "credit" \in EntryFields
    BY DEF Entries, IsEntry, EntryFields
  <2> QED BY <2>1 DEF Struck
<1>4. /\ IsFiniteSet(M) /\ \A e \in M : g[e] \in Int /\ s[e] \in S /\ f[s[e]] = g[e]
  BY <1>3 DEF Entries, IsEntry
<1>5. SumCredits(S) = SumFunctionOnSet(f, S) /\ SumCredits(M) = SumFunctionOnSet(g, M)
  BY DEF SumCredits
<1>6. PICK T : T = S
  OBVIOUS
<1> HIDE DEF s, f, g
<1>7. SumFunctionOnSet(f, {s[e] : e \in M}) = SumFunctionOnSet(g, M)
  BY <1>2, <1>4, SumRenamed
<1> QED BY <1>1, <1>5, <1>7

\* The largest of finitely many numbers.
LEMMA LargestOf ==
    ASSUME NEW S, IsFiniteSet(S), S # {}, \A x \in S : x \in Int
    PROVE  Max(S) \in S /\ \A x \in S : x <= Max(S)
<1> DEFINE F == {T \in SUBSET S : T = {} \/ \E x \in T : \A y \in T : x >= y}
<1>1. {} \in F
  OBVIOUS
<1>2. ASSUME NEW T \in F, NEW x \in S \ T PROVE T \cup {x} \in F
  <2>1. CASE T = {}
    BY <2>1
  <2>2. CASE T # {}
    <3>1. PICK m \in T : \A y \in T : m >= y
      BY <2>2
    <3>2. CASE x <= m
      BY <3>1, <3>2
    <3>3. CASE x > m
      <4>1. x \in T \cup {x} /\ \A y \in T \cup {x} : x >= y
        BY <3>1, <3>3
      <4> QED BY <4>1
    <3>4. x \in Int /\ m \in Int
      OBVIOUS
    <3> QED BY <3>2, <3>3, <3>4
  <2> QED BY <2>1, <2>2
<1> HIDE DEF F
<1>3. S \in F
  BY <1>1, <1>2, SetInduction
<1>4. \E x \in S : \A y \in S : x >= y
  BY <1>3 DEF F
<1>5. Max(S) \in S /\ \A y \in S : Max(S) >= y
  BY <1>4 DEF Max
<1> QED BY <1>5

\* What was not seen when the lines of a voucher were checked: all but one of them.
LEMMA UnseenIsRest ==
    ASSUME NEW E, Positive(E)
    PROVE  /\ Unseen(E) \in Nat /\ Unseen(E) <= SumDebits(E)
           /\ E # {} => \E e \in E : Unseen(E) = SumDebits(E) - e.debit
<1>1. SumDebits(E) \in Nat
  BY PositiveSums
<1>2. CASE E = {}
  BY <1>1, <1>2 DEF Unseen
<1>3. CASE E # {}
  <2> DEFINE d == [e \in E |-> e.debit]
             S == {d[e] : e \in E}
  <2>1. S = {e.debit : e \in E} /\ S # {} /\ \A x \in S : x \in Int
    BY <1>3 DEF Positive, Entries, IsEntry
  <2>2. IsFiniteSet(S)
    <3> HIDE DEF d
    <3> QED BY FiniteImage DEF Positive, Entries
  <2>3. Max(S) \in S
    BY <2>1, <2>2, LargestOf
  <2>4. PICK e \in E : e.debit = Max(S)
    BY <2>3
  <2>5. Unseen(E) = SumDebits(E) - e.debit
    BY <1>3, <2>1, <2>4 DEF Unseen
  <2>6. SumDebits(E) >= e.debit /\ e.debit >= 0 /\ e.debit \in Int
    <3>1. Positive(E \ {e})
      BY PartPositive
    <3>2. SumDebits(E \ {e}) \in Nat
      BY <3>1, PositiveSums
    <3>3. SumDebits(E) = e.debit + SumDebits(E \ {e})
      <4> DEFINE g == [x \in E |-> x.debit]
                 h == [x \in E \ {e} |-> x.debit]
      <4>1. /\ IsFiniteSet(E) /\ IsFiniteSet(E \ {e}) /\ \A x \in E : g[x] \in Int
            /\ \A x \in E \ {e} : g[x] \in Int /\ h[x] = g[x]
            /\ g[e] = e.debit
        BY <3>1 DEF Positive, Entries, IsEntry
      <4>2. SumDebits(E) = SumFunctionOnSet(g, E) /\ SumDebits(E \ {e}) = SumFunctionOnSet(h, E \ {e})
        BY DEF SumDebits
      <4> HIDE DEF g, h, d, S
      <4>3. SumFunctionOnSet(g, E) = g[e] + SumFunctionOnSet(g, E \ {e})
        BY <4>1, SumRemove
      <4>4. SumFunctionOnSet(h, E \ {e}) = SumFunctionOnSet(g, E \ {e})
        BY <4>1, SumSame
      <4> QED BY <4>1, <4>2, <4>3, <4>4
    <3>4. e.debit \in Int /\ e.debit >= 0
      BY DEF Positive, Entries, IsEntry
    <3> QED BY <3>2, <3>3, <3>4
  <2> QED BY <1>1, <1>3, <2>5, <2>6
<1> QED BY <1>2, <1>3

-----------------------------------------------------------------------------
Charged(b, G) == Booked(b, Live(G))
TakenBack(b, G) == {e \in Booked(b, G) : e.cancelled /\ ~e.mirror}
Elsewhere(b, G) == {e \in G : e.account = b.account /\ e.center # b.center /\ ~e.mirror}
LinesOn(b, v, G) == {e \in Charged(b, G) : e.voucher = v /\ e.debit > 0}
Alone(b, G) == SumFunctionOnSet([v \in GlVouchers |-> Unseen(LinesOn(b, v, G))], GlVouchers)

\* What a budget leaves, as the code counts it.
Room(b, G) ==
    b.limit + SumCredits(TakenBack(b, G)) + SumCredits(Elsewhere(b, G)) - Difference(Charged(b, G))

Stops(b) == b.action = "Stop" /\ b.account \in Expenses
Bites(b, e) == Stops(b) /\ e.account = b.account /\ e.center = b.center /\ e.debit > 0

WrittenRows(G) == Positive(G) /\ \A e \in G : e.mirror => e.cancelled

\* So do the parts a budget is compared with.
LEMMA PartsWritten ==
    ASSUME NEW G, WrittenRows(G), NEW b, NEW v
    PROVE  /\ Positive(Charged(b, G)) /\ Positive(TakenBack(b, G)) /\ Positive(Elsewhere(b, G))
           /\ Positive(LinesOn(b, v, G)) /\ Positive(Booked(b, G))
<1>1. /\ Charged(b, G) \subseteq G /\ TakenBack(b, G) \subseteq G /\ Elsewhere(b, G) \subseteq G
      /\ LinesOn(b, v, G) \subseteq G /\ Booked(b, G) \subseteq G
  BY DEF Charged, TakenBack, Elsewhere, LinesOn, Booked, Live
<1> QED BY <1>1, PartPositive DEF WrittenRows

\* What is left of a budget is a number.
LEMMA RoomIsInt ==
    ASSUME NEW G, WrittenRows(G), NEW b \in Budgets
    PROVE  /\ Room(b, G) \in Int /\ SumCredits(TakenBack(b, G)) \in Nat /\ SumCredits(Elsewhere(b, G)) \in Nat
           /\ Difference(Charged(b, G)) \in Int /\ b.limit \in Nat
<1>1. SumCredits(TakenBack(b, G)) \in Nat /\ SumCredits(Elsewhere(b, G)) \in Nat
  BY PartsWritten, PositiveSums
<1>2. Difference(Charged(b, G)) \in Int
  BY PartsWritten, DifferenceIsInt DEF Positive
<1>3. b.limit \in Nat
  BY GlAssumption
<1> QED BY <1>1, <1>2, <1>3 DEF Room

\* So is what a budget cannot see.
LEMMA AloneIsNat ==
    ASSUME NEW G, WrittenRows(G), NEW b
    PROVE  Alone(b, G) \in Nat /\ \A v \in GlVouchers : Unseen(LinesOn(b, v, G)) \in Nat
<1> DEFINE f == [v \in GlVouchers |-> Unseen(LinesOn(b, v, G))]
<1>1. \A v \in GlVouchers : Unseen(LinesOn(b, v, G)) \in Nat
  BY PartsWritten, UnseenIsRest
<1>2. \A v \in GlVouchers : f[v] \in Nat
  BY <1>1
<1> HIDE DEF f
<1>3. SumFunctionOnSet(f, GlVouchers) \in Nat
  BY <1>2, GlAssumption, SumNotNegative
<1> QED BY <1>1, <1>3 DEF Alone, f

\* Only the lines of voucher v change.
LEMMA AloneChanges ==
    ASSUME NEW G, NEW H, WrittenRows(G), WrittenRows(H), NEW b, NEW v \in GlVouchers,
           \A w \in GlVouchers \ {v} : LinesOn(b, w, H) = LinesOn(b, w, G)
    PROVE  Alone(b, H) = Alone(b, G) - Unseen(LinesOn(b, v, G)) + Unseen(LinesOn(b, v, H))
<1> DEFINE f == [w \in GlVouchers |-> Unseen(LinesOn(b, w, G))]
           h == [w \in GlVouchers |-> Unseen(LinesOn(b, w, H))]
<1>1. /\ \A w \in GlVouchers : f[w] \in Int /\ (w # v => h[w] = f[w])
      /\ h[v] \in Int /\ f[v] = Unseen(LinesOn(b, v, G)) /\ h[v] = Unseen(LinesOn(b, v, H))
  BY AloneIsNat
<1> HIDE DEF f, h
<1>2. SumFunctionOnSet(h, GlVouchers) = SumFunctionOnSet(f, GlVouchers) - f[v] + h[v]
  <2>1. IsFiniteSet(GlVouchers) /\ v \in GlVouchers
    BY GlAssumption
  <2>2. \A x \in GlVouchers : f[x] \in Int /\ (x # v => h[x] = f[x])
    BY <1>1
  <2>3. h[v] \in Int
    BY <1>1
  <2> QED BY <2>1, <2>2, <2>3, SumChange
<1> QED BY <1>1, <1>2 DEF Alone, f, h

\* So is what is stored after a posting.
LEMMA PostingWritten ==
    ASSUME NEW G, NEW E, WrittenRows(G), Positive(E), \A e \in E : e.mirror = FALSE
    PROVE  WrittenRows(G \cup E)
BY FS_Union DEF WrittenRows, Positive, Entries

\* A voucher is posted: it takes at most what it debits.
LEMMA RoomAfterPosting ==
    ASSUME NEW G, NEW E, WrittenRows(G), Positive(E), E \cap G = {},
           \A e \in E : e.cancelled = FALSE /\ e.mirror = FALSE, NEW b \in Budgets
    PROVE  /\ Room(b, G \cup E) >= Room(b, G) - SumDebits(Booked(b, E))
           /\ SumDebits(Booked(b, E)) \in Nat
<1>2. Positive(Booked(b, E)) /\ Positive({e \in E : e.account = b.account /\ e.center # b.center})
  BY PartPositive DEF Booked
<1>3. PICK C, B, X, Y : /\ C = Charged(b, G) /\ B = Booked(b, E) /\ X = Elsewhere(b, G)
                        /\ Y = {e \in E : e.account = b.account /\ e.center # b.center}
  OBVIOUS
<1>4. /\ Charged(b, G \cup E) = C \cup B /\ C \cap B = {}
      /\ TakenBack(b, G \cup E) = TakenBack(b, G)
      /\ Elsewhere(b, G \cup E) = X \cup Y /\ X \cap Y = {}
  BY <1>3 DEF Charged, Booked, Live, TakenBack, Elsewhere
<1>5. Positive(C) /\ Positive(B) /\ Positive(X) /\ Positive(Y)
  BY <1>2, <1>3, PartsWritten
<1>6. Difference(C \cup B) = Difference(C) + Difference(B) /\ SumCredits(X \cup Y) = SumCredits(X) + SumCredits(Y)
  BY <1>4, <1>5, SumsJoin DEF Positive
<1>7. Difference(B) = SumDebits(B) - SumCredits(B)
  BY <1>5, SidesOf DEF Positive
<1>8. SumDebits(B) \in Nat /\ SumCredits(B) \in Nat /\ SumCredits(Y) \in Nat /\ SumCredits(X) \in Nat
  BY <1>5, PositiveSums
<1>9. SumCredits(TakenBack(b, G)) \in Nat /\ Difference(C) \in Int /\ b.limit \in Nat
  BY <1>3, RoomIsInt
<1>10. Room(b, G) = b.limit + SumCredits(TakenBack(b, G)) + SumCredits(X) - Difference(C)
  BY <1>3 DEF Room
<1>11. Room(b, G \cup E) = b.limit + SumCredits(TakenBack(b, G)) + SumCredits(X \cup Y) - Difference(C \cup B)
  BY <1>4 DEF Room
<1> QED BY <1>3, <1>6, <1>7, <1>8, <1>9, <1>10, <1>11

\* What is stored after a cancel is written as well.
AfterCancel(G, M) == (G \ M) \cup {Struck(e) : e \in M} \cup {Mirrored(e) : e \in M}

\* Striking and mirroring keeps the stored rows well formed.
LEMMA CancelWritten ==
    ASSUME NEW G, NEW M, WrittenRows(G), M \subseteq G PROVE WrittenRows(AfterCancel(G, M))
<1> DEFINE S == {Struck(e) : e \in M}
           R == {Mirrored(e) : e \in M}
           H == (G \ M) \cup S \cup R
<1>1. \A e \in M : IsEntry(e) /\ (e.mirror => e.cancelled)
  BY DEF WrittenRows, Positive, Entries
<1>3. Positive(M) /\ Positive(G \ M)
  BY PartPositive DEF WrittenRows
<1>4. IsFiniteSet(S) /\ IsFiniteSet(R)
  <2> DEFINE s == [e \in M |-> Struck(e)]
             r == [e \in M |-> Mirrored(e)]
  <2>1. S = {s[e] : e \in M} /\ R = {r[e] : e \in M}
    OBVIOUS
  <2>2. IsFiniteSet(M)
    BY <1>3 DEF Positive, Entries
  <2> HIDE DEF s, r, S, R
  <2>3. IsFiniteSet({s[e] : e \in M})
    BY <2>2, FiniteImage
  <2>4. IsFiniteSet({r[e] : e \in M})
    BY <2>2, FiniteImage
  <2> QED BY <2>1, <2>3, <2>4
<1>5. WrittenRows(H)
  <2>1. IsFiniteSet(H)
    BY <1>3, <1>4, FS_Union DEF Positive, Entries
  <2>2. ASSUME NEW x \in H PROVE IsEntry(x) /\ x.debit >= 0 /\ x.credit >= 0 /\ (x.mirror => x.cancelled)
    <3>1. CASE x \in G \ M
      BY <1>3, <3>1 DEF WrittenRows, Positive, Entries
    <3>2. CASE x \in S
      <4>1. PICK e \in M : x = Struck(e)
        BY <3>2
      <4> QED BY <1>1, <1>3, <4>1, StruckEntry DEF Positive
    <3>3. CASE x \in R
      <4>1. PICK e \in M : x = Mirrored(e)
        BY <3>3
      <4> QED BY <1>1, <1>3, <4>1, MirroredEntry DEF Positive
    <3> QED BY <3>1, <3>2, <3>3
  <2> QED BY <2>1, <2>2 DEF WrittenRows, Positive, Entries
<1> QED BY <1>5 DEF AfterCancel

\* M are the entries of voucher v.
IsPosted(v, M, G) ==
    /\ WrittenRows(G) /\ M \subseteq G
    /\ \A e \in M : e.cancelled = FALSE /\ e.mirror = FALSE /\ e.voucher = v
    /\ \A e \in G \ M : e.voucher # v

\* A voucher is cancelled: it gives back what it debited.
LEMMA RoomAfterCancel ==
    ASSUME NEW G, NEW M, NEW v, IsPosted(v, M, G), NEW b \in Budgets, NEW H, H = AfterCancel(G, M)
    PROVE  /\ Room(b, H) = Room(b, G) + SumDebits(Booked(b, M))
           /\ LinesOn(b, v, H) = {} /\ LinesOn(b, v, G) = {e \in Booked(b, M) : e.debit > 0}
           /\ \A w : w # v => LinesOn(b, w, H) = LinesOn(b, w, G)
<1> USE DEF IsPosted
<1> DEFINE S == {Struck(e) : e \in M}
           R == {Mirrored(e) : e \in M}
<1>0. H = (G \ M) \cup S \cup R
  BY DEF AfterCancel
<1>1. \A e \in M : /\ IsEntry(Struck(e)) /\ Struck(e).cancelled = TRUE /\ Struck(e).mirror = FALSE
                   /\ Struck(e).account = e.account /\ Struck(e).center = e.center
                   /\ Struck(e).voucher = e.voucher
                   /\ Struck(e).debit = e.debit /\ Struck(e).credit = e.credit
  BY StruckEntry DEF WrittenRows, Positive, Entries
<1>2. \A e \in M : IsEntry(Mirrored(e)) /\ Mirrored(e).cancelled = TRUE /\ Mirrored(e).mirror = TRUE
  BY MirroredEntry DEF WrittenRows, Positive, Entries
<1>3. Positive(M) /\ Positive(G \ M)
  BY PartPositive DEF WrittenRows
<1>5. WrittenRows(H)
  BY CancelWritten
<1>6. \A x \in S : \E e \in M : x = Struck(e)
  OBVIOUS
<1>7. \A x \in R : \E e \in M : x = Mirrored(e)
  OBVIOUS
<1>8. /\ \A x \in S : x.cancelled = TRUE /\ x.mirror = FALSE /\ x.voucher = v
      /\ \A x \in R : x.cancelled = TRUE /\ x.mirror = TRUE
  BY <1>1, <1>2, <1>6, <1>7
<1>9. PICK B, X, Y : /\ B = Booked(b, M) /\ X = Elsewhere(b, G \ M) /\ Y = Elsewhere(b, M)
                     /\ B \subseteq M /\ Y \subseteq M
  <2>1. Booked(b, M) \subseteq M /\ Elsewhere(b, M) \subseteq M
    BY DEF Booked, Elsewhere
  <2> QED BY <2>1
<1>10. PICK SB, SY : SB = {Struck(e) : e \in B} /\ SY = {Struck(e) : e \in Y}
  OBVIOUS
<1>11. /\ SB \subseteq S /\ SY \subseteq S
       /\ \A x \in S : /\ x.account = b.account /\ x.center = b.center <=> x \in SB
                       /\ x.account = b.account /\ x.center # b.center <=> x \in SY
  <2>1. SB \subseteq S /\ SY \subseteq S
    BY <1>9, <1>10
  <2>2. ASSUME NEW x \in S
        PROVE  /\ x.account = b.account /\ x.center = b.center => x \in SB
               /\ x.account = b.account /\ x.center # b.center => x \in SY
    <3>1. PICK e \in M : x = Struck(e)
      BY <1>6
    <3>2. x.account = e.account /\ x.center = e.center /\ ~e.mirror
      BY <1>1, <3>1
    <3> QED BY <1>9, <1>10, <3>1, <3>2 DEF Booked, Elsewhere
  <2>3. ASSUME NEW x \in SB PROVE x.account = b.account /\ x.center = b.center
    <3>1. PICK e \in B : x = Struck(e)
      BY <1>10
    <3> QED BY <1>1, <1>9, <3>1 DEF Booked
  <2>4. ASSUME NEW x \in SY PROVE x.account = b.account /\ x.center # b.center
    <3>1. PICK e \in Y : x = Struck(e)
      BY <1>10
    <3> QED BY <1>1, <1>9, <3>1 DEF Elsewhere
  <2> QED BY <2>1, <2>2, <2>3, <2>4
<1> HIDE DEF S, R
<1>12. /\ Charged(b, G) = Charged(b, H) \cup B /\ Charged(b, H) \cap B = {}
       /\ TakenBack(b, H) = TakenBack(b, G) \cup SB /\ TakenBack(b, G) \cap SB = {}
       /\ Elsewhere(b, H) = X \cup SY /\ X \cap SY = {}
       /\ Elsewhere(b, G) = X \cup Y /\ X \cap Y = {}
  <2>1. Charged(b, G) = Charged(b, H) \cup B /\ Charged(b, H) \cap B = {}
    BY <1>0, <1>8, <1>9 DEF Charged, Booked, Live
  <2>2. TakenBack(b, H) = TakenBack(b, G) \cup SB
    BY <1>0, <1>8, <1>11 DEF TakenBack, Booked
  <2>3. TakenBack(b, G) \cap SB = {}
    <3>1. \A x \in TakenBack(b, G) : x \in G \ M
      BY DEF TakenBack, Booked
    <3> QED BY <1>8, <1>11, <3>1
  <2>4. Elsewhere(b, H) = X \cup SY
    BY <1>0, <1>8, <1>9, <1>11 DEF Elsewhere
  <2>5. X \cap SY = {}
    <3>1. \A x \in X : x \in G \ M
      BY <1>9 DEF Elsewhere
    <3> QED BY <1>8, <1>11, <3>1
  <2>6. Elsewhere(b, G) = X \cup Y /\ X \cap Y = {}
    BY <1>9 DEF Elsewhere
  <2> QED BY <2>1, <2>2, <2>3, <2>4, <2>5, <2>6
<1>13. /\ Positive(B) /\ Positive(X) /\ Positive(Y) /\ Positive(Charged(b, H)) /\ Positive(TakenBack(b, G))
       /\ Positive(SB) /\ Positive(SY)
  <2>1. Positive(B) /\ Positive(Y)
    BY <1>3, <1>9, PartPositive
  <2>2. Positive(X) /\ Positive(SB) /\ Positive(SY)
    <3>1. Positive(TakenBack(b, H)) /\ Positive(Elsewhere(b, H))
      BY <1>5, PartsWritten
    <3>2. SB \subseteq TakenBack(b, H) /\ SY \subseteq Elsewhere(b, H) /\ X \subseteq Elsewhere(b, H)
      BY <1>12
    <3> QED BY <3>1, <3>2, PartPositive
  <2>3. Positive(Charged(b, H)) /\ Positive(TakenBack(b, G))
    BY <1>5, PartsWritten
  <2> QED BY <2>1, <2>2, <2>3
<1>14. SumCredits(SB) = SumCredits(B) /\ SumCredits(SY) = SumCredits(Y)
  BY <1>9, <1>10, <1>13, StruckCredits DEF Positive
<1>15. /\ Difference(Charged(b, G)) = Difference(Charged(b, H)) + Difference(B)
       /\ SumCredits(TakenBack(b, H)) = SumCredits(TakenBack(b, G)) + SumCredits(SB)
       /\ SumCredits(Elsewhere(b, H)) = SumCredits(X) + SumCredits(SY)
       /\ SumCredits(Elsewhere(b, G)) = SumCredits(X) + SumCredits(Y)
  BY <1>12, <1>13, SumsJoin DEF Positive
<1>16. Difference(B) = SumDebits(B) - SumCredits(B)
  BY <1>13, SidesOf DEF Positive
<1>17. /\ SumDebits(B) \in Nat /\ SumCredits(B) \in Nat /\ SumCredits(X) \in Nat /\ SumCredits(Y) \in Nat
       /\ SumCredits(TakenBack(b, G)) \in Nat /\ Difference(Charged(b, H)) \in Int /\ b.limit \in Nat
  BY <1>5, <1>13, PositiveSums, RoomIsInt
<1>18. Room(b, H) = Room(b, G) + SumDebits(Booked(b, M))
  BY <1>9, <1>14, <1>15, <1>16, <1>17 DEF Room
<1>19. /\ LinesOn(b, v, H) = {} /\ LinesOn(b, v, G) = {e \in Booked(b, M) : e.debit > 0}
       /\ \A w : w # v => LinesOn(b, w, H) = LinesOn(b, w, G)
  <2>1. \A w : LinesOn(b, w, H) = {e \in G \ M : /\ e.account = b.account /\ e.center = b.center
                                                /\ ~e.cancelled /\ e.voucher = w /\ e.debit > 0}
    BY <1>0, <1>8 DEF LinesOn, Charged, Booked, Live
  <2>2. \A w : LinesOn(b, w, G) = {e \in G : /\ e.account = b.account /\ e.center = b.center
                                            /\ ~e.cancelled /\ e.voucher = w /\ e.debit > 0}
    BY DEF LinesOn, Charged, Booked, Live
  <2>3. LinesOn(b, v, H) = {}
    BY <2>1
  <2>4. LinesOn(b, v, G) = {e \in Booked(b, M) : e.debit > 0}
    BY <2>2 DEF Booked
  <2>5. ASSUME NEW w, w # v PROVE LinesOn(b, w, H) = LinesOn(b, w, G)
    <3>1. \A x \in G : x.voucher = w => x \notin M
      BY <2>5
    <3>2. \A x : x \in LinesOn(b, w, G) => x \in LinesOn(b, w, H)
      BY <2>1, <2>2, <3>1
    <3>3. \A x : x \in LinesOn(b, w, H) => x \in LinesOn(b, w, G)
      BY <2>1, <2>2
    <3>4. LinesOn(b, w, G) \subseteq LinesOn(b, w, H) /\ LinesOn(b, w, H) \subseteq LinesOn(b, w, G)
      BY <3>2, <3>3
    <3> QED BY <3>4
  <2> QED BY <2>3, <2>4, <2>5
<1> QED BY <1>18, <1>19

-----------------------------------------------------------------------------
\* Cents of what is not negative are not negative.
LEMMA CentsNotNegative == ASSUME NEW n \in Int, n >= 0 PROVE Cents(n) \in Int /\ Cents(n) >= 0
<1>1. Cents(n) \in Int
  BY CentsIsInt
<1>2. n \div 10 \in Int /\ n \div 10 >= 0
  OBVIOUS
<1> QED BY <1>1, <1>2 DEF Cents, Nearest

\* Whatever sign the lines of a voucher have, its entries are positive.
LEMMA LinesPositive == ASSUME NEW v \in GlVouchers PROVE Positive(Processed(v))
<1>1. Entries(Processed(v))
  BY LinesAreEntries
<1>2. ASSUME NEW e \in Merged(v) PROVE Toggled(e).debit >= 0 /\ Toggled(e).credit >= 0
  <2>1. e.debit \in Int /\ e.credit \in Int /\ {"debit", "credit"} \subseteq DOMAIN e
    <3>1. IsEntry(e) /\ {"debit", "credit"} \subseteq EntryFields
      BY MergedLines DEF EntryFields
    <3> QED BY <3>1 DEF IsEntry
  <2> DEFINE onCredit == IF e.debit < 0 THEN e.credit - e.debit ELSE e.credit
             onDebit == IF e.debit < 0 THEN 0 ELSE e.debit
             a == IF onCredit < 0 THEN onDebit - onCredit ELSE onDebit
             b == IF onCredit < 0 THEN 0 ELSE onCredit
  <2>2. a \in Int /\ a >= 0 /\ b \in Int /\ b >= 0
    BY <2>1
  <2>3. Toggled(e) = [e EXCEPT !.debit = Cents(a), !.credit = Cents(b)]
    BY DEF Toggled
  <2> HIDE DEF a, b
  <2>4. Cents(a) >= 0 /\ Cents(b) >= 0
    BY <2>2, CentsNotNegative
  <2> QED BY <2>1, <2>3, <2>4
<1>3. \A e \in Processed(v) : e.debit >= 0 /\ e.credit >= 0
  BY <1>2 DEF Processed
<1> QED BY <1>1, <1>3 DEF Positive

\* The entries a voucher posts have no negative amounts.
LEMMA PostingPositive == ASSUME NEW v \in GlVouchers PROVE Positive(WithRoundOff(v))
<1> DEFINE diff == Difference(Processed(v))
<1>1. diff \in Int /\ Entries(WithRoundOff(v)) /\ Positive(Processed(v))
  BY LinesAreEntries, DifferenceIsInt, PostingBalances, LinesPositive DEF Balanced
<1>2. \/ WithRoundOff(v) = Processed(v)
      \/ WithRoundOff(v) = Processed(v) \cup {RoundOffLine(v, diff)}
  BY DEF WithRoundOff
<1> HIDE DEF diff
<1>3. RoundOffLine(v, diff).debit >= 0 /\ RoundOffLine(v, diff).credit >= 0
  BY <1>1 DEF RoundOffLine
<1>4. \A e \in WithRoundOff(v) : e.debit >= 0 /\ e.credit >= 0
  BY <1>1, <1>2, <1>3 DEF Positive
<1> QED BY <1>1, <1>4 DEF Positive

-----------------------------------------------------------------------------
\* What a request has checked still fits, as long as it holds the budgets.
TillsChecked ==
    /\ \A t \in Tills : Positive(till[t].entries)
    /\ \A t, u \in Tills : t # u => till[t].locked \cap till[u].locked = {}
    /\ \A t \in Tills : \A e \in till[t].entries \ till[t].todo : \A b \in Budgets :
          Bites(b, e) => b \in till[t].locked /\ e.debit <= Room(b, glEntries)

BudgetsHold == \A b \in Budgets : Stops(b) => Room(b, glEntries) + Alone(b, glEntries) >= 0

BudgetInv == LedgerInv /\ WrittenRows(glEntries) /\ TillsChecked /\ BudgetsHold

\* The sum of an account covers every cost center.
LEMMA AccountRoom ==
    ASSUME NEW G, WrittenRows(G), NEW b \in Budgets, NEW d \in Int,
           Difference({e \in Live(G) : e.account = b.account}) + d <= b.limit
    PROVE  d <= Room(b, G)
<1> DEFINE C == Charged(b, G)
           O == {e \in Live(G) : e.account = b.account /\ e.center # b.center}
<1>1. /\ {e \in Live(G) : e.account = b.account} = C \cup O /\ C \cap O = {}
      /\ O \subseteq Elsewhere(b, G) /\ C \subseteq G /\ O \subseteq G
  BY DEF Charged, Booked, Live, Elsewhere, WrittenRows
<1>0. Difference(C \cup O) + d <= b.limit
  BY <1>1
<1> HIDE DEF C, O
<1>2. Positive(C) /\ Positive(O) /\ Positive(Elsewhere(b, G))
  BY <1>1, PartPositive, PartsWritten DEF WrittenRows
<1>3. Difference(C \cup O) = Difference(C) + Difference(O)
  BY <1>1, <1>2, SumsJoin DEF Positive
<1>4. Difference(O) = SumDebits(O) - SumCredits(O) /\ Difference(C) \in Int
  BY <1>2, SidesOf, DifferenceIsInt DEF Positive
<1>5. SumDebits(O) \in Nat /\ SumCredits(O) \in Nat
  BY <1>2, PositiveSums
<1>6. SumCredits(O) <= SumCredits(Elsewhere(b, G))
  BY <1>1, <1>2, PartOfSums
<1>7. SumCredits(TakenBack(b, G)) \in Nat /\ SumCredits(Elsewhere(b, G)) \in Nat /\ b.limit \in Nat
  BY RoomIsInt
<1>8. Room(b, G) = b.limit + SumCredits(TakenBack(b, G)) + SumCredits(Elsewhere(b, G)) - Difference(C)
  BY DEF Room, C
<1> QED BY <1>0, <1>3, <1>4, <1>5, <1>6, <1>7, <1>8

\* What posting a checked voucher does to a budget.
LEMMA PostingFits ==
    ASSUME NEW G, NEW E, WrittenRows(G), Positive(E), NEW v \in GlVouchers,
           \A e \in E : e.cancelled = FALSE /\ e.mirror = FALSE /\ e.voucher = v,
           \A e \in G : e.voucher # v,
           NEW b \in Budgets, \A e \in E : Bites(b, e) => e.debit <= Room(b, G),
           Stops(b), Room(b, G) + Alone(b, G) >= 0
    PROVE  /\ Room(b, G \cup E) + Alone(b, G \cup E) >= 0
           /\ (\A e \in E : ~Bites(b, e)) => Room(b, G \cup E) >= Room(b, G)
<1> DEFINE B == Booked(b, E)
           D == {e \in B : e.debit > 0}
           U == G \cup E
<1>1. WrittenRows(U) /\ E \cap G = {}
  BY PostingWritten
<1>2. Room(b, U) >= Room(b, G) - SumDebits(B) /\ SumDebits(B) \in Nat
  BY <1>1, RoomAfterPosting
<1>3. LinesOn(b, v, G) = {} /\ LinesOn(b, v, U) = D
  BY DEF LinesOn, Charged, Booked, Live
<1>4. \A w \in GlVouchers \ {v} : LinesOn(b, w, U) = LinesOn(b, w, G)
  BY DEF LinesOn, Charged, Booked, Live
<1>5. Alone(b, U) = Alone(b, G) - Unseen(LinesOn(b, v, G)) + Unseen(LinesOn(b, v, U))
  <2> HIDE DEF U
  <2> QED BY <1>1, <1>4, AloneChanges
<1>6. Unseen(LinesOn(b, v, G)) = 0
  BY <1>3 DEF Unseen
<1>7. Room(b, U) \in Int /\ Room(b, G) \in Int /\ Alone(b, G) \in Nat /\ Alone(b, U) \in Nat
  BY <1>1, RoomIsInt, AloneIsNat
<1>8. Positive(B) /\ Positive(D) /\ Positive(B \ D) /\ D \cap (B \ D) = {} /\ B = D \cup (B \ D)
  BY PartPositive DEF Booked
<1>9. \A e \in B \ D : e.debit = 0
  BY <1>8 DEF Positive, Entries, IsEntry
<1>10. \A e \in D : e \in E /\ Bites(b, e)
  BY DEF Bites, Booked
<1>11. \A e \in E : Bites(b, e) => e \in D
  BY DEF Bites, Booked
<1> HIDE DEF B, D, U
<1>12. SumDebits(B) = SumDebits(D)
  <2>1. SumDebits(B) = SumDebits(D) + SumDebits(B \ D)
    BY <1>8, SumsJoin DEF Positive
  <2>2. SumDebits(B \ D) = 0
    BY <1>8, <1>9, NoDebits DEF Positive
  <2>3. SumDebits(D) \in Nat
    BY <1>8, PositiveSums
  <2> QED BY <2>1, <2>2, <2>3
<1>13. CASE D = {}
  <2>1. SumDebits(D) = 0 /\ Unseen(D) = 0
    BY <1>8, <1>13, NoDebits DEF Unseen, Positive
  <2> QED BY <1>2, <1>3, <1>5, <1>6, <1>7, <1>12, <2>1 DEF U
<1>14. CASE D # {}
  <2>1. PICK e \in D : Unseen(D) = SumDebits(D) - e.debit
    BY <1>8, <1>14, UnseenIsRest
  <2>2. e.debit <= Room(b, G) /\ e.debit \in Int
    BY <1>8, <1>10 DEF Positive, Entries, IsEntry
  <2>3. Room(b, U) + Alone(b, U) >= 0
    BY <1>2, <1>3, <1>5, <1>6, <1>7, <1>12, <2>1, <2>2
  <2> QED BY <1>10, <2>3 DEF U
<1> QED BY <1>13, <1>14

\* What a cancel does to it.
LEMMA CancelFits ==
    ASSUME NEW G, NEW M, NEW v \in GlVouchers, IsPosted(v, M, G), NEW b \in Budgets,
           NEW H, H = AfterCancel(G, M)
    PROVE  Room(b, H) >= Room(b, G) /\ Room(b, H) + Alone(b, H) >= Room(b, G) + Alone(b, G)
<1> DEFINE B == Booked(b, M)
           D == {e \in B : e.debit > 0}
<1>2. WrittenRows(H)
  BY CancelWritten DEF IsPosted
<1>3. /\ Room(b, H) = Room(b, G) + SumDebits(B)
      /\ LinesOn(b, v, H) = {} /\ LinesOn(b, v, G) = D
      /\ \A w : w # v => LinesOn(b, w, H) = LinesOn(b, w, G)
  BY RoomAfterCancel
<1>4. Positive(B) /\ D \subseteq B /\ Positive(D)
  <2>1. Positive(M)
    BY PartPositive DEF WrittenRows, IsPosted
  <2>2. B \subseteq M /\ D \subseteq B
    BY DEF Booked
  <2>3. Positive(B)
    BY <2>1, <2>2, PartPositive
  <2> QED BY <2>2, <2>3, PartPositive
<1> HIDE DEF B, D
<1>5. \A w \in GlVouchers \ {v} : LinesOn(b, w, H) = LinesOn(b, w, G)
  BY <1>3
<1>6. Alone(b, H) = Alone(b, G) - Unseen(LinesOn(b, v, G)) + Unseen(LinesOn(b, v, H))
  BY <1>2, <1>5, AloneChanges DEF IsPosted
<1>7. Unseen(LinesOn(b, v, H)) = 0
  BY <1>3 DEF Unseen
<1>8. Unseen(D) \in Nat /\ Unseen(D) <= SumDebits(D) /\ SumDebits(D) <= SumDebits(B)
  BY <1>4, UnseenIsRest, PartOfSums
<1>9. SumDebits(D) \in Nat /\ SumDebits(B) \in Nat /\ Room(b, G) \in Int /\ Alone(b, G) \in Nat
  BY <1>4, PositiveSums, RoomIsInt, AloneIsNat DEF IsPosted
<1>10. Room(b, H) >= Room(b, G) /\ Room(b, H) + Alone(b, H) >= Room(b, G) + Alone(b, G)
  BY <1>3, <1>6, <1>7, <1>8, <1>9
<1> QED BY <1>10

-----------------------------------------------------------------------------
\* Nothing is checked and nothing is spent when the ledger is set up.
LEMMA BudgetStarts == GlInit => BudgetInv
<1> SUFFICES ASSUME GlInit PROVE BudgetInv
  OBVIOUS
<1>1. LedgerInv
  BY LedgerStarts
<1>2. WrittenRows({}) /\ Positive({})
  BY FS_EmptySet DEF WrittenRows, Positive, Entries
<1>3. WrittenRows(glEntries) /\ glEntries = {}
  BY <1>2 DEF GlInit
<1>4. TillsChecked
  BY <1>2 DEF GlInit, TillsChecked, Calm
<1>5. ASSUME NEW b \in Budgets PROVE Room(b, {}) + Alone(b, {}) >= 0
  <2>1. /\ TakenBack(b, {}) = {} /\ Elsewhere(b, {}) = {} /\ Charged(b, {}) = {}
        /\ Positive(TakenBack(b, {})) /\ Positive(Elsewhere(b, {}))
    BY <1>2 DEF TakenBack, Elsewhere, Charged, Booked, Live
  <2>2. SumCredits({}) \in Nat /\ Difference({}) = 0
    BY <1>2, PositiveSums, NoDifference
  <2>3. Alone(b, {}) \in Nat /\ b.limit \in Nat
    BY <1>2, AloneIsNat, GlAssumption
  <2>4. Room(b, {}) = b.limit + SumCredits({}) + SumCredits({}) - Difference({})
    BY <2>1 DEF Room
  <2> QED BY <2>2, <2>3, <2>4
<1>6. BudgetsHold
  BY <1>3, <1>5 DEF BudgetsHold
<1> QED BY <1>1, <1>3, <1>4, <1>6 DEF BudgetInv

\* What a request checks and the locks it takes keep every budget.
LEMMA BudgetStep == BudgetInv /\ [GlNext]_glVars => BudgetInv'
<1> SUFFICES ASSUME BudgetInv, [GlNext]_glVars PROVE BudgetInv'
  OBVIOUS
<1>0. LedgerInv /\ LedgerInv' /\ GlTypes
  BY LedgerStep DEF BudgetInv, LedgerInv
<1>1. ASSUME NEW t \in Tills, NEW v \in GlVouchers, StartPosting(t, v) PROVE BudgetInv'
  <2>1. /\ till' = [till EXCEPT ![t] = [doc |-> v, entries |-> WithRoundOff(v),
                                        todo |-> WithRoundOff(v), locked |-> {}]]
        /\ glEntries' = glEntries
    BY <1>1 DEF StartPosting
  <2>2. /\ till'[t].entries = WithRoundOff(v) /\ till'[t].todo = WithRoundOff(v) /\ till'[t].locked = {}
        /\ \A u \in Tills \ {t} : till'[u] = till[u]
    BY <1>0, <2>1 DEF GlTypes
  <2>3. Positive(WithRoundOff(v))
    BY PostingPositive
  <2>4. TillsChecked'
    BY <2>1, <2>2, <2>3 DEF TillsChecked, BudgetInv
  <2> QED BY <1>0, <2>1, <2>4 DEF BudgetInv, BudgetsHold
<1>2. ASSUME NEW t \in Tills, NEW e \in till[t].todo, CheckBudget(t, e) PROVE BudgetInv'
  <2>1. PICK stops : stops = {b \in BudgetsFor(e) : b.action = "Stop"}
    OBVIOUS
  <2>2. /\ \A u \in Tills \ {t} : till[u].locked \cap stops = {}
        /\ \A b \in BudgetsFor(e) : WithinBudget(e, b)
        /\ till' = [till EXCEPT ![t].todo = @ \ {e}, ![t].locked = @ \cup stops]
        /\ glEntries' = glEntries
    BY <1>2, <2>1 DEF CheckBudget
  <2>3. /\ till'[t].entries = till[t].entries /\ till'[t].todo = till[t].todo \ {e}
        /\ till'[t].locked = till[t].locked \cup stops
        /\ \A u \in Tills \ {t} : till'[u] = till[u]
    BY <1>0, <2>2 DEF GlTypes
  <2>4. ASSUME NEW b \in Budgets, Bites(b, e), e \in till[t].entries
        PROVE  b \in stops /\ e.debit <= Room(b, glEntries)
    <3>1. b \in stops /\ e.account = b.account
      BY <2>1, <2>4 DEF Bites, Stops, BudgetsFor
    <3>2. ActualExpense(e.account) + e.debit <= b.limit
      BY <2>1, <2>2, <3>1 DEF WithinBudget
    <3>3. e.debit \in Int
      BY <2>4 DEF BudgetInv, TillsChecked, Positive, Entries, IsEntry
    <3>4. Difference({x \in Live(glEntries) : x.account = b.account}) + e.debit <= b.limit
      BY <3>1, <3>2 DEF ActualExpense
    <3> QED BY <3>1, <3>3, <3>4, AccountRoom DEF BudgetInv
  <2>5. TillsChecked'
    <3>1. \A u \in Tills : Positive(till'[u].entries)
      BY <2>3 DEF BudgetInv, TillsChecked
    <3>2. \A u, w \in Tills : u # w => till'[u].locked \cap till'[w].locked = {}
      <4> SUFFICES ASSUME NEW u \in Tills, NEW w \in Tills, u # w PROVE till'[u].locked \cap till'[w].locked = {}
        OBVIOUS
      <4>1. till[u].locked \cap till[w].locked = {}
        BY DEF BudgetInv, TillsChecked
      <4>2. CASE u = t
        BY <2>2, <2>3, <4>1, <4>2
      <4>3. CASE w = t
        BY <2>2, <2>3, <4>1, <4>3
      <4>4. CASE u # t /\ w # t
        BY <2>3, <4>1, <4>4
      <4> QED BY <4>2, <4>3, <4>4
    <3>3. ASSUME NEW u \in Tills, NEW x \in till'[u].entries \ till'[u].todo, NEW b \in Budgets, Bites(b, x)
          PROVE  b \in till'[u].locked /\ x.debit <= Room(b, glEntries)
      <4>1. CASE u = t /\ x = e
        BY <2>3, <2>4, <3>3, <4>1
      <4>2. CASE ~(u = t /\ x = e)
        <5>1. x \in till[u].entries \ till[u].todo /\ till[u].locked \subseteq till'[u].locked
          BY <2>3, <4>2
        <5> QED BY <3>3, <5>1 DEF BudgetInv, TillsChecked
      <4> QED BY <4>1, <4>2
    <3> QED BY <2>2, <3>1, <3>2, <3>3 DEF TillsChecked
  <2> QED BY <1>0, <2>2, <2>5 DEF BudgetInv, BudgetsHold
<1>3. ASSUME NEW t \in Tills, CommitPosting(t) PROVE BudgetInv'
  <2>1. PICK v, E, G, H : v = till[t].doc /\ E = till[t].entries /\ G = glEntries /\ H = G \cup E
    OBVIOUS
  <2>2. till[t] # Calm /\ till[t].todo = {} /\ glEntries' = H /\ till' = [till EXCEPT ![t] = Calm]
    BY <1>3, <2>1 DEF CommitPosting
  <2>3. /\ v \in GlVouchers /\ posting[v] = "draft" /\ Balanced(E, v)
        /\ \A e \in G : e.voucher # v
    BY <1>0, <2>1, <2>2 DEF LedgerInv, TillsReady, BooksBalance, VoucherEntries
  <2>4. /\ WrittenRows(G) /\ Positive(E)
        /\ \A e \in E : e.cancelled = FALSE /\ e.mirror = FALSE /\ e.voucher = v
    BY <2>1, <2>3 DEF BudgetInv, TillsChecked, Balanced
  <2>5. WrittenRows(H)
    BY <2>1, <2>4, PostingWritten
  <2>6. ASSUME NEW b \in Budgets, NEW e \in E, Bites(b, e)
        PROVE  b \in till[t].locked /\ e.debit <= Room(b, G)
    BY <2>1, <2>2, <2>6 DEF BudgetInv, TillsChecked
  <2>7. ASSUME NEW b \in Budgets, Stops(b)
        PROVE  /\ Room(b, H) + Alone(b, H) >= 0
               /\ (\A e \in E : ~Bites(b, e)) => Room(b, H) >= Room(b, G)
    <3>1. Room(b, G) + Alone(b, G) >= 0
      BY <2>1, <2>7 DEF BudgetInv, BudgetsHold
    <3>2. \A e \in E : Bites(b, e) => e.debit <= Room(b, G)
      BY <2>6
    <3> QED BY <2>1, <2>3, <2>4, <2>7, <3>1, <3>2, PostingFits
  <2>8. BudgetsHold'
    BY <2>2, <2>7 DEF BudgetsHold
  <2>9. TillsChecked'
    <3>1. \A u \in Tills : till'[u] = (IF u = t THEN Calm ELSE till[u])
      BY <1>0, <2>2 DEF GlTypes
    <3>2. Calm.entries = {} /\ Calm.locked = {} /\ Positive({})
      BY FS_EmptySet DEF Calm, Positive, Entries
    <3>3. \A u \in Tills : Positive(till'[u].entries)
      BY <3>1, <3>2 DEF BudgetInv, TillsChecked
    <3>4. \A u, w \in Tills : u # w => till'[u].locked \cap till'[w].locked = {}
      BY <3>1, <3>2 DEF BudgetInv, TillsChecked
    <3>5. ASSUME NEW u \in Tills, NEW x \in till'[u].entries \ till'[u].todo, NEW b \in Budgets, Bites(b, x)
          PROVE  b \in till'[u].locked /\ x.debit <= Room(b, H)
      <4>1. u # t /\ till'[u] = till[u]
        BY <3>1, <3>2, <3>5
      <4>2. b \in till[u].locked /\ x.debit <= Room(b, G)
        BY <2>1, <3>5, <4>1 DEF BudgetInv, TillsChecked
      <4>3. \A e \in E : ~Bites(b, e)
        BY <2>6, <4>1, <4>2 DEF BudgetInv, TillsChecked
      <4>4. Room(b, H) >= Room(b, G)
        BY <2>7, <3>5, <4>3 DEF Bites
      <4>5. x.debit \in Int /\ Room(b, H) \in Int /\ Room(b, G) \in Int
        BY <2>4, <2>5, <3>3, RoomIsInt DEF Positive, Entries, IsEntry
      <4> QED BY <4>1, <4>2, <4>4, <4>5
    <3> QED BY <2>2, <3>3, <3>4, <3>5 DEF TillsChecked
  <2> QED BY <1>0, <2>2, <2>5, <2>8, <2>9 DEF BudgetInv
<1>4. ASSUME NEW t \in Tills, AbortPosting(t) PROVE BudgetInv'
  <2>1. till' = [till EXCEPT ![t] = Calm] /\ glEntries' = glEntries
    BY <1>4 DEF AbortPosting
  <2>2. \A u \in Tills : till'[u] = (IF u = t THEN Calm ELSE till[u])
    BY <1>0, <2>1 DEF GlTypes
  <2>3. Calm.entries = {} /\ Calm.locked = {} /\ Positive({})
    BY FS_EmptySet DEF Calm, Positive, Entries
  <2>4. TillsChecked'
    <3>1. \A u \in Tills : Positive(till'[u].entries)
      BY <2>2, <2>3 DEF BudgetInv, TillsChecked
    <3>2. \A u, w \in Tills : u # w => till'[u].locked \cap till'[w].locked = {}
      BY <2>2, <2>3 DEF BudgetInv, TillsChecked
    <3>3. ASSUME NEW u \in Tills, NEW x \in till'[u].entries \ till'[u].todo, NEW b \in Budgets, Bites(b, x)
          PROVE  b \in till'[u].locked /\ x.debit <= Room(b, glEntries)
      <4>1. till'[u] = till[u]
        BY <2>2, <2>3, <3>3
      <4> QED BY <3>3, <4>1 DEF BudgetInv, TillsChecked
    <3> QED BY <2>1, <3>1, <3>2, <3>3 DEF TillsChecked
  <2> QED BY <1>0, <2>1, <2>4 DEF BudgetInv, BudgetsHold
<1>5. ASSUME NEW v \in GlVouchers, CancelPosting(v) PROVE BudgetInv'
  <2>1. PICK M, G, H : M = VoucherEntries(v) /\ G = glEntries /\ H = AfterCancel(G, M)
    OBVIOUS
  <2>2. posting[v] = "posted" /\ glEntries' = H /\ till' = till
    BY <1>5, <2>1 DEF CancelPosting, AfterCancel
  <2>3. Balanced(M, v)
    BY <1>0, <2>1, <2>2 DEF LedgerInv, BooksBalance
  <2>4. IsPosted(v, M, G)
    BY <2>1, <2>3 DEF VoucherEntries, Balanced, BudgetInv, IsPosted
  <2>5. WrittenRows(H)
    BY <2>1, <2>4, CancelWritten DEF IsPosted
  <2>6. ASSUME NEW b \in Budgets
        PROVE  Room(b, H) >= Room(b, G) /\ Room(b, H) + Alone(b, H) >= Room(b, G) + Alone(b, G)
    BY <2>1, <2>4, CancelFits
  <2>7. ASSUME NEW b \in Budgets PROVE Room(b, H) \in Int /\ Room(b, G) \in Int /\ Alone(b, H) \in Nat /\ Alone(b, G) \in Nat
    BY <2>4, <2>5, RoomIsInt, AloneIsNat DEF IsPosted
  <2>8. BudgetsHold'
    BY <2>1, <2>2, <2>6, <2>7 DEF BudgetInv, BudgetsHold
  <2>9. TillsChecked'
    <3>1. ASSUME NEW u \in Tills, NEW x \in till[u].entries \ till[u].todo, NEW b \in Budgets, Bites(b, x)
          PROVE  b \in till[u].locked /\ x.debit <= Room(b, H)
      <4>1. b \in till[u].locked /\ x.debit <= Room(b, G)
        BY <2>1, <3>1 DEF BudgetInv, TillsChecked
      <4>2. x.debit \in Int
        BY <3>1 DEF BudgetInv, TillsChecked, Positive, Entries, IsEntry
      <4> QED BY <2>6, <2>7, <4>1, <4>2
    <3> QED BY <2>2, <3>1 DEF BudgetInv, TillsChecked
  <2> QED BY <1>0, <2>2, <2>5, <2>8, <2>9 DEF BudgetInv
<1>6. CASE UNCHANGED glVars
  BY <1>0, <1>6 DEF glVars, BudgetInv, TillsChecked, BudgetsHold
<1> QED BY <1>1, <1>2, <1>3, <1>4, <1>5, <1>6 DEF GlNext

\* What the invariant says is what the cost center may spend.
LEMMA BudgetsKept == BudgetInv => CenterWithinBudget
<1> SUFFICES ASSUME BudgetInv, NEW b \in Budgets, b.action = "Stop" /\ b.account \in Expenses
             PROVE  Difference(Booked(b, Live(glEntries)))
                       <= b.limit + GivenBack(b) + CreditedElsewhere(b) + CheckedAlone(b)
  BY DEF CenterWithinBudget
<1>1. PICK G : G = glEntries
  OBVIOUS
<1>2. Room(b, G) + Alone(b, G) >= 0 /\ WrittenRows(G)
  BY <1>1 DEF BudgetInv, BudgetsHold, Stops
<1>3. /\ GivenBack(b) = SumCredits(TakenBack(b, G)) /\ CreditedElsewhere(b) = SumCredits(Elsewhere(b, G))
      /\ Difference(Booked(b, Live(glEntries))) = Difference(Charged(b, G))
  BY <1>1 DEF GivenBack, TakenBack, CreditedElsewhere, Elsewhere, Charged
<1>4. CheckedAlone(b) = Alone(b, G)
  BY <1>1 DEF CheckedAlone, Alone, LinesOn, Charged, SumFunction, SumFunctionOnSet, FoldFunction
<1>5. /\ Room(b, G) = b.limit + SumCredits(TakenBack(b, G)) + SumCredits(Elsewhere(b, G)) - Difference(Charged(b, G))
      /\ SumCredits(TakenBack(b, G)) \in Nat /\ SumCredits(Elsewhere(b, G)) \in Nat
      /\ Difference(Charged(b, G)) \in Int /\ b.limit \in Nat /\ Alone(b, G) \in Nat
  BY <1>2, RoomIsInt, AloneIsNat DEF Room
<1> QED BY <1>2, <1>3, <1>4, <1>5

\* However many postings run at once, a cost center passes its Stop budget only by
\* what the code leaves out of its comparison (budget.py), for any vouchers,
\* budgets, requests and amounts.
THEOREM CentersKeepBudgets == GlSpec => []CenterWithinBudget
<1>1. GlSpec => []BudgetInv
  BY BudgetStarts, BudgetStep, PTL DEF GlSpec
<1> QED BY <1>1, BudgetsKept, PTL

\* Revaluation: what a voucher posts it takes back.  Whoever posts holds the lock of the
\* company and no voucher of its day is there, and a voucher and its reversal, posted in one
\* commit, move every account by opposite amounts and add up to nothing on either day.

Accounted == ForeignAccounts \cup {FxAccount}

\* The rows of revaluations, and requests.
ClosingRows == [no : Int, day : Int, account : Accounted, amount : Int, reversal : BOOLEAN]
ClosingRequests == [at : {"idle", "collected", "posting"}, day : Int,
                    deltas : [ForeignAccounts -> Int]]

ClosingTyped ==
    /\ foreign \in [ForeignAccounts -> Int]
    /\ revalued \subseteq ClosingRows /\ IsFiniteSet(revalued)
    /\ closer \in [Closers -> ClosingRequests]

\* Who posts holds the lock of the company, and its day is not revalued.
PosterHoldsDay ==
    \A c \in Closers : closer[c].at = "posting" => dayLock = c /\ ~RevaluedOn(closer[c].day)

OneVoucherADay == \A r, s \in revalued : r.day = s.day /\ ~r.reversal /\ ~s.reversal => r.no = s.no
AccountsClear == \A a \in Accounted : NetOf(a, revalued) = 0
DaysBalance == \A day \in Int : AmountOf({r \in revalued : r.day = day}) = 0

ClosingInv == ClosingTyped /\ PosterHoldsDay /\ OneVoucherADay /\ AccountsClear /\ DaysBalance

\* Sums of rows

\* A finite set of numbers that is not empty has a greatest one.
LEMMA GreatestOf ==
    ASSUME NEW S, IsFiniteSet(S), S \subseteq Int, NEW z \in Int
    PROVE  \E n \in {z} \cup S : \A m \in {z} \cup S : n >= m
<1> DEFINE Greatest(T, n) == n \in {z} \cup T /\ \A m \in {z} \cup T : n >= m
           F == {T \in SUBSET S : \E n : Greatest(T, n)}
<1>1. {} \in F
  <2>1. Greatest({}, z)
    OBVIOUS
  <2> QED BY <2>1
<1>2. ASSUME NEW T \in F, NEW x \in S \ T PROVE T \cup {x} \in F
  <2>1. PICK n : Greatest(T, n)
    OBVIOUS
  <2>2. n \in Int /\ x \in Int /\ T \subseteq Int
    BY <2>1
  <2>3. CASE n >= x
    <3>1. Greatest(T \cup {x}, n)
      BY <2>1, <2>3
    <3> QED BY <3>1
  <2>4. CASE ~(n >= x)
    <3>1. x >= n
      BY <2>2, <2>4
    <3>2. \A m \in {z} \cup (T \cup {x}) : x >= m
      BY <2>1, <2>2, <3>1
    <3>3. Greatest(T \cup {x}, x)
      BY <3>2
    <3> QED BY <3>3
  <2> QED BY <2>3, <2>4
<1> HIDE DEF F
<1>3. S \in F
  BY <1>1, <1>2, SetInduction
<1> QED BY <1>3 DEF F

\* The next number is above those given out.
LEMMA NextNoAbove ==
    ASSUME ClosingTyped
    PROVE  NextNo \in Int /\ \A r \in revalued : r.no < NextNo
<1> DEFINE f == [r \in revalued |-> r.no]
           S == {f[r] : r \in revalued}
<1>1. IsFiniteSet(S) /\ S \subseteq Int /\ \A r \in revalued : r.no \in S
  <2>1. S \subseteq Int /\ \A r \in revalued : r.no \in S
    BY DEF ClosingTyped, ClosingRows
  <2>2. IsFiniteSet(revalued)
    BY DEF ClosingTyped
  <2> HIDE DEF f
  <2>3. IsFiniteSet(S)
    BY <2>2, FiniteImage
  <2> QED BY <2>1, <2>3
<1>2. S = {r.no : r \in revalued}
  OBVIOUS
<1>3. PICK T : T = S
  OBVIOUS
<1>4. IsFiniteSet(T) /\ T \subseteq Int /\ \A r \in revalued : r.no \in T
  BY <1>1, <1>3
<1>5. NextNo = 1 + Max({0} \cup T)
  BY <1>2, <1>3 DEF NextNo
<1> HIDE <1>1, <1>2, <1>3
<1> HIDE DEF S, f
<1>6. \E n \in {0} \cup T : \A m \in {0} \cup T : n >= m
  <2>1. IsFiniteSet(T)
    BY <1>4
  <2>2. T \subseteq Int
    BY <1>4
  <2>3. PICK z \in Int : z = 0
    OBVIOUS
  <2>4. \E n \in {z} \cup T : \A m \in {z} \cup T : n >= m
    BY <2>1, <2>2, GreatestOf
  <2> QED BY <2>3, <2>4
<1>7. PICK M : M = Max({0} \cup T)
  OBVIOUS
<1>8. M \in {0} \cup T /\ \A m \in {0} \cup T : M >= m
  BY <1>6, <1>7 DEF Max
<1>9. M \in Int /\ NextNo = 1 + M
  BY <1>4, <1>5, <1>7, <1>8
<1>10. \A r \in revalued : r.no \in Int /\ M >= r.no
  BY <1>4, <1>8
<1> QED BY <1>9, <1>10

\* Rows without one in common add up to both sums.
LEMMA AmountsTogether ==
    ASSUME NEW A, NEW B, A \subseteq ClosingRows, B \subseteq ClosingRows,
           IsFiniteSet(A), IsFiniteSet(B), A \cap B = {}
    PROVE  /\ IsFiniteSet(A \cup B)
           /\ AmountOf(A) \in Int /\ AmountOf(B) \in Int
           /\ AmountOf(A \cup B) = AmountOf(A) + AmountOf(B)
<1> DEFINE f(S) == [r \in S |-> r.amount]
<1>1. IsFiniteSet(A \cup B)
  BY FS_Union
<1>2. /\ \A r \in A \cup B : f(A \cup B)[r] \in Int
      /\ \A r \in A : f(A \cup B)[r] \in Int /\ f(A)[r] = f(A \cup B)[r]
      /\ \A r \in B : f(A \cup B)[r] \in Int /\ f(B)[r] = f(A \cup B)[r]
  BY DEF ClosingRows
<1>3. A \in SUBSET (A \cup B) /\ (A \cup B) \ A = B
  OBVIOUS
<1>4. PICK g, ga, gb : g = f(A \cup B) /\ ga = f(A) /\ gb = f(B)
  OBVIOUS
<1>5. AmountOf(A) = SumFunctionOnSet(ga, A) /\ AmountOf(B) = SumFunctionOnSet(gb, B)
      /\ AmountOf(A \cup B) = SumFunctionOnSet(g, A \cup B)
  BY <1>4 DEF AmountOf
<1>6. /\ \A r \in A \cup B : g[r] \in Int
      /\ \A r \in A : g[r] \in Int /\ ga[r] = g[r]
      /\ \A r \in B : g[r] \in Int /\ gb[r] = g[r]
  BY <1>2, <1>4
<1> HIDE DEF f
<1> HIDE <1>4
<1>7. SumFunctionOnSet(g, A \cup B) = SumFunctionOnSet(g, A) + SumFunctionOnSet(g, (A \cup B) \ A)
  BY <1>1, <1>3, <1>6, SumParts
<1>8. SumFunctionOnSet(ga, A) = SumFunctionOnSet(g, A)
  BY <1>6, SumSame
<1>9. SumFunctionOnSet(gb, B) = SumFunctionOnSet(g, B)
  BY <1>6, SumSame
<1>10. SumFunctionOnSet(g, A) \in Int
  BY <1>6, SumIsNumber
<1>11. SumFunctionOnSet(g, B) \in Int
  BY <1>6, SumIsNumber
<1> QED BY <1>1, <1>3, <1>5, <1>7, <1>8, <1>9, <1>10, <1>11

\* One row, and none.
LEMMA AmountOfOne ==
    ASSUME NEW r \in ClosingRows
    PROVE  AmountOf({}) = 0 /\ AmountOf({r}) = r.amount /\ IsFiniteSet({r})
<1>1. PICK f : f = [x \in {r} |-> x.amount]
  OBVIOUS
<1>2. \A x \in {} \cup {r} : f[x] \in Int
  BY <1>1 DEF ClosingRows
<1>3. IsFiniteSet({}) /\ r \notin {} /\ {} \cup {r} = {r}
  BY FS_EmptySet
<1>4. SumFunctionOnSet(f, {} \cup {r}) = SumFunctionOnSet(f, {}) + f[r] /\ IsFiniteSet({} \cup {r})
  BY <1>2, <1>3, SumAdd
<1>5. SumFunctionOnSet(f, {}) = 0
  BY SumOfNone
<1>6. AmountOf({r}) = f[r] /\ f[r] = r.amount
  BY <1>1, <1>2, <1>3, <1>4, <1>5 DEF AmountOf
<1>7. AmountOf({}) = 0
  BY SumOfNone DEF AmountOf
<1> QED BY <1>3, <1>4, <1>6, <1>7

\* What is taken back adds up to the negative.
LEMMA SumNegated ==
    ASSUME NEW S, IsFiniteSet(S), NEW f, NEW g, \A x \in S : f[x] \in Int /\ g[x] = -f[x]
    PROVE  SumFunctionOnSet(g, S) = -SumFunctionOnSet(f, S)
<1>1. PICK h : h = [x \in S |-> 0]
  OBVIOUS
<1>2. \A x \in S : f[x] \in Int /\ g[x] \in Int /\ h[x] = f[x] + g[x] /\ h[x] = 0
  BY <1>1
<1> HIDE <1>1
<1>3. SumFunctionOnSet(h, S) = SumFunctionOnSet(f, S) + SumFunctionOnSet(g, S)
  BY <1>2, SumOfSums
<1>4. SumFunctionOnSet(h, S) = 0
  BY <1>2, SumOfZeros
<1>5. SumFunctionOnSet(f, S) \in Int
  BY SumIsNumber
<1>6. SumFunctionOnSet(g, S) \in Int
  BY <1>2, SumIsNumber
<1> QED BY <1>3, <1>4, <1>5, <1>6

\* What a voucher posts

Moved(deltas) == {x \in ForeignAccounts : deltas[x] # 0}

\* What a voucher or its reversal brings an account.
PostedTo(a, deltas, sign) ==
    LET whole == IF a = FxAccount THEN -SumFunctionOnSet(deltas, ForeignAccounts) ELSE deltas[a]
    IN  IF sign = -1 THEN -whole ELSE whole

RowsOf(no, day, deltas, sign, kind) ==
    {[no |-> no, day |-> day, account |-> a, amount |-> sign * deltas[a], reversal |-> kind] :
        a \in Moved(deltas)}
    \cup {[no |-> no, day |-> day, account |-> FxAccount, reversal |-> kind,
           amount |-> -sign * SumFunctionOnSet(deltas, ForeignAccounts)]}

RowOf(no, day, deltas, sign, kind) ==
    [a \in Accounted |-> [no |-> no, day |-> day, account |-> a,
                          amount |-> PostedTo(a, deltas, sign), reversal |-> kind]]

\* There are finitely many accounts in a foreign currency.
LEMMA ForeignFinite == IsFiniteSet(ForeignAccounts) /\ IsFiniteSet({})
<1>1. IsFiniteSet({})
  BY FS_EmptySet
<1>2. IsFiniteSet({} \cup {Receivable})
  BY <1>1, FS_AddElement
<1>3. IsFiniteSet(({} \cup {Receivable}) \cup {Cash})
  BY <1>2, FS_AddElement
<1>4. ForeignAccounts = ({} \cup {Receivable}) \cup {Cash}
  BY DEF ForeignAccounts
<1> QED BY <1>1, <1>3, <1>4

\* What a voucher posts to an account is a number.
LEMMA PostedIsNumber ==
    ASSUME NEW deltas \in [ForeignAccounts -> Int], NEW a \in Accounted, NEW sign \in {1, -1}
    PROVE  /\ SumFunctionOnSet(deltas, ForeignAccounts) \in Int
           /\ PostedTo(a, deltas, sign) \in Int
<1>1. SumFunctionOnSet(deltas, ForeignAccounts) \in Int
  BY ForeignFinite, SumIsNumber
<1>2. a # FxAccount => deltas[a] \in Int
  BY DEF Accounted
<1> QED BY <1>1, <1>2 DEF PostedTo

\* The rows of a voucher: the accounts that moved, and the exchange account.
LEMMA VoucherRows ==
    ASSUME NEW no \in Int, NEW day \in Int, NEW deltas \in [ForeignAccounts -> Int],
           NEW sign \in {1, -1}, NEW kind \in BOOLEAN, NEW row, row = RowOf(no, day, deltas, sign, kind)
    PROVE  /\ \A a \in Accounted : /\ row[a] \in ClosingRows /\ row[a].account = a
                                   /\ row[a].no = no /\ row[a].day = day /\ row[a].reversal = kind
                                   /\ row[a].amount = PostedTo(a, deltas, sign)
           /\ RowsOf(no, day, deltas, sign, kind)
                = {row[a] : a \in Moved(deltas)} \cup {row[FxAccount]}
<1>1. \A a \in Accounted : PostedTo(a, deltas, sign) \in Int
  BY PostedIsNumber
<1>2. \A a \in Accounted : row[a] = [no |-> no, day |-> day, account |-> a, reversal |-> kind,
                                     amount |-> PostedTo(a, deltas, sign)]
  BY DEF RowOf
<1>3. \A a \in Accounted : row[a] \in ClosingRows
  <2> SUFFICES ASSUME NEW a \in Accounted PROVE row[a] \in ClosingRows
    OBVIOUS
  <2>1. PICK x \in Int : x = PostedTo(a, deltas, sign)
    BY <1>1
  <2>2. row[a] = [no |-> no, day |-> day, account |-> a, reversal |-> kind, amount |-> x]
    BY <1>2, <2>1
  <2> QED BY <2>2 DEF ClosingRows
<1>4. SumFunctionOnSet(deltas, ForeignAccounts) \in Int
  BY ForeignFinite, SumIsNumber
<1>5. Moved(deltas) \subseteq ForeignAccounts /\ ForeignAccounts \subseteq Accounted
      /\ FxAccount \in Accounted /\ FxAccount \notin ForeignAccounts
  BY ClosingAssumption DEF Moved, Accounted
<1>6. \A a \in Moved(deltas) : sign * deltas[a] = PostedTo(a, deltas, sign)
  BY <1>5 DEF PostedTo
<1>7. -sign * SumFunctionOnSet(deltas, ForeignAccounts) = PostedTo(FxAccount, deltas, sign)
  BY <1>4 DEF PostedTo
<1>8. RowsOf(no, day, deltas, sign, kind) =
          {[no |-> no, day |-> day, account |-> a, amount |-> sign * deltas[a], reversal |-> kind] :
             a \in Moved(deltas)}
        \cup {[no |-> no, day |-> day, account |-> FxAccount, reversal |-> kind,
               amount |-> -sign * SumFunctionOnSet(deltas, ForeignAccounts)]}
  BY DEF RowsOf
<1>9. \A a \in Moved(deltas) :
          row[a] = [no |-> no, day |-> day, account |-> a, amount |-> sign * deltas[a], reversal |-> kind]
  BY <1>2, <1>5, <1>6
<1>10. row[FxAccount] = [no |-> no, day |-> day, account |-> FxAccount, reversal |-> kind,
               amount |-> -sign * SumFunctionOnSet(deltas, ForeignAccounts)]
  BY <1>2, <1>5, <1>7
<1>11. RowsOf(no, day, deltas, sign, kind) = {row[a] : a \in Moved(deltas)} \cup {row[FxAccount]}
  BY <1>8, <1>9, <1>10
<1>12. ASSUME NEW a \in Accounted
       PROVE  /\ row[a].account = a /\ row[a].no = no /\ row[a].day = day
              /\ row[a].reversal = kind /\ row[a].amount = PostedTo(a, deltas, sign)
  <2>1. PICK x : x = PostedTo(a, deltas, sign)
    OBVIOUS
  <2>2. row[a] = [no |-> no, day |-> day, account |-> a, reversal |-> kind, amount |-> x]
    BY <1>2, <2>1
  <2>3. row[a].account = a /\ row[a].no = no /\ row[a].day = day
    BY <2>2
  <2>4. row[a].reversal = kind /\ row[a].amount = x
    BY <2>2
  <2> QED BY <2>1, <2>3, <2>4
<1> QED BY <1>3, <1>11, <1>12

\* The amounts of the accounts that moved are all there is to take against them.
LEMMA MovedTotal ==
    ASSUME NEW deltas \in [ForeignAccounts -> Int], NEW sign \in {1, -1},
           NEW g, \A a \in Accounted : g[a] = PostedTo(a, deltas, sign)
    PROVE  /\ SumFunctionOnSet(g, Moved(deltas)) \in Int
           /\ SumFunctionOnSet(g, Moved(deltas)) + g[FxAccount] = 0
<1>1. \A a \in ForeignAccounts : /\ deltas[a] \in Int
                                 /\ g[a] = IF sign = -1 THEN -deltas[a] ELSE deltas[a]
  BY ClosingAssumption DEF PostedTo, Accounted
<1>2. PICK M : M = Moved(deltas)
  OBVIOUS
<1>3. M \in SUBSET ForeignAccounts /\ \A a \in ForeignAccounts \ M : g[a] = 0
  BY <1>1, <1>2 DEF Moved
<1>4. \A a \in ForeignAccounts : g[a] \in Int
  BY <1>1
<1>5. SumFunctionOnSet(g, ForeignAccounts)
        = SumFunctionOnSet(g, M) + SumFunctionOnSet(g, ForeignAccounts \ M)
  BY <1>3, <1>4, ForeignFinite, SumParts
<1>6. IsFiniteSet(ForeignAccounts \ M) /\ IsFiniteSet(M)
  BY <1>3, ForeignFinite, FS_Subset
<1>7. SumFunctionOnSet(g, ForeignAccounts \ M) = 0
  BY <1>3, <1>6, SumOfZeros
<1>8. SumFunctionOnSet(g, M) \in Int
  BY <1>3, <1>4, <1>6, SumIsNumber
<1>9. SumFunctionOnSet(deltas, ForeignAccounts) \in Int
  BY <1>1, ForeignFinite, SumIsNumber
<1>10. CASE sign = -1
  <2>1. \A a \in ForeignAccounts : deltas[a] \in Int /\ g[a] = -deltas[a]
    BY <1>1, <1>10
  <2>2. SumFunctionOnSet(g, ForeignAccounts) = -SumFunctionOnSet(deltas, ForeignAccounts)
    BY <2>1, ForeignFinite, SumNegated
  <2>3. g[FxAccount] = -(-SumFunctionOnSet(deltas, ForeignAccounts))
    BY <1>10 DEF PostedTo, Accounted
  <2> QED BY <1>2, <1>5, <1>7, <1>8, <1>9, <2>2, <2>3
<1>11. CASE sign = 1
  <2>1. \A a \in ForeignAccounts : deltas[a] \in Int /\ g[a] = deltas[a]
    BY <1>1, <1>11
  <2>2. SumFunctionOnSet(g, ForeignAccounts) = SumFunctionOnSet(deltas, ForeignAccounts)
    BY <2>1, ForeignFinite, SumSame
  <2>3. g[FxAccount] = -SumFunctionOnSet(deltas, ForeignAccounts)
    BY <1>11 DEF PostedTo, Accounted
  <2> QED BY <1>2, <1>5, <1>7, <1>8, <1>9, <2>2, <2>3
<1> QED BY <1>10, <1>11

\* A voucher adds up to nothing, and brings every account what is posted to it.
LEMMA VoucherNets ==
    ASSUME NEW no \in Int, NEW day \in Int, NEW deltas \in [ForeignAccounts -> Int],
           NEW sign \in {1, -1}, NEW kind \in BOOLEAN, NEW E, E = RowsOf(no, day, deltas, sign, kind)
    PROVE  /\ E \subseteq ClosingRows /\ IsFiniteSet(E)
           /\ \A r \in E : r.no = no /\ r.day = day /\ r.reversal = kind
           /\ AmountOf(E) = 0
           /\ \A a \in Accounted :
                NetOf(a, E) = IF a \in Moved(deltas) \cup {FxAccount}
                              THEN PostedTo(a, deltas, sign) ELSE 0
<1>1. PICK row : row = RowOf(no, day, deltas, sign, kind)
  OBVIOUS
<1>2. PICK M : M = Moved(deltas)
  OBVIOUS
<1>3. /\ \A a \in Accounted : /\ row[a] \in ClosingRows /\ row[a].account = a
                              /\ row[a].no = no /\ row[a].day = day /\ row[a].reversal = kind
                              /\ row[a].amount = PostedTo(a, deltas, sign)
      /\ E = {row[a] : a \in M} \cup {row[FxAccount]}
  <2>1. /\ \A a \in Accounted : /\ row[a] \in ClosingRows /\ row[a].account = a
                                /\ row[a].no = no /\ row[a].day = day /\ row[a].reversal = kind
                                /\ row[a].amount = PostedTo(a, deltas, sign)
        /\ RowsOf(no, day, deltas, sign, kind)
             = {row[a] : a \in Moved(deltas)} \cup {row[FxAccount]}
    BY <1>1, VoucherRows
  <2>2. E = {row[a] : a \in M} \cup {row[FxAccount]}
    BY ONLY <1>2, <2>1, E = RowsOf(no, day, deltas, sign, kind)
  <2> QED BY <2>1, <2>2
<1>4. M \subseteq Accounted /\ FxAccount \in Accounted /\ FxAccount \notin M /\ IsFiniteSet(M)
  BY <1>2, ClosingAssumption, ForeignFinite, FS_Subset DEF Moved, Accounted
<1>5. PICK X : X = {row[a] : a \in M}
  OBVIOUS
<1>6. X \subseteq ClosingRows /\ row[FxAccount] \notin X /\ E = X \cup {row[FxAccount]}
  BY <1>3, <1>4, <1>5
<1>7. PICK f : f = [r \in X |-> r.amount]
  OBVIOUS
<1>8. PICK g : g = [a \in Accounted |-> PostedTo(a, deltas, sign)]
  OBVIOUS
<1>9. \A a \in M : g[a] \in Int /\ f[row[a]] = g[a]
  BY <1>3, <1>4, <1>5, <1>7, <1>8, PostedIsNumber
<1>10. \A a, b \in M : row[a] = row[b] => a = b
  BY <1>3, <1>4
<1>11. IsFiniteSet(X) /\ SumFunctionOnSet(f, X) = SumFunctionOnSet(g, M)
  <2>1. IsFiniteSet(M)
    BY <1>4
  <2>2. /\ IsFiniteSet({row[a] : a \in M})
        /\ SumFunctionOnSet(f, {row[a] : a \in M}) = SumFunctionOnSet(g, M)
    BY ONLY <1>9, <1>10, <2>1, SumRenamed
  <2> QED BY ONLY <1>5, <2>2
<1>12. AmountOf(X) = SumFunctionOnSet(g, M)
  BY <1>7, <1>11 DEF AmountOf
<1>13. \A a \in Accounted : g[a] = PostedTo(a, deltas, sign)
  BY <1>8
<1>14. SumFunctionOnSet(g, M) \in Int /\ SumFunctionOnSet(g, M) + g[FxAccount] = 0
  BY <1>2, <1>13, MovedTotal
<1>15. AmountOf({row[FxAccount]}) = g[FxAccount] /\ IsFiniteSet({row[FxAccount]})
  BY <1>3, <1>4, <1>13, AmountOfOne
<1>16. PICK Y : Y = {row[FxAccount]}
  OBVIOUS
<1>17. Y \subseteq ClosingRows /\ X \cap Y = {} /\ IsFiniteSet(Y) /\ AmountOf(Y) = g[FxAccount]
  BY <1>3, <1>4, <1>6, <1>15, <1>16
<1>18. IsFiniteSet(X \cup Y) /\ AmountOf(X \cup Y) = AmountOf(X) + AmountOf(Y)
  BY <1>6, <1>11, <1>17, AmountsTogether
<1>19. E = X \cup Y
  BY <1>6, <1>16
<1>20. AmountOf(E) = 0 /\ IsFiniteSet(E)
  BY <1>12, <1>14, <1>17, <1>18, <1>19
<1>21. \A r \in E : r.no = no /\ r.day = day /\ r.reversal = kind
  BY <1>3, <1>4
<1>22. ASSUME NEW a \in Accounted
       PROVE  NetOf(a, E) = IF a \in M \cup {FxAccount} THEN PostedTo(a, deltas, sign) ELSE 0
  <2>1. CASE a \in M \cup {FxAccount}
    <3>1. {r \in E : r.account = a} = {row[a]}
      BY <1>3, <1>4, <2>1
    <3>2. AmountOf({row[a]}) = row[a].amount
      BY <1>3, AmountOfOne
    <3> QED BY <1>3, <2>1, <3>1, <3>2 DEF NetOf
  <2>2. CASE a \notin M \cup {FxAccount}
    <3>1. {r \in E : r.account = a} = {}
      BY <1>3, <1>4, <2>2
    <3>2. AmountOf({}) = 0
      BY <1>3, AmountOfOne
    <3> QED BY <2>2, <3>1, <3>2 DEF NetOf
  <2> QED BY <2>1, <2>2
<1>23. E \subseteq ClosingRows
  BY <1>3, <1>4
<1> QED BY <1>2, <1>20, <1>21, <1>22, <1>23

OnDay(rows, day) == {r \in rows : r.day = day}
OfAccount(rows, a) == {r \in rows : r.account = a}

\* Finitely many rows.
Recorded(X) == X \subseteq ClosingRows /\ IsFiniteSet(X)

\* Some of the rows are finitely many rows.
LEMMA SomeRecorded == ASSUME NEW X, Recorded(X), NEW Y, Y \subseteq X PROVE Recorded(Y)
BY FS_Subset DEF Recorded

\* Rows of three vouchers that have none in common.
LEMMA ThreeTogether ==
    ASSUME NEW A, NEW B, NEW C, Recorded(A), Recorded(B), Recorded(C),
           A \cap B = {}, A \cap C = {}, B \cap C = {}
    PROVE  /\ AmountOf(A) \in Int /\ AmountOf(B) \in Int /\ AmountOf(C) \in Int
           /\ AmountOf(A \cup B \cup C) = AmountOf(A) + AmountOf(B) + AmountOf(C)
<1>1. /\ A \subseteq ClosingRows /\ B \subseteq ClosingRows /\ C \subseteq ClosingRows
      /\ IsFiniteSet(A) /\ IsFiniteSet(B) /\ IsFiniteSet(C)
  BY DEF Recorded
<1>2. IsFiniteSet(A \cup B) /\ AmountOf(A \cup B) = AmountOf(A) + AmountOf(B)
      /\ AmountOf(A) \in Int /\ AmountOf(B) \in Int
  BY <1>1, AmountsTogether
<1>3. PICK D : D = A \cup B
  OBVIOUS
<1>4. D \subseteq ClosingRows /\ D \cap C = {} /\ IsFiniteSet(D)
  BY <1>1, <1>2, <1>3
<1>5. IsFiniteSet(D \cup C) /\ AmountOf(D \cup C) = AmountOf(D) + AmountOf(C) /\ AmountOf(C) \in Int
  BY <1>1, <1>4, AmountsTogether
<1> QED BY <1>2, <1>3, <1>5

\* The rows of three vouchers are finitely many rows.
LEMMA ThreeRecorded ==
    ASSUME NEW A, NEW B, NEW C, Recorded(A), Recorded(B), Recorded(C)
    PROVE  Recorded(A \cup B \cup C)
BY FS_Union DEF Recorded

\* What is posted and taken back.
LEMMA PostedBack ==
    ASSUME NEW a \in Accounted, NEW deltas \in [ForeignAccounts -> Int]
    PROVE  PostedTo(a, deltas, 1) + PostedTo(a, deltas, -1) = 0
<1>1. SumFunctionOnSet(deltas, ForeignAccounts) \in Int
  BY ForeignFinite, SumIsNumber
<1>2. a # FxAccount => deltas[a] \in Int
  BY DEF Accounted
<1>3. PICK n \in Int : n = IF a = FxAccount THEN -SumFunctionOnSet(deltas, ForeignAccounts) ELSE deltas[a]
  BY <1>1, <1>2
<1>4. PostedTo(a, deltas, 1) = n /\ PostedTo(a, deltas, -1) = -n
  BY <1>3 DEF PostedTo
<1> QED BY <1>4

\* The entries of a voucher and of its reversal.
LEMMA EntriesAre ==
    ASSUME NEW no, NEW day, NEW deltas \in [ForeignAccounts -> Int]
    PROVE  /\ EntriesOf(no, day, deltas, FALSE) = RowsOf(no, day, deltas, 1, FALSE)
           /\ EntriesOf(no, day, deltas, TRUE) = RowsOf(no, day, deltas, -1, TRUE)
BY DEF EntriesOf, RowsOf, Moved

\* A voucher and its reversal.
Below(R, no) == \A r \in R : r.no < no
Voucher(E, no, day, reversal) == \A r \in E : r.no = no /\ r.day = day /\ r.reversal = reversal

ArePair(E, B, no, day, deltas, fore, back) ==
    /\ E = RowsOf(no, day, deltas, 1, fore)
    /\ B = RowsOf(no + 1, day + 1, deltas, -1, back)

\* A voucher and its reversal add up to nothing, and take each other back.
LEMMA PairNets ==
    ASSUME NEW no \in Int, NEW day \in Int, NEW deltas \in [ForeignAccounts -> Int],
           NEW next \in Int, next = no + 1, NEW morrow \in Int, morrow = day + 1,
           NEW plus \in {1, -1}, plus = 1, NEW minus \in {1, -1}, minus = -1,
           NEW fore \in BOOLEAN, NEW back \in BOOLEAN,
           NEW E, E = RowsOf(no, day, deltas, plus, fore),
           NEW B, B = RowsOf(next, morrow, deltas, minus, back)
    PROVE  /\ Recorded(E) /\ Voucher(E, no, day, fore) /\ AmountOf(E) = 0
           /\ Recorded(B) /\ Voucher(B, next, morrow, back) /\ AmountOf(B) = 0
           /\ E \cap B = {}
           /\ \A a \in Accounted : NetOf(a, E) + NetOf(a, B) = 0
<1>1. /\ E \subseteq ClosingRows /\ IsFiniteSet(E)
      /\ \A r \in E : r.no = no /\ r.day = day /\ r.reversal = fore
      /\ AmountOf(E) = 0
      /\ \A a \in Accounted :
           NetOf(a, E) = IF a \in Moved(deltas) \cup {FxAccount}
                         THEN PostedTo(a, deltas, plus) ELSE 0
  BY VoucherNets
<1>4. /\ B \subseteq ClosingRows /\ IsFiniteSet(B)
      /\ \A r \in B : r.no = next /\ r.day = morrow /\ r.reversal = back
      /\ AmountOf(B) = 0
      /\ \A a \in Accounted :
           NetOf(a, B) = IF a \in Moved(deltas) \cup {FxAccount}
                         THEN PostedTo(a, deltas, minus) ELSE 0
  BY VoucherNets
<1>5. no # next
  OBVIOUS
<1>6. E \cap B = {}
  BY <1>1, <1>4, <1>5
<1>7. ASSUME NEW a \in Accounted PROVE NetOf(a, E) + NetOf(a, B) = 0
  <2>1. CASE a \in Moved(deltas) \cup {FxAccount}
    <3>1. NetOf(a, E) = PostedTo(a, deltas, 1) /\ NetOf(a, B) = PostedTo(a, deltas, -1)
      BY <1>1, <1>4, <2>1
    <3>2. PostedTo(a, deltas, 1) + PostedTo(a, deltas, -1) = 0
      BY PostedBack
    <3> QED BY <3>1, <3>2
  <2>2. CASE a \notin Moved(deltas) \cup {FxAccount}
    <3>1. NetOf(a, E) = 0 /\ NetOf(a, B) = 0
      BY <1>1, <1>4, <2>2
    <3> QED BY <3>1
  <2> QED BY <2>1, <2>2
<1> QED BY <1>1, <1>4, <1>6, <1>7 DEF Recorded, Voucher

\* Sums are taken over parts that correspond.
LEMMA AccountTogether ==
    ASSUME NEW R, NEW E, NEW B, Recorded(R), Recorded(E), Recorded(B),
           R \cap E = {}, R \cap B = {}, E \cap B = {}, NEW a
    PROVE  /\ NetOf(a, R) \in Int /\ NetOf(a, E) \in Int /\ NetOf(a, B) \in Int
           /\ NetOf(a, R \cup E \cup B) = NetOf(a, R) + NetOf(a, E) + NetOf(a, B)
<1>1. PICK Ra, Ea, Ba : Ra = OfAccount(R, a) /\ Ea = OfAccount(E, a) /\ Ba = OfAccount(B, a)
  OBVIOUS
<1>2. /\ Ra \subseteq R /\ Ea \subseteq E /\ Ba \subseteq B
      /\ OfAccount(R \cup E \cup B, a) = Ra \cup Ea \cup Ba
  BY <1>1 DEF OfAccount
<1>3. Recorded(Ra) /\ Recorded(Ea) /\ Recorded(Ba)
  BY <1>2, SomeRecorded
<1>4. Ra \cap Ea = {} /\ Ra \cap Ba = {} /\ Ea \cap Ba = {}
  BY <1>2
<1>5. /\ AmountOf(Ra) \in Int /\ AmountOf(Ea) \in Int /\ AmountOf(Ba) \in Int
      /\ AmountOf(Ra \cup Ea \cup Ba) = AmountOf(Ra) + AmountOf(Ea) + AmountOf(Ba)
  <2>1. AmountOf(Ra) \in Int /\ AmountOf(Ea) \in Int /\ AmountOf(Ba) \in Int
    BY <1>3, <1>4, ThreeTogether
  <2>2. AmountOf(Ra \cup Ea \cup Ba) = AmountOf(Ra) + AmountOf(Ea) + AmountOf(Ba)
    BY <1>3, <1>4, ThreeTogether
  <2> QED BY <2>1, <2>2
<1>6. \A X : NetOf(a, X) = AmountOf(OfAccount(X, a))
  BY DEF NetOf, OfAccount
<1>7. /\ NetOf(a, R) = AmountOf(Ra) /\ NetOf(a, E) = AmountOf(Ea) /\ NetOf(a, B) = AmountOf(Ba)
      /\ NetOf(a, R \cup E \cup B) = AmountOf(Ra \cup Ea \cup Ba)
  BY <1>1, <1>2, <1>6
<1> QED BY <1>5, <1>7

\* The same of the rows of a day.
LEMMA DayTogether ==
    ASSUME NEW R, NEW E, NEW B, Recorded(R), Recorded(E), Recorded(B),
           R \cap E = {}, R \cap B = {}, E \cap B = {}, NEW d
    PROVE  AmountOf(OnDay(R \cup E \cup B, d))
             = AmountOf(OnDay(R, d)) + AmountOf(OnDay(E, d)) + AmountOf(OnDay(B, d))
<1>1. PICK Rd, Ed, Bd : Rd = OnDay(R, d) /\ Ed = OnDay(E, d) /\ Bd = OnDay(B, d)
  OBVIOUS
<1>2. /\ Rd \subseteq R /\ Ed \subseteq E /\ Bd \subseteq B
      /\ OnDay(R \cup E \cup B, d) = Rd \cup Ed \cup Bd
  BY <1>1 DEF OnDay
<1>3. Recorded(Rd) /\ Recorded(Ed) /\ Recorded(Bd)
  BY <1>2, SomeRecorded
<1>4. Rd \cap Ed = {} /\ Rd \cap Bd = {} /\ Ed \cap Bd = {}
  BY <1>2
<1>5. AmountOf(Rd \cup Ed \cup Bd) = AmountOf(Rd) + AmountOf(Ed) + AmountOf(Bd)
  BY <1>3, <1>4, ThreeTogether
<1> QED BY <1>1, <1>2, <1>5

\* All the rows of a voucher are on one day.
LEMMA VoucherOnDay ==
    ASSUME NEW E, NEW no, NEW day, NEW reversal, Voucher(E, no, day, reversal), AmountOf(E) = 0, NEW d
    PROVE  AmountOf(OnDay(E, d)) = 0
<1>1. OnDay(E, d) = E \/ OnDay(E, d) = {}
  BY DEF Voucher, OnDay
<1>2. AmountOf({}) = 0
  BY SumOfNone DEF AmountOf
<1> QED BY <1>1, <1>2

\* Every account and every day stands where it stood.
SameNets(R, S) ==
    /\ \A a \in Accounted : NetOf(a, S) = NetOf(a, R)
    /\ \A d : AmountOf(OnDay(R, d)) = 0 => AmountOf(OnDay(S, d)) = 0

\* A voucher and its reversal leave every account and every day where they were.
LEMMA ReversalTakesBack ==
    ASSUME NEW R, Recorded(R), NEW no \in Int, Below(R, no),
           NEW day \in Int, NEW deltas \in [ForeignAccounts -> Int],
           NEW fore \in BOOLEAN, NEW back \in BOOLEAN, NEW E, NEW B,
           ArePair(E, B, no, day, deltas, fore, back)
    PROVE  /\ Recorded(R \cup E \cup B)
           /\ Voucher(E, no, day, fore) /\ Voucher(B, no + 1, day + 1, back)
           /\ SameNets(R, R \cup E \cup B)
<1>0. PICK next, morrow, plus, minus :
          /\ next \in Int /\ next = no + 1 /\ morrow \in Int /\ morrow = day + 1
          /\ plus \in {1, -1} /\ plus = 1 /\ minus \in {1, -1} /\ minus = -1
          /\ E = RowsOf(no, day, deltas, plus, fore) /\ B = RowsOf(next, morrow, deltas, minus, back)
  BY DEF ArePair
<1>1. /\ Recorded(E) /\ Voucher(E, no, day, fore) /\ AmountOf(E) = 0
      /\ Recorded(B) /\ Voucher(B, next, morrow, back) /\ AmountOf(B) = 0
      /\ E \cap B = {}
      /\ \A a \in Accounted : NetOf(a, E) + NetOf(a, B) = 0
  BY <1>0, PairNets
<1>2. R \cap E = {} /\ R \cap B = {}
  <2>1. \A r \in R : r.no \in Int /\ r.no # no /\ r.no # next
    BY <1>0 DEF Recorded, Below, ClosingRows
  <2>2. (\A r \in E : r.no = no) /\ \A r \in B : r.no = next
    BY <1>1 DEF Voucher
  <2> QED BY <2>1, <2>2
<1>3. Recorded(R \cup E \cup B)
  BY <1>1, ThreeRecorded
<1>4. ASSUME NEW a \in Accounted PROVE NetOf(a, R \cup E \cup B) = NetOf(a, R)
  <2>1. /\ NetOf(a, R) \in Int /\ NetOf(a, E) \in Int /\ NetOf(a, B) \in Int
        /\ NetOf(a, R \cup E \cup B) = NetOf(a, R) + NetOf(a, E) + NetOf(a, B)
    <3>1. /\ Recorded(R) /\ Recorded(E) /\ Recorded(B)
          /\ R \cap E = {} /\ R \cap B = {} /\ E \cap B = {}
      BY <1>1, <1>2
    <3>2. NetOf(a, R) \in Int /\ NetOf(a, E) \in Int /\ NetOf(a, B) \in Int
      BY ONLY <3>1, AccountTogether
    <3>3. NetOf(a, R \cup E \cup B) = NetOf(a, R) + NetOf(a, E) + NetOf(a, B)
      BY ONLY <3>1, AccountTogether
    <3> QED BY <3>2, <3>3
  <2>2. NetOf(a, E) + NetOf(a, B) = 0
    BY <1>1
  <2> QED BY <2>1, <2>2
<1>5. ASSUME NEW d, AmountOf(OnDay(R, d)) = 0 PROVE AmountOf(OnDay(R \cup E \cup B, d)) = 0
  <2>1. AmountOf(OnDay(R \cup E \cup B, d))
          = AmountOf(OnDay(R, d)) + AmountOf(OnDay(E, d)) + AmountOf(OnDay(B, d))
    <3>1. /\ Recorded(R) /\ Recorded(E) /\ Recorded(B)
          /\ R \cap E = {} /\ R \cap B = {} /\ E \cap B = {}
      BY <1>1, <1>2
    <3> QED BY <3>1, DayTogether
  <2>2. AmountOf(OnDay(E, d)) = 0
    BY <1>1, VoucherOnDay
  <2>3. AmountOf(OnDay(B, d)) = 0
    BY <1>1, VoucherOnDay
  <2> QED BY <1>5, <2>1, <2>2, <2>3
<1> QED BY <1>0, <1>1, <1>3, <1>4, <1>5 DEF SameNets

\* The same of what is committed.
AreCommitted(E, B, no, day, deltas) ==
    /\ E = EntriesOf(no, day, deltas, FALSE)
    /\ B = EntriesOf(no + 1, day + 1, deltas, TRUE)

\* What a commit posts leaves every account and every day where they were.
LEMMA CommitTakesBack ==
    ASSUME NEW R, Recorded(R), NEW no \in Int, Below(R, no),
           NEW day \in Int, NEW deltas \in [ForeignAccounts -> Int],
           NEW E, NEW B, AreCommitted(E, B, no, day, deltas)
    PROVE  /\ Recorded(R \cup E \cup B)
           /\ \A r \in E : r.no = no /\ r.day = day
           /\ \A r \in B : r.reversal
           /\ SameNets(R, R \cup E \cup B)
<1>1. PICK fore, back : fore = FALSE /\ back = TRUE
  OBVIOUS
<1>2. fore \in BOOLEAN /\ back \in BOOLEAN
  BY <1>1
<1>3. ArePair(E, B, no, day, deltas, fore, back)
  BY <1>1, EntriesAre DEF AreCommitted, ArePair
<1>5. /\ Recorded(R \cup E \cup B)
      /\ Voucher(E, no, day, fore) /\ Voucher(B, no + 1, day + 1, back)
      /\ SameNets(R, R \cup E \cup B)
  BY <1>2, <1>3, ReversalTakesBack
<1>6. /\ \A r \in E : r.no = no /\ r.day = day
      /\ \A r \in B : r.reversal
  BY <1>1, <1>5 DEF Voucher
<1> QED BY <1>5, <1>6

\* The inductive step

\* A request that is not under way.
LEMMA OffDutyType == OffDuty \in ClosingRequests /\ OffDuty.at = "idle"
BY DEF OffDuty, ClosingRequests

\* A company that was never revalued.
LEMMA ClosingStarts == ClosingInit => ClosingInv
<1> SUFFICES ASSUME ClosingInit PROVE ClosingInv
  OBVIOUS
<1>1. ClosingTyped
  BY OffDutyType, FS_EmptySet DEF ClosingInit, ClosingTyped
<1>2. PosterHoldsDay /\ OneVoucherADay
  BY OffDutyType DEF ClosingInit, PosterHoldsDay, OneVoucherADay
<1>3. AmountOf({}) = 0
  BY SumOfNone DEF AmountOf
<1>4. \A a \in Accounted : {r \in revalued : r.account = a} = {}
  BY DEF ClosingInit
<1>5. \A day \in Int : {r \in revalued : r.day = day} = {}
  BY DEF ClosingInit
<1>6. AccountsClear /\ DaysBalance
  BY <1>3, <1>4, <1>5 DEF AccountsClear, DaysBalance, NetOf
<1> QED BY <1>1, <1>2, <1>6 DEF ClosingInv

\* As long as no voucher is posted, the books stay as they are.
LEMMA BooksStay ==
    ASSUME ClosingInv, revalued' = revalued
    PROVE  OneVoucherADay' /\ AccountsClear' /\ DaysBalance'
BY DEF ClosingInv, OneVoucherADay, AccountsClear, DaysBalance, NetOf, AmountOf

\* The commit of a voucher and its reversal.
LEMMA CommitPreserves ==
    ASSUME ClosingInv, NEW c \in Closers, CommitRevaluation(c)
    PROVE  ClosingInv'
<1> USE DEF ClosingInv
<1>1. PICK no, day, deltas :
          no = NextNo /\ day = closer[c].day /\ deltas = closer[c].deltas
  OBVIOUS
<1>2. no \in Int /\ day \in Int /\ deltas \in [ForeignAccounts -> Int]
  BY <1>1, NextNoAbove DEF ClosingTyped, ClosingRequests
<1>3. \A r \in revalued : r.no < no
  BY <1>1, NextNoAbove
<1>4. PICK R, E, B : R = revalued /\ E = EntriesOf(no, day, deltas, FALSE)
                     /\ B = EntriesOf(no + 1, day + 1, deltas, TRUE)
  OBVIOUS
<1>5. revalued' = R \cup E \cup B /\ closer' = [closer EXCEPT ![c] = OffDuty]
      /\ dayLock' = (IF dayLock = c THEN NoCloser ELSE dayLock) /\ foreign' = foreign
      /\ closer[c].at = "posting"
  BY <1>1, <1>4 DEF CommitRevaluation
<1>6. Recorded(R) /\ Below(R, no) /\ AreCommitted(E, B, no, day, deltas)
  BY <1>3, <1>4 DEF ClosingTyped, Recorded, Below, AreCommitted
<1>9. /\ Recorded(R \cup E \cup B)
      /\ \A r \in E : r.no = no /\ r.day = day
      /\ \A r \in B : r.reversal
      /\ SameNets(R, R \cup E \cup B)
  BY <1>2, <1>6, CommitTakesBack
<1>10. closer' \in [Closers -> ClosingRequests]
  BY <1>5, OffDutyType DEF ClosingTyped
<1>11. ClosingTyped'
  BY <1>5, <1>9, <1>10 DEF ClosingTyped, Recorded
<1>12. PosterHoldsDay'
  <2>1. \A b \in Closers \ {c} : closer[b].at # "posting"
    BY <1>5 DEF PosterHoldsDay
  <2>2. \A b \in Closers : closer'[b].at # "posting"
    BY <1>5, <2>1, OffDutyType DEF ClosingTyped
  <2> QED BY <2>2 DEF PosterHoldsDay
<1>13. OneVoucherADay'
  <2>1. \A r \in R : r.day = day => r.reversal
    BY <1>1, <1>4, <1>5 DEF PosterHoldsDay, RevaluedOn
  <2>2. \A r, s \in R : r.day = s.day /\ ~r.reversal /\ ~s.reversal => r.no = s.no
    BY <1>4 DEF OneVoucherADay
  <2>3. \A r, s \in R \cup E \cup B :
            r.day = s.day /\ ~r.reversal /\ ~s.reversal => r.no = s.no
    BY <1>9, <2>1, <2>2
  <2> QED BY <1>5, <2>3 DEF OneVoucherADay
<1>14. AccountsClear'
  <2>1. \A a \in Accounted : NetOf(a, R \cup E \cup B) = 0
    BY <1>4, <1>9 DEF AccountsClear, SameNets
  <2> QED BY <1>5, <2>1 DEF AccountsClear, NetOf, AmountOf
<1>15. DaysBalance'
  <2>1. \A d \in Int : AmountOf(OnDay(R, d)) = 0
    BY <1>4 DEF DaysBalance, OnDay
  <2>2. \A d \in Int : AmountOf(OnDay(R \cup E \cup B, d)) = 0
    BY <1>9, <2>1 DEF SameNets
  <2> QED BY <1>5, <2>2 DEF DaysBalance, OnDay, AmountOf
<1> QED BY <1>11, <1>12, <1>13, <1>14, <1>15

\* Every other step leaves the rows alone.
LEMMA ClosingStep ==
    ASSUME ClosingInv, [ClosingNext]_closingVars
    PROVE  ClosingInv'
<1>1. ASSUME NEW a \in ForeignAccounts, NEW n \in {-1, 1}, Trade(a, n) PROVE ClosingInv'
  <2>1. foreign' \in [ForeignAccounts -> Int]
    BY <1>1 DEF Trade, ClosingInv, ClosingTyped
  <2>2. UNCHANGED <<revalued, closer, dayLock>>
    BY <1>1 DEF Trade
  <2>3. ClosingTyped' /\ PosterHoldsDay'
    BY <2>1, <2>2 DEF ClosingInv, ClosingTyped, PosterHoldsDay, RevaluedOn
  <2> QED BY <2>2, <2>3, BooksStay DEF ClosingInv
<1>2. ASSUME NEW c \in Closers, NEW day \in Days, Collect(c, day) PROVE ClosingInv'
  <2>1. PICK delta : delta = [a \in ForeignAccounts |-> foreign[a] * ClosingRate[day] - BaseValue(a)]
    OBVIOUS
  <2>2. closer' = [closer EXCEPT ![c] = [at |-> "collected", day |-> day, deltas |-> delta]]
        /\ UNCHANGED <<foreign, revalued, dayLock>>
    BY <1>2, <2>1 DEF Collect
  <2>3. \A a \in ForeignAccounts : BaseValue(a) \in Int
    <3> SUFFICES ASSUME NEW a \in ForeignAccounts PROVE BaseValue(a) \in Int
      OBVIOUS
    <3>1. NetOf(a, revalued) = 0
      BY DEF ClosingInv, AccountsClear, Accounted
    <3>2. foreign[a] \in Int /\ BillRate \in Int
      BY ClosingAssumption DEF ClosingInv, ClosingTyped
    <3>3. foreign[a] * BillRate \in Int
      BY <3>2
    <3> QED BY <3>1, <3>3 DEF BaseValue
  <2>4. day \in Int /\ ClosingRate[day] \in Int
    BY ClosingAssumption
  <2>5. delta \in [ForeignAccounts -> Int]
    <3>1. \A a \in ForeignAccounts : foreign[a] * ClosingRate[day] - BaseValue(a) \in Int
      <4> SUFFICES ASSUME NEW a \in ForeignAccounts
                   PROVE  foreign[a] * ClosingRate[day] - BaseValue(a) \in Int
        OBVIOUS
      <4>1. foreign[a] \in Int /\ BaseValue(a) \in Int
        BY <2>3 DEF ClosingInv, ClosingTyped
      <4> QED BY <2>4, <4>1
    <3> QED BY <2>1, <3>1
  <2>6. closer' \in [Closers -> ClosingRequests]
    BY <2>2, <2>4, <2>5 DEF ClosingInv, ClosingTyped, ClosingRequests
  <2>7. ClosingTyped'
    BY <2>2, <2>6 DEF ClosingInv, ClosingTyped
  <2>8. PosterHoldsDay'
    BY <2>2 DEF ClosingInv, ClosingTyped, PosterHoldsDay, RevaluedOn
  <2> QED BY <2>2, <2>7, <2>8, BooksStay DEF ClosingInv
<1>3. ASSUME NEW c \in Closers, LockDay(c) PROVE ClosingInv'
  <2>1. /\ dayLock = NoCloser /\ ~RevaluedOn(closer[c].day)
        /\ dayLock' = c /\ closer' = [closer EXCEPT ![c] = [closer[c] EXCEPT !.at = "posting"]]
        /\ UNCHANGED <<foreign, revalued>>
    BY <1>3 DEF LockDay
  <2>2. ClosingTyped'
    BY <2>1 DEF ClosingInv, ClosingTyped, ClosingRequests
  <2>3. \A b \in Closers : closer[b].at # "posting"
    BY <2>1, ClosingAssumption DEF ClosingInv, PosterHoldsDay
  <2>4. PosterHoldsDay'
    BY <2>1, <2>3 DEF ClosingInv, ClosingTyped, ClosingRequests, PosterHoldsDay, RevaluedOn
  <2> QED BY <2>1, <2>2, <2>4, BooksStay DEF ClosingInv
<1>4. ASSUME NEW c \in Closers, DropRevaluation(c) PROVE ClosingInv'
  <2>1. /\ closer' = [closer EXCEPT ![c] = OffDuty]
        /\ dayLock' = IF dayLock = c THEN NoCloser ELSE dayLock
        /\ UNCHANGED <<foreign, revalued>>
    BY <1>4 DEF DropRevaluation
  <2>2. ClosingTyped'
    BY <2>1, OffDutyType DEF ClosingInv, ClosingTyped
  <2>3. PosterHoldsDay'
    BY <2>1, OffDutyType DEF ClosingInv, ClosingTyped, PosterHoldsDay, RevaluedOn
  <2> QED BY <2>1, <2>2, <2>3, BooksStay DEF ClosingInv
<1>5. CASE UNCHANGED closingVars
  <2>1. ClosingTyped' /\ PosterHoldsDay' /\ revalued' = revalued
    BY <1>5 DEF closingVars, ClosingInv, ClosingTyped, PosterHoldsDay, RevaluedOn
  <2> QED BY <2>1, BooksStay DEF ClosingInv
<1> QED BY <1>1, <1>2, <1>3, <1>4, <1>5, CommitPreserves DEF ClosingNext

\* Every state: whoever posts holds the lock and its day is free, one voucher has a day, and
\* no account and no day keeps an amount (accounting/revaluation.py, the run of a period).
THEOREM ClosingInvariant == ClosingSpec => []ClosingInv
<1>1. ClosingInv /\ [ClosingNext]_closingVars => ClosingInv'
  BY ClosingStep
<1> QED BY <1>1, ClosingStarts, PTL DEF ClosingSpec

\* A day is revalued once however many requests race for it, its voucher balances, and the
\* next day it is taken back in full, for any days, rates and trades.
THEOREM RevaluationIsTakenBack == ClosingSpec => []RevaluedOnceAndTakenBack
<1>1. ClosingInv => RevaluedOnceAndTakenBack
  BY ClosingAssumption DEF ClosingInv, OneVoucherADay, AccountsClear, DaysBalance, Accounted,
     RevaluedOnceAndTakenBack
<1> QED BY <1>1, ClosingInvariant, PTL

-----------------------------------------------------------------------------
(* Receivables: what a bill shows as outstanding. *)

\* Of documents in states st: what is posted against bill b, and what is returned of it.
SettlesIn(st) == {v \in Settlements : st[v] = "submitted"}
ReturnsIn(st, o) == {r \in Returns : Against[r] = o /\ st[r] = "submitted"}

Exact(st, out, fl) ==
    \A b \in Bills : st[b] = "submitted" /\ b \notin fl =>
        Sign(b) * out[b] = Sign(b) * Opening(b) - AllocOf(SettlesIn(st), b)
                            - (IF b \in Invoices THEN CreditOf(ReturnsIn(st, b)) ELSE 0)
Enough(st, out) ==
    \A b \in Invoices : st[b] = "submitted" =>
        out[b] >= Opening(b) - AllocOf(SettlesIn(st), b) - CreditOf(ReturnsIn(st, b))
ReturnedPart(st) == \A o \in Invoices : CreditOf(ReturnsIn(st, o)) <= Total[o]

Amounts(st, out, fl) == Exact(st, out, fl) /\ Enough(st, out) /\ ReturnedPart(st)

\* The inductive invariant of the amounts.
AmountsInv == BooksInv /\ Amounts(status, outstanding, floored)

\* The amounts of the documents in S are numbers, and one more adds to them.
LEMMA AllocFacts ==
    ASSUME NEW S \in SUBSET Settlements, NEW b \in Bills
    PROVE  /\ AllocOf(S, b) \in Nat
           /\ (\A v \in S : Alloc[v][b] = 0) => AllocOf(S, b) = 0
           /\ \A v \in Settlements \ S : AllocOf(S \cup {v}, b) = AllocOf(S, b) + Alloc[v][b]
           /\ \A v \in S : AllocOf(S \ {v}, b) = AllocOf(S, b) - Alloc[v][b]
           /\ \A v \in S : Alloc[v][b] <= AllocOf(S, b)
           /\ \A P \in SUBSET S : AllocOf(S, b) = AllocOf(P, b) + AllocOf(S \ P, b)
<1>1. PICK f : f = [v \in Settlements |-> Alloc[v][b]]
  OBVIOUS
<1>2. \A v \in Settlements : f[v] \in Nat /\ f[v] \in Int /\ f[v] = Alloc[v][b]
  BY <1>1, BillAssumption
<1>3. \A T \in SUBSET Settlements : IsFiniteSet(T)
  BY BillAssumption, FS_Subset
<1>4. \A T \in SUBSET Settlements : AllocOf(T, b) = SumFunctionOnSet(f, T)
  <2> SUFFICES ASSUME NEW T \in SUBSET Settlements PROVE AllocOf(T, b) = SumFunctionOnSet(f, T)
    OBVIOUS
  <2>1. PICK g : g = [v \in T |-> Alloc[v][b]]
    OBVIOUS
  <2>2. IsFiniteSet(T) /\ \A v \in T : f[v] \in Int /\ g[v] = f[v]
    BY <1>2, <1>3, <2>1
  <2>3. SumFunctionOnSet(g, T) = SumFunctionOnSet(f, T)
    BY ONLY <2>2, SumSame
  <2> QED BY <2>1, <2>3 DEF AllocOf
<1>5. \A T \in SUBSET Settlements : SumFunctionOnSet(f, T) \in Nat
  <2> SUFFICES ASSUME NEW T \in SUBSET Settlements PROVE SumFunctionOnSet(f, T) \in Nat
    OBVIOUS
  <2>1. IsFiniteSet(T) /\ \A v \in T : f[v] \in Nat
    BY <1>2, <1>3
  <2> QED BY ONLY <2>1, SumNotNegative
<1>6. ASSUME NEW v \in S
      PROVE  SumFunctionOnSet(f, S) = f[v] + SumFunctionOnSet(f, S \ {v})
  <2>1. IsFiniteSet(S) /\ (\A x \in S : f[x] \in Int) /\ v \in S
    BY <1>2, <1>3
  <2> QED BY ONLY <2>1, SumRemove
<1>7. ASSUME NEW v \in Settlements \ S
      PROVE  SumFunctionOnSet(f, S \cup {v}) = SumFunctionOnSet(f, S) + f[v]
  <2>1. IsFiniteSet(S) /\ v \notin S /\ (\A x \in S \cup {v} : f[x] \in Int)
    BY <1>2, <1>3
  <2> QED BY ONLY <2>1, SumAdd
<1>8. ASSUME NEW P \in SUBSET S
      PROVE  SumFunctionOnSet(f, S) = SumFunctionOnSet(f, P) + SumFunctionOnSet(f, S \ P)
  <2>1. IsFiniteSet(S) /\ P \in SUBSET S /\ (\A x \in S : f[x] \in Int)
    BY <1>2, <1>3
  <2> QED BY ONLY <2>1, SumParts
<1>9. ASSUME \A v \in S : Alloc[v][b] = 0 PROVE SumFunctionOnSet(f, S) = 0
  <2>1. IsFiniteSet(S) /\ \A v \in S : f[v] = 0
    BY <1>2, <1>3, <1>9
  <2> QED BY ONLY <2>1, SumOfZeros
<1>10. AllocOf(S, b) \in Nat /\ ((\A v \in S : Alloc[v][b] = 0) => AllocOf(S, b) = 0)
  BY <1>4, <1>5, <1>9
<1>11. \A v \in Settlements \ S : AllocOf(S \cup {v}, b) = AllocOf(S, b) + Alloc[v][b]
  <2> SUFFICES ASSUME NEW v \in Settlements \ S
               PROVE  AllocOf(S \cup {v}, b) = AllocOf(S, b) + Alloc[v][b]
    OBVIOUS
  <2>1. S \cup {v} \in SUBSET Settlements
    OBVIOUS
  <2> QED BY <1>2, <1>4, <1>7, <2>1
<1>12. ASSUME NEW v \in S
       PROVE  AllocOf(S \ {v}, b) = AllocOf(S, b) - Alloc[v][b] /\ Alloc[v][b] <= AllocOf(S, b)
  <2>1. S \ {v} \in SUBSET Settlements /\ v \in Settlements
    OBVIOUS
  <2>2. PICK m, n, a : m = AllocOf(S, b) /\ n = AllocOf(S \ {v}, b) /\ a = Alloc[v][b]
    OBVIOUS
  <2>3. m = a + n /\ m \in Nat /\ n \in Nat /\ a \in Nat
    BY <1>2, <1>4, <1>5, <1>6, <2>1, <2>2
  <2> QED BY <2>2, <2>3
<1>13. \A P \in SUBSET S : AllocOf(S, b) = AllocOf(P, b) + AllocOf(S \ P, b)
  <2> SUFFICES ASSUME NEW P \in SUBSET S PROVE AllocOf(S, b) = AllocOf(P, b) + AllocOf(S \ P, b)
    OBVIOUS
  <2>1. P \in SUBSET Settlements /\ S \ P \in SUBSET Settlements
    OBVIOUS
  <2> QED BY <1>4, <1>8, <2>1
<1> QED BY <1>10, <1>11, <1>12, <1>13

\* So are their totals.
LEMMA TotalFacts ==
    ASSUME NEW S \in SUBSET Returns
    PROVE  /\ CreditOf(S) \in Nat
           /\ CreditOf({}) = 0
           /\ \A r \in Returns \ S : CreditOf(S \cup {r}) = CreditOf(S) + Credit[r]
           /\ \A r \in S : CreditOf(S \ {r}) = CreditOf(S) - Credit[r]
           /\ \A P \in SUBSET S : CreditOf(S) = CreditOf(P) + CreditOf(S \ P)
<1>1. \A r \in Returns : Credit[r] \in Nat /\ Credit[r] \in Int
  BY OpeningSigned DEF Bills
<1>2. \A T \in SUBSET Returns : IsFiniteSet(T)
  BY BillAssumption, FS_Subset
<1>3. ASSUME NEW T \in SUBSET Returns PROVE CreditOf(T) \in Nat
  <2>1. IsFiniteSet(T) /\ \A r \in T : Credit[r] \in Nat
    BY <1>1, <1>2
  <2>2. SumFunctionOnSet(Credit, T) \in Nat
    BY ONLY <2>1, SumNotNegative
  <2> QED BY <2>2 DEF CreditOf
<1>4. CreditOf({}) = 0
  BY SumOfNone DEF CreditOf
<1>5. ASSUME NEW r \in Returns \ S PROVE CreditOf(S \cup {r}) = CreditOf(S) + Credit[r]
  <2>1. IsFiniteSet(S) /\ r \notin S /\ \A x \in S \cup {r} : Credit[x] \in Int
    BY <1>1, <1>2
  <2>2. SumFunctionOnSet(Credit, S \cup {r}) = SumFunctionOnSet(Credit, S) + Credit[r]
    BY ONLY <2>1, SumAdd
  <2> QED BY <2>2 DEF CreditOf
<1>6. ASSUME NEW r \in S PROVE CreditOf(S \ {r}) = CreditOf(S) - Credit[r]
  <2>1. IsFiniteSet(S) /\ r \in S /\ \A x \in S : Credit[x] \in Int
    BY <1>1, <1>2
  <2>2. SumFunctionOnSet(Credit, S) = Credit[r] + SumFunctionOnSet(Credit, S \ {r})
    BY ONLY <2>1, SumRemove
  <2>3. PICK m, n : m = CreditOf(S) /\ n = CreditOf(S \ {r})
    OBVIOUS
  <2>4. m = Credit[r] + n
    BY <2>2, <2>3 DEF CreditOf
  <2>5. n \in Nat /\ Credit[r] \in Nat
    <3>1. S \ {r} \in SUBSET Returns /\ r \in Returns
      OBVIOUS
    <3> QED BY <1>1, <1>3, <2>3, <3>1
  <2> QED BY <2>3, <2>4, <2>5
<1>7. ASSUME NEW P \in SUBSET S PROVE CreditOf(S) = CreditOf(P) + CreditOf(S \ P)
  <2>1. IsFiniteSet(S) /\ P \in SUBSET S /\ \A x \in S : Credit[x] \in Int
    BY <1>1, <1>2
  <2>2. SumFunctionOnSet(Credit, S) =
            SumFunctionOnSet(Credit, P) + SumFunctionOnSet(Credit, S \ P)
    BY ONLY <2>1, SumParts
  <2> QED BY <2>2 DEF CreditOf
<1> QED BY <1>3, <1>4, <1>5, <1>6, <1>7

\* Document d is the one that is posted in states st2 and not in states st.
PostsIn(d, st, st2) ==
    /\ st[d] # "submitted"
    /\ \A e \in Documents : st2[e] = "submitted" <=> e = d \/ st[e] = "submitted"

\* Posting a document adds its allocations, or its return, to the sums; reversing it takes
\* them off again.
LEMMA PostingSums ==
    ASSUME NEW st, NEW st2, NEW d \in Documents, PostsIn(d, st, st2), NEW b \in Bills
    PROVE  /\ AllocOf(SettlesIn(st2), b) =
                  AllocOf(SettlesIn(st), b) + (IF d \in Settlements THEN Alloc[d][b] ELSE 0)
           /\ b \in Invoices => CreditOf(ReturnsIn(st2, b)) =
                  CreditOf(ReturnsIn(st, b))
                  + (IF d \in Returns /\ Against[d] = b THEN Credit[d] ELSE 0)
<1>1. /\ st[d] # "submitted"
      /\ \A v \in Settlements : st2[v] = "submitted" <=> v = d \/ st[v] = "submitted"
  BY DEF Documents, PostsIn
<1>2. \A r \in Returns : st2[r] = "submitted" <=> r = d \/ st[r] = "submitted"
  BY DEF Documents, Bills, PostsIn
<1>3. AllocOf(SettlesIn(st2), b) =
          AllocOf(SettlesIn(st), b) + (IF d \in Settlements THEN Alloc[d][b] ELSE 0)
  <2>1. PICK S, T : S = SettlesIn(st) /\ T = SettlesIn(st2)
    OBVIOUS
  <2>2. S \in SUBSET Settlements /\ d \notin S
    BY <1>1, <2>1 DEF SettlesIn
  <2>3. AllocOf(S, b) \in Nat
    BY <2>2, AllocFacts
  <2>4. CASE d \in Settlements
    <3>1. T = S \cup {d}
      BY <1>1, <2>1, <2>4 DEF SettlesIn
    <3>2. AllocOf(S \cup {d}, b) = AllocOf(S, b) + Alloc[d][b]
      BY <2>2, <2>4, AllocFacts
    <3> QED BY <2>1, <2>4, <3>1, <3>2
  <2>5. CASE d \notin Settlements
    <3>1. T = S
      BY <1>1, <2>1, <2>5 DEF SettlesIn
    <3> QED BY <2>1, <2>3, <2>5, <3>1
  <2> QED BY <2>4, <2>5
<1>4. ASSUME b \in Invoices
      PROVE  CreditOf(ReturnsIn(st2, b)) =
                 CreditOf(ReturnsIn(st, b))
                 + (IF d \in Returns /\ Against[d] = b THEN Credit[d] ELSE 0)
  <2>1. PICK S, T : S = ReturnsIn(st, b) /\ T = ReturnsIn(st2, b)
    OBVIOUS
  <2>2. S \in SUBSET Returns /\ d \notin S
    BY <1>1, <2>1 DEF ReturnsIn
  <2>3. CreditOf(S) \in Nat
    BY <2>2, TotalFacts
  <2>4. CASE d \in Returns /\ Against[d] = b
    <3>1. T = S \cup {d}
      BY <1>2, <2>1, <2>4 DEF ReturnsIn
    <3>2. CreditOf(S \cup {d}) = CreditOf(S) + Credit[d]
      BY <2>2, <2>4, TotalFacts
    <3> QED BY <2>1, <2>4, <3>1, <3>2
  <2>5. CASE ~(d \in Returns /\ Against[d] = b)
    <3>1. T = S
      BY <1>2, <2>1, <2>5 DEF ReturnsIn
    <3> QED BY <2>1, <2>3, <2>5, <3>1
  <2> QED BY <2>4, <2>5
<1> QED BY <1>3, <1>4

\* The sums the definitions of BillRules speak of.
LEMMA SumsAre ==
    /\ SettlesIn(status) = PostedSettlements
    /\ \A o : ReturnsIn(status, o) = PostedReturns(o)
    /\ \A b : Settled(b) = AllocOf(SettlesIn(status), b)
    /\ \A o : Returned(o) = CreditOf(ReturnsIn(status, o))
BY DEF SettlesIn, ReturnsIn, PostedSettlements, PostedReturns, Settled, Returned

\* What a bill shows, and what it should, in numbers.
LEMMA AmountTypes ==
    ASSUME NEW st, NEW b \in Bills
    PROVE  /\ AllocOf(SettlesIn(st), b) \in Nat
           /\ CreditOf(ReturnsIn(st, b)) \in Nat
           /\ Total[b] \in Nat /\ Opening(b) \in Int
           /\ \A v \in Settlements : Alloc[v][b] \in Nat
<1>1. SettlesIn(st) \in SUBSET Settlements /\ ReturnsIn(st, b) \in SUBSET Returns
  BY DEF SettlesIn, ReturnsIn
<1>2. AllocOf(SettlesIn(st), b) \in Nat
  BY <1>1, AllocFacts
<1>3. CreditOf(ReturnsIn(st, b)) \in Nat
  BY <1>1, TotalFacts
<1> QED BY <1>2, <1>3, BillAssumption, OpeningSigned

\* Nothing posted concerns a bill that is not submitted.
LEMMA NothingOnUnposted ==
    ASSUME BooksInv, NEW b \in Bills, status[b] # "submitted"
    PROVE  AllocOf(SettlesIn(status), b) = 0 /\ CreditOf(ReturnsIn(status, b)) = 0
<1>1. SettlesIn(status) \in SUBSET Settlements
  BY DEF SettlesIn
<1>2. \A v \in SettlesIn(status) : Alloc[v][b] = 0
  BY BillAssumption DEF SettlesIn, BooksInv, NoOrphanAllocation, PostedSettlements, Refs
<1>3. ReturnsIn(status, b) = {}
  BY DEF ReturnsIn, BooksInv, ReturnsBacked
<1>4. AllocOf(SettlesIn(status), b) = 0
  BY <1>1, <1>2, AllocFacts
<1>5. CreditOf({}) = 0
  BY TotalFacts
<1> QED BY <1>3, <1>4, <1>5

\* Of drafts there is nothing to keep.
LEMMA AmountsInit ==
    ASSUME BooksInit
    PROVE  Amounts(status, outstanding, floored)
<1>1. \A d \in Documents : status[d] # "submitted"
  BY DEF BooksInit
<1>2. Exact(status, outstanding, floored) /\ Enough(status, outstanding)
  BY <1>1 DEF Exact, Enough, Documents, Bills
<1>3. ASSUME NEW o \in Invoices PROVE CreditOf(ReturnsIn(status, o)) <= Total[o]
  <2>1. ReturnsIn(status, o) = {}
    BY <1>1 DEF ReturnsIn, Documents, Bills
  <2>2. CreditOf({}) = 0 /\ Total[o] \in Nat
    BY TotalFacts, BillAssumption DEF Bills
  <2> QED BY <2>1, <2>2
<1> QED BY <1>2, <1>3 DEF Amounts, ReturnedPart

\* Posting keeps the amounts: the stored one moves by what the sums move by.
LEMMA AmountsSubmit ==
    ASSUME BooksInv, Amounts(status, outstanding, floored), NEW d \in Documents, Submit(d)
    PROVE  Amounts(status', outstanding', floored')
<1>1. PICK st, out, fl, st2, out2, fl2 :
          /\ st = status /\ out = outstanding /\ fl = floored
          /\ st2 = status' /\ out2 = outstanding' /\ fl2 = floored'
  OBVIOUS
<1>2. st \in [Documents -> Statuses] /\ out \in [Bills -> Int] /\ st[d] # "submitted"
  BY <1>1 DEF BooksInv, BooksTypeOK, Submit
<1>3. /\ st2 = [st EXCEPT ![d] = "submitted"] /\ st2 \in [Documents -> Statuses]
      /\ fl \subseteq fl2
      /\ \A b \in Bills : b \notin {d} \cup Refs(d) => out2[b] = out[b]
  BY <1>1, <1>2 DEF Submit, Statuses
<1>4. d \in Bills => /\ out2[d] = Opening(d)
                     /\ AllocOf(SettlesIn(st), d) = 0 /\ CreditOf(ReturnsIn(st, d)) = 0
  BY <1>1, <1>2, NothingOnUnposted DEF Submit, PostedOn
<1>5. ASSUME d \in Settlements, NEW b \in Bills
      PROVE  out2[b] = out[b] - Sign(b) * Alloc[d][b]
  <2>1. d # b /\ d \notin Returns /\ Alloc[d][b] \in Nat /\ out[b] \in Int
    BY <1>2, <1>5, BillAssumption DEF Bills
  <2>2. CASE b \in Refs(d)
    BY <1>1, <1>5, <2>1, <2>2 DEF Submit, PostedOn
  <2>3. CASE b \notin Refs(d)
    <3>1. Alloc[d][b] = 0
      BY <1>5, <2>1, <2>3 DEF Refs
    <3> QED BY <1>3, <2>1, <2>3, <3>1 DEF Sign
  <2> QED BY <2>2, <2>3
<1>6. ASSUME d \in Returns
      PROVE  LET o == Against[d]
             IN  /\ o \in Invoices /\ o # d /\ out2[o] = Floor(out[o] - Credit[d])
                 /\ out[o] < Credit[d] => o \in fl2
                 /\ CreditOf(ReturnsIn(st, o)) + Credit[d] <= Total[o]
                 /\ \A b \in Bills : b \notin {d, o} => out2[b] = out[b]
  <2>1. Refs(d) = {Against[d]} /\ Against[d] \in Invoices /\ d \notin Refs(d)
    BY <1>6, RefsAreBills
  <2>2. Against[d] \in Bills
    BY <2>1 DEF Bills
  <2>3. out2[Against[d]] = Floor(out[Against[d]] - Credit[d])
    BY <1>1, <1>6, <2>1, <2>2 DEF Submit, PostedOn
  <2>4. out[Against[d]] < Credit[d] => Against[d] \in fl2
    BY <1>1, <1>6, <2>1 DEF Submit, CutOff
  <2>5. CreditOf(ReturnsIn(st, Against[d])) + Credit[d] <= Total[Against[d]]
    BY <1>1, <1>6, SumsAre DEF Submit, Valid, ReturnValid
  <2> QED BY <1>3, <2>1, <2>3, <2>4, <2>5
<1>7. ASSUME NEW b \in Bills, st2[b] = "submitted"
      PROVE  /\ b \notin fl2 =>
                   Sign(b) * out2[b] = Sign(b) * Opening(b) - AllocOf(SettlesIn(st2), b)
                                - (IF b \in Invoices THEN CreditOf(ReturnsIn(st2, b)) ELSE 0)
             /\ b \in Invoices =>
                   out2[b] >= Opening(b) - AllocOf(SettlesIn(st2), b) - CreditOf(ReturnsIn(st2, b))
  <2>1. PICK A, R, A2, R2, t, x, x2 :
            /\ A = AllocOf(SettlesIn(st), b) /\ R = CreditOf(ReturnsIn(st, b))
            /\ A2 = AllocOf(SettlesIn(st2), b) /\ R2 = CreditOf(ReturnsIn(st2, b))
            /\ t = Sign(b) * Opening(b) /\ x = out[b] /\ x2 = out2[b]
    OBVIOUS
  <2>2. A \in Nat /\ R \in Nat /\ A2 \in Nat /\ R2 \in Nat /\ t \in Int /\ x \in Int
    BY <1>2, <2>1, AmountTypes, OpeningSigned
  <2>3. /\ A2 = A + (IF d \in Settlements THEN Alloc[d][b] ELSE 0)
        /\ b \in Invoices => R2 = R + (IF d \in Returns /\ Against[d] = b THEN Credit[d] ELSE 0)
    <3>1. d \in Documents /\ PostsIn(d, st, st2) /\ b \in Bills
      BY <1>2, <1>3 DEF PostsIn
    <3>2. /\ AllocOf(SettlesIn(st2), b) =
                 AllocOf(SettlesIn(st), b) + (IF d \in Settlements THEN Alloc[d][b] ELSE 0)
          /\ b \in Invoices => CreditOf(ReturnsIn(st2, b)) =
                 CreditOf(ReturnsIn(st, b))
                 + (IF d \in Returns /\ Against[d] = b THEN Credit[d] ELSE 0)
      BY ONLY <3>1, PostingSums
    <3> QED BY <2>1, <3>2
  <2>4. /\ b # d /\ b \notin fl2 => Sign(b) * x = t - A - (IF b \in Invoices THEN R ELSE 0)
        /\ b # d /\ b \in Invoices => x >= t - A - R
    <3>1. b # d => st[b] = "submitted"
      BY <1>2, <1>3, <1>7 DEF Documents
    <3>2. b # d /\ b \notin fl2 => Sign(b) * out[b] = Sign(b) * Opening(b) - AllocOf(SettlesIn(st), b)
                            - (IF b \in Invoices THEN CreditOf(ReturnsIn(st, b)) ELSE 0)
      BY <1>1, <1>3, <3>1 DEF Amounts, Exact
    <3>3. b # d /\ b \in Invoices =>
              out[b] >= Opening(b) - AllocOf(SettlesIn(st), b) - CreditOf(ReturnsIn(st, b))
      BY <1>1, <3>1 DEF Amounts, Enough
    <3>4. b \in Invoices => t = Opening(b)
      BY <2>1, OpeningSigned
    <3> QED BY <2>1, <3>2, <3>3, <3>4
  <2>5. b \in Invoices => Sign(b) = 1 /\ t = Opening(b)
    BY <2>1, OpeningSigned
  <2>6. Sign(b) \in {1, -1}
    BY DEF Sign
  <2> SUFFICES /\ b \notin fl2 => Sign(b) * x2 = t - A2 - (IF b \in Invoices THEN R2 ELSE 0)
               /\ b \in Invoices => x2 >= t - A2 - R2
    BY <2>1, <2>5
  <2>7. CASE b = d
    <3>1. x2 = Opening(b) /\ A = 0 /\ R = 0 /\ d \notin Settlements
      BY <1>4, <2>1, <2>7, BillAssumption
    <3>2. A2 = 0 /\ (b \in Invoices => R2 = 0)
      BY <2>3, <2>7, <3>1, BillAssumption
    <3> QED BY <2>1, <2>2, <2>5, <2>6, <3>1, <3>2
  <2>8. CASE b # d /\ d \in Settlements
    <3>1. PICK a : a = Alloc[d][b]
      OBVIOUS
    <3>2. a \in Nat /\ d \notin Returns
      BY <2>8, <3>1, BillAssumption DEF Bills
    <3>3. x2 = x - Sign(b) * a
      BY <1>5, <2>1, <2>8, <3>1
    <3>4. A2 = A + a /\ (b \in Invoices => R2 = R)
      BY <2>2, <2>3, <2>8, <3>1, <3>2
    <3> QED BY <2>2, <2>4, <2>5, <2>6, <2>8, <3>2, <3>3, <3>4
  <2>9. CASE b # d /\ d \in Returns /\ Against[d] = b
    <3>1. PICK e : e = Credit[d]
      OBVIOUS
    <3>2. e \in Nat /\ d \notin Settlements /\ b \in Invoices
      BY <1>6, <2>9, <3>1, BillAssumption, OpeningSigned DEF Bills
    <3>3. x2 = Floor(x - e) /\ (x < e => b \in fl2)
      BY <1>6, <2>1, <2>9, <3>1
    <3>4. A2 = A /\ R2 = R + e
      BY <2>2, <2>3, <2>9, <3>1, <3>2
    <3>5. CASE x < e
      BY <2>2, <2>4, <2>9, <3>2, <3>3, <3>4, <3>5 DEF Floor
    <3>6. CASE ~(x < e)
      <4>1. x2 = x - e
        BY <2>2, <3>2, <3>3, <3>6 DEF Floor
      <4> QED BY <2>2, <2>4, <2>5, <2>9, <3>2, <3>4, <4>1
    <3> QED BY <3>5, <3>6
  <2>10. CASE b # d /\ d \notin Settlements /\ ~(d \in Returns /\ Against[d] = b)
    <3>1. x2 = x
      <4>1. CASE d \in Returns
        BY <1>6, <2>1, <2>10, <4>1
      <4>2. CASE d \notin Returns
        <5>1. Refs(d) = {}
          BY <2>10, <4>2, RefsAreBills DEF Documents, Bills
        <5> QED BY <1>3, <2>1, <2>10, <5>1
      <4> QED BY <4>1, <4>2
    <3>2. A2 = A /\ (b \in Invoices => R2 = R)
      BY <2>2, <2>3, <2>10
    <3> QED BY <2>4, <2>10, <3>1, <3>2
  <2> QED BY <2>7, <2>8, <2>9, <2>10
<1>8. ASSUME NEW o \in Invoices PROVE CreditOf(ReturnsIn(st2, o)) <= Total[o]
  <2>1. o \in Bills
    BY DEF Bills
  <2>2. CreditOf(ReturnsIn(st2, o)) =
            CreditOf(ReturnsIn(st, o)) + (IF d \in Returns /\ Against[d] = o THEN Credit[d] ELSE 0)
    <3>1. d \in Documents /\ PostsIn(d, st, st2) /\ o \in Bills /\ o \in Invoices
      BY <1>2, <1>3, <2>1 DEF PostsIn
    <3> QED BY ONLY <3>1, PostingSums
  <2>3. CreditOf(ReturnsIn(st, o)) \in Nat /\ CreditOf(ReturnsIn(st, o)) <= Total[o]
    BY <1>1, <2>1, AmountTypes DEF Amounts, ReturnedPart
  <2> QED BY <1>6, <2>2, <2>3
<1>9. Exact(st2, out2, fl2) /\ Enough(st2, out2) /\ ReturnedPart(st2)
  BY <1>7, <1>8 DEF Exact, Enough, ReturnedPart, Bills
<1> QED BY <1>1, <1>9 DEF Amounts

\* So does reversing.
LEMMA AmountsCancel ==
    ASSUME BooksInv, Amounts(status, outstanding, floored), NEW d \in Documents, Cancel(d)
    PROVE  Amounts(status', outstanding', floored')
<1>1. PICK st, out, fl, st2, out2 :
          /\ st = status /\ out = outstanding /\ fl = floored
          /\ st2 = status' /\ out2 = outstanding'
  OBVIOUS
<1>2. st \in [Documents -> Statuses] /\ out \in [Bills -> Int] /\ st[d] = "submitted"
  BY <1>1 DEF BooksInv, BooksTypeOK, Cancel
<1>3. /\ st2 = [st EXCEPT ![d] = "cancelled"] /\ st2 \in [Documents -> Statuses]
      /\ st2[d] # "submitted"
      /\ floored' = fl
      /\ \A b \in Bills : b \notin {d} \cup Refs(d) => out2[b] = out[b]
  BY <1>1, <1>2 DEF Cancel, Statuses
<1>4. ASSUME d \in Settlements, NEW b \in Bills
      PROVE  out2[b] = out[b] + Sign(b) * Alloc[d][b]
  <2>1. d # b /\ d \notin Returns /\ Alloc[d][b] \in Nat /\ out[b] \in Int
    BY <1>2, <1>4, BillAssumption DEF Bills
  <2>2. CASE b \in Refs(d)
    BY <1>1, <1>4, <2>1, <2>2 DEF Cancel, ReversedOn
  <2>3. CASE b \notin Refs(d)
    <3>1. Alloc[d][b] = 0
      BY <1>4, <2>1, <2>3 DEF Refs
    <3> QED BY <1>3, <2>1, <2>3, <3>1 DEF Sign
  <2> QED BY <2>2, <2>3
<1>5. ASSUME d \in Returns
      PROVE  LET o == Against[d]
             IN  /\ o \in Invoices /\ o # d /\ out2[o] = out[o] + Credit[d]
                 /\ \A b \in Bills : b \notin {d, o} => out2[b] = out[b]
  <2>1. Refs(d) = {Against[d]} /\ Against[d] \in Invoices /\ d \notin Refs(d)
    BY <1>5, RefsAreBills
  <2>2. Against[d] \in Bills
    BY <2>1 DEF Bills
  <2>3. out2[Against[d]] = out[Against[d]] + Credit[d]
    BY <1>1, <1>5, <2>1, <2>2 DEF Cancel, ReversedOn
  <2> QED BY <1>3, <2>1, <2>3
<1>6. ASSUME NEW b \in Bills
      PROVE  /\ AllocOf(SettlesIn(st), b) =
                    AllocOf(SettlesIn(st2), b) + (IF d \in Settlements THEN Alloc[d][b] ELSE 0)
             /\ b \in Invoices => CreditOf(ReturnsIn(st, b)) =
                    CreditOf(ReturnsIn(st2, b))
                    + (IF d \in Returns /\ Against[d] = b THEN Credit[d] ELSE 0)
  <2>1. d \in Documents /\ PostsIn(d, st2, st) /\ b \in Bills
    BY <1>2, <1>3 DEF PostsIn
  <2> QED BY ONLY <2>1, PostingSums
<1>7. ASSUME NEW b \in Bills, st2[b] = "submitted"
      PROVE  /\ b \notin fl =>
                   Sign(b) * out2[b] = Sign(b) * Opening(b) - AllocOf(SettlesIn(st2), b)
                                - (IF b \in Invoices THEN CreditOf(ReturnsIn(st2, b)) ELSE 0)
             /\ b \in Invoices =>
                   out2[b] >= Opening(b) - AllocOf(SettlesIn(st2), b) - CreditOf(ReturnsIn(st2, b))
  <2>1. PICK A, R, A2, R2, t, x, x2 :
            /\ A = AllocOf(SettlesIn(st), b) /\ R = CreditOf(ReturnsIn(st, b))
            /\ A2 = AllocOf(SettlesIn(st2), b) /\ R2 = CreditOf(ReturnsIn(st2, b))
            /\ t = Sign(b) * Opening(b) /\ x = out[b] /\ x2 = out2[b]
    OBVIOUS
  <2>2. A \in Nat /\ R \in Nat /\ A2 \in Nat /\ R2 \in Nat /\ t \in Int /\ x \in Int
    BY <1>2, <2>1, AmountTypes, OpeningSigned
  <2>3. /\ A = A2 + (IF d \in Settlements THEN Alloc[d][b] ELSE 0)
        /\ b \in Invoices => R = R2 + (IF d \in Returns /\ Against[d] = b THEN Credit[d] ELSE 0)
    BY <1>6, <2>1
  <2>4. /\ b # d
        /\ b \notin fl => Sign(b) * x = t - A - (IF b \in Invoices THEN R ELSE 0)
        /\ b \in Invoices => x >= t - A - R
    <3>1. b # d /\ st[b] = "submitted"
      BY <1>2, <1>3, <1>7 DEF Documents
    <3>2. b \notin fl => Sign(b) * out[b] = Sign(b) * Opening(b) - AllocOf(SettlesIn(st), b)
                            - (IF b \in Invoices THEN CreditOf(ReturnsIn(st, b)) ELSE 0)
      BY <1>1, <3>1 DEF Amounts, Exact
    <3>3. b \in Invoices =>
              out[b] >= Opening(b) - AllocOf(SettlesIn(st), b) - CreditOf(ReturnsIn(st, b))
      BY <1>1, <3>1 DEF Amounts, Enough
    <3>4. b \in Invoices => t = Opening(b)
      BY <2>1, OpeningSigned
    <3> QED BY <2>1, <3>1, <3>2, <3>3, <3>4
  <2>5. (b \in Invoices => Sign(b) = 1 /\ t = Opening(b)) /\ Sign(b) \in {1, -1}
    BY <2>1, OpeningSigned
  <2> SUFFICES /\ b \notin fl => Sign(b) * x2 = t - A2 - (IF b \in Invoices THEN R2 ELSE 0)
               /\ b \in Invoices => x2 >= t - A2 - R2
    BY <2>1, <2>5
  <2>6. CASE d \in Settlements
    <3>1. PICK a : a = Alloc[d][b]
      OBVIOUS
    <3>2. a \in Nat /\ d \notin Returns
      BY <2>6, <3>1, BillAssumption DEF Bills
    <3>3. x2 = x + Sign(b) * a
      BY <1>4, <2>1, <2>6, <3>1
    <3>4. A = A2 + a /\ (b \in Invoices => R = R2)
      BY <2>2, <2>3, <2>6, <3>1, <3>2
    <3> QED BY <2>2, <2>4, <2>5, <3>2, <3>3, <3>4
  <2>7. CASE d \in Returns /\ Against[d] = b
    <3>1. PICK e : e = Credit[d]
      OBVIOUS
    <3>2. e \in Nat /\ d \notin Settlements /\ b \in Invoices
      BY <1>5, <2>7, <3>1, BillAssumption, OpeningSigned DEF Bills
    <3>3. x2 = x + e
      BY <1>5, <2>1, <2>7, <3>1
    <3>4. A = A2 /\ R = R2 + e
      BY <2>2, <2>3, <2>7, <3>1, <3>2
    <3> QED BY <2>2, <2>4, <2>5, <3>2, <3>3, <3>4
  <2>8. CASE d \notin Settlements /\ ~(d \in Returns /\ Against[d] = b)
    <3>1. x2 = x
      <4>1. CASE d \in Returns
        BY <1>5, <2>1, <2>4, <2>8, <4>1
      <4>2. CASE d \notin Returns
        <5>1. Refs(d) = {}
          BY <2>8, <4>2, RefsAreBills DEF Documents, Bills
        <5> QED BY <1>3, <2>1, <2>4, <5>1
      <4> QED BY <4>1, <4>2
    <3>2. A = A2 /\ (b \in Invoices => R = R2)
      BY <2>2, <2>3, <2>8
    <3> QED BY <2>4, <3>1, <3>2
  <2> QED BY <2>6, <2>7, <2>8
<1>8. ASSUME NEW o \in Invoices PROVE CreditOf(ReturnsIn(st2, o)) <= Total[o]
  <2>1. o \in Bills
    BY DEF Bills
  <2>2. PICK R, R2, e, t :
            /\ R = CreditOf(ReturnsIn(st, o)) /\ R2 = CreditOf(ReturnsIn(st2, o)) /\ t = Total[o]
            /\ e = IF d \in Returns /\ Against[d] = o THEN Credit[d] ELSE 0
    OBVIOUS
  <2>3. R = R2 + e
    BY <1>6, <2>1, <2>2
  <2>4. R \in Nat /\ R2 \in Nat /\ t \in Nat /\ e \in Nat
    BY <2>1, <2>2, AmountTypes, OpeningSigned DEF Bills
  <2>5. R <= t
    BY <1>1, <2>2 DEF Amounts, ReturnedPart
  <2> QED BY <2>2, <2>3, <2>4, <2>5
<1>9. Exact(st2, out2, fl) /\ Enough(st2, out2) /\ ReturnedPart(st2)
  BY <1>7, <1>8 DEF Exact, Enough, ReturnedPart, Bills
<1> QED BY <1>1, <1>3, <1>9 DEF Amounts

\* A draft that is voided concerns no bill.
LEMMA AmountsDiscard ==
    ASSUME BooksInv, Amounts(status, outstanding, floored), NEW d \in Documents, Discard(d)
    PROVE  Amounts(status', outstanding', floored')
<1>1. PICK st, out, fl, st2 : st = status /\ out = outstanding /\ fl = floored /\ st2 = status'
  OBVIOUS
<1>2. outstanding' = out /\ floored' = fl
  BY <1>1 DEF Discard
<1>3. \A e \in Documents : st2[e] = "submitted" <=> st[e] = "submitted"
  BY <1>1 DEF Discard, BooksInv, BooksTypeOK
<1>4. SettlesIn(st2) = SettlesIn(st) /\ \A o : ReturnsIn(st2, o) = ReturnsIn(st, o)
  BY <1>3 DEF SettlesIn, ReturnsIn, Documents, Bills
<1>5. \A b \in Bills : st2[b] = "submitted" <=> st[b] = "submitted"
  BY <1>3 DEF Documents
<1>6. \A b \in Invoices : b \in Bills
  BY DEF Bills
<1>7. Exact(st, out, fl) /\ Enough(st, out) /\ ReturnedPart(st)
  BY <1>1 DEF Amounts
<1>8. Exact(st2, out, fl) /\ Enough(st2, out) /\ ReturnedPart(st2)
  BY <1>4, <1>5, <1>6, <1>7 DEF Exact, Enough, ReturnedPart
<1> QED BY <1>1, <1>2, <1>8 DEF Amounts

\* Nothing else moves the amounts.
LEMMA AmountsStutter ==
    ASSUME Amounts(status, outstanding, floored), UNCHANGED books
    PROVE  Amounts(status', outstanding', floored')
BY DEF books

\* A step of the workflows keeps the amounts.
LEMMA AmountsStep == AmountsInv /\ [BooksNext]_books => AmountsInv'
<1> SUFFICES ASSUME AmountsInv, [BooksNext]_books PROVE AmountsInv'
  OBVIOUS
<1>1. BooksInv /\ Amounts(status, outstanding, floored)
  BY DEF AmountsInv
<1>2. BooksInv'
  BY <1>1, BooksInvSubmit, BooksInvCancel, BooksInvDiscard, BooksInvStutter DEF BooksNext
<1>3. Amounts(status', outstanding', floored')
  BY <1>1, AmountsSubmit, AmountsCancel, AmountsDiscard, AmountsStutter DEF BooksNext
<1> QED BY <1>2, <1>3 DEF AmountsInv

\* Both parts of the invariant hold of saved drafts.
LEMMA AmountsInvInit == BooksInit => AmountsInv
BY BooksInvInit, AmountsInit DEF AmountsInv

\* Types, references and amounts, in every reachable state of the books.
THEOREM AmountsInvariant == BooksSpec => []AmountsInv
BY AmountsInvInit, AmountsStep, PTL DEF BooksSpec

\* The amounts say what the properties of BillRules say.
LEMMA AmountsGive ==
    AmountsInv => OutstandingExact /\ NeverUnderstated /\ ReturnsCovered
<1> SUFFICES ASSUME AmountsInv PROVE OutstandingExact /\ NeverUnderstated /\ ReturnsCovered
  OBVIOUS
<1>1. /\ Exact(status, outstanding, floored) /\ Enough(status, outstanding)
      /\ ReturnedPart(status)
  BY DEF AmountsInv, Amounts
<1>2. OutstandingExact
  BY <1>1, SumsAre DEF Exact, OutstandingExact
<1>3. NeverUnderstated
  BY <1>1, SumsAre DEF Enough, NeverUnderstated
<1>4. ReturnsCovered
  BY <1>1, SumsAre DEF ReturnedPart, ReturnsCovered
<1> QED BY <1>2, <1>3, <1>4

\* The stored outstanding amount of a submitted bill is what is billed less what is posted
\* against it: workflows lose no update and apply none twice, and a cancelled document leaves
\* no trace in it.
THEOREM OutstandingStaysExact == BooksSpec => []OutstandingExact
BY AmountsInvariant, AmountsGive, PTL

\* It is never less than that, even where a return was cut off at the floor.
THEOREM DebtIsNeverUnderstated == BooksSpec => []NeverUnderstated
BY AmountsInvariant, AmountsGive, PTL

\* The posted returns of an invoice never give back more than was billed.
THEOREM ReturnsStayCovered == BooksSpec => []ReturnsCovered
BY AmountsInvariant, AmountsGive, PTL

\* All three with any number of sessions at once, on either database.
THEOREM ConcurrentAmountsExact == Spec => [](OutstandingExact /\ NeverUnderstated /\ ReturnsCovered)
<1>1. BooksSpec => [](OutstandingExact /\ NeverUnderstated /\ ReturnsCovered)
  BY AmountsInvariant, AmountsGive, PTL
<1> QED BY <1>1, Implementation DEF Serializable

-----------------------------------------------------------------------------
\* ReconciledBooks: bills, payments and the bank transactions they are matched with.

\* Whatever is matched is posted.
MatchedPosted == \A r \in active : r.voucher \in Banked /\ status[r.voucher] = "submitted"

ReconciledInv == AmountsInv /\ MatchedPosted

\* A step of the composition is a workflow of the books, or none.
LEMMA ReconciledStepsBooks == [ReconciledNext]_reconciledVars => [BooksNext]_books
<1> SUFFICES ASSUME ReconciledNext PROVE [BooksNext]_books
  BY DEF reconciledVars, books
<1>1. \A v \in Made : v \in Documents
  BY ReconciledAssumption DEF Documents
<1> QED BY <1>1 DEF ReconciledNext, PostMatched, PostUnmatched, LinkPosted, UnlinkPosted,
                    CancelDocument, DiscardDraft, BooksNext

\* A match is made with a posted voucher and goes when the voucher is cancelled.
LEMMA MatchedPostedStep ==
    ASSUME BooksTypeOK, MatchedPosted, [ReconciledNext]_reconciledVars
    PROVE  MatchedPosted'
<1> USE DEF MatchedPosted
<1>1. \A d \in Documents : status[d] \in Statuses
  BY DEF BooksTypeOK
<1>2. Made \subseteq Banked /\ Banked \subseteq Documents
  BY ReconciledAssumption DEF Documents
<1>3. ASSUME NEW g \in Groups, NEW t \in Transactions, NEW v \in Made, PostMatched(t, v, g)
      PROVE  MatchedPosted'
  <2>1. active' = active \cup {Bank!Row(g, t, v)} /\ Bank!Row(g, t, v).voucher = v
    BY <1>3 DEF PostMatched, Bank!Create, Bank!Row
  <2>2. status' = [status EXCEPT ![v] = "submitted"]
    BY <1>3 DEF PostMatched, Submit
  <2>3. \A w \in Banked : w = v \/ status[w] = "submitted" => status'[w] = "submitted"
    BY <1>2, <2>2 DEF BooksTypeOK
  <2> QED BY <1>2, <2>1, <2>3
<1>4. ASSUME NEW g \in Groups, NEW T \in SUBSET Transactions, NEW v \in Banked \ Made,
             LinkPosted(T, v, g)
      PROVE  MatchedPosted'
  <2>1. /\ status' = status /\ active' = active \cup {Bank!Row(g, t, v) : t \in T}
        /\ \A t \in T : Bank!Row(g, t, v).voucher = v
    BY <1>4 DEF LinkPosted, Bank!Link, Bank!Row, books
  <2>2. status[v] = "submitted"
    BY <1>4 DEF LinkPosted, Bank!Link, AsVoucher
  <2> QED BY <2>1, <2>2
<1>5. ASSUME NEW g \in Groups, UnlinkPosted(g)
      PROVE  MatchedPosted'
  BY <1>5 DEF UnlinkPosted, Bank!Unlink, books
<1>6. ASSUME NEW d \in Documents, PostUnmatched(d)
      PROVE  MatchedPosted'
  BY <1>2, <1>6 DEF PostUnmatched, Submit, BooksTypeOK
<1>7. ASSUME NEW d \in Documents, CancelDocument(d)
      PROVE  MatchedPosted'
  <2>1. /\ status' = [status EXCEPT ![d] = "cancelled"]
        /\ active' \subseteq active /\ \A r \in active' : r.voucher # d
    BY <1>7 DEF CancelDocument, Cancel, Bank!CancelVoucher, Bank!Of
  <2> QED BY <1>2, <2>1 DEF BooksTypeOK
<1>8. ASSUME NEW d \in Documents, DiscardDraft(d)
      PROVE  MatchedPosted'
  BY <1>2, <1>8 DEF DiscardDraft, Discard, BooksTypeOK
<1>9. CASE UNCHANGED reconciledVars
  BY <1>9 DEF reconciledVars, books
<1> QED BY <1>3, <1>4, <1>5, <1>6, <1>7, <1>8, <1>9 DEF ReconciledNext

\* The amounts stay exact and whatever is matched stays posted, whichever of reconciliation
\* and the documents' own lifecycle moves next.
THEOREM ReconciledInvariant == ReconciledSpec => []ReconciledInv
<1>1. ReconciledInit => ReconciledInv
  BY AmountsInvInit DEF ReconciledInit, ReconciledInv, MatchedPosted
<1>2. ReconciledInv /\ [ReconciledNext]_reconciledVars => ReconciledInv'
  BY ReconciledStepsBooks, AmountsStep, MatchedPostedStep DEF ReconciledInv, AmountsInv, BooksInv
<1> QED BY <1>1, <1>2, PTL DEF ReconciledSpec

\* A report of one row adds up to that row, an empty one to nothing.
LEMMA AgedIs ==
    ASSUME NEW b \in Invoices \ TillBills, status[b] = "submitted", NEW asOf,
           DateOf[b] <= asOf, Unpaid(b, asOf) \in Int
    PROVE  Aged(b, asOf) = IF Unpaid(b, asOf) > 0 THEN Unpaid(b, asOf) ELSE 0
<1>1. PICK u, rows, row, f :
          /\ u = Unpaid(b, asOf) /\ rows = {r \in Aging(asOf) : r.invoice = b}
          /\ row = [invoice |-> b, owed |-> Unpaid(b, asOf)] /\ f = [r \in rows |-> r.owed]
  OBVIOUS
<1>2. Aged(b, asOf) = SumFunctionOnSet(f, rows)
  BY <1>1 DEF Aged
<1>3. \A r \in Aging(asOf) : r.invoice = b => r = row /\ u > 0
  BY <1>1 DEF Aging
<1>4. u > 0 => row \in Aging(asOf) /\ row.invoice = b /\ row.owed = u
  BY <1>1 DEF Aging, Upto
<1>5. CASE u > 0
  <2>1. rows = {row} /\ f[row] = u
    BY <1>1, <1>3, <1>4, <1>5
  <2>2. IsFiniteSet({}) /\ row \notin {} /\ \A x \in {} \cup {row} : f[x] \in Int
    BY <1>1, <2>1, FS_EmptySet
  <2>3. SumFunctionOnSet(f, {} \cup {row}) = SumFunctionOnSet(f, {}) + f[row]
    BY ONLY <2>2, SumAdd
  <2>4. {} \cup {row} = {row} /\ SumFunctionOnSet(f, {}) = 0
    BY SumOfNone
  <2>5. SumFunctionOnSet(f, rows) = 0 + u /\ u \in Int
    BY <1>1, <2>1, <2>3, <2>4
  <2>6. SumFunctionOnSet(f, rows) = u
    BY <2>5
  <2> QED BY <1>1, <1>2, <1>5, <2>6
<1>6. CASE ~(u > 0)
  <2>1. rows = {}
    BY <1>1, <1>3, <1>6
  <2> QED BY <1>1, <1>2, <1>6, <2>1, SumOfNone
<1> QED BY <1>5, <1>6

\* What journal entries settle, what later payments and returns do, and what the report sees.
LEMMA AgingAgrees == AmountsInv => AgingMatchesOutstanding
<1> SUFFICES ASSUME AmountsInv, NEW b \in Invoices \ TillBills, NEW asOf \in Range(DateOf),
                    status[b] = "submitted", DateOf[b] <= asOf
             PROVE  LET payments == PostedSettlements \ BookedJournals
                        later == AllocOf(payments \ Upto(payments, asOf), b)
                                 + CreditOf(PostedReturns(b) \ Upto(PostedReturns(b), asOf))
                        stored == outstanding[b]
                                  + AllocOf(PostedSettlements \cap BookedJournals, b) + later
                    IN  IF b \in floored THEN Aged(b, asOf) <= stored ELSE Aged(b, asOf) = stored
  BY DEF AgingMatchesOutstanding
<1>1. PICK S, J, P, Q, C, D, j, p, q, c, d, R, t, x :
          /\ S = PostedSettlements /\ J = PostedSettlements \cap BookedJournals
          /\ P = PostedSettlements \ BookedJournals /\ Q = Upto(P, asOf)
          /\ C = PostedReturns(b) /\ D = Upto(C, asOf)
          /\ j = AllocOf(J, b) /\ p = AllocOf(Q, b) /\ q = AllocOf(P \ Q, b)
          /\ R = Returned(b) /\ c = CreditOf(D) /\ d = CreditOf(C \ D)
          /\ t = Total[b] /\ x = outstanding[b]
  OBVIOUS
<1>2. b \in Bills /\ b \in Invoices /\ Sign(b) = 1 /\ Opening(b) = t
  <2>1. b \in Bills /\ b \in Invoices /\ b \notin TillBills
    BY DEF Bills
  <2>2. Sign(b) = 1 /\ Opening(b) = Sign(b) * Total[b] /\ Total[b] \in Nat
    BY <2>1, OpeningSigned, BillAssumption
  <2> QED BY <1>1, <2>1, <2>2
<1>3. S \in SUBSET Settlements /\ J \in SUBSET S /\ P = S \ J
  BY <1>1 DEF PostedSettlements
<1>4. /\ J \in SUBSET Settlements /\ P \in SUBSET Settlements /\ Q \in SUBSET P
      /\ C \in SUBSET Returns /\ D \in SUBSET C
  BY <1>1, <1>3 DEF Upto, PostedReturns
<1>5. AllocOf(S, b) = j + (p + q) /\ R = c + d
  <2>1. AllocOf(S, b) = AllocOf(J, b) + AllocOf(S \ J, b)
    BY <1>2, <1>3, AllocFacts
  <2>2. AllocOf(P, b) = AllocOf(Q, b) + AllocOf(P \ Q, b)
    BY <1>2, <1>4, AllocFacts
  <2>3. CreditOf(C) = CreditOf(D) + CreditOf(C \ D)
    BY <1>4, TotalFacts
  <2>4. R = CreditOf(C)
    BY <1>1 DEF Returned
  <2> QED BY <1>1, <1>3, <2>1, <2>2, <2>3, <2>4
<1>6. j \in Nat /\ p \in Nat /\ q \in Nat /\ c \in Nat /\ d \in Nat /\ t \in Nat
  <2>1. j \in Nat
    BY <1>1, <1>2, <1>4, AllocFacts
  <2>2. Q \in SUBSET Settlements /\ P \ Q \in SUBSET Settlements
    BY <1>4
  <2>3. p \in Nat
    BY <1>1, <1>2, <2>2, AllocFacts
  <2>4. q \in Nat
    BY <1>1, <1>2, <2>2, AllocFacts
  <2>5. D \in SUBSET Returns /\ C \ D \in SUBSET Returns
    BY <1>4
  <2>6. c \in Nat
    BY <1>1, <2>5, TotalFacts
  <2>7. d \in Nat
    BY <1>1, <2>5, TotalFacts
  <2> QED BY <1>1, <1>2, <2>1, <2>3, <2>4, <2>6, <2>7, BillAssumption
<1>7. x \in Int /\ x >= 0
  <2>1. x \in Int /\ (b \notin Returns \cap TillBills => Sign(b) * x >= 0)
    BY <1>1, <1>2 DEF AmountsInv, BooksInv, BooksTypeOK
  <2> QED BY <1>2, <2>1
<1>8. /\ b \notin floored => x = t - (j + (p + q)) - (c + d)
      /\ x >= t - (j + (p + q)) - (c + d)
  <2>1. OutstandingExact /\ NeverUnderstated
    BY AmountsGive
  <2>2. Settled(b) = j + (p + q) /\ Returned(b) = c + d
    BY <1>1, <1>5 DEF Settled
  <2>3. b \notin floored => Sign(b) * x = Sign(b) * Opening(b) - Settled(b) - Returned(b)
    BY <1>1, <1>2, <2>1 DEF OutstandingExact
  <2>4. x >= Opening(b) - Settled(b) - Returned(b)
    BY <1>1, <1>2, <2>1 DEF NeverUnderstated
  <2> QED BY <1>2, <1>6, <1>7, <2>2, <2>3, <2>4
<1>9. Unpaid(b, asOf) = t - p - c
  BY <1>1 DEF Unpaid, PaidBy, ReturnedBy
<1>10. Aged(b, asOf) = IF t - p - c > 0 THEN t - p - c ELSE 0
  <2>1. Unpaid(b, asOf) \in Int
    BY <1>6, <1>9
  <2>2. Aged(b, asOf) = IF Unpaid(b, asOf) > 0 THEN Unpaid(b, asOf) ELSE 0
    BY <2>1, AgedIs
  <2> QED BY <1>9, <2>2
<1>11. IF b \in floored THEN Aged(b, asOf) <= x + j + (q + d) ELSE Aged(b, asOf) = x + j + (q + d)
  BY <1>6, <1>7, <1>8, <1>10
<1> QED BY <1>1, <1>11

\* The ageing report, rebuilt from the documents, agrees with the outstanding amounts that
\* postings and cancellations keep up to date, up to what journal entries settle.
THEOREM AgingAgreesWithBills == ReconciledSpec => []AgingMatchesOutstanding
<1>1. ReconciledInv => AgingMatchesOutstanding
  BY AgingAgrees DEF ReconciledInv
<1> QED BY <1>1, ReconciledInvariant, PTL

\* One posted settlement takes its part off the bill.
LEMMA ConfirmedIsSettled == ReconciledInv => ConfirmedMoneySettlesBills
<1> SUFFICES ASSUME ReconciledInv, NEW r \in active
             PROVE  /\ status[r.voucher] = "submitted"
                    /\ \A b \in Refs(r.voucher) :
                          /\ status[b] = "submitted"
                          /\ b \notin floored =>
                                Sign(b) * outstanding[b] <= Sign(b) * Opening(b) - Alloc[r.voucher][b]
  BY DEF ConfirmedMoneySettlesBills
<1>1. PICK v : v = r.voucher
  OBVIOUS
<1>2. v \in Settlements /\ v \in PostedSettlements /\ status[v] = "submitted"
  BY <1>1, ReconciledAssumption DEF ReconciledInv, MatchedPosted, PostedSettlements
<1>3. ASSUME NEW b \in Refs(v)
      PROVE  /\ status[b] = "submitted"
             /\ b \notin floored => Sign(b) * outstanding[b] <= Sign(b) * Opening(b) - Alloc[v][b]
  <2>1. b \in Bills
    BY <1>2 DEF Refs
  <2>2. status[b] = "submitted"
    BY <1>2 DEF ReconciledInv, AmountsInv, BooksInv, NoOrphanAllocation
  <2>3. PICK A, a, R, t, x : /\ A = AllocOf(PostedSettlements, b) /\ a = Alloc[v][b]
                             /\ R = Returned(b) /\ t = Sign(b) * Opening(b)
                             /\ x = Sign(b) * outstanding[b]
    OBVIOUS
  <2>4. a <= A
    <3>1. PostedSettlements \in SUBSET Settlements
      BY DEF PostedSettlements
    <3> QED BY <1>2, <2>1, <2>3, <3>1, AllocFacts
  <2>5. A \in Nat /\ R \in Nat /\ t \in Int /\ a \in Nat
    BY <1>2, <2>1, <2>3, SumsAre, AmountTypes, OpeningSigned
  <2>6. b \notin floored => x = t - A - (IF b \in Invoices THEN R ELSE 0)
    <3>1. OutstandingExact
      BY AmountsGive DEF ReconciledInv
    <3> QED BY <2>1, <2>2, <2>3, <3>1 DEF OutstandingExact, Settled
  <2>7. b \notin floored => x <= t - a
    BY <2>4, <2>5, <2>6
  <2> QED BY <2>2, <2>3, <2>7
<1> QED BY <1>1, <1>2, <1>3

\* What the bank has confirmed stands: the voucher of a match is posted, the bills it settles
\* are too, and each of them owes at least so much less.
THEOREM ConfirmedMoneyStands == ReconciledSpec => []ConfirmedMoneySettlesBills
BY ReconciledInvariant, ConfirmedIsSettled, PTL

-----------------------------------------------------------------------------
\* Reports: the statements agree.  Each account belongs to one root, and each entry to one
\* account and one voucher, so that whatever is added up by root, account or voucher is the
\* same sum of the live entries.

\* The parents of an account are the parent and its parents.
LEMMA UpOneStep ==
    ASSUME NEW a \in ChartAccounts
    PROVE  /\ Ancestors[a] \subseteq ChartAccounts
           /\ Top(a) => Ancestors[a] = {}
           /\ ~Top(a) => /\ Chart[a].parent \in ChartAccounts
                         /\ Ancestors[a] = {Chart[a].parent} \cup Ancestors[Chart[a].parent]
<1> DEFINE Closed(c, S) == \A d \in S \cup {c} : Top(d) \/ Chart[d].parent \in S
<1>1. \A c \in ChartAccounts :
         Ancestors[c] = {b \in ChartAccounts : \A S \in SUBSET ChartAccounts : Closed(c, S) => b \in S}
  BY DEF Ancestors
<1>2. \A c \in ChartAccounts : ~Top(c) => Chart[c].parent \in ChartAccounts
  BY ReportsAssumption
<1>3. ASSUME NEW c \in ChartAccounts PROVE Closed(c, Ancestors[c])
  <2>1. SUFFICES ASSUME NEW d \in Ancestors[c] \cup {c}, ~Top(d),
                        NEW S \in SUBSET ChartAccounts, Closed(c, S)
                 PROVE  Chart[d].parent \in S
    <3>1. \A d \in Ancestors[c] \cup {c} : d \in ChartAccounts
      BY <1>1, <1>3
    <3>2. \A d \in Ancestors[c] \cup {c} : ~Top(d) =>
             Chart[d].parent \in ChartAccounts
      BY <1>2, <3>1
    <3> HIDE DEF Closed
    <3>3. \A d \in Ancestors[c] \cup {c} : ~Top(d) => Chart[d].parent \in Ancestors[c]
      BY <1>1, <2>1, <3>2
    <3> QED BY <3>3 DEF Closed
  <2>2. d \in S \cup {c}
    BY <1>1, <2>1
  <2> QED BY <2>1, <2>2
<1>4. ASSUME NEW c \in ChartAccounts, NEW S \in SUBSET ChartAccounts, Closed(c, S)
      PROVE  Ancestors[c] \subseteq S
  BY <1>1, <1>4
<1>5. CASE Top(a)
  <2>1. Closed(a, {}) /\ {} \in SUBSET ChartAccounts
    BY <1>5
  <2> HIDE DEF Closed
  <2>2. Ancestors[a] \subseteq {}
    BY <1>4, <2>1
  <2> QED BY <1>5, <2>2
<1>6. CASE ~Top(a)
  <2>1. PICK p : p = Chart[a].parent /\ p \in ChartAccounts
    BY <1>2, <1>6
  <2>2. Ancestors[p] \subseteq ChartAccounts /\ Ancestors[a] \subseteq ChartAccounts
    BY <1>1, <2>1
  <2>3. Closed(p, Ancestors[p]) /\ Closed(a, Ancestors[a])
    BY <1>3, <2>1
  <2>4. Closed(a, {p} \cup Ancestors[p])
    BY <2>1, <2>3
  <2>5. Ancestors[a] \subseteq {p} \cup Ancestors[p]
    <3>1. {p} \cup Ancestors[p] \in SUBSET ChartAccounts
      BY <2>1, <2>2
    <3> HIDE DEF Closed
    <3> QED BY <1>4, <2>4, <3>1
  <2>6. p \in Ancestors[a]
    BY <1>6, <2>1, <2>3
  <2>7. Closed(p, Ancestors[a])
    BY <2>3, <2>6
  <2>8. Ancestors[p] \subseteq Ancestors[a]
    BY <1>4, <2>1, <2>2, <2>7
  <2> QED BY <1>6, <2>1, <2>2, <2>5, <2>6, <2>8
<1> QED BY <1>1, <1>5, <1>6

\* A set with the parent of an account and the parents of its members has all its ancestors.
LEMMA AllTheWayUp ==
    ASSUME NEW a \in ChartAccounts, NEW S \in SUBSET ChartAccounts,
           \A c \in S \cup {a} : Top(c) \/ Chart[c].parent \in S
    PROVE  Ancestors[a] \subseteq S
BY DEF Ancestors

\* The parent of an ancestor is an ancestor.
LEMMA ParentsStay ==
    ASSUME NEW a \in ChartAccounts, NEW c \in Ancestors[a], ~Top(c)
    PROVE  Chart[c].parent \in Ancestors[a]
<1>1. c \in ChartAccounts /\ Chart[c].parent \in ChartAccounts
  BY UpOneStep
<1>2. ASSUME NEW S \in SUBSET ChartAccounts,
             \A d \in S \cup {a} : Top(d) \/ Chart[d].parent \in S
      PROVE  Chart[c].parent \in S
  <2>1. c \in S
    BY <1>2, AllTheWayUp
  <2> QED BY <1>2, <2>1
<1> QED BY <1>1, <1>2 DEF Ancestors

\* The ancestors of an account are groups of its own kind.
LEMMA AncestorsAreAlike ==
    ASSUME NEW a \in ChartAccounts
    PROVE  \A b \in Ancestors[a] : Chart[b].group /\ Chart[b].root = Chart[a].root
<1> DEFINE S == {b \in ChartAccounts : Chart[b].group /\ Chart[b].root = Chart[a].root}
<1>1. \A c \in S \cup {a} : Top(c) \/ Chart[c].parent \in S
  BY ReportsAssumption
<1>2. S \in SUBSET ChartAccounts
  OBVIOUS
<1>3. Ancestors[a] \subseteq S
  <2> HIDE DEF S
  <2> QED BY <1>1, <1>2, AllTheWayUp
<1> QED BY <1>3

\* Whoever is below a root is below it by way of each account between.
LEMMA OneWayUp ==
    ASSUME NEW a \in ChartAccounts, NEW t \in Ancestors[a] \cup {a}, Top(t),
           NEW u \in Ancestors[a] \cup {a}, Top(u)
    PROVE  t = u
<1> DEFINE S == {b \in Ancestors[a] : t \in Ancestors[b] \cup {b}}
<1>1. Ancestors[a] \subseteq ChartAccounts
  BY UpOneStep
<1>2. CASE Top(a)
  BY <1>2, UpOneStep
<1>3. CASE ~Top(a)
  <2>1. PICK p : p = Chart[a].parent /\ p \in Ancestors[a] /\ Ancestors[a] = {p} \cup Ancestors[p]
    BY <1>3, UpOneStep
  <2>2. t \in Ancestors[a] /\ u \in Ancestors[a]
    BY <1>3
  <2>3. p \in S
    BY <2>1, <2>2
  <2>4. ASSUME NEW c \in S, ~Top(c) PROVE Chart[c].parent \in S
    <3>1. PICK q : q = Chart[c].parent
      OBVIOUS
    <3>2. c \in ChartAccounts /\ c \in Ancestors[a] /\ t \in Ancestors[c] \cup {c}
      BY <1>1
    <3>3. Ancestors[c] = {q} \cup Ancestors[q] /\ t \in Ancestors[c]
      BY <2>4, <3>1, <3>2, UpOneStep
    <3>4. q \in Ancestors[a]
      BY <2>4, <3>1, <3>2, ParentsStay
    <3> QED BY <3>1, <3>3, <3>4
  <2>5. \A c \in S \cup {a} : Top(c) \/ Chart[c].parent \in S
    BY <2>1, <2>3, <2>4
  <2>6. S \in SUBSET ChartAccounts
    BY <1>1
  <2> HIDE DEF S
  <2>7. u \in S
    BY <2>2, <2>5, <2>6, AllTheWayUp
  <2>8. t \in Ancestors[u] \cup {u} /\ Ancestors[u] = {}
    BY <1>1, <2>2, <2>7, UpOneStep DEF S
  <2> QED BY <2>8
<1> QED BY <1>2, <1>3

\* What is booked is booked on leaves.
OnLeaves(E) == \A e \in E : e.account \in Leaves
StatementsInv == LedgerInv /\ OnLeaves(glEntries) /\ \A t \in Tills : OnLeaves(till[t].entries)

\* The entries of a voucher are on the accounts of its lines and the round-off account.
LEMMA VouchersNameLeaves ==
    ASSUME NEW v \in GlVouchers PROVE OnLeaves(WithRoundOff(v))
<1>1. \A i \in DOMAIN GlLines[v] : GlLines[v][i].account \in Leaves
  BY ReportsAssumption
<1>2. \A e \in Merged(v) : e.account \in Leaves /\ "account" \in DOMAIN e
  BY <1>1 DEF Merged, KeyOf
<1>3. ASSUME NEW e \in Merged(v) PROVE Toggled(e).account = e.account
  BY <1>2 DEF Toggled
<1>4. OnLeaves(Processed(v))
  BY <1>2, <1>3 DEF Processed, OnLeaves
<1>5. ASSUME RoundOff # NoAccount, NEW diff PROVE RoundOffLine(v, diff).account \in Leaves
  BY <1>5, ReportsAssumption DEF RoundOffLine
<1> QED BY <1>4, <1>5 DEF WithRoundOff, OnLeaves

\* No step books anything else.
LEMMA LeavesStep == StatementsInv /\ [GlNext]_glVars => StatementsInv'
<1> SUFFICES ASSUME StatementsInv, [GlNext]_glVars PROVE StatementsInv'
  OBVIOUS
<1> USE DEF StatementsInv
<1>1. LedgerInv' /\ GlTypes
  BY LedgerStep DEF LedgerInv
<1>2. DOMAIN till = Tills /\ \A t \in Tills : DOMAIN till[t] = {"doc", "entries", "todo", "locked"}
  BY <1>1 DEF GlTypes
<1>3. OnLeaves(Calm.entries)
  BY DEF OnLeaves, Calm
<1>4. ASSUME NEW t \in Tills, NEW v \in GlVouchers, StartPosting(t, v) PROVE StatementsInv'
  <2>1. /\ till' = [till EXCEPT ![t] = [doc |-> v, entries |-> WithRoundOff(v),
                                        todo |-> WithRoundOff(v), locked |-> {}]]
        /\ glEntries' = glEntries
    BY <1>4 DEF StartPosting
  <2>2. \A u \in Tills : till'[u].entries = (IF u = t THEN WithRoundOff(v) ELSE till[u].entries)
    BY <1>2, <2>1
  <2>3. OnLeaves(glEntries') /\ \A u \in Tills : OnLeaves(till'[u].entries)
    BY <2>1, <2>2, VouchersNameLeaves
  <2> QED BY <1>1, <2>3
<1>5. ASSUME NEW t \in Tills, NEW e \in till[t].todo, CheckBudget(t, e) PROVE StatementsInv'
  <2>1. PICK L : /\ till' = [till EXCEPT ![t].todo = @ \ {e}, ![t].locked = L]
                 /\ glEntries' = glEntries
    BY <1>5 DEF CheckBudget
  <2>2. \A u \in Tills : till'[u].entries = till[u].entries
    BY <1>2, <2>1
  <2>3. OnLeaves(glEntries') /\ \A u \in Tills : OnLeaves(till'[u].entries)
    BY <2>1, <2>2
  <2> QED BY <1>1, <2>3
<1>6. ASSUME NEW t \in Tills, CommitPosting(t) \/ AbortPosting(t) PROVE StatementsInv'
  <2>1. /\ till' = [till EXCEPT ![t] = Calm]
        /\ glEntries' = glEntries \cup till[t].entries \/ glEntries' = glEntries
    BY <1>6 DEF CommitPosting, AbortPosting
  <2>2. \A u \in Tills : till'[u].entries = (IF u = t THEN Calm.entries ELSE till[u].entries)
    BY <1>2, <2>1
  <2>3. OnLeaves(glEntries') /\ \A u \in Tills : OnLeaves(till'[u].entries)
    BY <1>3, <2>1, <2>2 DEF OnLeaves
  <2> QED BY <1>1, <2>3
<1>7. ASSUME NEW v \in GlVouchers, CancelPosting(v) PROVE StatementsInv'
  <2>1. /\ glEntries' = (glEntries \ VoucherEntries(v)) \cup {Struck(e) : e \in VoucherEntries(v)}
                                               \cup {Mirrored(e) : e \in VoucherEntries(v)}
        /\ till' = till
    BY <1>7 DEF CancelPosting
  <2>2. ASSUME NEW e \in VoucherEntries(v)
        PROVE  e \in glEntries /\ Struck(e).account = e.account /\ Mirrored(e).account = e.account
    <3>1. e \in glEntries /\ IsEntry(e)
      BY <1>1 DEF GlTypes, Entries, VoucherEntries
    <3>2. DOMAIN e = EntryFields
      BY <3>1 DEF IsEntry
    <3> QED BY <3>1, <3>2 DEF Struck, Mirrored, EntryFields
  <2>3. OnLeaves(glEntries')
    BY <2>1, <2>2 DEF OnLeaves
  <2> QED BY <1>1, <2>1, <2>3
<1>8. CASE UNCHANGED glVars
  BY <1>1, <1>8 DEF glVars
<1> QED BY <1>4, <1>5, <1>6, <1>7, <1>8 DEF GlNext

\* The live entries of a period balance, since those of each voucher do.
LEMMA PeriodsBalance ==
    ASSUME LedgerInv, RoundOff # NoAccount, NEW from, NEW to
    PROVE  Entries(Between(from, to)) /\ Difference(Between(from, to)) = 0
<1> DEFINE E == Between(from, to)
           f == [e \in E |-> e.debit - e.credit]
           key == [e \in E |-> e.voucher]
           Of(v) == {e \in E : key[e] = v}
<1>1. Entries(E)
  <2>1. E \in SUBSET glEntries
    BY DEF Between, Live
  <2> QED BY <2>1, FS_Subset DEF LedgerInv, GlTypes, Entries
<1>2. /\ IsFiniteSet(E) /\ IsFiniteSet(GlVouchers)
      /\ \A e \in E : key[e] \in GlVouchers /\ f[e] \in Int
  BY <1>1, GlAssumption DEF Entries, IsEntry
<1>3. ASSUME NEW v \in GlVouchers PROVE SumFunctionOnSet(f, Of(v)) = 0
  <2>1. CASE DayOf[v] \in from..to
    <3>1. Of(v) = Live(VoucherEntries(v))
      BY <2>1 DEF Between, Live, VoucherEntries
    <3>2. Difference(Of(v)) = 0
      BY <3>1, LedgerBalances DEF EveryVoucherBalances
    <3>3. SumFunctionOnSet(f, Of(v)) = Difference(Of(v))
      <4>1. PICK g : g = [e \in Of(v) |-> e.debit - e.credit]
        OBVIOUS
      <4>2. IsFiniteSet(Of(v)) /\ \A e \in Of(v) : f[e] \in Int /\ f[e] = g[e]
        BY <1>2, <4>1, FS_Subset
      <4> HIDE DEF f, Of
      <4>3. SumFunctionOnSet(f, Of(v)) = SumFunctionOnSet(g, Of(v))
        BY <4>2, SumSame
      <4> QED BY <4>1, <4>3 DEF Difference
    <3> QED BY <3>2, <3>3
  <2>2. CASE DayOf[v] \notin from..to
    <3>1. Of(v) = {}
      BY <2>2 DEF Between
    <3> QED BY <3>1, SumOfNone
  <2> QED BY <2>1, <2>2
<1>4. PICK g : g = [v \in GlVouchers |-> SumFunctionOnSet(f, Of(v))]
  OBVIOUS
<1>5. SumFunctionOnSet(f, E) = SumFunctionOnSet(g, GlVouchers)
  <2> HIDE DEF E, f, key
  <2> QED BY <1>2, <1>4, SumByGroup
<1>6. SumFunctionOnSet(g, GlVouchers) = 0
  BY <1>2, <1>3, <1>4, SumOfZeros
<1>7. Difference(E) = SumFunctionOnSet(f, E)
  BY DEF Difference
<1> QED BY <1>1, <1>5, <1>6, <1>7

\* Account by account the sides of a set of entries are those of the whole set.
LEMMA SidesByAccount ==
    ASSUME NEW E, Entries(E), OnLeaves(E)
    PROVE  /\ SumFunction([a \in Leaves |-> DebitsOf(a, E)]) = SumDebits(E)
           /\ SumFunction([a \in Leaves |-> CreditsOf(a, E)]) = SumCredits(E)
<1> DEFINE key == [e \in E |-> e.account]
           d == [e \in E |-> e.debit]
           c == [e \in E |-> e.credit]
           On(a) == {e \in E : key[e] = a}
           D == [a \in Leaves |-> SumFunctionOnSet(d, On(a))]
           C == [a \in Leaves |-> SumFunctionOnSet(c, On(a))]
<1>1. /\ IsFiniteSet(E) /\ IsFiniteSet(Leaves)
      /\ \A e \in E : key[e] \in Leaves /\ d[e] \in Int /\ c[e] \in Int
  <2>1. IsFiniteSet(Leaves)
    BY ReportsAssumption, FS_Subset DEF Leaves
  <2> QED BY <2>1 DEF Entries, IsEntry, OnLeaves
<1>2. SumFunctionOnSet(d, E) = SumFunctionOnSet(D, Leaves) /\ SumFunctionOnSet(c, E) = SumFunctionOnSet(C, Leaves)
  <2> HIDE DEF key, d, c
  <2> QED BY <1>1, SumByGroup
<1>3. ASSUME NEW a \in Leaves
      PROVE  /\ SumFunctionOnSet(d, On(a)) = DebitsOf(a, E)
             /\ SumFunctionOnSet(c, On(a)) = CreditsOf(a, E)
  <2>1. On(a) = {e \in E : e.account = a}
    OBVIOUS
  <2>2. PICK S, dd, cc : /\ S = On(a) /\ dd = [e \in S |-> e.debit] /\ cc = [e \in S |-> e.credit]
    OBVIOUS
  <2>3. /\ IsFiniteSet(S)
        /\ \A e \in S : d[e] \in Int /\ c[e] \in Int /\ dd[e] = d[e] /\ cc[e] = c[e]
    BY <1>1, <2>2, FS_Subset
  <2>4. SumFunctionOnSet(dd, S) = SumFunctionOnSet(d, S) /\ SumFunctionOnSet(cc, S) = SumFunctionOnSet(c, S)
    <3> HIDE DEF d, c, On
    <3> QED BY <2>3, SumSame
  <2> QED BY <2>1, <2>2, <2>4 DEF DebitsOf, CreditsOf, SumDebits, SumCredits
<1>4. D = [a \in Leaves |-> DebitsOf(a, E)] /\ C = [a \in Leaves |-> CreditsOf(a, E)]
  BY <1>3
<1>5. SumDebits(E) = SumFunctionOnSet(d, E) /\ SumCredits(E) = SumFunctionOnSet(c, E)
  BY DEF SumDebits, SumCredits
<1> QED BY <1>2, <1>4, <1>5 DEF SumFunction

\* The balance of an account is a number, and none where nothing is booked.
LEMMA BalancesAreNumbers ==
    ASSUME NEW E, Entries(E), NEW a
    PROVE  /\ DebitsOf(a, E) \in Int /\ CreditsOf(a, E) \in Int /\ Natural(a, E) \in Int
           /\ OnLeaves(E) /\ a \notin Leaves => Natural(a, E) = 0
<1>1. PICK S : S = {e \in E : e.account = a}
  OBVIOUS
<1>2. Entries(S)
  BY <1>1, FS_Subset DEF Entries
<1>3. DebitsOf(a, E) \in Int /\ CreditsOf(a, E) \in Int
  BY <1>1, <1>2, SidesOf DEF DebitsOf, CreditsOf
<1>4. ASSUME OnLeaves(E), a \notin Leaves PROVE DebitsOf(a, E) = 0 /\ CreditsOf(a, E) = 0
  <2>1. S = {}
    BY <1>1, <1>4 DEF OnLeaves
  <2> QED BY <1>1, <2>1, SumOfNone DEF DebitsOf, CreditsOf, SumDebits, SumCredits
<1> QED BY <1>3, <1>4 DEF Natural

\* The leaves of a kind, and what they add up to.
OfKind(root) == {b \in Leaves : Chart[b].root = root}
LEMMA KindTotals ==
    ASSUME NEW E, Entries(E), NEW N, N = [a \in Leaves |-> DebitsOf(a, E) - CreditsOf(a, E)], NEW root
    PROVE  /\ TotalOn(root, E) \in Int /\ SumFunctionOnSet(N, OfKind(root)) \in Int
           /\ SumFunctionOnSet(N, OfKind(root)) =
                  IF root \in {"Asset", "Expense"} THEN TotalOn(root, E) ELSE -TotalOn(root, E)
<1>1. PICK K, g : K = OfKind(root) /\ g = [a \in K |-> Natural(a, E)]
  OBVIOUS
<1>2. IsFiniteSet(K)
  BY <1>1, ReportsAssumption, FS_Subset DEF OfKind, Leaves
<1>3. \A a \in K : /\ g[a] \in Int /\ N[a] \in Int
                   /\ N[a] = IF root \in {"Asset", "Expense"} THEN g[a] ELSE -g[a]
  BY <1>1, BalancesAreNumbers DEF OfKind, Natural
<1>4. TotalOn(root, E) = SumFunctionOnSet(g, K)
  BY <1>1 DEF TotalOn, OfKind, SumFunction
<1>5. SumFunctionOnSet(g, K) \in Int /\ SumFunctionOnSet(N, K) \in Int
  BY <1>2, <1>3, SumIsNumber
<1>6. CASE root \in {"Asset", "Expense"}
  <2>1. SumFunctionOnSet(N, K) = SumFunctionOnSet(g, K)
    BY <1>2, <1>3, <1>6, SumSame
  <2> QED BY <1>1, <1>4, <1>5, <1>6, <2>1
<1>7. CASE root \notin {"Asset", "Expense"}
  <2>1. SumFunctionOnSet(N, K) = -SumFunctionOnSet(g, K)
    BY <1>2, <1>3, <1>7, SumOpposite
  <2> QED BY <1>1, <1>4, <1>5, <1>7, <2>1
<1> QED BY <1>6, <1>7

\* Assets and expenses are liabilities, equity and income.
LEMMA KindsBalance ==
    ASSUME NEW E, Entries(E), OnLeaves(E), Difference(E) = 0
    PROVE  TotalOn("Asset", E) + TotalOn("Expense", E)
              = TotalOn("Liability", E) + TotalOn("Equity", E) + TotalOn("Income", E)
<1>1. PICK N, D, C : /\ N = [a \in Leaves |-> DebitsOf(a, E) - CreditsOf(a, E)]
                     /\ D = [a \in Leaves |-> DebitsOf(a, E)] /\ C = [a \in Leaves |-> CreditsOf(a, E)]
  OBVIOUS
<1>2. /\ IsFiniteSet(Leaves)
      /\ \A a \in Leaves : N[a] \in Int /\ C[a] \in Int /\ D[a] = N[a] + C[a]
  BY <1>1, ReportsAssumption, FS_Subset, BalancesAreNumbers DEF Leaves
<1>3. SumFunctionOnSet(D, Leaves) = SumFunctionOnSet(N, Leaves) + SumFunctionOnSet(C, Leaves)
  BY <1>2, SumOfSums
<1>4. SumFunctionOnSet(D, Leaves) = SumDebits(E) /\ SumFunctionOnSet(C, Leaves) = SumCredits(E)
  BY <1>1, SidesByAccount DEF SumFunction
<1>5. SumDebits(E) = SumCredits(E) /\ SumDebits(E) \in Int
  BY SidesOf
<1>6. SumFunctionOnSet(N, Leaves) = 0
  <2>1. SumFunctionOnSet(N, Leaves) \in Int
    BY <1>2, SumIsNumber
  <2> QED BY <1>3, <1>4, <1>5, <2>1
<1>7. PICK A, X, L, Q, I : /\ A = OfKind("Asset") /\ X = OfKind("Expense") /\ L = OfKind("Liability")
                           /\ Q = OfKind("Equity") /\ I = OfKind("Income")
  OBVIOUS
<1>8. PICK R1, R2, R3 : R1 = Leaves \ A /\ R2 = R1 \ X /\ R3 = R2 \ L
  OBVIOUS
<1>9. /\ A \in SUBSET Leaves /\ X \in SUBSET R1 /\ L \in SUBSET R2 /\ Q \in SUBSET R3 /\ R3 \ Q = I
      /\ R1 \in SUBSET Leaves /\ R2 \in SUBSET Leaves /\ R3 \in SUBSET Leaves
  BY <1>7, <1>8, ReportsAssumption DEF OfKind, SheetRoots, Leaves
<1>10. IsFiniteSet(R1) /\ IsFiniteSet(R2) /\ IsFiniteSet(R3)
  BY <1>2, <1>9, FS_Subset
<1>11. /\ SumFunctionOnSet(N, Leaves) = SumFunctionOnSet(N, A) + SumFunctionOnSet(N, R1)
       /\ SumFunctionOnSet(N, R1) = SumFunctionOnSet(N, X) + SumFunctionOnSet(N, R2)
       /\ SumFunctionOnSet(N, R2) = SumFunctionOnSet(N, L) + SumFunctionOnSet(N, R3)
       /\ SumFunctionOnSet(N, R3) = SumFunctionOnSet(N, Q) + SumFunctionOnSet(N, I)
  <2>1. \A a \in Leaves : N[a] \in Int
    BY <1>2
  <2> QED BY <1>2, <1>8, <1>9, <1>10, <2>1, SumParts
<1>12. /\ TotalOn("Asset", E) \in Int /\ SumFunctionOnSet(N, A) = TotalOn("Asset", E)
       /\ TotalOn("Expense", E) \in Int /\ SumFunctionOnSet(N, X) = TotalOn("Expense", E)
       /\ TotalOn("Liability", E) \in Int /\ SumFunctionOnSet(N, L) = -TotalOn("Liability", E)
       /\ TotalOn("Equity", E) \in Int /\ SumFunctionOnSet(N, Q) = -TotalOn("Equity", E)
       /\ TotalOn("Income", E) \in Int /\ SumFunctionOnSet(N, I) = -TotalOn("Income", E)
  BY <1>1, <1>7, KindTotals
<1>13. SumFunctionOnSet(N, R1) \in Int /\ SumFunctionOnSet(N, R2) \in Int /\ SumFunctionOnSet(N, R3) \in Int
  BY <1>2, <1>9, <1>10, SumIsNumber
<1>14. PICK x, y, z : /\ x = SumFunctionOnSet(N, R1) /\ y = SumFunctionOnSet(N, R2)
                      /\ z = SumFunctionOnSet(N, R3)
  OBVIOUS
<1>15. PICK s, ex, li, eq, inc : /\ s = TotalOn("Asset", E) /\ ex = TotalOn("Expense", E)
                                 /\ li = TotalOn("Liability", E) /\ eq = TotalOn("Equity", E)
                                 /\ inc = TotalOn("Income", E)
  OBVIOUS
<1>16. /\ s \in Int /\ ex \in Int /\ li \in Int /\ eq \in Int /\ inc \in Int
       /\ x \in Int /\ y \in Int /\ z \in Int
  BY <1>12, <1>13, <1>14, <1>15
<1>17. 0 = s + x /\ x = ex + y /\ y = z - li /\ z = 0 - eq - inc
  BY <1>6, <1>11, <1>12, <1>14, <1>15
<1>18. s + ex = li + eq + inc
  BY ONLY <1>16, <1>17
<1> QED BY <1>15, <1>18

\* A root shows what the leaves of its kind add up to, since each is below one root.
LEMMA RootsShowTheirKind ==
    ASSUME NEW from, NEW to, NEW root, NEW top, top = Roots(root),
           NEW E, Entries(E), OnLeaves(E), E = ReportedOn(root, from, to)
    PROVE  SumFunction([a \in top |-> ChartBalance(a, from, to)]) = TotalOn(root, E)
<1> DEFINE kind == {a \in ChartAccounts : Chart[a].root = root}
           own == [a \in kind |-> Natural(a, E)]
           rootOf == [a \in kind |-> CHOOSE t \in Ancestors[a] \cup {a} : Top(t)]
           In(t) == {a \in kind : rootOf[a] = t}
           shown == [t \in top |-> SumFunctionOnSet(own, In(t))]
<1>1. /\ IsFiniteSet(ChartAccounts) /\ IsFiniteSet(kind) /\ \A a \in kind : own[a] \in Int
      /\ \A a \in kind : OwnBalance(a, from, to) = own[a]
  BY ReportsAssumption, FS_Subset, BalancesAreNumbers DEF OwnBalance
<1>2. /\ top \in SUBSET kind /\ IsFiniteSet(top)
      /\ \A t \in top : t \in ChartAccounts /\ Top(t) /\ Ancestors[t] = {}
  <2>1. top \in SUBSET kind /\ \A t \in top : t \in ChartAccounts /\ Top(t)
    BY DEF Shown, Roots
  <2> QED BY <1>1, <2>1, FS_Subset, UpOneStep
<1>3. ASSUME NEW a \in kind
      PROVE  /\ rootOf[a] \in Ancestors[a] \cup {a} /\ Top(rootOf[a]) /\ rootOf[a] \in top
  <2>1. \E t \in Ancestors[a] \cup {a} : Top(t)
    BY ReportsAssumption
  <2>2. PICK t : t = rootOf[a] /\ t \in Ancestors[a] \cup {a} /\ Top(t)
    BY <2>1
  <2>3. t \in ChartAccounts /\ Chart[t].root = root
    BY <2>2, UpOneStep, AncestorsAreAlike
  <2>4. t \in Shown
    BY <2>2, <2>3, ReportsAssumption
  <2> QED BY <2>2, <2>3, <2>4 DEF Roots
<1>4. SumFunctionOnSet(own, kind) = SumFunctionOnSet(shown, top)
  <2> HIDE DEF kind, own, rootOf
  <2> QED BY <1>1, <1>2, <1>3, SumByGroup
<1>5. ASSUME NEW t \in top PROVE ChartBalance(t, from, to) = SumFunctionOnSet(own, In(t))
  <2>1. /\ t \in kind /\ t \in ChartAccounts /\ Top(t) /\ Ancestors[t] = {}
        /\ OwnBalance(t, from, to) = own[t]
    BY <1>1, <1>2
  <2>2. ASSUME NEW a \in kind PROVE (rootOf[a] = t) <=> (t \in Ancestors[a] \cup {a})
    <3>1. PICK u : u = rootOf[a] /\ u \in Ancestors[a] \cup {a} /\ Top(u)
      BY <1>3
    <3>2. a \in ChartAccounts
      OBVIOUS
    <3>3. ASSUME t \in Ancestors[a] \cup {a} PROVE t = u
      BY <2>1, <3>1, <3>2, <3>3, OneWayUp
    <3> QED BY <3>1, <3>3
  <2>3. \A a \in Subtree(t) : a \in kind
    BY <2>1, AncestorsAreAlike DEF Subtree
  <2>4. In(t) = Subtree(t) \cup {t} /\ t \notin Subtree(t) /\ Subtree(t) \in SUBSET kind
    BY <2>1, <2>2, <2>3 DEF Subtree
  <2>5. IsFiniteSet(Subtree(t))
    BY <1>1, <2>4, FS_Subset
  <2>6. PICK S, g : S = Subtree(t) /\ g = [b \in S |-> OwnBalance(b, from, to)]
    OBVIOUS
  <2>7. \A b \in S : own[b] \in Int /\ g[b] = own[b]
    BY <1>1, <2>4, <2>6
  <2> HIDE DEF own, In, kind
  <2>8. SumFunctionOnSet(own, S \cup {t}) = SumFunctionOnSet(own, S) + own[t]
    BY <1>1, <2>1, <2>4, <2>5, <2>6, SumAdd
  <2>9. SumFunctionOnSet(own, S) = SumFunctionOnSet(g, S) /\ SumFunctionOnSet(own, S) \in Int /\ own[t] \in Int
    BY <1>1, <2>1, <2>5, <2>6, <2>7, SumSame, SumIsNumber
  <2>10. CASE Chart[t].group
    <3>1. ChartBalance(t, from, to) = own[t] + SumFunctionOnSet(g, S)
      BY <2>1, <2>6, <2>10 DEF ChartBalance, SumFunction
    <3> QED BY <2>4, <2>6, <2>8, <2>9, <3>1
  <2>11. CASE ~Chart[t].group
    <3>1. S = {}
      BY <2>6, <2>11, AncestorsAreAlike DEF Subtree
    <3>2. ChartBalance(t, from, to) = own[t]
      BY <2>1, <2>9, <2>11 DEF ChartBalance
    <3> QED BY <2>4, <2>6, <2>8, <2>9, <3>1, <3>2, SumOfNone
  <2> QED BY <2>10, <2>11
<1>6. SumFunctionOnSet(own, kind) = TotalOn(root, E)
  <2>1. PICK K, g : K = {b \in Leaves : Chart[b].root = root} /\ g = [a \in K |-> Natural(a, E)]
    OBVIOUS
  <2>2. /\ K \in SUBSET kind /\ IsFiniteSet(K) /\ IsFiniteSet(kind \ K)
        /\ \A a \in K : own[a] \in Int /\ g[a] = own[a]
    BY <1>1, <2>1, FS_Subset DEF Leaves
  <2>3. \A a \in kind \ K : own[a] = 0
    BY <2>1, BalancesAreNumbers
  <2> HIDE DEF own, kind
  <2>4. SumFunctionOnSet(own, kind) = SumFunctionOnSet(own, K) + SumFunctionOnSet(own, kind \ K)
    BY <1>1, <2>2, SumParts
  <2>5. SumFunctionOnSet(own, kind \ K) = 0
    BY <2>2, <2>3, SumOfZeros
  <2>6. SumFunctionOnSet(g, K) = SumFunctionOnSet(own, K) /\ SumFunctionOnSet(own, K) \in Int
    BY <2>2, SumSame, SumIsNumber
  <2>7. TotalOn(root, E) = SumFunctionOnSet(g, K)
    BY <2>1 DEF TotalOn, SumFunction
  <2> QED BY <2>4, <2>5, <2>6, <2>7
<1>7. [a \in top |-> ChartBalance(a, from, to)] = shown
  BY <1>5
<1>8. SumFunction([a \in top |-> ChartBalance(a, from, to)]) = SumFunctionOnSet(shown, top)
  <2> HIDE DEF shown
  <2>1. DOMAIN shown = top
    BY DEF shown
  <2> QED BY <1>7, <2>1 DEF SumFunction
<1> QED BY <1>4, <1>6, <1>8

\* A finite set in some sequence.
LEMMA SetInSequence ==
    ASSUME NEW S, IsFiniteSet(S), NEW n, n = Cardinality(S), NEW row, row = SetToSeq(S)
    PROVE  /\ n \in Nat /\ row \in [1..n -> S]
           /\ \A i, j \in 1..n : row[i] = row[j] => i = j
           /\ {row[i] : i \in 1..n} = S
<1>1. n \in Nat /\ ExistsBijection(1..n, S)
  <2>1. PICK k \in Nat : ExistsBijection(1..k, S)
    BY FS_NatBijection
  <2>2. Cardinality(S) = k
    BY <2>1, FS_CountingElements
  <2> QED BY <2>1, <2>2
<1>2. \E f \in [1..n -> S] : IsInjective(f)
  BY <1>1 DEF ExistsBijection, Bijection, Injection
<1>3. row \in [1..n -> S] /\ IsInjective(row)
  <2>1. row = CHOOSE f \in [1..n -> S] : IsInjective(f)
    BY DEF SetToSeq
  <2> QED BY <1>2, <2>1
<1>4. IsFiniteSet(1..n) /\ Cardinality(1..n) = n
  <2>1. 1 \in Int /\ n \in Int
    BY <1>1
  <2>2. IsFiniteSet(1..n) /\ Cardinality(1..n) = IF 1 > n THEN 0 ELSE n - 1 + 1
    BY ONLY <2>1, FS_Interval
  <2> QED BY <1>1, <2>2
<1>5. row \in Injection(1..n, S)
  BY <1>3 DEF Injection
<1>6. row \in Surjection(1..n, S)
  BY <1>4, <1>5, FS_Injection
<1>7. {row[i] : i \in 1..n} = S
  BY <1>3, <1>6 DEF Surjection
<1> QED BY <1>1, <1>3, <1>7 DEF IsInjective

\* The ledger of an account has each of its live entries once.
LEMMA LedgerListsAll ==
    ASSUME LedgerInv, NEW a, NEW S, S = AccountEntries(a),
           NEW n, n = Cardinality(S), NEW rows, rows = LedgerOf(a)
    PROVE  /\ Entries(S) /\ n \in Nat /\ rows \in [1..n -> S]
           /\ \A i, j \in 1..n : rows[i] = rows[j] => i = j
           /\ {rows[i] : i \in 1..n} = S
<1>1. Entries(S)
  <2>1. S \in SUBSET glEntries
    BY DEF Live, AccountEntries
  <2> QED BY <2>1, FS_Subset DEF LedgerInv, GlTypes, Entries
<1>2. PICK row : row = SetToSeq(S)
  OBVIOUS
<1>3. /\ n \in Nat /\ row \in [1..n -> S]
      /\ \A i, j \in 1..n : row[i] = row[j] => i = j
      /\ {row[i] : i \in 1..n} = S
  <2>1. IsFiniteSet(S) /\ n = Cardinality(S)
    BY <1>1 DEF Entries
  <2> QED BY ONLY <1>2, <2>1, SetInSequence
<1>4. PICK N : N = 1..n
  OBVIOUS
<1>5. IsFiniteSet(N) /\ Cardinality(N) = n
  <2>1. 1 \in Int /\ n \in Int
    BY <1>3
  <2>2. IsFiniteSet(1..n) /\ Cardinality(1..n) = IF 1 > n THEN 0 ELSE n - 1 + 1
    BY ONLY <2>1, FS_Interval
  <2> QED BY <1>3, <1>4, <2>2
<1>6. PICK day : day = [i \in N |-> DayOf[row[i].voucher]]
  OBVIOUS
<1>7. \A i \in N : day[i] \in Nat
  <2>1. \A i \in N : row[i].voucher \in GlVouchers
    BY <1>1, <1>3, <1>4 DEF Entries, IsEntry
  <2> QED BY <1>6, <2>1, ReportsAssumption
<1>8. PICK R : R = {p \in N \X N : day[p[1]] < day[p[2]] \/ (day[p[1]] = day[p[2]] /\ p[1] < p[2])}
  OBVIOUS
<1>9. IsOrder(N, R)
  <2>1. \A i, j \in N : (<<i, j>> \in R) <=> (day[i] < day[j] \/ (day[i] = day[j] /\ i < j))
    BY <1>8
  <2>2. \A i \in N : i \in Int
    BY <1>4
  <2>3. \A i \in N : <<i, i>> \notin R
    BY <1>7, <2>1, <2>2
  <2>4. \A i, j \in N : i # j => <<i, j>> \in R \/ <<j, i>> \in R
    BY <1>7, <2>1, <2>2
  <2>5. \A i, j, k \in N : <<i, j>> \in R /\ <<j, k>> \in R => <<i, k>> \in R
    BY <1>7, <2>1, <2>2
  <2> QED BY <1>5, <2>3, <2>4, <2>5 DEF IsOrder
<1>10. DOMAIN row = N /\ \A i \in N : Ahead(N, R, i) = RowsBefore(row, i)
  BY <1>3, <1>4, <1>6, <1>8 DEF Ahead, RowsBefore
<1>11. PICK at : at = [k \in N |-> CHOOSE i \in N : Cardinality(RowsBefore(row, i)) = k - 1]
  OBVIOUS
<1>12. /\ \A k \in N : at[k] \in N
       /\ \A j, k \in N : at[j] = at[k] => j = k
       /\ {at[k] : k \in N} = N
  <2>1. \A k \in N : \E i \in N : Cardinality(RowsBefore(row, i)) = k - 1
    <3>1. \A k \in 1..Cardinality(N) : \E i \in N : Cardinality(Ahead(N, R, i)) = k - 1
      BY ONLY <1>9, PlacesAreTaken
    <3>2. 1..Cardinality(N) = N
      BY <1>4, <1>5
    <3> QED BY <1>10, <3>1, <3>2
  <2>2. \A k \in N : at[k] \in N /\ Cardinality(RowsBefore(row, at[k])) = k - 1
    BY <1>11, <2>1
  <2>3. \A k \in 1..Cardinality(N) : at[k] \in N /\ Cardinality(Ahead(N, R, at[k])) = k - 1
    BY <1>4, <1>5, <1>10, <2>2
  <2>4. 1..Cardinality(N) = N
    BY <1>4, <1>5
  <2>5. /\ \A i, j \in 1..Cardinality(N) : at[i] = at[j] => i = j
        /\ {at[i] : i \in 1..Cardinality(N)} = N
    BY ONLY <1>9, <2>3, EachHasItsPlace
  <2> QED BY <2>2, <2>4, <2>5
<1>13. rows = [k \in 1..n |-> row[at[k]]]
  <2>1. rows = ByDay(row)
    BY <1>2 DEF LedgerOf
  <2>2. rows = [k \in N |-> row[CHOOSE i \in N : Cardinality(RowsBefore(row, i)) = k - 1]]
    BY <1>10, <2>1 DEF ByDay
  <2> QED BY <1>4, <1>11, <2>2
<1>14. /\ row \in [N -> S] /\ rows = [k \in N |-> row[at[k]]]
       /\ \A i, j \in N : row[i] = row[j] => i = j
       /\ {row[i] : i \in N} = S
  BY <1>3, <1>4, <1>13
<1>15. \A i \in N : rows[i] = row[at[i]] /\ at[i] \in N /\ rows[i] \in S
  BY ONLY <1>12, <1>14
<1>16. rows \in [N -> S]
  BY ONLY <1>14, <1>15
<1>17. ASSUME NEW i \in N, NEW j \in N, rows[i] = rows[j] PROVE i = j
  BY ONLY <1>12, <1>14, <1>15, <1>17
<1>18. {rows[i] : i \in N} = S
  <2>1. \A e \in S : \E k \in N : rows[k] = e
    <3>1. \A e \in S : \E i \in N : row[i] = e
      BY ONLY <1>14
    <3>2. \A i \in N : \E k \in N : at[k] = i
      BY ONLY <1>12
    <3> QED BY ONLY <1>15, <3>1, <3>2
  <2> QED BY ONLY <1>16, <2>1
<1> QED BY <1>1, <1>3, <1>4, <1>16, <1>17, <1>18

\* A stretch of the rows, and what the rows add.
Stretch(part, rows, m, k) == DOMAIN part = 1..k /\ \A i \in 1..k : part[i] = rows[m + i]
RowAmounts(net, rows, n) ==
    /\ n \in Nat
    /\ \A i \in 1..n : /\ rows[i].debit \in Int /\ rows[i].credit \in Int
                        /\ net[i] = rows[i].debit - rows[i].credit

\* What a stretch of the rows adds up to.
LEMMA StretchOfRows ==
    ASSUME NEW n, NEW rows, NEW net, RowAmounts(net, rows, n),
           NEW m \in Nat, NEW k \in Nat, m + k <= n, NEW part, Stretch(part, rows, m, k)
    PROVE  NetOfRows(part) = SumFunctionOnSet(net, (m + 1)..(m + k))
<1> USE DEF Stretch, RowAmounts
<1>1. PICK g, name : /\ g = [i \in 1..k |-> part[i].debit - part[i].credit]
                     /\ name = [i \in 1..k |-> m + i]
  OBVIOUS
<1>2. PICK K : K = 1..k
  OBVIOUS
<1>3. IsFiniteSet(K)
  BY <1>2, FS_Interval
<1>4. \A i, j \in K : name[i] = name[j] => i = j
  BY <1>1, <1>2
<1>5. \A i \in K : g[i] \in Int /\ net[name[i]] = g[i]
  <2>1. ASSUME NEW i \in K PROVE g[i] \in Int /\ net[name[i]] = g[i]
    <3>1. PICK j : j = m + i
      OBVIOUS
    <3>2. j \in 1..n /\ name[i] = j /\ part[i] = rows[j] /\ g[i] = part[i].debit - part[i].credit
      BY <1>1, <1>2, <3>1
    <3> QED BY <3>2
  <2> QED BY <2>1
<1>6. SumFunctionOnSet(net, {name[i] : i \in K}) = SumFunctionOnSet(g, K)
  BY ONLY <1>3, <1>4, <1>5, SumRenamed
<1>7. {name[i] : i \in K} = (m + 1)..(m + k)
  <2>1. ASSUME NEW j \in (m + 1)..(m + k) PROVE \E i \in K : name[i] = j
    <3>1. j - m \in K /\ name[j - m] = j
      BY <1>1, <1>2
    <3> QED BY <3>1
  <2>2. \A i \in K : name[i] \in (m + 1)..(m + k)
    BY <1>1, <1>2
  <2> QED BY <2>1, <2>2
<1>8. NetOfRows(part) = SumFunctionOnSet(g, K)
  BY <1>1, <1>2 DEF NetOfRows, SumFunction
<1> QED BY <1>6, <1>7, <1>8

\* Rows that differ add up to what their set adds up to.
LEMMA RowsOnce ==
    ASSUME NEW k \in Nat, NEW part, DOMAIN part = 1..k,
           \A i \in 1..k : part[i].debit \in Int /\ part[i].credit \in Int,
           \A i, j \in 1..k : part[i] = part[j] => i = j
    PROVE  Difference(ToSet(part)) = NetOfRows(part)
<1>1. PICK K, P : K = 1..k /\ P = ToSet(part)
  OBVIOUS
<1>2. PICK g, f : /\ g = [i \in K |-> part[i].debit - part[i].credit]
                  /\ f = [e \in P |-> e.debit - e.credit]
  OBVIOUS
<1>3. IsFiniteSet(K)
  BY <1>1, FS_Interval
<1>4. \A i, j \in K : part[i] = part[j] => i = j
  BY <1>1
<1>5. P = {part[i] : i \in K}
  BY <1>1 DEF ToSet
<1>6. \A i \in K : g[i] \in Int /\ f[part[i]] = g[i]
  BY <1>1, <1>2, <1>5
<1>7. SumFunctionOnSet(f, {part[i] : i \in K}) = SumFunctionOnSet(g, K)
  BY ONLY <1>3, <1>4, <1>6, SumRenamed
<1>8. NetOfRows(part) = SumFunctionOnSet(g, K)
  BY <1>1, <1>2 DEF NetOfRows, SumFunction
<1>9. Difference(P) = SumFunctionOnSet(f, P)
  BY <1>2 DEF Difference
<1> QED BY <1>1, <1>5, <1>7, <1>8, <1>9

\* The balances of a page go on from what is before it.
LEMMA PagesGoOn ==
    ASSUME LedgerInv, NEW a, NEW rows, rows = LedgerOf(a), NEW offset \in 0..(Len(rows) - 1)
    PROVE  GoesOn(rows, offset)
<1>0. PICK balances : balances = LedgerPage(rows, offset).balances
  OBVIOUS
<1>1. PICK S, n : S = AccountEntries(a) /\ n = Cardinality(S)
  OBVIOUS
<1>2. /\ Entries(S) /\ n \in Nat /\ rows \in [1..n -> S]
      /\ \A i, j \in 1..n : rows[i] = rows[j] => i = j
  <2>1. LedgerInv /\ rows = LedgerOf(a)
    BY <1>0
  <2> QED BY ONLY <1>1, <2>1, LedgerListsAll
<1>3. /\ \A i \in 1..n : rows[i] \in S
      /\ \A i \in 1..n : rows[i].debit \in Int /\ rows[i].credit \in Int
  BY <1>2 DEF Entries, IsEntry
<1>4. Len(rows) = n
  BY <1>2
<1>5. /\ n \in Nat /\ offset \in Nat /\ offset < n /\ PageSize \in Nat \ {0}
  BY <1>0, <1>2, <1>4, ReportsAssumption
<1>6. PICK last : last = Min({offset + PageSize, n})
  OBVIOUS
<1>7. last \in Nat /\ offset < last /\ last <= n
  <2>1. PICK x : x = offset + PageSize /\ x \in Nat /\ offset < x
    BY <1>5
  <2>2. last = CHOOSE y \in {x, n} : \A z \in {x, n} : y <= z
    BY <1>6, <2>1 DEF Min
  <2>3. \E y \in {x, n} : \A z \in {x, n} : y <= z
    BY <1>5, <2>1
  <2>4. last \in {x, n} /\ \A z \in {x, n} : last <= z
    BY <2>2, <2>3
  <2> QED BY <1>5, <2>1, <2>4
<1>8. PICK page, k : page = SubSeq(rows, offset + 1, last) /\ k = last - offset
  OBVIOUS
<1>9. k \in Nat \ {0} /\ offset + k = last
  BY <1>5, <1>7, <1>8
<1>10. /\ page \in Seq(S) /\ Len(page) = k /\ DOMAIN page = 1..k
       /\ \A i \in 1..k : page[i] = rows[offset + i]
  <2>1. offset + 1 \in Int /\ last \in Int /\ \A i \in (offset + 1)..last : rows[i] \in S
    BY <1>3, <1>5, <1>7
  <2>2. /\ SubSeq(rows, offset + 1, last) \in Seq(S)
        /\ Len(SubSeq(rows, offset + 1, last)) =
              IF offset + 1 <= last THEN last - (offset + 1) + 1 ELSE 0
        /\ \A i \in 1..(last - (offset + 1) + 1) :
              SubSeq(rows, offset + 1, last)[i] = rows[offset + 1 + i - 1]
    BY ONLY <2>1, SubSeqProperties
  <2>3. page \in Seq(S) /\ Len(page) = k
    BY <1>5, <1>7, <1>8, <2>2
  <2>4. DOMAIN page = 1..k
    BY <2>3, LenProperties
  <2>5. last - (offset + 1) + 1 = k /\ \A i \in 1..k : offset + 1 + i - 1 = offset + i
    BY <1>5, <1>7, <1>8
  <2> QED BY <1>8, <2>2, <2>3, <2>4, <2>5
<1>11. PICK net : net = [i \in 1..n |-> rows[i].debit - rows[i].credit]
  OBVIOUS
<1>12. RowAmounts(net, rows, n)
  BY <1>3, <1>5, <1>11 DEF RowAmounts
<1>13. ASSUME NEW from \in Nat, NEW to \in Nat, from <= to, to <= n
       PROVE  IsFiniteSet((from + 1)..to) /\ SumFunctionOnSet(net, (from + 1)..to) \in Int
  <2>1. IsFiniteSet((from + 1)..to)
    BY FS_Interval
  <2>2. \A i \in (from + 1)..to : net[i] \in Int
    BY <1>3, <1>5, <1>11, <1>13
  <2>3. PICK I : I = (from + 1)..to
    OBVIOUS
  <2> QED BY <2>1, <2>2, <2>3, SumIsNumber
<1>14. ASSUME NEW m \in Nat, m <= n
       PROVE  /\ DOMAIN SubSeq(rows, 1, m) = 1..m
              /\ \A i \in 1..m : SubSeq(rows, 1, m)[i] = rows[i]
              /\ NetOfRows(SubSeq(rows, 1, m)) = SumFunctionOnSet(net, 1..m)
              /\ Difference(ToSet(SubSeq(rows, 1, m))) = SumFunctionOnSet(net, 1..m)
  <2>1. PICK part : part = SubSeq(rows, 1, m)
    OBVIOUS
  <2>2. \A i \in 1..m : rows[i] \in S
    BY <1>3, <1>5, <1>14
  <2>3. /\ SubSeq(rows, 1, m) \in Seq(S)
        /\ Len(SubSeq(rows, 1, m)) = (IF 1 <= m THEN m - 1 + 1 ELSE 0)
        /\ \A i \in 1..(m - 1 + 1) : SubSeq(rows, 1, m)[i] = rows[1 + i - 1]
    <3>1. 1 \in Int /\ m \in Int
      BY <1>14
    <3> QED BY ONLY <2>2, <3>1, SubSeqProperties
  <2>4. part \in Seq(S) /\ Len(part) = m
    BY <1>14, <2>1, <2>3
  <2>5. DOMAIN part = 1..m
    BY <2>4, LenProperties
  <2>6. m - 1 + 1 = m /\ \A i \in 1..m : 1 + i - 1 = i
    BY <1>14
  <2>7. \A i \in 1..m : part[i] = rows[i]
    BY <2>1, <2>3, <2>6
  <2>8. Stretch(part, rows, 0, m)
    BY <2>5, <2>7 DEF Stretch
  <2>9. 0 \in Nat /\ m \in Nat /\ 0 + m <= n /\ 0 + 1 = 1 /\ 0 + m = m
    BY <1>5, <1>14
  <2>10. NetOfRows(part) = SumFunctionOnSet(net, (0 + 1)..(0 + m))
    BY ONLY <1>12, <2>8, <2>9, StretchOfRows
  <2>11. Difference(ToSet(part)) = NetOfRows(part)
    <3>1. \A i \in 1..m : part[i].debit \in Int /\ part[i].credit \in Int
      BY <1>3, <1>5, <2>7, <1>14
    <3>2. \A i, j \in 1..m : part[i] = part[j] => i = j
      BY <1>2, <1>5, <1>14, <2>7
    <3> QED BY ONLY <1>14, <2>5, <3>1, <3>2, RowsOnce
  <2> QED BY <2>1, <2>5, <2>7, <2>9, <2>10, <2>11
<1>15. PICK opening : opening = IF offset > 0 THEN NetOfRows(SubSeq(rows, 1, offset)) ELSE 0
  OBVIOUS
<1>16. opening = SumFunctionOnSet(net, 1..offset)
  <2>1. CASE offset > 0
    <3>1. offset \in Nat /\ offset <= n
      BY <1>5
    <3> QED BY <1>14, <1>15, <2>1, <3>1
  <2>2. CASE ~(offset > 0)
    <3>1. 1..offset = {}
      BY <1>5, <2>2
    <3> QED BY <1>15, <2>2, <3>1, SumOfNone
  <2> QED BY <2>1, <2>2
<1>17. balances = [i \in DOMAIN page |-> opening + NetOfRows(SubSeq(page, 1, i))]
  BY <1>0, <1>4, <1>6, <1>8, <1>15 DEF LedgerPage
<1>18. DOMAIN balances = 1..k /\ Len(balances) = k
  BY <1>9, <1>10, <1>17
<1>19. ASSUME NEW i \in 1..k
       PROVE  NetOfRows(SubSeq(page, 1, i)) = SumFunctionOnSet(net, (offset + 1)..(offset + i))
  <2>1. PICK part : part = SubSeq(page, 1, i)
    OBVIOUS
  <2>2. 1 \in Int /\ i \in Int /\ \A j \in 1..i : page[j] \in S
    BY <1>3, <1>5, <1>7, <1>9, <1>10
  <2>3. /\ SubSeq(page, 1, i) \in Seq(S)
        /\ Len(SubSeq(page, 1, i)) = (IF 1 <= i THEN i - 1 + 1 ELSE 0)
        /\ \A j \in 1..(i - 1 + 1) : SubSeq(page, 1, i)[j] = page[1 + j - 1]
    BY ONLY <2>2, SubSeqProperties
  <2>4. part \in Seq(S) /\ Len(part) = i
    BY <1>9, <2>1, <2>3
  <2>5. DOMAIN part = 1..i
    BY <2>4, LenProperties
  <2>6. i - 1 + 1 = i /\ \A j \in 1..i : 1 + j - 1 = j /\ j \in 1..k
    BY <1>9
  <2>7. Stretch(part, rows, offset, i)
    BY <1>10, <2>1, <2>3, <2>5, <2>6 DEF Stretch
  <2>8. i \in Nat /\ offset \in Nat /\ n \in Nat /\ offset + i <= n
    BY <1>5, <1>7, <1>9
  <2>9. NetOfRows(part) = SumFunctionOnSet(net, (offset + 1)..(offset + i))
    BY ONLY <1>12, <2>7, <2>8, StretchOfRows
  <2> QED BY <2>1, <2>9
<1>20. ASSUME NEW i \in 1..k
       PROVE  opening + NetOfRows(SubSeq(page, 1, i)) = SumFunctionOnSet(net, 1..(offset + i))
  <2>1. PICK m, I, P : m = offset + i /\ I = 1..m /\ P = 1..offset
    OBVIOUS
  <2>2. m \in Nat /\ m <= n /\ offset <= m /\ I \ P = (offset + 1)..m /\ P \in SUBSET I
    BY <1>5, <1>7, <1>9, <2>1
  <2>3. IsFiniteSet(I) /\ \A j \in I : net[j] \in Int
    <3>1. IsFiniteSet(I)
      BY <2>1, <2>2, FS_Interval
    <3>2. \A j \in I : net[j] \in Int
      BY <1>3, <1>5, <1>11, <2>1, <2>2
    <3> QED BY <3>1, <3>2
  <2>4. SumFunctionOnSet(net, I) = SumFunctionOnSet(net, P) + SumFunctionOnSet(net, I \ P)
    BY ONLY <2>2, <2>3, SumParts
  <2> QED BY <1>16, <1>19, <2>1, <2>2, <2>4
<1>21. ASSUME NEW i \in DOMAIN balances
       PROVE  balances[i] = Difference(ToSet(SubSeq(rows, 1, offset + i)))
  <2>1. i \in 1..k /\ offset + i \in Nat /\ offset + i <= n
    BY <1>5, <1>7, <1>9, <1>18
  <2>2. Difference(ToSet(SubSeq(rows, 1, offset + i))) = SumFunctionOnSet(net, 1..(offset + i))
    BY <1>14, <2>1
  <2>3. balances[i] = opening + NetOfRows(SubSeq(page, 1, i))
    BY <1>10, <1>17, <2>1
  <2> QED BY <1>20, <2>1, <2>2, <2>3
<1> QED BY <1>0, <1>4, <1>6, <1>9, <1>18, <1>21 DEF GoesOn

\* The statements agree wherever every voucher balances and is booked on leaves.
LEMMA StatementsFit == StatementsInv => StatementsAgree
<1> SUFFICES ASSUME StatementsInv, RoundOff # NoAccount PROVE StatementsAgree
  BY DEF StatementsAgree
<1>0. LedgerInv
  BY DEF StatementsInv
<1>1. ASSUME NEW from, NEW to
      PROVE  /\ Entries(Between(from, to)) /\ OnLeaves(Between(from, to))
             /\ Difference(Between(from, to)) = 0
  BY <1>0, PeriodsBalance DEF StatementsInv, OnLeaves, Between, Live
<1>2. ASSUME NEW from \in PostingDays \cup {0}, NEW to \in PostingDays
      PROVE  LET sheetOf == BalanceSheet(to)
                 trial == TrialBalance(from, to)
                 shownAs(root) == SumFunction([a \in Roots(root) |-> ChartBalance(a, from, to)])
             IN  /\ Presented(trial.debit) = Presented(trial.credit)
                 /\ sheetOf.assets = sheetOf.liabilities + sheetOf.equity
                 /\ shownAs("Asset") = sheetOf.assets
                 /\ shownAs("Liability") = sheetOf.liabilities
                 /\ shownAs("Equity") + NetProfit(0, to) = sheetOf.equity
                 /\ shownAs("Income") - shownAs("Expense") = NetProfit(from, to)
  <2>1. PICK E, F : E = Between(from, to) /\ F = Between(0, to)
    OBVIOUS
  <2>2. /\ Entries(E) /\ OnLeaves(E) /\ Difference(E) = 0
        /\ Entries(F) /\ OnLeaves(F) /\ Difference(F) = 0
    BY <1>1, <2>1
  <2>3. TrialBalance(from, to).debit = TrialBalance(from, to).credit
    <3>1. /\ TrialBalance(from, to).debit = SumFunction([a \in Leaves |-> DebitsOf(a, E)])
          /\ TrialBalance(from, to).credit = SumFunction([a \in Leaves |-> CreditsOf(a, E)])
      BY <2>1 DEF TrialBalance
    <3>2. SumDebits(E) \in Int /\ SumCredits(E) \in Int /\ SumDebits(E) - SumCredits(E) = 0
      BY <2>2, SidesOf
    <3>3. SumDebits(E) = SumCredits(E)
      BY <3>2
    <3> QED BY <2>2, <3>1, <3>3, SidesByAccount
  <2>4. PICK as1, ex1, li1, eq1, inc1, ex2, inc2 :
           /\ as1 = TotalOn("Asset", F) /\ ex1 = TotalOn("Expense", F)
           /\ li1 = TotalOn("Liability", F) /\ eq1 = TotalOn("Equity", F)
           /\ inc1 = TotalOn("Income", F)
           /\ ex2 = TotalOn("Expense", E) /\ inc2 = TotalOn("Income", E)
    OBVIOUS
  <2>5. /\ as1 \in Int /\ ex1 \in Int /\ li1 \in Int /\ eq1 \in Int /\ inc1 \in Int
        /\ ex2 \in Int /\ inc2 \in Int
    <3>1. PICK N, M : /\ N = [a \in Leaves |-> DebitsOf(a, F) - CreditsOf(a, F)]
                      /\ M = [a \in Leaves |-> DebitsOf(a, E) - CreditsOf(a, E)]
      OBVIOUS
    <3> QED BY <2>2, <2>4, <3>1, KindTotals
  <2>6. as1 + ex1 = li1 + eq1 + inc1
    BY <2>2, <2>4, KindsBalance
  <2>7. NetProfit(0, to) = inc1 - ex1 /\ NetProfit(from, to) = inc2 - ex2
    BY <2>1, <2>4 DEF NetProfit
  <2>8. /\ BalanceSheet(to).assets = as1 /\ BalanceSheet(to).liabilities = li1
        /\ BalanceSheet(to).equity = eq1 + (inc1 - ex1)
    BY <2>1, <2>4, <2>7 DEF BalanceSheet
  <2>9. as1 = li1 + (eq1 + (inc1 - ex1))
    BY ONLY <2>5, <2>6
  <2>10. ASSUME NEW root \in {"Asset", "Liability", "Equity"}
         PROVE  SumFunction([a \in Roots(root) |-> ChartBalance(a, from, to)]) = TotalOn(root, F)
    <3>1. PICK top : top = Roots(root)
      OBVIOUS
    <3>2. F = ReportedOn(root, from, to)
      BY <2>1 DEF SheetRoots, ReportedOn
    <3>3. SumFunction([a \in top |-> ChartBalance(a, from, to)]) = TotalOn(root, F)
      BY ONLY <2>2, <3>1, <3>2, RootsShowTheirKind
    <3> QED BY <3>1, <3>3
  <2>11. ASSUME NEW root \in {"Income", "Expense"}
         PROVE  SumFunction([a \in Roots(root) |-> ChartBalance(a, from, to)]) = TotalOn(root, E)
    <3>1. PICK top : top = Roots(root)
      OBVIOUS
    <3>2. E = ReportedOn(root, from, to)
      BY <2>1 DEF SheetRoots, ReportedOn
    <3>3. SumFunction([a \in top |-> ChartBalance(a, from, to)]) = TotalOn(root, E)
      BY ONLY <2>2, <3>1, <3>2, RootsShowTheirKind
    <3> QED BY <3>1, <3>3
  <2> QED BY <2>3, <2>4, <2>7, <2>8, <2>9, <2>10, <2>11
<1>3. ASSUME NEW a \in Leaves
      PROVE  LET rows == LedgerOf(a)
             IN  /\ ToSet(rows) = AccountEntries(a)
                 /\ \A offset \in 0..(Len(rows) - 1) : GoesOn(rows, offset)
  <2>1. PICK S, n, rows : /\ S = AccountEntries(a) /\ n = Cardinality(S)
                          /\ rows = LedgerOf(a)
    OBVIOUS
  <2>2. rows \in [1..n -> S] /\ {rows[i] : i \in 1..n} = S
    BY ONLY <1>0, <2>1, LedgerListsAll
  <2>3. ToSet(rows) = S
    BY <2>2 DEF ToSet
  <2>4. \A offset \in 0..(Len(rows) - 1) : GoesOn(rows, offset)
    BY ONLY <1>0, <2>1, PagesGoOn
  <2> QED BY <2>1, <2>3, <2>4
<1> QED BY <1>2, <1>3 DEF StatementsAgree

\* StatementsAgree, for any chart, any vouchers on its leaves, any number of sessions and any
\* page size: whatever is posted and cancelled, the trial balance, the balance sheet, the chart
\* of accounts and the pages of the ledger show the same books.
THEOREM StatementsAlwaysAgree == GlSpec => []StatementsAgree
<1>1. GlInit => StatementsInv
  BY LedgerStarts DEF GlInit, StatementsInv, OnLeaves, Calm
<1>2. StatementsInv /\ [GlNext]_glVars => StatementsInv'
  BY LeavesStep
<1> QED BY <1>1, <1>2, StatementsFit, PTL DEF GlSpec

-----------------------------------------------------------------------------
\* ControlAccounts: the party accounts agree with the open items.  Each posted document has
\* its lines on a party account, close to what it weighs there before rounding; and what
\* the documents weigh together is what the bills still show as open.

\* The posted documents have the lines that were booked, and nothing else has any.
HasItsLines(d) ==
    /\ Rates(d) # {}
    /\ d \in Bills => postings[d] = BillLines(d)
    /\ d \in Payments => postings[d] = PaymentLines(d)
    /\ d \in BookedJournals => /\ postings[d] = JournalLines(d)
                               /\ \A b \in Refs(d) : Relief(d, b) % 1000 = 0
    /\ d \in Transfers => Others({l.account : l \in postings[d]})

PostedAreBooked ==
    \A d \in Documents : IF status[d] = "submitted" THEN HasItsLines(d) ELSE postings[d] = {}

\* A transfer moves money between accounts that are not a party's.
LEMMA TransfersPassBy ==
    ASSUME NEW d \in Transfers PROVE Others({l.account : l \in TransferLines(d)})
<1>1. PICK a, b, c : a = SwapOf[d].from /\ b = SwapOf[d].to /\ c = GainLoss
  OBVIOUS
<1>2. a \notin PartyAccounts /\ b \notin PartyAccounts /\ c \notin PartyAccounts
  BY <1>1, ControlAssumption DEF Others
<1>3. ASSUME NEW l \in TransferLines(d) PROVE l.account \in {a, b, c}
  BY <1>1, <1>3 DEF TransferLines, Realized, Leg
<1> QED BY <1>2, <1>3 DEF Others

\* What becomes posted has just been booked, and what stays posted keeps its lines.
LEMMA BookedStep ==
    ASSUME PostedAreBooked, [ControlNext]_controlVars
    PROVE  PostedAreBooked'
<1>1. CASE UNCHANGED controlVars
  BY <1>1 DEF controlVars, reconciledVars, books, PostedAreBooked, HasItsLines
<1>2. CASE ControlNext
  <2> SUFFICES ASSUME NEW d \in Documents
               PROVE  (IF status[d] = "submitted" THEN HasItsLines(d) ELSE postings[d] = {})'
    BY DEF PostedAreBooked
  <2>1. Book
    BY <1>2 DEF ControlNext
  <2>2. CASE status'[d] # "submitted"
    BY <2>1, <2>2 DEF Book
  <2>3. CASE status'[d] = "submitted" /\ status[d] = "submitted"
    <3>1. postings'[d] = postings[d]
      BY <2>1, <2>3 DEF Book
    <3> QED BY <2>3, <3>1 DEF PostedAreBooked, HasItsLines
  <2>4. CASE status'[d] = "submitted" /\ status[d] # "submitted"
    <3>1. Bookable(d) /\ postings'[d] = LinesBooked(d)
      BY <2>1, <2>4 DEF Book
    <3>2. Rates(d) # {} /\ (d \in BookedJournals => \A b \in Refs(d) : Relief(d, b) % 1000 = 0)
      BY <3>1 DEF Bookable
    <3>3. /\ d \in Bills => postings'[d] = BillLines(d)
          /\ d \in Payments => postings'[d] = PaymentLines(d)
          /\ d \in BookedJournals => postings'[d] = JournalLines(d)
          /\ d \in Transfers => postings'[d] = TransferLines(d)
      BY <3>1, BillAssumption, ReconciledAssumption, ControlAssumption DEF LinesBooked, Payments
    <3>4. d \in Transfers => Others({l.account : l \in postings'[d]})
      BY <3>3, TransfersPassBy
    <3> QED BY <2>4, <3>2, <3>3, <3>4 DEF HasItsLines
  <2> QED BY <2>2, <2>3, <2>4
<1> QED BY <1>1, <1>2

\* The nearest thousand is at most half a thousand away.
LEMMA HalfAway ==
    ASSUME NEW n \in Int
    PROVE  /\ Nearest(n, 1000) \in Int
           /\ 1000 * Nearest(n, 1000) <= n + 500 /\ n <= 1000 * Nearest(n, 1000) + 500
<1>1. n \div 1000 \in Int /\ 1000 * (n \div 1000) <= n /\ n < 1000 * (n \div 1000) + 1000
  OBVIOUS
<1>2. PICK q : q = n \div 1000
  OBVIOUS
<1> QED BY <1>1, <1>2 DEF Nearest

\* A document that has a rate has a number for it.
LEMMA RateIsNumber ==
    ASSUME NEW d \in Documents, Rates(d) # {}
    PROVE  RateAt(d) \in Nat
<1>1. RateAt(d) \in Rates(d)
  BY DEF RateAt
<1>2. \A x \in Exchange : x.rate \in Nat \ {0}
  BY ControlAssumption
<1>3. ASSUME NEW from, NEW to, NEW date PROVE Carried(from, to, date) \subseteq Nat \ {0}
  BY <1>2 DEF Carried
<1>4. ASSUME NEW r \in Nat \ {0} PROVE Nearest(1000000, r) \in Nat
  <2>1. 1000000 \div r \in Nat
    OBVIOUS
  <2>2. PICK q : q = 1000000 \div r
    OBVIOUS
  <2> QED BY <2>1, <2>2 DEF Nearest
<1>5. Looked(Currency[d], BaseCurrency, DateOf[d]) \subseteq Nat
  BY <1>3, <1>4 DEF Looked
<1>6. Rates(d) \subseteq Nat
  BY <1>5, ControlAssumption DEF Rates
<1> QED BY <1>1, <1>6

\* A sum of two.
LEMMA SumOfTwo ==
    ASSUME NEW a, NEW b, a # b, NEW f, f[a] \in Int, f[b] \in Int
    PROVE  IsFiniteSet({a, b}) /\ SumFunctionOnSet(f, {a, b}) = f[a] + f[b]
<1>1. IsFiniteSet({a}) /\ b \notin {a} /\ \A x \in {a} \cup {b} : f[x] \in Int
  BY FS_Singleton
<1>2. IsFiniteSet({a} \cup {b}) /\ SumFunctionOnSet(f, {a} \cup {b}) = SumFunctionOnSet(f, {a}) + f[b]
  BY ONLY <1>1, SumAdd
<1>3. IsFiniteSet({}) /\ a \notin {} /\ \A x \in {} \cup {a} : f[x] \in Int
  BY FS_EmptySet
<1>4. SumFunctionOnSet(f, {} \cup {a}) = SumFunctionOnSet(f, {}) + f[a]
  BY ONLY <1>3, SumAdd
<1>5. SumFunctionOnSet(f, {}) = 0 /\ {} \cup {a} = {a} /\ {a} \cup {b} = {a, b}
  BY SumOfNone
<1>6. SumFunctionOnSet(f, {a}) = f[a]
  BY <1>4, <1>5
<1> QED BY <1>2, <1>5, <1>6

\* Lines that are named, each within half a thousand of what it stands for.
LEMMA LinesNear ==
    ASSUME NEW K, IsFiniteSet(K), NEW name, \A j, k \in K : name[j] = name[k] => j = k,
           NEW f, NEW e, \A k \in K : /\ f[name[k]] \in Int /\ e[k] \in Int
                                      /\ f[name[k]] <= e[k] + 500 /\ e[k] <= f[name[k]] + 500
    PROVE  LET X == {name[k] : k \in K}
           IN  /\ IsFiniteSet(X) /\ SumFunctionOnSet(f, X) \in Int
               /\ SumFunctionOnSet(f, X) <= SumFunctionOnSet(e, K) + 500 * Cardinality(X)
               /\ SumFunctionOnSet(e, K) <= SumFunctionOnSet(f, X) + 500 * Cardinality(X)
<1>1. PICK X, g, h, hx : /\ X = {name[k] : k \in K} /\ g = [k \in K |-> f[name[k]]]
                         /\ h = [k \in K |-> 500] /\ hx = [x \in X |-> 500]
  OBVIOUS
<1>2. IsFiniteSet(X) /\ SumFunctionOnSet(f, X) = SumFunctionOnSet(g, K)
  <2>1. \A k \in K : g[k] \in Int /\ f[name[k]] = g[k]
    BY <1>1
  <2> QED BY <1>1, <2>1, SumRenamed
<1>3. SumFunctionOnSet(hx, X) = SumFunctionOnSet(h, K)
  <2>1. \A k \in K : h[k] \in Int /\ hx[name[k]] = h[k]
    BY <1>1
  <2> QED BY <1>1, <2>1, SumRenamed
<1>4. SumFunctionOnSet(hx, X) = 500 * Cardinality(X)
  BY <1>1, <1>2, SumOfEach
<1>5. \A k \in K : /\ g[k] \in Int /\ e[k] \in Int /\ h[k] \in Int
                   /\ g[k] <= e[k] + h[k] /\ e[k] <= g[k] + h[k]
  BY <1>1
<1>6. /\ SumFunctionOnSet(g, K) <= SumFunctionOnSet(e, K) + SumFunctionOnSet(h, K)
      /\ SumFunctionOnSet(e, K) <= SumFunctionOnSet(g, K) + SumFunctionOnSet(h, K)
  BY <1>5, SumNear
<1>7. SumFunctionOnSet(g, K) \in Int
  BY <1>5, SumIsNumber
<1> QED BY <1>1, <1>2, <1>3, <1>4, <1>6, <1>7

-----------------------------------------------------------------------------
\* What a posted document weighs on party account A, in thousandths of a cent and before
\* rounding, counted from the side of A.

SideOf(A) == IF A = PayableAccount THEN -1 ELSE 1
Weight(b) == Unit * RateAt(b)
RefsOn(d, A) == {b \in Refs(d) : PartyAccount(b) = A}

\* What settlement d takes off bill b.
Relieved(d, b) == Sign(b) * (Weight(b) * Alloc[d][b])
Cleared(d, A) == SumFunctionOnSet([b \in RefsOn(d, A) |-> Relieved(d, b)], RefsOn(d, A))

\* What payment d leaves on account.
Prepaid(d, A) ==
    IF d \in Payments /\ PartyOf(d) = A THEN Direction(d) * (OnAccount[d] * RateAt(d)) ELSE 0

\* What a bill leaves in the party account when it is posted: all of it, but at a till only
\* what was not paid there.
AtTill(b) == IF b \in TillBills THEN Tendered[b] ELSE 0
Gross(b) == Sign(b) * Total[b] - AtTill(b)

Weighs(d, A) ==
    IF d \in Bills THEN IF PartyAccount(d) = A THEN Weight(d) * Gross(d) ELSE 0
    ELSE -Cleared(d, A) - SideOf(A) * Prepaid(d, A)

\* A line in thousandths, from the side of A.
Mills(A, x) == SideOf(A) * 1000 * x[2].base

\* The lines of document d on account A.
HeldOn(d, A) == {<<d, l>> : l \in {m \in postings[d] : m.account = A}}

\* The lines of d on A are within half a thousand each of what d weighs there.
NearWeight(d, A) ==
    LET X == HeldOn(d, A)
        sum == SumFunctionOnSet([x \in X |-> Mills(A, x)], X)
    IN  /\ IsFiniteSet(X) /\ \A x \in X : x[2].base \in Int
        /\ Weighs(d, A) \in Int
        /\ sum <= Weighs(d, A) + 500 * Cardinality(X)
        /\ Weighs(d, A) <= sum + 500 * Cardinality(X)

\* Seen from its own account a bill adds to it and a return takes from it.
LEMMA FacingTheParty ==
    ASSUME NEW A \in PartyAccounts, NEW b \in Bills
    PROVE  /\ Facing(b) \in {1, -1} /\ Sign(b) \in {1, -1} /\ SideOf(A) \in {1, -1}
           /\ PartyAccount(b) \in PartyAccounts
           /\ PartyAccount(b) = A => SideOf(A) * Facing(b) = Sign(b)
BY ControlAssumption DEF PartyAccounts, Facing, Sign, SideOf, PartyAccount

\* Names for the lines of a document on A, close to the parts of what it weighs.
LEMMA NamedLines ==
    ASSUME NEW A \in PartyAccounts, NEW d \in Documents, NEW K, IsFiniteSet(K), NEW name,
           \A j, k \in K : name[j] = name[k] => j = k,
           HeldOn(d, A) = {name[k] : k \in K},
           NEW e, \A k \in K : /\ name[k][2].base \in Int /\ e[k] \in Int
                               /\ Mills(A, name[k]) <= e[k] + 500
                               /\ e[k] <= Mills(A, name[k]) + 500,
           Weighs(d, A) = SumFunctionOnSet(e, K)
    PROVE  NearWeight(d, A)
<1>1. PICK X, f : X = HeldOn(d, A) /\ f = [x \in X |-> Mills(A, x)]
  OBVIOUS
<1>2. \A k \in K : /\ f[name[k]] \in Int /\ e[k] \in Int
                   /\ f[name[k]] <= e[k] + 500 /\ e[k] <= f[name[k]] + 500
  <2>1. \A k \in K : f[name[k]] = Mills(A, name[k])
    BY <1>1
  <2>2. SideOf(A) \in {1, -1}
    BY DEF SideOf
  <2>3. \A k \in K : Mills(A, name[k]) \in Int
    BY <2>2 DEF Mills
  <2> QED BY <2>1, <2>3
<1>3. /\ IsFiniteSet(X) /\ SumFunctionOnSet(f, X) \in Int
      /\ SumFunctionOnSet(f, X) <= SumFunctionOnSet(e, K) + 500 * Cardinality(X)
      /\ SumFunctionOnSet(e, K) <= SumFunctionOnSet(f, X) + 500 * Cardinality(X)
  BY <1>1, <1>2, LinesNear
<1>4. SumFunctionOnSet(e, K) \in Int
  BY SumIsNumber
<1>5. \A x \in X : x[2].base \in Int
  BY <1>1
<1> QED BY <1>1, <1>3, <1>4, <1>5 DEF NearWeight

\* A document without a line on A is near what it weighs there when it weighs nothing.
LEMMA NothingHeld ==
    ASSUME NEW A \in PartyAccounts, NEW d \in Documents,
           \A l \in postings[d] : l.account # A, Weighs(d, A) = 0
    PROVE  NearWeight(d, A)
<1>1. HeldOn(d, A) = {}
  BY DEF HeldOn
<1>2. PICK name, e : name = [k \in {} |-> k] /\ e = [k \in {} |-> 0]
  OBVIOUS
<1>3. IsFiniteSet({}) /\ SumFunctionOnSet(e, {}) = 0
  BY FS_EmptySet, SumOfNone
<1>4. HeldOn(d, A) = {name[k] : k \in {}}
  BY <1>1
<1>5. Weighs(d, A) = SumFunctionOnSet(e, {})
  BY <1>3
<1> QED BY <1>3, <1>4, <1>5, NamedLines

\* The lines of a bill on A: none, or its amount, and at a till what it was paid there.
LEMMA BillNear ==
    ASSUME NEW A \in PartyAccounts, NEW d \in Bills, HasItsLines(d)
    PROVE  NearWeight(d, A)
<1>1. d \in Documents /\ postings[d] = BillLines(d) /\ RateAt(d) \in Nat
  BY RateIsNumber DEF Documents, HasItsLines
<1>2. PICK s, F, c, t, r :
         s = SideOf(A) /\ F = Facing(d) /\ c = Unit * AtTill(d) /\ t = Unit * Total[d] /\ r = RateAt(d)
  OBVIOUS
<1>3. /\ s \in {1, -1} /\ F \in {1, -1} /\ c \in Int /\ t \in Nat /\ r \in Nat
      /\ c # 0 => d \in TillBills /\ (PartyAccount(d) = A => s = 1)
      /\ d \in TillBills => c = Unit * Tendered[d]
  <2>1. d \in TillBills => ~IsPurchase(d)
    BY BillAssumption, ControlAssumption DEF IsPurchase, OriginalOf
  <2>2. d \in TillBills /\ PartyAccount(d) = A => s = 1
    BY <1>2, <2>1, ControlAssumption DEF PartyAccount, SideOf
  <2>3. s \in {1, -1} /\ F \in {1, -1}
    BY <1>2, FacingTheParty
  <2>4. Total[d] \in Nat /\ Unit \in Nat /\ Tendered[d] \in Int
    BY BillAssumption, ControlAssumption
  <2>5. t \in Nat /\ Unit * Tendered[d] \in Int
    BY <1>2, <2>4
  <2>6. CASE d \in TillBills
    BY <1>1, <1>2, <2>2, <2>3, <2>5, <2>6 DEF AtTill
  <2>7. CASE d \notin TillBills
    <3>1. c = 0
      BY <1>2, <2>4, <2>7 DEF AtTill
    <3> QED BY <1>1, <1>2, <2>3, <2>5, <2>7, <3>1
  <2> QED BY <2>6, <2>7
<1>4. PICK amount, leg, line :
         /\ amount = [k \in {"party", "paid"} |-> IF k = "party" THEN F * t ELSE -c]
         /\ leg = [k \in {"party", "paid"} |-> Leg(k, PartyAccount(d), amount[k], amount[k])]
         /\ line = [k \in {"party", "paid"} |->
                       Leg(k, PartyAccount(d), Nearest(amount[k] * r, 1000), amount[k])]
  OBVIOUS
<1>5. PICK K : K = IF c = 0 THEN {"party"} ELSE {"party", "paid"}
  OBVIOUS
<1>6. \A k \in K : leg[k] \in InvoiceLegs(d)
  BY <1>2, <1>3, <1>4, <1>5 DEF InvoiceLegs
<1>7. ASSUME NEW l \in InvoiceLegs(d), l.account \in PartyAccounts
      PROVE  \E k \in K : l = leg[k]
  <2>1. Others({NetParts[d][i].account : i \in DOMAIN NetParts[d]}) /\ Others({x.account : x \in TaxParts[d]})
    BY ControlAssumption
  <2>2. ASSUME NEW p \in Grouped(NetParts[d]) PROVE p.account \notin PartyAccounts
    <3>1. p.account \in {NetParts[d][i].account : i \in DOMAIN NetParts[d]}
      BY DEF Grouped
    <3> QED BY <2>1, <3>1 DEF Others
  <2>3. \A p \in TaxParts[d] : p.account \notin PartyAccounts
    BY <2>1 DEF Others
  <2>4. d \in TillBills => BankOf[d] \notin PartyAccounts
    BY ControlAssumption DEF Others
  <2>5. CASE l = Leg("party", PartyAccount(d), Facing(d) * (Unit * Total[d]), Facing(d) * (Unit * Total[d]))
    BY <1>2, <1>4, <1>5, <2>5
  <2>6. CASE d \in TillBills /\ c # 0 /\ l = Leg("paid", PartyAccount(d), -c, -c)
    BY <1>4, <1>5, <2>6
  <2> QED BY <1>2, <1>3, <1>7, <2>2, <2>3, <2>4, <2>5, <2>6 DEF InvoiceLegs, Leg
<1>8. \A k \in K : AtRate(leg[k], r) = line[k]
  BY <1>4, <1>5 DEF Leg, AtRate
<1>9. \A k \in K : line[k] \in postings[d] /\ line[k].account = PartyAccount(d)
  <2>1. \A k \in K : line[k].account = PartyAccount(d)
    BY <1>4, <1>5 DEF Leg
  <2>2. ASSUME NEW k \in K PROVE AtRate(leg[k], r) \in BillLines(d)
    <3>1. leg[k] \in InvoiceLegs(d)
      BY <1>6
    <3> QED BY <1>2, <3>1 DEF BillLines
  <2> QED BY <1>1, <1>2, <1>8, <2>1, <2>2
<1>10. ASSUME NEW x \in postings[d], x.account \in PartyAccounts
       PROVE  \E k \in K : x = line[k]
  <2>1. PICK l \in InvoiceLegs(d) : x = AtRate(l, r)
    BY <1>1, <1>2 DEF BillLines
  <2>2. x.account = l.account
    <3>1. \E for, account, base, ccy : l = Leg(for, account, base, ccy)
      BY DEF InvoiceLegs
    <3> QED BY <2>1, <3>1 DEF Leg, AtRate
  <2> QED BY <1>7, <1>8, <1>10, <2>1, <2>2
<1>11. CASE PartyAccount(d) # A
  <2>1. \A l \in postings[d] : l.account # A
    BY <1>9, <1>10, <1>11
  <2> QED BY <1>1, <1>11, <2>1, NothingHeld DEF Weighs
<1>12. CASE PartyAccount(d) = A
  <2>1. PICK name, e : /\ name = [k \in K |-> <<d, line[k]>>]
                       /\ e = [k \in K |-> s * (amount[k] * r)]
    OBVIOUS
  <2>2. HeldOn(d, A) = {name[k] : k \in K}
    BY <1>9, <1>10, <1>12, <2>1 DEF HeldOn
  <2>3. \A j, k \in K : name[j] = name[k] => j = k
    <3>1. \A k \in K : line[k].for = k
      BY <1>4, <1>5 DEF Leg
    <3> QED BY <2>1, <3>1
  <2>4. \A k \in K : amount[k] \in Int /\ amount[k] * r \in Int
    BY <1>3, <1>4, <1>5
  <2>5. \A k \in K : Mills(A, name[k]) = s * 1000 * Nearest(amount[k] * r, 1000)
    BY <1>2, <1>4, <1>5, <2>1 DEF Mills, Leg
  <2>6. \A k \in K : /\ name[k][2].base \in Int /\ e[k] \in Int
                     /\ Mills(A, name[k]) <= e[k] + 500 /\ e[k] <= Mills(A, name[k]) + 500
    <3> SUFFICES ASSUME NEW k \in K
                 PROVE  /\ name[k][2].base \in Int /\ e[k] \in Int
                        /\ Mills(A, name[k]) <= e[k] + 500 /\ e[k] <= Mills(A, name[k]) + 500
      OBVIOUS
    <3>1. PICK n \in Int : n = amount[k] * r
      BY <2>4
    <3>2. PICK q : q = Nearest(n, 1000)
      OBVIOUS
    <3>3. q \in Int /\ 1000 * q <= n + 500 /\ n <= 1000 * q + 500
      BY <3>2, HalfAway
    <3>4. Mills(A, name[k]) = s * 1000 * q /\ e[k] = s * n
      BY <2>1, <2>5, <3>1, <3>2
    <3>5. name[k][2].base = q
      BY <1>4, <1>5, <2>1, <3>1, <3>2 DEF Leg
    <3>6. CASE s = 1
      BY <3>1, <3>3, <3>4, <3>5, <3>6
    <3>7. CASE s = -1
      BY <3>1, <3>3, <3>4, <3>5, <3>7
    <3> QED BY <1>3, <3>6, <3>7
  <2>7. IsFiniteSet(K) /\ SumFunctionOnSet(e, K) = s * ((F * t) * r) - c * r
    <3>1. e["party"] = s * ((F * t) * r) /\ e["party"] \in Int
      BY <1>4, <1>5, <2>1, <2>6
    <3>2. CASE c = 0
      <4>1. K = {"party"} /\ IsFiniteSet({}) /\ {} \cup {"party"} = {"party"}
        BY <1>5, <3>2, FS_EmptySet
      <4>2. IsFiniteSet({} \cup {"party"}) /\ SumFunctionOnSet(e, {} \cup {"party"}) = SumFunctionOnSet(e, {}) + e["party"]
        <5>1. IsFiniteSet({}) /\ "party" \notin {} /\ \A x \in {} \cup {"party"} : e[x] \in Int
          BY <3>1, <4>1
        <5> QED BY ONLY <5>1, SumAdd
      <4>3. SumFunctionOnSet(e, {}) = 0
        BY SumOfNone
      <4>4. c * r = 0
        BY <1>3, <3>2
      <4> QED BY <3>1, <4>1, <4>2, <4>3, <4>4
    <3>3. CASE c # 0
      <4>1. K = {"party", "paid"} /\ s = 1
        BY <1>3, <1>5, <1>12, <3>3
      <4>2. e["paid"] = s * ((-c) * r) /\ e["paid"] \in Int
        BY <1>4, <2>1, <2>6, <4>1
      <4>3. IsFiniteSet(K) /\ SumFunctionOnSet(e, K) = e["party"] + e["paid"]
        BY <3>1, <4>1, <4>2, SumOfTwo
      <4>4. (-c) * r = -(c * r) /\ c * r \in Int
        BY <1>3
      <4>5. e["paid"] = -(c * r)
        BY <1>3, <4>1, <4>2, <4>4
      <4> QED BY <3>1, <4>3, <4>4, <4>5
    <3> QED BY <3>2, <3>3
  <2>8. Weighs(d, A) = SumFunctionOnSet(e, K)
    <3>1. /\ s * F = Sign(d) /\ Sign(d) \in {1, -1} /\ Total[d] \in Nat /\ Unit \in Nat
          /\ AtTill(d) \in Int
      BY <1>2, <1>12, FacingTheParty, BillAssumption, ControlAssumption DEF AtTill
    <3>2. PICK n, m, u, g : n = Total[d] /\ m = AtTill(d) /\ u = Unit /\ g = Sign(d)
      OBVIOUS
    <3>3. Weighs(d, A) = (u * r) * (g * n - m)
      BY <1>2, <1>12, <3>2 DEF Weighs, Weight, Gross
    <3>4. /\ n \in Nat /\ m \in Int /\ u \in Nat /\ g \in {1, -1} /\ s * F = g
          /\ t = u * n /\ c = u * m
      BY <1>2, <3>1, <3>2
    <3>5. s * ((F * t) * r) = g * (t * r)
      <4>1. CASE s = 1
        BY <1>3, <3>4, <4>1
      <4>2. CASE s = -1
        BY <1>3, <3>4, <4>2
      <4> QED BY <1>3, <4>1, <4>2
    <3>6. (u * r) * (g * n - m) = g * (t * r) - c * r
      <4>1. CASE g = 1
        BY <1>3, <3>4, <4>1
      <4>2. CASE g = -1
        BY <1>3, <3>4, <4>2
      <4> QED BY <3>4, <4>1, <4>2
    <3> QED BY <2>7, <3>3, <3>5, <3>6
  <2> QED BY <1>1, <2>2, <2>3, <2>6, <2>7, <2>8, NamedLines
<1> QED BY <1>11, <1>12

\* The bills that a settlement refers to, and what it takes off them.
LEMMA RefsFacts ==
    ASSUME NEW d \in Settlements
    PROVE  /\ IsFiniteSet(Bills) /\ IsFiniteSet(Refs(d)) /\ Refs(d) \subseteq Bills
           /\ \A b \in Bills : Alloc[d][b] \in Nat /\ (b \notin Refs(d) => Alloc[d][b] = 0)
<1>1. IsFiniteSet(Bills)
  BY BillAssumption, ControlAssumption, FS_Union DEF Bills
<1>2. Refs(d) \in SUBSET Bills
  BY DEF Refs
<1>3. IsFiniteSet(Refs(d))
  BY <1>1, <1>2, FS_Subset
<1>4. \A b \in Bills : Alloc[d][b] \in Nat /\ (b \notin Refs(d) => Alloc[d][b] = 0)
  BY BillAssumption DEF Refs
<1> QED BY <1>1, <1>2, <1>3, <1>4

\* What a settlement takes off a bill is a number, in the currency of the company.
LEMMA RelievedIsNumber ==
    ASSUME NEW d \in Settlements, NEW b \in Bills, Rates(b) # {}
    PROVE  /\ RateAt(b) \in Nat /\ Weight(b) \in Nat /\ Weight(b) * Alloc[d][b] \in Nat
           /\ Relieved(d, b) \in Int /\ Relief(d, b) = Weight(b) * Alloc[d][b]
<1>1. RateAt(b) \in Nat /\ Unit \in Nat /\ Alloc[d][b] \in Nat /\ Sign(b) \in {1, -1}
  BY RateIsNumber, RefsFacts, ControlAssumption DEF Documents, Sign
<1>2. PICK u, a, r, w : u = Unit /\ a = Alloc[d][b] /\ r = RateAt(b) /\ w = Weight(b)
  OBVIOUS
<1>3. w = u * r /\ u \in Nat /\ a \in Nat /\ r \in Nat
  BY <1>1, <1>2 DEF Weight
<1>4. w \in Nat /\ u * a * r = w * a /\ w * a \in Nat
  BY <1>3
<1>5. Relieved(d, b) \in Int
  BY <1>1, <1>2, <1>4 DEF Relieved
<1>6. Relief(d, b) = u * a * r
  BY <1>2 DEF Relief
<1> QED BY <1>2, <1>3, <1>4, <1>5, <1>6

\* The lines of a payment on A: none, or the one that clears its bills and leaves the rest
\* on account.
LEMMA PaymentNear ==
    ASSUME NEW A \in PartyAccounts, NEW d \in Payments, HasItsLines(d),
           \A b \in Refs(d) : Rates(b) # {}
    PROVE  NearWeight(d, A)
<1>1. d \in Settlements /\ d \in Documents /\ d \notin Bills
  BY BillAssumption DEF Payments, Documents
<1>2. postings[d] = PaymentLines(d) /\ RateAt(d) \in Nat /\ OnAccount[d] \in Nat
  BY <1>1, RateIsNumber, ControlAssumption DEF HasItsLines
<1>3. BankOf[d] \notin PartyAccounts /\ GainLoss \notin PartyAccounts /\ PartyOf(d) \in PartyAccounts
  BY ControlAssumption DEF Others, PartyAccounts, PartyOf
<1>4. PICK s, D, B, o, r, z :
         /\ s = SideOf(A) /\ D = Direction(d) /\ B = Refs(d) /\ o = OnAccount[d] /\ r = RateAt(d)
         /\ z = [b \in Refs(d) |-> Unit * Alloc[d][b] * RateAt(b)]
  OBVIOUS
<1>5. s \in {1, -1} /\ D \in {1, -1} /\ o * r \in Nat
  BY <1>2, <1>4 DEF SideOf, Direction
<1>6. IsFiniteSet(B) /\ \A b \in B : b \in Bills /\ z[b] = Weight(b) * Alloc[d][b] /\ z[b] \in Int
  <2>1. IsFiniteSet(B) /\ B \subseteq Bills
    BY <1>1, <1>4, RefsFacts
  <2>2. ASSUME NEW b \in B PROVE z[b] = Weight(b) * Alloc[d][b] /\ z[b] \in Int
    <3>1. z[b] = Relief(d, b)
      BY <1>4 DEF Relief
    <3> QED BY <1>1, <1>4, <2>1, <3>1, RelievedIsNumber
  <2> QED BY <2>1, <2>2
<1>7. PICK sum \in Int : sum = SumFunctionOnSet(z, B)
  BY <1>6, SumIsNumber
<1>8. PICK n, q : n = sum + o * r /\ q = Nearest(n, 1000)
  OBVIOUS
<1>9. /\ PartyBase(d) = q /\ q \in Int /\ n \in Int
      /\ 1000 * q <= n + 500 /\ n <= 1000 * q + 500
  BY <1>4, <1>5, <1>7, <1>8, HalfAway DEF PartyBase
<1>10. PICK line : line = Leg("party", PartyOf(d), -D * q, -D * Paid(d))
  OBVIOUS
<1>11. line \in postings[d] /\ \A l \in postings[d] : l.account \in PartyAccounts => l = line
  <2>1. ASSUME NEW l \in PaymentLines(d), l # line PROVE l.account \in {BankOf[d], GainLoss}
    BY <1>4, <1>9, <1>10, <2>1 DEF PaymentLines, BankLeg, Realized, Leg
  <2>2. line \in PaymentLines(d)
    BY <1>4, <1>9, <1>10 DEF PaymentLines
  <2> QED BY <1>2, <1>3, <2>1, <2>2
<1>12. line.account = PartyOf(d) /\ line.base = -D * q
  BY <1>10 DEF Leg
<1>13. CASE PartyOf(d) # A
  <2>1. RefsOn(d, A) = {}
    BY <1>13, ControlAssumption DEF RefsOn
  <2>2. Cleared(d, A) = 0 /\ Prepaid(d, A) = 0
    BY <1>13, <2>1, SumOfNone DEF Cleared, Prepaid
  <2>3. Weighs(d, A) = 0
    <3>1. s * 0 = 0
      BY <1>5
    <3> QED BY <1>1, <1>4, <2>2, <3>1 DEF Weighs
  <2>4. \A l \in postings[d] : l.account # A
    BY <1>11, <1>12, <1>13
  <2> QED BY <1>1, <2>3, <2>4, NothingHeld
<1>14. CASE PartyOf(d) = A
  <2>1. RefsOn(d, A) = B /\ \A b \in B : Sign(b) = s * D
    <3>1. \A b \in B : PartyAccount(b) = A /\ Facing(b) = D
      BY <1>4, <1>14, ControlAssumption
    <3>2. \A b \in B : s * D = Sign(b)
      BY <1>4, <1>6, <3>1, FacingTheParty
    <3> QED BY <1>4, <3>1, <3>2 DEF RefsOn
  <2>2. Cleared(d, A) = s * D * sum
    <3>1. PICK g, k : g = [b \in B |-> Relieved(d, b)] /\ k = s * D
      OBVIOUS
    <3>2. k \in Int /\ IsFiniteSet(B) /\ \A b \in B : z[b] \in Int /\ g[b] = k * z[b]
      BY <1>5, <1>6, <2>1, <3>1 DEF Relieved
    <3>3. SumFunctionOnSet(g, B) = k * SumFunctionOnSet(z, B)
      BY ONLY <3>2, SumTimes
    <3> QED BY <1>7, <2>1, <3>1, <3>3 DEF Cleared
  <2>3. Prepaid(d, A) = D * (o * r)
    BY <1>4, <1>14 DEF Prepaid
  <2>4. Weighs(d, A) = -(s * D * sum) - s * (D * (o * r))
    BY <1>1, <1>4, <2>2, <2>3 DEF Weighs
  <2>5. PICK name, e : name = [k \in {"party"} |-> <<d, line>>] /\ e = [k \in {"party"} |-> Weighs(d, A)]
    OBVIOUS
  <2>6. HeldOn(d, A) = {name[k] : k \in {"party"}}
    BY <1>11, <1>12, <1>14, <2>5 DEF HeldOn
  <2>7. PICK m, w : m = Mills(A, name["party"]) /\ w = e["party"]
    OBVIOUS
  <2>8. m \in Int /\ w \in Int /\ m <= w + 500 /\ w <= m + 500
    <3>1. m = s * 1000 * (-D * q)
      BY <1>4, <1>12, <2>5, <2>7 DEF Mills
    <3>2. w = -(s * D * sum) - s * (D * (o * r))
      BY <2>4, <2>5, <2>7
    <3>3. PICK x \in Int : x = o * r
      BY <1>5
    <3>4. n = sum + x /\ w = -(s * D * sum) - s * (D * x)
      BY <1>8, <3>2, <3>3
    <3>5. CASE s = 1 /\ D = 1
      BY <1>9, <3>1, <3>4, <3>5
    <3>6. CASE s = 1 /\ D = -1
      BY <1>9, <3>1, <3>4, <3>6
    <3>7. CASE s = -1 /\ D = 1
      BY <1>9, <3>1, <3>4, <3>7
    <3>8. CASE s = -1 /\ D = -1
      BY <1>9, <3>1, <3>4, <3>8
    <3> QED BY <1>5, <3>5, <3>6, <3>7, <3>8
  <2>9. IsFiniteSet({"party"}) /\ SumFunctionOnSet(e, {"party"}) = e["party"]
    <3>1. IsFiniteSet({}) /\ "party" \notin {} /\ \A x \in {} \cup {"party"} : e[x] \in Int
      BY <2>7, <2>8, FS_EmptySet
    <3>2. /\ IsFiniteSet({} \cup {"party"})
          /\ SumFunctionOnSet(e, {} \cup {"party"}) = SumFunctionOnSet(e, {}) + e["party"]
      BY ONLY <3>1, SumAdd
    <3>3. SumFunctionOnSet(e, {}) = 0 /\ {} \cup {"party"} = {"party"}
      BY SumOfNone
    <3> QED BY <2>7, <2>8, <3>2, <3>3
  <2>10. Weighs(d, A) = SumFunctionOnSet(e, {"party"})
    BY <2>5, <2>9
  <2>11. \A k \in {"party"} : /\ name[k][2].base \in Int /\ e[k] \in Int
                             /\ Mills(A, name[k]) <= e[k] + 500 /\ e[k] <= Mills(A, name[k]) + 500
    <3>1. name["party"][2].base \in Int
      BY <1>5, <1>9, <1>12, <2>5
    <3> QED BY <2>7, <2>8, <3>1
  <2>12. \A j, k \in {"party"} : name[j] = name[k] => j = k
    OBVIOUS
  <2> QED BY <1>1, <2>6, <2>9, <2>10, <2>11, <2>12, NamedLines
<1> QED BY <1>13, <1>14

\* The lines of a journal on A: one for each bill on A that it settles.
LEMMA JournalNear ==
    ASSUME NEW A \in PartyAccounts, NEW d \in BookedJournals, HasItsLines(d),
           \A b \in Refs(d) : Rates(b) # {}
    PROVE  NearWeight(d, A)
<1>1. d \in Settlements /\ d \in Documents /\ d \notin Bills /\ d \notin Payments
  BY BillAssumption, ReconciledAssumption DEF Payments, Documents
<1>2. postings[d] = JournalLines(d) /\ \A b \in Refs(d) : Relief(d, b) % 1000 = 0
  BY DEF HasItsLines
<1>3. \A l \in OwnLegs[d] : l.account \notin PartyAccounts
  BY ControlAssumption DEF Others
<1>4. PICK K, s : K = RefsOn(d, A) /\ s = SideOf(A)
  OBVIOUS
<1>5. IsFiniteSet(K) /\ \A b \in K : b \in Bills /\ b \in Refs(d) /\ PartyAccount(b) = A
  <2>1. IsFiniteSet(Refs(d)) /\ Refs(d) \subseteq Bills /\ K \in SUBSET Refs(d)
    BY <1>1, <1>4, RefsFacts DEF RefsOn
  <2>2. IsFiniteSet(K)
    BY <2>1, FS_Subset
  <2> QED BY <1>4, <2>1, <2>2 DEF RefsOn
<1>6. PICK name, e, f : /\ name = [b \in K |-> <<d, SettlingLeg(d, b)>>]
                        /\ e = [b \in K |-> -Relieved(d, b)]
                        /\ f = [b \in K |-> Relieved(d, b)]
  OBVIOUS
<1>7. HeldOn(d, A) = {name[b] : b \in K}
  <2>1. \A b \in Refs(d) : SettlingLeg(d, b).account = PartyAccount(b)
    BY DEF SettlingLeg, Leg
  <2>2. \A b \in K : SettlingLeg(d, b) \in {m \in postings[d] : m.account = A}
    BY <1>2, <1>5, <2>1 DEF JournalLines
  <2>3. ASSUME NEW l \in postings[d], l.account = A PROVE \E b \in K : l = SettlingLeg(d, b)
    BY <1>2, <1>3, <1>4, <2>1, <2>3 DEF JournalLines, RefsOn
  <2> QED BY <1>6, <2>2, <2>3 DEF HeldOn
<1>8. \A b, c \in K : name[b] = name[c] => b = c
  <2>1. \A b \in K : SettlingLeg(d, b).for = b
    BY DEF SettlingLeg, Leg
  <2> QED BY <1>6, <2>1
<1>9. ASSUME NEW b \in K
      PROVE  /\ e[b] \in Int /\ f[b] \in Int /\ f[b] + e[b] = 0
             /\ Mills(A, name[b]) = e[b] /\ name[b][2].base \in Int
  <2>1. b \in Bills /\ b \in Refs(d) /\ PartyAccount(b) = A /\ Rates(b) # {}
    BY <1>5
  <2>2. PICK R, F, S : R = Relief(d, b) /\ F = Facing(b) /\ S = Sign(b)
    OBVIOUS
  <2>3. R \in Nat /\ R % 1000 = 0 /\ Weight(b) * Alloc[d][b] = R
    BY <1>1, <1>2, <2>1, <2>2, RelievedIsNumber
  <2>4. s \in {1, -1} /\ F \in {1, -1} /\ S \in {1, -1} /\ s * F = S
    BY <1>4, <2>1, <2>2, FacingTheParty
  <2>5. PICK q \in Int : q = R \div 1000 /\ R = 1000 * q
    BY <2>3
  <2>6. Mills(A, name[b]) = s * 1000 * (-F * q) /\ name[b][2].base \in Int
    <3>1. SettlingLeg(d, b).base = -F * (R \div 1000)
      BY <2>2 DEF SettlingLeg, Leg
    <3>2. name[b][2].base = -F * q
      BY <1>6, <2>5, <3>1
    <3> QED BY <1>4, <2>4, <3>2 DEF Mills
  <2>7. f[b] = S * R /\ e[b] = -(S * R)
    BY <1>6, <2>2, <2>3 DEF Relieved
  <2>8. CASE s = 1
    <3>1. F = S
      BY <2>4, <2>8
    <3>2. CASE S = 1
      BY <2>3, <2>5, <2>6, <2>7, <2>8, <3>1, <3>2
    <3>3. CASE S = -1
      BY <2>3, <2>5, <2>6, <2>7, <2>8, <3>1, <3>3
    <3> QED BY <2>4, <3>2, <3>3
  <2>9. CASE s = -1
    <3>1. F = -S
      BY <2>4, <2>9
    <3>2. CASE S = 1
      BY <2>3, <2>5, <2>6, <2>7, <2>9, <3>1, <3>2
    <3>3. CASE S = -1
      BY <2>3, <2>5, <2>6, <2>7, <2>9, <3>1, <3>3
    <3> QED BY <2>4, <3>2, <3>3
  <2> QED BY <2>4, <2>8, <2>9
<1>10. Weighs(d, A) = SumFunctionOnSet(e, K)
  <2>1. \A b \in K : f[b] \in Int /\ e[b] \in Int /\ f[b] + e[b] = 0
    BY <1>9
  <2>2. SumFunctionOnSet(e, K) = -SumFunctionOnSet(f, K)
    BY ONLY <1>5, <2>1, SumOpposite
  <2>3. Cleared(d, A) = SumFunctionOnSet(f, K) /\ Prepaid(d, A) = 0
    BY <1>1, <1>4, <1>6 DEF Cleared, Prepaid
  <2>4. SumFunctionOnSet(f, K) \in Int
    BY ONLY <1>5, <2>1, SumIsNumber
  <2>5. s * 0 = 0
    BY <1>4 DEF SideOf
  <2> QED BY <1>1, <1>4, <2>2, <2>3, <2>4, <2>5 DEF Weighs
<1>11. \A b \in K : /\ name[b][2].base \in Int /\ e[b] \in Int
                    /\ Mills(A, name[b]) <= e[b] + 500 /\ e[b] <= Mills(A, name[b]) + 500
  BY <1>9
<1> QED BY <1>1, <1>5, <1>7, <1>8, <1>10, <1>11, NamedLines

\* A transfer has no line on A.
LEMMA TransferNear ==
    ASSUME NEW A \in PartyAccounts, NEW d \in Transfers, HasItsLines(d)
    PROVE  NearWeight(d, A)
<1>1. d \in Documents /\ d \notin Bills /\ d \notin Payments /\ Refs(d) = {}
  BY BillAssumption, ControlAssumption DEF Payments, Documents
<1>2. \A l \in postings[d] : l.account # A
  BY DEF HasItsLines, Others
<1>3. RefsOn(d, A) = {} /\ SideOf(A) * 0 = 0
  BY <1>1 DEF RefsOn, SideOf
<1>4. Cleared(d, A) = 0 /\ Prepaid(d, A) = 0
  BY <1>1, <1>3, SumOfNone DEF Cleared, Prepaid
<1>5. Weighs(d, A) = 0
  BY <1>1, <1>3, <1>4 DEF Weighs
<1> QED BY <1>1, <1>2, <1>5, NothingHeld

\* The lines of any posted document on A are close to what it weighs there.
LEMMA PostedNear ==
    ASSUME PostedAreBooked, NoOrphanAllocation, NEW A \in PartyAccounts, NEW d \in Documents,
           status[d] = "submitted"
    PROVE  NearWeight(d, A)
<1>1. HasItsLines(d)
  BY DEF PostedAreBooked
<1>2. CASE d \in Bills
  BY <1>1, <1>2, BillNear
<1>3. CASE d \in Settlements
  <2>1. ASSUME NEW b \in Refs(d) PROVE Rates(b) # {}
    <3>1. b \in Documents /\ status[b] = "submitted"
      BY <1>3 DEF NoOrphanAllocation, PostedSettlements, Refs, Documents
    <3> QED BY <3>1 DEF PostedAreBooked, HasItsLines
  <2>2. d \in Payments \/ d \in BookedJournals \/ d \in Transfers
    BY <1>3 DEF Payments
  <2> QED BY <1>1, <2>1, <2>2, PaymentNear, JournalNear, TransferNear
<1> QED BY <1>2, <1>3 DEF Documents

-----------------------------------------------------------------------------
\* All documents together.

\* What document d weighs on A as long as it is posted.
Due(d, A) == IF status[d] = "submitted" THEN Weighs(d, A) ELSE 0
Weighed(A) == SumFunctionOnSet([d \in Documents |-> Due(d, A)], Documents)

\* The documents are finitely many.
LEMMA DocumentsFinite == IsFiniteSet(Documents) /\ IsFiniteSet(Bills)
BY BillAssumption, ControlAssumption, FS_Union DEF Documents, Bills

\* The lines of every document, posted or not, on A.
LEMMA DocumentNear ==
    ASSUME PostedAreBooked, NoOrphanAllocation, NEW A \in PartyAccounts, NEW d \in Documents
    PROVE  LET X == HeldOn(d, A)
               sum == SumFunctionOnSet([x \in X |-> Mills(A, x)], X)
           IN  /\ IsFiniteSet(X) /\ \A x \in X : x[2].base \in Int
               /\ Due(d, A) \in Int
               /\ sum <= Due(d, A) + 500 * Cardinality(X)
               /\ Due(d, A) <= sum + 500 * Cardinality(X)
<1>1. CASE status[d] = "submitted"
  BY <1>1, PostedNear DEF NearWeight, Due
<1>2. CASE status[d] # "submitted"
  <2>1. HeldOn(d, A) = {}
    BY <1>2 DEF PostedAreBooked, HeldOn
  <2>2. PICK f : f = [x \in {} |-> Mills(A, x)]
    OBVIOUS
  <2>3. /\ IsFiniteSet({}) /\ Cardinality({}) = 0 /\ SumFunctionOnSet(f, {}) = 0
        /\ Due(d, A) = 0
    BY <1>2, FS_EmptySet, SumOfNone DEF Due
  <2> QED BY <2>1, <2>2, <2>3
<1> QED BY <1>1, <1>2

\* The lines on A are those of the documents.
LEMMA LinesByDocument ==
    ASSUME PostedAreBooked, NoOrphanAllocation, NEW A \in PartyAccounts
    PROVE  /\ IsFiniteSet(BookedTo(A))
           /\ \A x \in BookedTo(A) : x[1] \in Documents /\ x[2].base \in Int
           /\ \A d \in Documents : {x \in BookedTo(A) : x[1] = d} = HeldOn(d, A)
<1>1. PICK held : held = [d \in Documents |-> HeldOn(d, A)]
  OBVIOUS
<1>2. \A d \in Documents : IsFiniteSet(held[d]) /\ \A x \in held[d] : x[2].base \in Int
  BY <1>1, DocumentNear
<1>3. ASSUME NEW x PROVE x \in BookedTo(A) <=> \E d \in Documents : x \in held[d]
  BY <1>1 DEF BookedTo, Lines, HeldOn
<1>4. IsFiniteSet({held[d] : d \in Documents})
  BY DocumentsFinite, FiniteImage
<1>5. PICK H : H = {held[d] : d \in Documents}
  OBVIOUS
<1>6. IsFiniteSet(H) /\ \A h \in H : IsFiniteSet(h)
  BY <1>2, <1>4, <1>5
<1>7. IsFiniteSet(UNION H)
  BY <1>6, FS_UNION
<1>8. BookedTo(A) = UNION H
  BY <1>3, <1>5
<1>9. \A d \in Documents : \A x \in held[d] : x[1] = d
  BY <1>1 DEF HeldOn
<1>10. \A x \in BookedTo(A) : x[1] \in Documents /\ x[2].base \in Int
  BY <1>2, <1>3, <1>9
<1>11. ASSUME NEW d \in Documents PROVE {x \in BookedTo(A) : x[1] = d} = HeldOn(d, A)
  BY <1>1, <1>3, <1>9
<1> QED BY <1>7, <1>8, <1>10, <1>11

\* The balance of A is what the posted documents weigh there, to half a thousand a line.
LEMMA BalanceNear ==
    ASSUME PostedAreBooked, NoOrphanAllocation, NEW A \in PartyAccounts
    PROVE  LET balance == SideOf(A) * 1000 * BaseBalance(A)
               tolerance == 500 * Cardinality(BookedTo(A))
           IN  /\ BaseBalance(A) \in Int /\ Weighed(A) \in Int /\ tolerance \in Nat
               /\ balance <= Weighed(A) + tolerance /\ Weighed(A) <= balance + tolerance
<1>1. PICK X, D : X = BookedTo(A) /\ D = Documents
  OBVIOUS
<1>2. PICK f, g, h, key : /\ f = [x \in Lines |-> x[2].base]
                          /\ g = [x \in X |-> Mills(A, x)]
                          /\ h = [x \in X |-> 500] /\ key = [x \in X |-> x[1]]
  OBVIOUS
<1>3. /\ IsFiniteSet(X) /\ IsFiniteSet(D) /\ SideOf(A) * 1000 \in Int
      /\ \A x \in X : f[x] \in Int /\ g[x] = SideOf(A) * 1000 * f[x] /\ key[x] \in D /\ h[x] = 500
  <2>1. /\ IsFiniteSet(X) /\ IsFiniteSet(D)
        /\ \A x \in X : x \in Lines /\ x[1] \in D /\ x[2].base \in Int
    BY <1>1, LinesByDocument, DocumentsFinite DEF BookedTo
  <2>2. SideOf(A) * 1000 \in Int
    BY DEF SideOf
  <2>3. \A x \in X : f[x] = x[2].base /\ g[x] = Mills(A, x) /\ key[x] = x[1] /\ h[x] = 500
    BY <1>2, <2>1
  <2> QED BY <2>1, <2>2, <2>3 DEF Mills
<1>4. \A x \in X : g[x] \in Int /\ h[x] \in Int /\ key[x] \in D
  BY <1>3
<1>5. SumFunctionOnSet(g, X) = SideOf(A) * 1000 * BaseBalance(A) /\ BaseBalance(A) \in Int
  <2>1. PICK k : k = SideOf(A) * 1000
    OBVIOUS
  <2>2. k \in Int /\ IsFiniteSet(X) /\ \A x \in X : f[x] \in Int /\ g[x] = k * f[x]
    BY <1>3, <2>1
  <2>3. SumFunctionOnSet(g, X) = k * SumFunctionOnSet(f, X)
    BY ONLY <2>2, SumTimes
  <2>4. SumFunctionOnSet(f, X) \in Int
    BY ONLY <2>2, SumIsNumber
  <2>5. BaseBalance(A) = SumFunctionOnSet(f, X)
    BY <1>1, <1>2 DEF BaseBalance
  <2> QED BY <2>1, <2>3, <2>4, <2>5
<1>6. SumFunctionOnSet(h, X) = 500 * Cardinality(X) /\ 500 * Cardinality(X) \in Nat
  <2>1. IsFiniteSet(X) /\ \A x \in X : h[x] = 500
    BY <1>3
  <2>2. SumFunctionOnSet(h, X) = 500 * Cardinality(X)
    BY ONLY <2>1, SumOfEach
  <2>3. Cardinality(X) \in Nat
    BY <2>1, FS_CardinalityType
  <2> QED BY <2>2, <2>3
<1>7. PICK gd, hd, w : /\ gd = [d \in D |-> SumFunctionOnSet(g, {x \in X : key[x] = d})]
                       /\ hd = [d \in D |-> SumFunctionOnSet(h, {x \in X : key[x] = d})]
                       /\ w = [d \in D |-> Due(d, A)]
  OBVIOUS
<1>8. SumFunctionOnSet(g, X) = SumFunctionOnSet(gd, D)
  <2>1. IsFiniteSet(X) /\ IsFiniteSet(D) /\ (\A x \in X : key[x] \in D) /\ \A x \in X : g[x] \in Int
    BY <1>3, <1>4
  <2> QED BY <1>7, <2>1, SumByGroup
<1>9. SumFunctionOnSet(h, X) = SumFunctionOnSet(hd, D)
  <2>1. IsFiniteSet(X) /\ IsFiniteSet(D) /\ (\A x \in X : key[x] \in D) /\ \A x \in X : h[x] \in Int
    BY <1>3, <1>4
  <2> QED BY <1>7, <2>1, SumByGroup
<1>10. ASSUME NEW d \in D
       PROVE  /\ gd[d] \in Int /\ w[d] \in Int /\ hd[d] \in Int
              /\ gd[d] <= w[d] + hd[d] /\ w[d] <= gd[d] + hd[d]
  <2>1. PICK Y, k : Y = HeldOn(d, A) /\ k = [x \in Y |-> Mills(A, x)]
    OBVIOUS
  <2>2. {x \in X : key[x] = d} = Y /\ Y \subseteq X
    <3>1. {x \in X : x[1] = d} = Y
      BY <1>1, <2>1, LinesByDocument
    <3> QED BY <1>2, <3>1
  <2>3. gd[d] = SumFunctionOnSet(g, Y) /\ hd[d] = SumFunctionOnSet(h, Y) /\ w[d] = Due(d, A)
    BY <1>7, <2>2
  <2>4. /\ IsFiniteSet(Y) /\ Due(d, A) \in Int
        /\ SumFunctionOnSet(k, Y) <= Due(d, A) + 500 * Cardinality(Y)
        /\ Due(d, A) <= SumFunctionOnSet(k, Y) + 500 * Cardinality(Y)
    BY <1>1, <2>1, DocumentNear
  <2>5. \A x \in Y : g[x] \in Int /\ k[x] = g[x] /\ h[x] = 500
    BY <1>2, <1>3, <1>4, <2>1, <2>2
  <2>6. SumFunctionOnSet(k, Y) = SumFunctionOnSet(g, Y) /\ SumFunctionOnSet(g, Y) \in Int
    BY <2>4, <2>5, SumSame, SumIsNumber
  <2>7. SumFunctionOnSet(h, Y) = 500 * Cardinality(Y) /\ 500 * Cardinality(Y) \in Nat
    BY <2>4, <2>5, SumOfEach, FS_CardinalityType
  <2> QED BY <2>3, <2>4, <2>6, <2>7
<1>11. /\ SumFunctionOnSet(gd, D) <= SumFunctionOnSet(w, D) + SumFunctionOnSet(hd, D)
       /\ SumFunctionOnSet(w, D) <= SumFunctionOnSet(gd, D) + SumFunctionOnSet(hd, D)
  BY <1>3, <1>10, SumNear
<1>12. Weighed(A) = SumFunctionOnSet(w, D) /\ SumFunctionOnSet(w, D) \in Int
  <2>1. \A d \in D : w[d] \in Int
    BY <1>10
  <2> QED BY <1>1, <1>3, <1>7, <2>1, SumIsNumber DEF Weighed
<1> QED BY <1>1, <1>5, <1>6, <1>8, <1>9, <1>11, <1>12

-----------------------------------------------------------------------------
\* What the documents weigh together, bill by bill.

BillsOn(A) == {b \in Bills : status[b] = "submitted" /\ PartyAccount(b) = A}
PaymentsOn(A) == {p \in PostedSettlements \cap Payments : PartyOf(p) = A}
Kept(A) == SumFunctionOnSet([p \in PaymentsOn(A) |-> Direction(p) * OnAccount[p] * RateAt(p)], PaymentsOn(A))

\* What of bill b is not settled, seen from its account.
Worth(b) == Weight(b) * (Gross(b) - Sign(b) * Settled(b))

\* Posted bills have a rate, and their numbers are numbers.
LEMMA BillNumbers ==
    ASSUME PostedAreBooked, NEW A, NEW b \in BillsOn(A)
    PROVE  /\ b \in Bills /\ Rates(b) # {} /\ Weight(b) \in Nat /\ Sign(b) \in {1, -1}
           /\ Total[b] \in Nat /\ Settled(b) \in Nat /\ Worth(b) \in Int
           /\ Gross(b) \in Int /\ Credit[b] \in Nat
<1>1. b \in Bills /\ b \in Documents /\ status[b] = "submitted"
  BY DEF BillsOn, Documents
<1>2. Rates(b) # {}
  BY <1>1 DEF PostedAreBooked, HasItsLines
<1>3. RateAt(b) \in Nat /\ Unit \in Nat /\ Sign(b) \in {1, -1}
  BY <1>1, <1>2, RateIsNumber, ControlAssumption DEF Sign
<1>4. Weight(b) \in Nat
  BY <1>3 DEF Weight
<1>5. Total[b] \in Nat /\ Settled(b) \in Nat
  BY <1>1, AmountTypes, SumsAre
<1>6. Gross(b) \in Int /\ Worth(b) \in Int
  <2>1. PICK w, t, n, s, g, c :
            /\ w = Weight(b) /\ t = Total[b] /\ n = Settled(b) /\ s = Sign(b)
            /\ g = Gross(b) /\ c = AtTill(b)
    OBVIOUS
  <2>2. c \in Int /\ g = s * t - c
    BY <1>1, <2>1, BillAssumption DEF AtTill, Gross
  <2>3. g \in Int /\ s * n \in Int
    BY <1>3, <1>5, <2>1, <2>2
  <2>4. w * (g - s * n) \in Int
    BY <1>4, <2>1, <2>3
  <2> QED BY <2>1, <2>3, <2>4 DEF Worth
<1>7. Credit[b] \in Nat
  BY <1>1, OpeningSigned
<1> QED BY <1>1, <1>2, <1>3, <1>4, <1>5, <1>6, <1>7

\* The posted settlements together take off the bills of A what is settled of each.
LEMMA ClearedTogether ==
    ASSUME PostedAreBooked, NoOrphanAllocation, NEW A \in PartyAccounts
    PROVE  SumFunctionOnSet([d \in PostedSettlements |-> Cleared(d, A)], PostedSettlements)
              = SumFunctionOnSet([b \in BillsOn(A) |-> Sign(b) * (Weight(b) * Settled(b))], BillsOn(A))
<1>1. PICK P, M, f : /\ P = PostedSettlements /\ M = BillsOn(A)
                     /\ f = [d \in PostedSettlements |-> [b \in BillsOn(A) |-> Relieved(d, b)]]
  OBVIOUS
<1>2. P \subseteq Settlements /\ IsFiniteSet(P) /\ M \subseteq Bills /\ IsFiniteSet(M)
  BY <1>1, BillAssumption, DocumentsFinite, FS_Subset DEF PostedSettlements, BillsOn
<1>3. \A d \in P : \A b \in M : f[d][b] = Relieved(d, b) /\ f[d][b] \in Int
  BY <1>1, <1>2, BillNumbers, RelievedIsNumber
<1>4. ASSUME NEW d \in P PROVE Cleared(d, A) = SumFunctionOnSet(f[d], M)
  <2>1. PICK R, g, h : R = RefsOn(d, A) /\ g = f[d] /\ h = [b \in R |-> Relieved(d, b)]
    OBVIOUS
  <2>2. R \in SUBSET M /\ \A b \in M \ R : Alloc[d][b] = 0
    <3>1. \A b \in Refs(d) : b \in Bills /\ status[b] = "submitted"
      BY <1>1, <1>2, RefsFacts DEF NoOrphanAllocation
    <3>2. \A b \in M : PartyAccount(b) = A
      BY <1>1 DEF BillsOn
    <3>3. R \in SUBSET M
      BY <1>1, <2>1, <3>1 DEF RefsOn, BillsOn
    <3> QED BY <1>2, <2>1, <3>2, <3>3, RefsFacts DEF RefsOn
  <2>3. \A b \in M : g[b] \in Int /\ g[b] = Relieved(d, b)
    BY <1>3, <2>1
  <2>4. SumFunctionOnSet(g, M) = SumFunctionOnSet(g, R) + SumFunctionOnSet(g, M \ R)
    BY ONLY <1>2, <2>2, <2>3, SumParts
  <2>5. \A b \in M \ R : g[b] = 0
    <3> SUFFICES ASSUME NEW b \in M \ R PROVE g[b] = 0
      OBVIOUS
    <3>1. Alloc[d][b] = 0 /\ Weight(b) \in Nat /\ Sign(b) \in {1, -1}
      BY <1>1, <2>2, BillNumbers
    <3>2. Weight(b) * 0 = 0 /\ Sign(b) * 0 = 0
      BY <3>1
    <3> QED BY <2>3, <3>1, <3>2 DEF Relieved
  <2>6. IsFiniteSet(R) /\ IsFiniteSet(M \ R)
    BY <1>2, <2>2, FS_Subset
  <2>7. SumFunctionOnSet(g, M \ R) = 0
    BY ONLY <2>5, <2>6, SumOfZeros
  <2>8. \A b \in R : g[b] \in Int /\ h[b] = g[b]
    BY <2>1, <2>2, <2>3
  <2>9. SumFunctionOnSet(h, R) = SumFunctionOnSet(g, R)
    BY ONLY <2>6, <2>8, SumSame
  <2>10. SumFunctionOnSet(g, R) \in Int
    BY ONLY <2>6, <2>8, SumIsNumber
  <2> QED BY <2>1, <2>4, <2>7, <2>9, <2>10 DEF Cleared
<1>5. PICK col : col = [b \in M |-> SumFunctionOnSet([d \in P |-> f[d][b]], P)]
  OBVIOUS
<1>6. SumFunctionOnSet([d \in P |-> SumFunctionOnSet(f[d], M)], P) = SumFunctionOnSet(col, M)
  BY <1>2, <1>3, <1>5, SumBothWays
<1>7. ASSUME NEW b \in M PROVE col[b] = Sign(b) * (Weight(b) * Settled(b))
  <2>1. PICK a, g, k : /\ a = [d \in P |-> Alloc[d][b]] /\ g = [d \in P |-> f[d][b]]
                       /\ k = Sign(b) * Weight(b)
    OBVIOUS
  <2>2. Weight(b) \in Nat /\ Sign(b) \in {1, -1} /\ Settled(b) \in Nat
    BY <1>1, BillNumbers
  <2>3. \A d \in P : a[d] \in Nat /\ a[d] \in Int /\ g[d] = k * a[d]
    <3> SUFFICES ASSUME NEW d \in P PROVE a[d] \in Nat /\ g[d] = k * a[d]
      OBVIOUS
    <3>1. a[d] = Alloc[d][b] /\ a[d] \in Nat /\ g[d] = Sign(b) * (Weight(b) * a[d])
      BY <1>2, <1>3, <2>1, RefsFacts DEF Relieved
    <3>2. PICK s, w, x : s = Sign(b) /\ w = Weight(b) /\ x = a[d]
      OBVIOUS
    <3>3. s * (w * x) = (s * w) * x
      BY <2>2, <3>1, <3>2
    <3> QED BY <2>1, <3>1, <3>2, <3>3
  <2>4. k \in Int
    BY <2>1, <2>2
  <2>5. SumFunctionOnSet(g, P) = k * SumFunctionOnSet(a, P)
    BY ONLY <1>2, <2>3, <2>4, SumTimes
  <2>6. Settled(b) = SumFunctionOnSet(a, P)
    BY <1>1, <2>1 DEF Settled, AllocOf
  <2>7. PICK s, w, x : s = Sign(b) /\ w = Weight(b) /\ x = Settled(b)
    OBVIOUS
  <2>8. (s * w) * x = s * (w * x)
    BY <2>2, <2>7
  <2> QED BY <1>5, <2>1, <2>5, <2>6, <2>7, <2>8
<1>8. [d \in P |-> SumFunctionOnSet(f[d], M)] = [d \in P |-> Cleared(d, A)]
  BY <1>4
<1>9. col = [b \in M |-> Sign(b) * (Weight(b) * Settled(b))]
  BY <1>5, <1>7
<1> QED BY <1>1, <1>6, <1>8, <1>9

\* What the posted payments keep on account for A is a number.
LEMMA KeptIsNumber ==
    ASSUME PostedAreBooked, NEW A
    PROVE  /\ PaymentsOn(A) \subseteq PostedSettlements /\ IsFiniteSet(PostedSettlements)
           /\ Kept(A) \in Int
           /\ \A p \in PaymentsOn(A) : /\ Direction(p) \in {1, -1} /\ OnAccount[p] * RateAt(p) \in Nat
                                       /\ Direction(p) * OnAccount[p] * RateAt(p)
                                            = Direction(p) * (OnAccount[p] * RateAt(p))
<1>1. PICK P, Q, f : /\ P = PostedSettlements /\ Q = PaymentsOn(A)
                     /\ f = [p \in PaymentsOn(A) |-> Direction(p) * OnAccount[p] * RateAt(p)]
  OBVIOUS
<1>2. IsFiniteSet(P) /\ P \in SUBSET Settlements /\ Q \in SUBSET P
  BY <1>1, BillAssumption, FS_Subset DEF PostedSettlements, PaymentsOn
<1>3. IsFiniteSet(Q)
  BY <1>2, FS_Subset
<1>4. ASSUME NEW p \in Q
      PROVE  /\ Direction(p) \in {1, -1} /\ OnAccount[p] * RateAt(p) \in Nat
             /\ Direction(p) * OnAccount[p] * RateAt(p) = Direction(p) * (OnAccount[p] * RateAt(p))
             /\ f[p] \in Int
  <2>1. p \in Payments /\ p \in Documents /\ status[p] = "submitted"
    BY <1>1 DEF PaymentsOn, PostedSettlements, Documents
  <2>2. RateAt(p) \in Nat /\ OnAccount[p] \in Nat /\ Direction(p) \in {1, -1}
    BY <2>1, RateIsNumber, ControlAssumption DEF PostedAreBooked, HasItsLines, Direction
  <2>3. PICK x, y, z : x = Direction(p) /\ y = OnAccount[p] /\ z = RateAt(p)
    OBVIOUS
  <2>4. y * z \in Nat /\ x * y * z = x * (y * z) /\ x * y * z \in Int
    BY <2>2, <2>3
  <2>5. f[p] = x * y * z
    BY <1>1, <2>3
  <2> QED BY <2>2, <2>3, <2>4, <2>5
<1>5. SumFunctionOnSet(f, Q) \in Int
  BY <1>3, <1>4, SumIsNumber
<1> QED BY <1>1, <1>2, <1>4, <1>5 DEF Kept

\* The posted settlements weigh what they clear and what they keep on account.
LEMMA SettlementsWeigh ==
    ASSUME PostedAreBooked, NoOrphanAllocation, NEW A \in PartyAccounts
    PROVE  SumFunctionOnSet([d \in PostedSettlements |-> Weighs(d, A)], PostedSettlements)
              = -SumFunctionOnSet([d \in PostedSettlements |-> Cleared(d, A)], PostedSettlements)
                - SideOf(A) * Kept(A)
<1>1. PICK P, Q, w, c, k : /\ P = PostedSettlements /\ Q = PaymentsOn(A)
                           /\ w = [d \in PostedSettlements |-> Weighs(d, A)]
                           /\ c = [d \in PostedSettlements |-> Cleared(d, A)]
                           /\ k = [d \in PostedSettlements |-> Prepaid(d, A)]
  OBVIOUS
<1>2. IsFiniteSet(P) /\ P \subseteq Settlements /\ Q \in SUBSET P
  BY <1>1, KeptIsNumber DEF PostedSettlements
<1>3. IsFiniteSet(Q) /\ IsFiniteSet(P \ Q)
  BY <1>2, FS_Subset
<1>4. PICK s, m : s = SideOf(A) /\ m = [d \in P |-> -s * k[d]]
  OBVIOUS
<1>5. s \in {1, -1} /\ -s \in Int
  BY <1>4 DEF SideOf
<1>6. \A d \in P : k[d] \in Int /\ (d \notin Q => k[d] = 0)
  <2>1. \A d \in P : d \in Q <=> d \in Payments /\ PartyOf(d) = A
    BY <1>1 DEF PaymentsOn
  <2>2. \A d \in Q : Direction(d) * (OnAccount[d] * RateAt(d)) \in Int
    BY <1>1, KeptIsNumber
  <2> QED BY <1>1, <2>1, <2>2 DEF Prepaid
<1>7. \A d \in P : c[d] \in Int
  <2> SUFFICES ASSUME NEW d \in P PROVE c[d] \in Int
    OBVIOUS
  <2>1. PICK R, f : R = RefsOn(d, A) /\ f = [b \in R |-> Relieved(d, b)]
    OBVIOUS
  <2>2. IsFiniteSet(Refs(d)) /\ R \in SUBSET Refs(d) /\ Refs(d) \subseteq Bills
    BY <1>2, <2>1, RefsFacts DEF RefsOn
  <2>3. \A b \in R : f[b] \in Int
    <3> SUFFICES ASSUME NEW b \in R PROVE Relieved(d, b) \in Int
      BY <2>1
    <3>1. b \in Bills /\ b \in Documents /\ status[b] = "submitted"
      BY <1>1, <2>2 DEF NoOrphanAllocation, Documents
    <3>2. Rates(b) # {}
      BY <3>1 DEF PostedAreBooked, HasItsLines
    <3> QED BY <1>2, <3>1, <3>2, RelievedIsNumber
  <2>4. IsFiniteSet(R)
    BY <2>2, FS_Subset
  <2>5. SumFunctionOnSet(f, R) \in Int
    BY ONLY <2>3, <2>4, SumIsNumber
  <2> QED BY <1>1, <2>1, <2>5 DEF Cleared
<1>8. PICK n : n = [d \in P |-> -c[d]]
  OBVIOUS
<1>9. \A d \in P : n[d] \in Int /\ m[d] \in Int /\ w[d] = n[d] + m[d]
  <2> SUFFICES ASSUME NEW d \in P PROVE n[d] \in Int /\ m[d] \in Int /\ w[d] = n[d] + m[d]
    OBVIOUS
  <2>1. n[d] = -c[d] /\ m[d] = -s * k[d] /\ c[d] \in Int /\ k[d] \in Int
    BY <1>4, <1>6, <1>7, <1>8
  <2>2. d \notin Bills
    BY <1>2, BillAssumption
  <2>3. w[d] = -c[d] - s * k[d]
    BY <1>1, <1>4, <2>2 DEF Weighs
  <2>4. PICK x, y : x = c[d] /\ y = k[d]
    OBVIOUS
  <2>5. x \in Int /\ y \in Int /\ n[d] = -x /\ m[d] = -s * y /\ w[d] = -x - s * y
    BY <2>1, <2>3, <2>4
  <2>6. CASE s = 1
    BY <2>5, <2>6
  <2>7. CASE s = -1
    BY <2>5, <2>7
  <2> QED BY <1>5, <2>6, <2>7
<1>10. SumFunctionOnSet(w, P) = SumFunctionOnSet(n, P) + SumFunctionOnSet(m, P)
  BY ONLY <1>2, <1>9, SumOfSums
<1>11. SumFunctionOnSet(n, P) = -SumFunctionOnSet(c, P)
  <2>1. \A d \in P : c[d] \in Int /\ n[d] \in Int /\ c[d] + n[d] = 0
    BY <1>7, <1>8
  <2> QED BY ONLY <1>2, <2>1, SumOpposite
<1>12. SumFunctionOnSet(m, P) = -s * SumFunctionOnSet(k, P)
  <2>1. PICK t : t = -s
    OBVIOUS
  <2>2. t \in Int /\ \A d \in P : k[d] \in Int /\ m[d] = t * k[d]
    BY <1>4, <1>5, <1>6, <2>1
  <2>3. SumFunctionOnSet(m, P) = t * SumFunctionOnSet(k, P)
    BY ONLY <1>2, <2>2, SumTimes
  <2>4. PICK x : x = SumFunctionOnSet(k, P)
    OBVIOUS
  <2>5. x \in Int
    BY <1>2, <1>6, <2>4, SumIsNumber
  <2>6. t * x = -s * x
    BY <1>5, <2>1, <2>5
  <2> QED BY <2>3, <2>4, <2>6
<1>13. SumFunctionOnSet(k, P) = Kept(A) /\ Kept(A) \in Int
  <2>1. PICK f : f = [p \in Q |-> Direction(p) * OnAccount[p] * RateAt(p)]
    OBVIOUS
  <2>2. \A p \in Q : k[p] \in Int /\ f[p] = k[p]
    <3> SUFFICES ASSUME NEW p \in Q PROVE f[p] = k[p]
      BY <1>2, <1>6
    <3>1. p \in Payments /\ PartyOf(p) = A
      BY <1>1 DEF PaymentsOn
    <3>2. k[p] = Direction(p) * (OnAccount[p] * RateAt(p))
      BY <1>1, <1>2, <3>1 DEF Prepaid
    <3> QED BY <1>1, <2>1, <3>2, KeptIsNumber
  <2>3. SumFunctionOnSet(f, Q) = SumFunctionOnSet(k, Q)
    BY ONLY <1>3, <2>2, SumSame
  <2>4. \A d \in P : k[d] \in Int
    BY <1>6
  <2>5. SumFunctionOnSet(k, P) = SumFunctionOnSet(k, Q) + SumFunctionOnSet(k, P \ Q)
    BY ONLY <1>2, <2>4, SumParts
  <2>6. \A d \in P \ Q : k[d] = 0
    BY <1>6
  <2>7. SumFunctionOnSet(k, P \ Q) = 0
    BY ONLY <1>3, <2>6, SumOfZeros
  <2>8. Kept(A) = SumFunctionOnSet(f, Q) /\ Kept(A) \in Int
    BY <1>1, <2>1, KeptIsNumber DEF Kept
  <2> QED BY <2>3, <2>5, <2>7, <2>8
<1>14. SumFunctionOnSet(c, P) \in Int
  BY ONLY <1>2, <1>7, SumIsNumber
<1>15. PICK x, y : x = SumFunctionOnSet(c, P) /\ y = Kept(A)
  OBVIOUS
<1>16. SumFunctionOnSet(w, P) = -x + -s * y /\ x \in Int /\ y \in Int
  BY <1>10, <1>11, <1>12, <1>13, <1>14, <1>15
<1>17. -x + -s * y = -x - s * y
  BY <1>5, <1>16
<1> QED BY <1>1, <1>4, <1>15, <1>16, <1>17

\* All documents weigh on A what of its bills is not settled, less what is kept on account.
LEMMA WeighedExact ==
    ASSUME PostedAreBooked, NoOrphanAllocation, NEW A \in PartyAccounts
    PROVE  Weighed(A) = SumFunctionOnSet([b \in BillsOn(A) |-> Worth(b)], BillsOn(A))
                          - SideOf(A) * Kept(A)
<1>1. PICK D, B, S, P, M : /\ D = Documents /\ B = Bills /\ S = Settlements
                           /\ P = PostedSettlements /\ M = BillsOn(A)
  OBVIOUS
<1>2. /\ IsFiniteSet(D) /\ IsFiniteSet(B) /\ IsFiniteSet(S) /\ D \ B = S
      /\ B \in SUBSET D /\ P \in SUBSET S /\ M \in SUBSET B
  BY <1>1, DocumentsFinite, BillAssumption DEF Documents, PostedSettlements, BillsOn
<1>3. IsFiniteSet(P) /\ IsFiniteSet(S \ P) /\ IsFiniteSet(M) /\ IsFiniteSet(B \ M)
  BY <1>2, FS_Subset
<1>4. PICK w, ws, c : /\ w = [d \in D |-> Due(d, A)]
                      /\ ws = [d \in P |-> Weighs(d, A)] /\ c = [d \in P |-> Cleared(d, A)]
  OBVIOUS
<1>5. \A d \in D : w[d] \in Int /\ w[d] = Due(d, A)
  BY <1>1, <1>4, DocumentNear
<1>6. SumFunctionOnSet(w, D) = SumFunctionOnSet(w, B) + SumFunctionOnSet(w, S)
  <2>1. \A d \in D : w[d] \in Int
    BY <1>5
  <2>2. SumFunctionOnSet(w, D) = SumFunctionOnSet(w, B) + SumFunctionOnSet(w, D \ B)
    BY ONLY <1>2, <2>1, SumParts
  <2> QED BY <1>2, <2>2
<1>7. SumFunctionOnSet(w, B) = SumFunctionOnSet(w, M)
  <2>1. \A d \in B : w[d] \in Int
    BY <1>2, <1>5
  <2>2. SumFunctionOnSet(w, B) = SumFunctionOnSet(w, M) + SumFunctionOnSet(w, B \ M)
    BY ONLY <1>2, <2>1, SumParts
  <2>3. \A d \in B \ M : w[d] = 0
    <3>1. \A d \in B \ M : d \in D /\ (status[d] # "submitted" \/ PartyAccount(d) # A)
      BY <1>1, <1>2 DEF BillsOn
    <3> QED BY <1>1, <1>5, <3>1 DEF Due, Weighs
  <2>4. SumFunctionOnSet(w, B \ M) = 0
    BY ONLY <1>3, <2>3, SumOfZeros
  <2>5. \A d \in M : w[d] \in Int
    BY <1>2, <2>1
  <2>6. SumFunctionOnSet(w, M) \in Int
    BY ONLY <1>3, <2>5, SumIsNumber
  <2> QED BY <2>2, <2>4, <2>6
<1>8. SumFunctionOnSet(w, S) = SumFunctionOnSet(ws, P)
  <2>1. \A d \in S : w[d] \in Int
    BY <1>2, <1>5
  <2>2. SumFunctionOnSet(w, S) = SumFunctionOnSet(w, P) + SumFunctionOnSet(w, S \ P)
    BY ONLY <1>2, <2>1, SumParts
  <2>3. \A d \in S \ P : w[d] = 0
    <3>1. \A d \in S \ P : d \in D /\ status[d] # "submitted"
      BY <1>1, <1>2 DEF PostedSettlements
    <3> QED BY <1>5, <3>1 DEF Due
  <2>4. SumFunctionOnSet(w, S \ P) = 0
    BY ONLY <1>3, <2>3, SumOfZeros
  <2>5. \A d \in P : w[d] \in Int /\ ws[d] = w[d]
    <3>1. \A d \in P : d \in D /\ status[d] = "submitted"
      BY <1>1, <1>2 DEF PostedSettlements
    <3> QED BY <1>4, <1>5, <3>1 DEF Due
  <2>6. SumFunctionOnSet(ws, P) = SumFunctionOnSet(w, P)
    BY ONLY <1>3, <2>5, SumSame
  <2>7. SumFunctionOnSet(w, P) \in Int
    BY ONLY <1>3, <2>5, SumIsNumber
  <2> QED BY <2>2, <2>4, <2>6, <2>7
<1>9. PICK v, n, m : /\ v = [b \in M |-> Worth(b)]
                     /\ n = [b \in M |-> Sign(b) * (Weight(b) * Settled(b))]
                     /\ m = [b \in M |-> -(Sign(b) * (Weight(b) * Settled(b)))]
  OBVIOUS
<1>10. \A b \in M : /\ n[b] \in Int /\ m[b] \in Int /\ n[b] + m[b] = 0
                    /\ w[b] \in Int /\ v[b] = w[b] + m[b]
  <2> SUFFICES ASSUME NEW b \in M
               PROVE  /\ n[b] \in Int /\ m[b] \in Int /\ n[b] + m[b] = 0
                      /\ w[b] \in Int /\ v[b] = w[b] + m[b]
    OBVIOUS
  <2>1. PICK s, x, t, y : s = Sign(b) /\ x = Weight(b) /\ t = Gross(b) /\ y = Settled(b)
    OBVIOUS
  <2>2. s \in {1, -1} /\ x \in Nat /\ t \in Int /\ y \in Nat
    BY <1>1, <2>1, BillNumbers
  <2>3. n[b] = s * (x * y) /\ m[b] = -(s * (x * y)) /\ v[b] = x * (t - s * y)
    BY <1>9, <2>1 DEF Worth
  <2>4. w[b] = x * t
    <3>1. b \in D /\ b \in Bills /\ status[b] = "submitted" /\ PartyAccount(b) = A
      BY <1>1, <1>2 DEF BillsOn
    <3> QED BY <1>5, <2>1, <3>1 DEF Due, Weighs
  <2>5. /\ x * t \in Int /\ x * y \in Int
        /\ s = 1 => x * (t - s * y) = x * t - x * y
        /\ s = -1 => x * (t - s * y) = x * t + x * y
    BY <2>2
  <2>6. PICK i, j : i = x * t /\ j = x * y
    OBVIOUS
  <2>7. /\ i \in Int /\ j \in Int /\ n[b] = s * j /\ m[b] = -(s * j) /\ w[b] = i
        /\ s = 1 => v[b] = i - j
        /\ s = -1 => v[b] = i + j
    BY <2>3, <2>4, <2>5, <2>6
  <2>8. CASE s = 1
    BY <2>7, <2>8
  <2>9. CASE s = -1
    BY <2>7, <2>9
  <2> QED BY <2>2, <2>8, <2>9
<1>11. SumFunctionOnSet(v, M) = SumFunctionOnSet(w, M) + SumFunctionOnSet(m, M)
  BY ONLY <1>3, <1>10, SumOfSums
<1>12. SumFunctionOnSet(m, M) = -SumFunctionOnSet(n, M)
  BY ONLY <1>3, <1>10, SumOpposite
<1>13. SumFunctionOnSet(c, P) = SumFunctionOnSet(n, M)
  BY <1>1, <1>4, <1>9, ClearedTogether
<1>14. SumFunctionOnSet(ws, P) = -SumFunctionOnSet(c, P) - SideOf(A) * Kept(A)
  BY <1>1, <1>4, SettlementsWeigh
<1>15. SumFunctionOnSet(w, M) \in Int /\ SumFunctionOnSet(n, M) \in Int
  <2>1. \A b \in M : w[b] \in Int /\ n[b] \in Int
    BY <1>10
  <2> QED BY ONLY <1>3, <2>1, SumIsNumber
<1>16. PICK k : k = SideOf(A) * Kept(A)
  OBVIOUS
<1>17. k \in Int
  BY <1>16, KeptIsNumber DEF SideOf
<1>18. SumFunctionOnSet(w, D) = SumFunctionOnSet(v, M) - k
  BY <1>6, <1>7, <1>8, <1>11, <1>12, <1>13, <1>14, <1>15, <1>16, <1>17
<1> QED BY <1>1, <1>4, <1>9, <1>16, <1>18 DEF Weighed

-----------------------------------------------------------------------------
\* Returns move value from an original to its returns and none in or out of the account.

Handed(b) == IF b \in Returns THEN Weight(b) * Credit[b] ELSE -(Weight(b) * Returned(b))

\* A return is on the account of its original and at its rate, and both are posted.
LEMMA ReturnsOn ==
    ASSUME ReturnsBacked, NEW A, NEW r \in Returns, status[r] = "submitted"
    PROVE  /\ Against[r] \in Invoices /\ Against[r] \notin Returns
           /\ status[Against[r]] = "submitted" /\ Weight(r) = Weight(Against[r])
           /\ r \in BillsOn(A) <=> Against[r] \in BillsOn(A)
<1>1. Against[r] \in Invoices /\ Against[r] \notin Returns
  BY BillAssumption
<1>2. status[Against[r]] = "submitted"
  BY DEF ReturnsBacked
<1>3. Weight(r) = Weight(Against[r])
  BY ControlAssumption DEF Weight, RateAt
<1>4. PartyAccount(r) = PartyAccount(Against[r])
  BY <1>1 DEF PartyAccount, IsPurchase, OriginalOf
<1> QED BY <1>1, <1>2, <1>3, <1>4 DEF BillsOn, Bills

\* What is handed back adds up to nothing.
LEMMA HandedBackIsZero ==
    ASSUME PostedAreBooked, ReturnsBacked, NEW A
    PROVE  /\ \A b \in BillsOn(A) : Handed(b) \in Int
           /\ SumFunctionOnSet([b \in BillsOn(A) |-> Handed(b)], BillsOn(A)) = 0
<1>1. PICK M, R, I : M = BillsOn(A) /\ R = BillsOn(A) \cap Returns /\ I = BillsOn(A) \ Returns
  OBVIOUS
<1>2. /\ IsFiniteSet(M) /\ IsFiniteSet(R) /\ IsFiniteSet(I) /\ R \in SUBSET M /\ M \ R = I
      /\ R \subseteq Returns /\ I \subseteq Invoices
  <2>1. M \in SUBSET Bills /\ R \in SUBSET Bills /\ I \in SUBSET Bills
    BY <1>1 DEF BillsOn
  <2> QED BY <1>1, <2>1, DocumentsFinite, FS_Subset DEF Bills
<1>3. PICK q, t, key : /\ q = [b \in M |-> Handed(b)] /\ t = [r \in R |-> Weight(r) * Credit[r]]
                       /\ key = [r \in R |-> Against[r]]
  OBVIOUS
<1>4. \A r \in R : /\ t[r] \in Int /\ q[r] = t[r] /\ key[r] \in I
                   /\ Weight(r) \in Nat /\ Credit[r] \in Nat
  <2> SUFFICES ASSUME NEW r \in R
               PROVE  /\ t[r] \in Int /\ q[r] = t[r] /\ key[r] \in I
                      /\ Weight(r) \in Nat /\ Credit[r] \in Nat
    OBVIOUS
  <2>1. r \in Returns /\ r \in M /\ r \in BillsOn(A) /\ status[r] = "submitted"
    BY <1>1 DEF BillsOn
  <2>2. Against[r] \in I
    BY <1>1, <2>1, ReturnsOn
  <2>3. Weight(r) \in Nat /\ Credit[r] \in Nat
    BY <2>1, BillNumbers
  <2>4. Weight(r) * Credit[r] \in Int
    BY <2>3
  <2> QED BY <1>3, <2>1, <2>2, <2>3, <2>4 DEF Handed
<1>5. PICK g : g = [o \in I |-> SumFunctionOnSet(t, {r \in R : key[r] = o})]
  OBVIOUS
<1>6. SumFunctionOnSet(t, R) = SumFunctionOnSet(g, I)
  <2>1. (\A r \in R : key[r] \in I) /\ \A r \in R : t[r] \in Int
    BY <1>4
  <2> QED BY <1>2, <1>5, <2>1, SumByGroup
<1>7. ASSUME NEW o \in I
      PROVE  q[o] \in Int /\ g[o] \in Int /\ g[o] + q[o] = 0
  <2>1. o \in Invoices /\ o \in Bills /\ o \notin Returns /\ o \in M /\ o \in BillsOn(A)
    BY <1>1, <1>2 DEF Bills
  <2>2. PICK T, w : T = PostedReturns(o) /\ w = Weight(o)
    OBVIOUS
  <2>3. {r \in R : key[r] = o} = T
    <3>1. ASSUME NEW r \in T PROVE r \in R /\ Against[r] = o
      <4>1. r \in Returns /\ Against[r] = o /\ status[r] = "submitted"
        BY <2>2 DEF PostedReturns
      <4> QED BY <1>1, <2>1, <4>1, ReturnsOn
    <3>2. ASSUME NEW r \in R, Against[r] = o PROVE r \in T
      BY <1>1, <2>2, <3>2 DEF PostedReturns, BillsOn
    <3>3. T \subseteq R
      BY <3>1
    <3> QED BY <1>3, <3>1, <3>2, <3>3
  <2>4. IsFiniteSet(T) /\ T \subseteq R /\ w \in Nat
    <3>1. T \in SUBSET R
      BY <2>3
    <3> QED BY <1>2, <2>1, <2>2, <3>1, BillNumbers, FS_Subset
  <2>5. \A r \in T : Credit[r] \in Int /\ t[r] = w * Credit[r]
    <3> SUFFICES ASSUME NEW r \in T PROVE Credit[r] \in Int /\ t[r] = w * Credit[r]
      OBVIOUS
    <3>1. r \in R /\ r \in Returns /\ Against[r] = o /\ status[r] = "submitted"
      BY <2>2, <2>4 DEF PostedReturns
    <3>2. Weight(r) = w
      BY <2>2, <3>1, ReturnsOn
    <3>3. t[r] = Weight(r) * Credit[r]
      BY <1>3, <3>1
    <3>4. Credit[r] \in Int
      BY <1>4, <3>1
    <3> QED BY <3>2, <3>3, <3>4
  <2>6. SumFunctionOnSet(t, T) = w * SumFunctionOnSet(Credit, T)
    <3>1. w \in Int
      BY <2>4
    <3> QED BY ONLY <2>4, <2>5, <3>1, SumTimes
  <2>7. SumFunctionOnSet(Credit, T) = Returned(o) /\ Returned(o) \in Int
    <3>1. \A r \in T : Credit[r] \in Int
      BY <2>5
    <3>2. SumFunctionOnSet(Credit, T) \in Int
      BY ONLY <2>4, <3>1, SumIsNumber
    <3> QED BY <2>2, <3>2 DEF Returned, CreditOf
  <2>8. PICK x : x = Returned(o)
    OBVIOUS
  <2>9. g[o] = w * x /\ q[o] = -(w * x) /\ x \in Int
    BY <1>3, <1>5, <2>1, <2>2, <2>3, <2>6, <2>7, <2>8 DEF Handed
  <2> QED BY <2>4, <2>9
<1>8. \A b \in M : q[b] \in Int
  BY <1>2, <1>4, <1>7
<1>9. SumFunctionOnSet(q, M) = SumFunctionOnSet(q, R) + SumFunctionOnSet(q, I)
  <2>1. SumFunctionOnSet(q, M) = SumFunctionOnSet(q, R) + SumFunctionOnSet(q, M \ R)
    BY ONLY <1>2, <1>8, SumParts
  <2> QED BY <1>2, <2>1
<1>10. SumFunctionOnSet(q, R) = SumFunctionOnSet(t, R)
  <2>1. \A r \in R : t[r] \in Int /\ q[r] = t[r]
    BY <1>4
  <2> QED BY ONLY <1>2, <2>1, SumSame
<1>11. SumFunctionOnSet(q, I) = -SumFunctionOnSet(g, I)
  <2>1. \A o \in I : g[o] \in Int /\ q[o] \in Int /\ g[o] + q[o] = 0
    BY <1>7
  <2> QED BY ONLY <1>2, <2>1, SumOpposite
<1>12. SumFunctionOnSet(g, I) \in Int
  <2>1. \A o \in I : g[o] \in Int
    BY <1>7
  <2> QED BY ONLY <1>2, <2>1, SumIsNumber
<1>13. SumFunctionOnSet(q, M) = 0
  BY <1>6, <1>9, <1>10, <1>11, <1>12
<1>14. \A b \in M : q[b] = Handed(b)
  BY <1>3
<1> QED BY <1>1, <1>3, <1>8, <1>13, <1>14

-----------------------------------------------------------------------------
\* What a bill shows as open is at least what it is worth and what is handed back of it, and
\* just that where no return was cut off at the floor.
LEMMA OpenCovers ==
    ASSUME AmountsInv, PostedAreBooked, NEW A, NEW b \in BillsOn(A)
    PROVE  /\ Unit * RateAt(b) * Open(b) \in Int
           /\ Worth(b) + Handed(b) <= Unit * RateAt(b) * Open(b)
           /\ b \notin floored => Worth(b) + Handed(b) = Unit * RateAt(b) * Open(b)
<1>1. /\ b \in Bills /\ status[b] = "submitted" /\ OutstandingExact /\ NeverUnderstated
      /\ outstanding[b] \in Int /\ floored \subseteq Invoices
  BY AmountsGive DEF BillsOn, AmountsInv, BooksInv, BooksTypeOK
<1>2. PICK w, p, g, s, n, x, y : /\ w = Weight(b) /\ p = Opening(b) /\ g = Gross(b)
                                 /\ s = Sign(b) /\ n = Settled(b)
                                 /\ x = outstanding[b] /\ y = Returned(b)
  OBVIOUS
<1>3. /\ w \in Nat /\ p \in Int /\ g \in Int /\ s \in {1, -1} /\ n \in Nat /\ x \in Int /\ y \in Nat
  BY <1>1, <1>2, BillNumbers, OpeningSigned, AmountTypes, SumsAre
<1>4. Unit * RateAt(b) * Open(b) = w * Open(b) /\ Worth(b) = w * (g - s * n)
  BY <1>2 DEF Weight, Worth
<1>5. /\ b \in TillBills => Open(b) = x + (g - p) /\ Credit[b] = 0
      /\ b \notin TillBills => g = p /\ Credit[b] = Total[b] /\ p = s * Total[b]
  <2>1. Total[b] \in Nat /\ Tendered[b] \in Int /\ b \in Bills
    BY <1>1, BillAssumption
  <2>2. ASSUME b \in TillBills PROVE Open(b) = x + (g - p) /\ Credit[b] = 0
    <3>1. Open(b) = outstanding[b] + (Sign(b) * Total[b] - Tendered[b] - Opening(b))
      BY <2>2 DEF Open, LeftAtTill
    <3>2. g = Sign(b) * Total[b] - Tendered[b]
      BY <1>2, <2>2 DEF Gross, AtTill
    <3>3. Credit[b] = 0
      BY <2>1, <2>2 DEF Credit
    <3> QED BY <1>2, <1>3, <3>1, <3>2, <3>3
  <2>3. ASSUME b \notin TillBills PROVE g = p /\ Credit[b] = Total[b] /\ p = s * Total[b]
    <3>1. Credit[b] = Total[b] /\ p = s * Total[b]
      BY <1>2, <2>1, <2>3, OpeningSigned
    <3>2. g = s * Total[b] - 0
      BY <1>2, <2>3 DEF Gross, AtTill
    <3> QED BY <1>3, <3>1, <3>2
  <2> QED BY <2>2, <2>3
<1>6. CASE b \in Invoices
  <2>1. b \notin Returns /\ s = 1 /\ Open(b) = x + (g - p)
    <3>1. b \notin Returns /\ s = 1
      BY <1>2, <1>6, BillAssumption DEF Sign
    <3>2. b \notin TillBills => Open(b) = x /\ g - p = 0
      BY <1>2, <1>3, <1>5, <1>6 DEF Open
    <3> QED BY <1>3, <1>5, <3>1, <3>2
  <2>2. Handed(b) = -(w * y)
    BY <1>2, <2>1 DEF Handed
  <2>3. x >= p - n - y
    BY <1>1, <1>2, <1>6 DEF NeverUnderstated
  <2>4. b \notin floored => x = p - n - y
    <3>1. b \notin floored => 1 * x = 1 * p - n - y
      BY <1>1, <1>2, <1>6, <2>1 DEF OutstandingExact
    <3> QED BY <1>3, <3>1
  <2>5. PICK z, o : z = g - n - y /\ o = x + (g - p)
    OBVIOUS
  <2>6. z \in Int /\ o \in Int /\ z <= o /\ (b \notin floored => z = o)
    BY <1>3, <2>3, <2>4, <2>5
  <2>7. w * (g - 1 * n) + -(w * y) = w * z
    BY <1>3, <2>5
  <2>8. w * z \in Int /\ w * o \in Int /\ w * z <= w * o
    BY <1>3, <2>6
  <2>9. Worth(b) + Handed(b) = w * z /\ Unit * RateAt(b) * Open(b) = w * o
    BY <1>4, <2>1, <2>2, <2>5, <2>7
  <2> QED BY <2>6, <2>8, <2>9
<1>7. CASE b \in Returns
  <2>1. b \notin Invoices /\ b \notin floored /\ s = -1
    BY <1>1, <1>2, <1>7, BillAssumption DEF Sign
  <2>2. Handed(b) = w * Credit[b] /\ Credit[b] \in Nat
    BY <1>1, <1>2, <1>7, OpeningSigned DEF Handed
  <2>3. x = p + n
    <3>1. Sign(b) * outstanding[b] = Sign(b) * Opening(b) - Settled(b) - 0
      BY <1>1, <2>1 DEF OutstandingExact
    <3>2. s * x = s * p - n - 0
      BY <1>2, <3>1
    <3> QED BY <1>3, <2>1, <3>2
  <2>4. Open(b) = g + n + Credit[b]
    <3>1. b \notin TillBills => Open(b) = x + Total[b]
      BY <1>2, <2>1 DEF Open
    <3> QED BY <1>3, <1>5, <2>2, <2>3, <3>1
  <2>5. PICK c, o : c = Credit[b] /\ o = g + n + c
    OBVIOUS
  <2>6. w * (g - (-1) * n) + w * c = w * o /\ w * o \in Int
    BY <1>3, <2>2, <2>5
  <2>7. Worth(b) + Handed(b) = w * o /\ Unit * RateAt(b) * Open(b) = w * o
    BY <1>4, <2>1, <2>2, <2>4, <2>5, <2>6
  <2> QED BY <2>6, <2>7
<1> QED BY <1>1, <1>6, <1>7 DEF Bills

\* The open items of A are at least what its bills are worth less what is kept on account,
\* and just that where no return was cut off at the floor.
LEMMA OpenItemsCover ==
    ASSUME AmountsInv, PostedAreBooked, NEW A \in PartyAccounts
    PROVE  /\ OpenItems(A) \in Int
           /\ Weighed(A) <= SideOf(A) * OpenItems(A)
           /\ (\A b \in floored : PartyAccount(b) # A) => Weighed(A) = SideOf(A) * OpenItems(A)
<1>1. PICK M, v, q, o, u : /\ M = BillsOn(A)
                           /\ v = [b \in BillsOn(A) |-> Worth(b)]
                           /\ q = [b \in BillsOn(A) |-> Handed(b)]
                           /\ o = [b \in BillsOn(A) |-> Unit * RateAt(b) * Open(b)]
                           /\ u = [b \in BillsOn(A) |-> Worth(b) + Handed(b)]
  OBVIOUS
<1>2. NoOrphanAllocation /\ ReturnsBacked
  BY DEF AmountsInv, BooksInv
<1>3. IsFiniteSet(M)
  <2>1. M \in SUBSET Bills
    BY <1>1 DEF BillsOn
  <2> QED BY <2>1, DocumentsFinite, FS_Subset
<1>4. \A b \in M : /\ v[b] \in Int /\ q[b] \in Int /\ u[b] = v[b] + q[b]
                   /\ u[b] \in Int /\ o[b] \in Int /\ u[b] <= o[b]
                   /\ (b \notin floored => u[b] = o[b])
  <2> SUFFICES ASSUME NEW b \in M
               PROVE  /\ v[b] \in Int /\ q[b] \in Int /\ u[b] = v[b] + q[b]
                      /\ u[b] \in Int /\ o[b] \in Int /\ u[b] <= o[b]
                      /\ (b \notin floored => u[b] = o[b])
    OBVIOUS
  <2>1. b \in BillsOn(A)
    BY <1>1
  <2>2. Worth(b) \in Int /\ Handed(b) \in Int
    BY <1>2, <2>1, BillNumbers, HandedBackIsZero
  <2>3. /\ v[b] = Worth(b) /\ q[b] = Handed(b) /\ u[b] = Worth(b) + Handed(b)
        /\ o[b] = Unit * RateAt(b) * Open(b)
    BY <1>1, <2>1
  <2> QED BY <2>1, <2>2, <2>3, OpenCovers
<1>5. SumFunctionOnSet(u, M) = SumFunctionOnSet(v, M) + SumFunctionOnSet(q, M)
  BY ONLY <1>3, <1>4, SumOfSums
<1>6. SumFunctionOnSet(q, M) = 0
  BY <1>1, <1>2, HandedBackIsZero
<1>7. SumFunctionOnSet(u, M) <= SumFunctionOnSet(o, M)
  <2>1. \A b \in M : u[b] \in Int /\ o[b] \in Int /\ u[b] <= o[b]
    BY <1>4
  <2> QED BY ONLY <1>3, <2>1, SumOrder
<1>8. ASSUME \A b \in floored : PartyAccount(b) # A
      PROVE  SumFunctionOnSet(o, M) = SumFunctionOnSet(u, M)
  <2>1. \A b \in M : b \notin floored
    BY <1>1, <1>8 DEF BillsOn
  <2>2. \A b \in M : u[b] \in Int /\ o[b] = u[b]
    BY <1>4, <2>1
  <2> QED BY ONLY <1>3, <2>2, SumSame
<1>9. SumFunctionOnSet(v, M) \in Int /\ SumFunctionOnSet(o, M) \in Int
  <2>1. \A b \in M : v[b] \in Int /\ o[b] \in Int
    BY <1>4
  <2> QED BY ONLY <1>3, <2>1, SumIsNumber
<1>10. PICK s, k, x, y : /\ s = SideOf(A) /\ k = Kept(A)
                         /\ x = SumFunctionOnSet(v, M) /\ y = SumFunctionOnSet(o, M)
  OBVIOUS
<1>11. s \in {1, -1} /\ k \in Int /\ x \in Int /\ y \in Int
  BY <1>9, <1>10, KeptIsNumber DEF SideOf
<1>12. Weighed(A) = x - s * k
  BY <1>1, <1>2, <1>10, WeighedExact
<1>13. OpenItems(A) = s * y - k
  BY <1>1, <1>10 DEF OpenItems, BillsOn, PaymentsOn, Kept, SideOf
<1>14. s * (s * y - k) = y - s * k
  <2>1. CASE s = 1
    BY <1>11, <2>1
  <2>2. CASE s = -1
    BY <1>11, <2>2
  <2> QED BY <1>11, <2>1, <2>2
<1>15. x <= y /\ ((\A b \in floored : PartyAccount(b) # A) => x = y)
  BY <1>5, <1>6, <1>7, <1>8, <1>9, <1>10
<1>16. SideOf(A) * OpenItems(A) = y - s * k
  BY <1>10, <1>13, <1>14
<1>17. OpenItems(A) \in Int
  <2>1. CASE s = 1
    BY <1>11, <1>13, <2>1
  <2>2. CASE s = -1
    BY <1>11, <1>13, <2>2
  <2> QED BY <1>11, <2>1, <2>2
<1>18. PICK z : z = s * k
  OBVIOUS
<1>19. z \in Int /\ Weighed(A) = x - z /\ SideOf(A) * OpenItems(A) = y - z
  BY <1>11, <1>12, <1>16, <1>18
<1> QED BY <1>11, <1>15, <1>17, <1>19

\* The balances and the open items of both accounts, from the lines and the amounts.
LEMMA AccountsMatch ==
    ASSUME AmountsInv, PostedAreBooked
    PROVE  ControlMatchesOpenItems
<1>1. NoOrphanAllocation
  BY DEF AmountsInv, BooksInv
<1> SUFFICES ASSUME NEW A \in PartyAccounts
             PROVE  LET tolerance == 500 * Cardinality(BookedTo(A))
                        gap == SideOf(A) * (1000 * BaseBalance(A) - OpenItems(A))
                    IN  /\ gap <= tolerance
                        /\ (\A b \in floored : PartyAccount(b) # A) => gap >= -tolerance
  BY DEF ControlMatchesOpenItems, PartyAccounts, SideOf
<1>2. PICK t, s, n, i, w : /\ t = 500 * Cardinality(BookedTo(A)) /\ s = SideOf(A)
                           /\ n = BaseBalance(A) /\ i = OpenItems(A) /\ w = Weighed(A)
  OBVIOUS
<1>3. /\ n \in Int /\ w \in Int /\ t \in Nat
      /\ s * 1000 * n <= w + t /\ w <= s * 1000 * n + t
  BY <1>1, <1>2, BalanceNear
<1>4. i \in Int /\ w <= s * i /\ ((\A b \in floored : PartyAccount(b) # A) => w = s * i)
  BY <1>2, OpenItemsCover
<1>5. s \in {1, -1}
  BY <1>2 DEF SideOf
<1>6. CASE s = 1
  BY <1>2, <1>3, <1>4, <1>6
<1>7. CASE s = -1
  BY <1>2, <1>3, <1>4, <1>7
<1> QED BY <1>5, <1>6, <1>7

\* Exact amounts and booked lines, whatever the company does next.
LEMMA ControlStep ==
    AmountsInv /\ PostedAreBooked /\ [ControlNext]_controlVars => (AmountsInv /\ PostedAreBooked)'
<1> SUFFICES ASSUME AmountsInv, PostedAreBooked, [ControlNext]_controlVars
             PROVE  (AmountsInv /\ PostedAreBooked)'
  OBVIOUS
<1>1. [ReconciledNext]_reconciledVars
  BY DEF ControlNext, controlVars
<1> QED BY <1>1, ReconciledStepsBooks, AmountsStep, BookedStep

\* The receivable and the payable account agree with the open items, to half a cent for each
\* line that was rounded: for any documents, exchange rates and amounts, whatever was paid at
\* other rates or on account, returned, settled by journal or cancelled since.
THEOREM ControlAccountsMatch == ControlSpec => []ControlMatchesOpenItems
<1>1. ControlInit => AmountsInv /\ PostedAreBooked
  <2> SUFFICES ASSUME ControlInit PROVE AmountsInv /\ PostedAreBooked
    OBVIOUS
  <2>1. BooksInit /\ postings = [d \in Documents |-> {}]
    BY DEF ControlInit, ReconciledInit
  <2>2. \A d \in Documents : status[d] # "submitted" /\ postings[d] = {}
    BY <2>1 DEF BooksInit
  <2> QED BY <2>1, <2>2, AmountsInvInit DEF PostedAreBooked
<1>2. AmountsInv /\ PostedAreBooked => ControlMatchesOpenItems
  BY AccountsMatch
<1> QED BY <1>1, <1>2, ControlStep, PTL DEF ControlSpec

=============================================================================

----------------------------- MODULE Settlement -----------------------------
(***************************************************************************)
(* The document lifecycle over bills and settlements as concurrent         *)
(* database transactions.  A session (a request thread of any server       *)
(* instance) loads a document outside any transaction and then saves,      *)
(* submits, cancels or discards it in Database.atomic():                   *)
(*                                                                         *)
(*   Load        cls.load(name) and the checks on the in-memory docstatus  *)
(*   TakeOwn     _check_write_state: lock the own row, compare docstatus,  *)
(*               discarded and modified with what was loaded               *)
(*   TakeRef     lock_workflow_references: one row lock after another, in  *)
(*               the order of sorted(refs)                                 *)
(*   Validate    validate() / validate_cancellation()                      *)
(*   Post        on_submit / on_cancel read the current outstanding amounts*)
(*   Commit      the writes become visible and the locks are released      *)
(*   Refuse      one of the checks fails: roll back                        *)
(*   Fail        the process, the connection or a statement dies: roll back*)
(*   Victim      PostgreSQL aborts one session of a deadlock               *)
(*                                                                         *)
(* On PostgreSQL, FOR UPDATE locks rows and every statement sees what is   *)
(* committed at that moment.  On SQLite, BEGIN IMMEDIATE reserves the whole*)
(* database for one writer and the row locks do nothing.                   *)
(***************************************************************************)
EXTENDS Receivables

CONSTANTS
    Sessions,
    Dialect,       \* "postgres" or "sqlite"
    Rank,          \* Rank[b]: position of (doctype, name) in sorted order
    MaxModified,   \* bound: no save is begun on a document modified so often
    None           \* no session, no document

ASSUME SettlementAssumption ==
    /\ Dialect \in {"postgres", "sqlite"}
    /\ Rank \in [Bills -> Nat]
    /\ \A b, c \in Bills : Rank[b] = Rank[c] => b = c
    /\ MaxModified \in Nat
    /\ None \notin Sessions \cup Documents

VARIABLES
    modified,      \* the `modified` stamp of every document, as a version
    lock,          \* lock[d]: the session that holds the row of d, or None
    job            \* job[s]: the request session s is working on

vars == <<status, outstanding, floored, modified, lock, job>>

Ops == {"save", "submit", "cancel", "discard"}
Stages == {"idle", "own", "refs", "post", "commit"}

Jobs == [pc : Stages, op : Ops, doc : Documents \cup {None}, seen : Nat,
         todo : SUBSET Bills, read : [Bills -> Int]]

Unread == [b \in Bills |-> 0]
NoJob == [pc |-> "idle", op |-> "save", doc |-> None, seen |-> 0,
          todo |-> {}, read |-> Unread]

-----------------------------------------------------------------------------
(* What an operation locks, requires and writes *)

\* The docstatus an operation expects in memory and again in the database.
Expected(o) == IF o = "cancel" THEN "submitted" ELSE "draft"

\* The rows reserved before the document's state is checked.
OwnLocks(d) == IF Dialect = "postgres" THEN {d} ELSE Documents

\* Faulty: only a settlement locks the rows it refers to.
RefLocks_SettlementsOnly(o, d) == IF d \in Settlements THEN Refs(d) ELSE {}

\* lock_workflow_references, which only submit and cancel call.
RefLocks(o, d) ==
    IF Dialect = "postgres" /\ o \in {"submit", "cancel"} THEN Refs(d) ELSE {}

\* Faulty: the stored docstatus is checked, the version is not.
AsLoaded_AnyVersion(o, d, seen) == status[d] = Expected(o)

\* _check_write_state: the stored row is the one that was loaded.
AsLoaded(o, d, seen) == status[d] = Expected(o) /\ modified[d] = seen

Allowed(o, d) == /\ o \in {"save", "submit"} => Valid(d)
                 /\ o = "cancel" => Releasable(d)

\* The bills whose outstanding_amount an operation writes.
Written(o, d) == IF o \in {"submit", "cancel"} THEN Bills \cap ({d} \cup Refs(d))
                 ELSE {}

AmountOn(o, d, b) == IF o = "submit" THEN PostedOn(d, b) ELSE ReversedOn(d, b)

StatusAfter(o, d) == CASE o = "submit" -> "submitted"
                       [] o = "cancel" -> "cancelled"
                       [] o = "discard" -> "discarded"
                       [] o = "save" -> status[d]

\* The next row of `todo` in the order of sorted(refs).
NextRow(todo, b) == b \in todo /\ \A c \in todo : Rank[b] <= Rank[c]

Released(s) == [d \in Documents |-> IF lock[d] = s THEN None ELSE lock[d]]

-----------------------------------------------------------------------------
Init ==
    /\ status = [d \in Documents |-> "draft"]
    /\ outstanding = [b \in Bills |-> Opening(b)]
    /\ floored = {}
    /\ modified = [d \in Documents |-> 0]
    /\ lock = [d \in Documents |-> None]
    /\ job = [s \in Sessions |-> NoJob]

Load(s, o, d) ==
    /\ job[s].pc = "idle"
    /\ status[d] = Expected(o)
    /\ o = "save" => modified[d] < MaxModified
    /\ job' = [job EXCEPT ![s] = [NoJob EXCEPT !.pc = "own", !.op = o, !.doc = d,
                                               !.seen = modified[d]]]
    /\ UNCHANGED <<status, outstanding, floored, modified, lock>>

TakeOwn(s) ==
    LET d == job[s].doc IN
    /\ job[s].pc = "own"
    /\ \A r \in OwnLocks(d) : lock[r] = None
    /\ AsLoaded(job[s].op, d, job[s].seen)
    /\ lock' = [r \in Documents |-> IF r \in OwnLocks(d) THEN s ELSE lock[r]]
    /\ job' = [job EXCEPT ![s] = [@ EXCEPT !.pc = "refs", !.todo = RefLocks(job[s].op, d)]]
    /\ UNCHANGED <<status, outstanding, floored, modified>>

TakeRef(s) ==
    /\ job[s].pc = "refs"
    /\ \E b \in job[s].todo :
          /\ NextRow(job[s].todo, b)
          /\ lock[b] = None
          /\ lock' = [lock EXCEPT ![b] = s]
          /\ job' = [job EXCEPT ![s] = [@ EXCEPT !.todo = job[s].todo \ {b}]]
    /\ UNCHANGED <<status, outstanding, floored, modified>>

Validate(s) ==
    /\ job[s].pc = "refs" /\ job[s].todo = {}
    /\ Allowed(job[s].op, job[s].doc)
    /\ job' = [job EXCEPT ![s] = [@ EXCEPT !.pc = "post"]]
    /\ UNCHANGED <<status, outstanding, floored, modified, lock>>

Post(s) ==
    LET o == job[s].op
        d == job[s].doc
    IN
    /\ job[s].pc = "post"
    /\ job' = [job EXCEPT ![s] = [@ EXCEPT
                  !.pc = "commit",
                  !.read = [b \in Bills |-> IF b \in Written(o, d)
                                            THEN AmountOn(o, d, b) ELSE 0]]]
    /\ UNCHANGED <<status, outstanding, floored, modified, lock>>

\* An UPDATE waits for a row that another session has locked.
Commit(s) ==
    LET o == job[s].op
        d == job[s].doc
    IN
    /\ job[s].pc = "commit"
    /\ \A b \in Written(o, d) : lock[b] \in {s, None}
    /\ status' = [status EXCEPT ![d] = StatusAfter(o, d)]
    /\ outstanding' = [b \in Bills |-> IF b \in Written(o, d) THEN job[s].read[b]
                                       ELSE outstanding[b]]
    /\ floored' = IF o = "submit" THEN floored \cup CutOff(d) ELSE floored
    /\ modified' = [modified EXCEPT ![d] = @ + 1]
    /\ lock' = Released(s)
    /\ job' = [job EXCEPT ![s] = NoJob]

\* Faulty: the transaction is left open when a check fails.
Rollback_KeepsLocks(s) ==
    /\ job' = [job EXCEPT ![s] = NoJob]
    /\ UNCHANGED <<status, outstanding, floored, modified, lock>>

\* Database.atomic on an exception: nothing is written, every lock is released.
Rollback(s) ==
    /\ lock' = Released(s)
    /\ job' = [job EXCEPT ![s] = NoJob]
    /\ UNCHANGED <<status, outstanding, floored, modified>>

Refuse(s) ==
    LET o == job[s].op
        d == job[s].doc
    IN
    /\ \/ /\ job[s].pc = "own"
          /\ \A r \in OwnLocks(d) : lock[r] = None
          /\ ~AsLoaded(o, d, job[s].seen)
       \/ /\ job[s].pc = "refs" /\ job[s].todo = {}
          /\ ~Allowed(o, d)
    /\ Rollback(s)

Fail(s) == job[s].pc # "idle" /\ Rollback(s)

-----------------------------------------------------------------------------
(* Deadlock: PostgreSQL aborts a session that waits for itself *)

\* The sessions that hold a row s needs for its next step.
Holders(s) ==
    LET wanted == CASE job[s].pc = "own" -> OwnLocks(job[s].doc)
                    [] job[s].pc = "refs" -> {b \in job[s].todo : NextRow(job[s].todo, b)}
                    [] OTHER -> {}
    IN {lock[r] : r \in wanted} \ {None}

InCycle(s) ==
    \E D \in SUBSET Sessions : /\ s \in D
                               /\ \A t \in D : Holders(t) # {}
                               /\ UNION {Holders(t) : t \in D} = D

Victim(s) == /\ Dialect = "postgres"
             /\ InCycle(s)
             /\ Rollback(s)

-----------------------------------------------------------------------------
Step(s) == \/ TakeOwn(s) \/ TakeRef(s) \/ Validate(s) \/ Post(s) \/ Commit(s)
           \/ Refuse(s) \/ Victim(s)

Next == \E s \in Sessions : \/ \E o \in Ops, d \in Documents : Load(s, o, d)
                            \/ Step(s)
                            \/ Fail(s)

Spec == Init /\ [][Next]_vars

\* Row locks queue first come first served and deadlocks are broken, so a
\* request that can move on again and again does move on.
FairSpec == Spec /\ \A s \in Sessions : SF_vars(Step(s))

-----------------------------------------------------------------------------
(* Properties *)

\* The books, the versions, the locks and the jobs have their types, and no
\* settlement has carried an outstanding amount across zero.
TypeOK ==
    /\ BooksTypeOK
    /\ modified \in [Documents -> Nat]
    /\ lock \in [Documents -> Sessions \cup {None}]
    /\ job \in [Sessions -> Jobs]

\* Optimistic locking: a transaction commits only over the version of its
\* document that the request loaded, so no concurrent edit is overwritten.
WriteIsFresh ==
    [][\A d \in Documents : modified'[d] # modified[d] =>
          \E s \in Sessions : job[s].doc = d /\ job[s].seen = modified[d]]_vars

\* Every run of concurrent sessions amounts to a sequence of whole workflows: the
\* books, seen alone, behave as Receivables says.
Serializable == BooksSpec

\* Every request that reached the database ends: it commits, is refused, or is
\* picked as the victim of a deadlock.
EveryRequestEnds ==
    \A s \in Sessions : job[s].pc # "idle" ~> job[s].pc = "idle"

=============================================================================

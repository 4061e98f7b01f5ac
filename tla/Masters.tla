------------------------------ MODULE Masters ------------------------------
(***************************************************************************)
(* Master records and the documents that refer to them, on PostgreSQL.  No *)
(* foreign key ties the two.  Saving a document shares an advisory lock    *)
(* with every other workflow, a change of a structural field (the company  *)
(* of an account, the unit of an item) takes it alone and is refused while *)
(* anything refers to the record.  Deleting checks the references first    *)
(* and only then begins its transaction.                                   *)
(***************************************************************************)
EXTENDS Integers, FiniteSets

CONSTANTS
    MasterNames,
    CustomerNames,   \* the customers among them: disabled ones get no new business
    Structures,      \* values of the structural fields
    Referrers,       \* document rows with a link field
    Editors,         \* requests
    NoMaster

ASSUME MasterAssumption ==
    /\ CustomerNames \subseteq MasterNames /\ NoMaster \notin MasterNames
    /\ NoMaster \notin [structure : Structures, disabled : BOOLEAN]

VARIABLES
    master,          \* master[m]: [structure, disabled], or NoMaster
    refersTo,        \* refersTo[d]: the master a stored row names
    editor,          \* editor[e]: the request it is working on
    basis,           \* history: the structure a stored row was validated with
    deleted          \* history: masters that were deleted

masterVars == <<master, refersTo, editor, basis, deleted>>

Unoccupied == [at |-> "idle", row |-> NoMaster, name |-> NoMaster, structure |-> NoMaster]
Saving(e) == editor[e].at = "saving"
Altering(e) == editor[e].at = "altering"

\* _structural_reference, _find_reference: any stored row, whatever its status.
Referenced(m) == \E d \in Referrers : refersTo[d] = m

\* FOR SHARE on the customer of a document that is being saved.
RowShared(m) == \E e \in Editors : Saving(e) /\ editor[e].name = m
                                     /\ m \in CustomerNames

MastersInit ==
    /\ master = [m \in MasterNames |-> NoMaster]
    /\ refersTo = [d \in Referrers |-> NoMaster]
    /\ editor = [e \in Editors |-> Unoccupied]
    /\ basis = [d \in Referrers |-> NoMaster]
    /\ deleted = {}

-----------------------------------------------------------------------------
(* Masters *)

\* _create_master_record, with the primary key behind its check.
CreateMaster(m, structure) ==
    /\ master[m] = NoMaster
    /\ \A e \in Editors : ~Altering(e)
    /\ master' = [master EXCEPT ![m] = [structure |-> structure, disabled |-> FALSE]]
    /\ UNCHANGED <<refersTo, editor, basis, deleted>>

\* _update_master_record of fields that are not structural.
SetDisabled(m, flag) ==
    /\ master[m] # NoMaster /\ ~RowShared(m)
    /\ \A e \in Editors : ~Altering(e)
    /\ master' = [master EXCEPT ![m].disabled = flag]
    /\ UNCHANGED <<refersTo, editor, basis, deleted>>

\* Faulty: a structural change runs beside the workflows, as any other update.
LockMasters_Shared(e, m, structure) ==
    /\ editor[e] = Unoccupied
    /\ editor' = [editor EXCEPT ![e] = [Unoccupied EXCEPT !.at = "altering", !.name = m,
                                                          !.structure = structure]]
    /\ UNCHANGED <<master, refersTo, basis, deleted>>

\* update_master_record with a structural field: pg_advisory_xact_lock waits
\* until no other transaction holds the lock.
LockMasters(e, m, structure) ==
    /\ editor[e] = Unoccupied
    /\ \A f \in Editors : ~Saving(f) /\ ~Altering(f)
    /\ editor' = [editor EXCEPT ![e] = [Unoccupied EXCEPT !.at = "altering", !.name = m,
                                                          !.structure = structure]]
    /\ UNCHANGED <<master, refersTo, basis, deleted>>

\* structural_changes, the search for references, the write and the commit.
AlterMaster(e) ==
    LET m == editor[e].name
    IN  /\ Altering(e)
        /\ master[m] # NoMaster
        /\ editor[e].structure # master[m].structure => ~Referenced(m)
        /\ master' = [master EXCEPT ![m].structure = editor[e].structure]
        /\ editor' = [editor EXCEPT ![e] = Unoccupied]
        /\ UNCHANGED <<refersTo, basis, deleted>>

\* delete_master_record outside a transaction: what is referred to is disabled,
\* the rest is going to be deleted.
AskDelete(e, m) ==
    /\ editor[e] = Unoccupied /\ master[m] # NoMaster
    /\ IF Referenced(m)
       THEN /\ ~RowShared(m)
            /\ master' = [master EXCEPT ![m].disabled = TRUE]
            /\ UNCHANGED editor
       ELSE /\ editor' = [editor EXCEPT ![e] = [Unoccupied EXCEPT !.at = "deleting", !.name = m]]
            /\ UNCHANGED master
    /\ UNCHANGED <<refersTo, basis, deleted>>

\* Its transaction, on whatever refers to the master by now.
DeleteMaster(e) ==
    /\ editor[e].at = "deleting" /\ ~RowShared(editor[e].name)
    /\ \A f \in Editors : ~Altering(f)
    /\ master' = [master EXCEPT ![editor[e].name] = NoMaster]
    /\ deleted' = deleted \cup {editor[e].name}
    /\ editor' = [editor EXCEPT ![e] = Unoccupied]
    /\ UNCHANGED <<refersTo, basis>>

-----------------------------------------------------------------------------
(* Documents *)

\* A document is saved: its link exists, a customer is enabled and stays so.
ValidateLink(e, d, m) ==
    /\ editor[e] = Unoccupied /\ master[m] # NoMaster
    /\ m \in CustomerNames => ~master[m].disabled
    /\ \A f \in Editors : ~Altering(f) /\ editor[f].row # d
    /\ editor' = [editor EXCEPT ![e] = [at |-> "saving", row |-> d, name |-> m,
                                        structure |-> master[m].structure]]
    /\ UNCHANGED <<master, refersTo, basis, deleted>>

StoreLink(e) ==
    /\ Saving(e)
    /\ refersTo' = [refersTo EXCEPT ![editor[e].row] = editor[e].name]
    /\ basis' = [basis EXCEPT ![editor[e].row] = editor[e].structure]
    /\ editor' = [editor EXCEPT ![e] = Unoccupied]
    /\ UNCHANGED <<master, deleted>>

\* A draft row is taken out again.
ClearLink(d) ==
    /\ refersTo[d] # NoMaster
    /\ \A e \in Editors : editor[e].row # d /\ ~Altering(e)
    /\ refersTo' = [refersTo EXCEPT ![d] = NoMaster]
    /\ basis' = [basis EXCEPT ![d] = NoMaster]
    /\ UNCHANGED <<master, editor, deleted>>

\* A check fails, or the connection is lost.
LeaveMasters(e) ==
    /\ editor[e] # Unoccupied
    /\ editor' = [editor EXCEPT ![e] = Unoccupied]
    /\ UNCHANGED <<master, refersTo, basis, deleted>>

MastersNext ==
    \/ \E m \in MasterNames, structure \in Structures : CreateMaster(m, structure)
    \/ \E m \in MasterNames, flag \in BOOLEAN : SetDisabled(m, flag)
    \/ \E e \in Editors, m \in MasterNames :
          \/ \E structure \in Structures : LockMasters(e, m, structure)
          \/ AskDelete(e, m)
          \/ \E d \in Referrers : ValidateLink(e, d, m)
    \/ \E e \in Editors : AlterMaster(e) \/ DeleteMaster(e) \/ StoreLink(e) \/ LeaveMasters(e)
    \/ \E d \in Referrers : ClearLink(d)

MastersSpec == MastersInit /\ [][MastersNext]_masterVars

-----------------------------------------------------------------------------
(* Properties *)

\* "Structural master fields cannot be reinterpreted after they are referenced":
\* a stored row means what it meant when it was validated, also when the master
\* was changed while the row was being saved.  A master that was deleted between
\* its reference check and its transaction is the exception.
MastersKeepTheirMeaning ==
    \A d \in Referrers :
        LET m == refersTo[d]
        IN  m # NoMaster /\ m \notin deleted =>
                master[m] # NoMaster /\ basis[d] = master[m].structure

=============================================================================

---------------------------- MODULE Receivables ----------------------------
(***************************************************************************)
(* What the document workflows promise about bills and their settlement:   *)
(* every submit, cancel and discard happens at one instant, on the books   *)
(* as they then are, and either does all of its work or none of it.        *)
(***************************************************************************)
EXTENDS BillRules

\* Saved drafts: validate() has set what every bill has outstanding.
BooksInit ==
    /\ status = [d \in Documents |-> "draft"]
    /\ outstanding = [b \in Bills |-> Opening(b)]
    /\ floored = {}

\* Document.submit of an invoice, a return, a payment or a journal entry.
Submit(d) ==
    /\ status[d] = "draft"
    /\ Valid(d)
    /\ status' = [status EXCEPT ![d] = "submitted"]
    /\ outstanding' = [b \in Bills |-> IF b \in {d} \cup Refs(d) THEN PostedOn(d, b)
                                       ELSE outstanding[b]]
    /\ floored' = floored \cup CutOff(d)

\* Document.cancel: nothing that is still submitted depends on d.
Cancel(d) ==
    /\ status[d] = "submitted"
    /\ Releasable(d)
    /\ status' = [status EXCEPT ![d] = "cancelled"]
    /\ outstanding' = [b \in Bills |-> IF b \in {d} \cup Refs(d) THEN ReversedOn(d, b)
                                       ELSE outstanding[b]]
    /\ UNCHANGED floored

\* Document.discard: void a draft, keeping its row.
Discard(d) ==
    /\ status[d] = "draft"
    /\ status' = [status EXCEPT ![d] = "discarded"]
    /\ UNCHANGED <<outstanding, floored>>

BooksNext == \E d \in Documents : Submit(d) \/ Cancel(d) \/ Discard(d)

BooksSpec == BooksInit /\ [][BooksNext]_books

=============================================================================

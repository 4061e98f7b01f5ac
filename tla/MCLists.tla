------------------------------ MODULE MCLists ------------------------------
(***************************************************************************)
(* Three documents and three masters, each with a tie and a row without a  *)
(* value; one is created, one discarded and one changed while two readers  *)
(* ask for lists.                                                          *)
(***************************************************************************)
EXTENDS Lists, TLC

CONSTANTS pen, ink

MCKind == [n \in Names |-> IF n <= 3 THEN "document" ELSE "master"]
Row(value, words) == [status |-> "open", value |-> value, words |-> words, hidden |-> FALSE]
MCRow0 == (1 :> Row(-1, {pen}) @@ 2 :> Row(-1, {ink}) @@ 3 :> Row(Null, {pen}))
          @@ (4 :> Row(Null, {pen}) @@ 5 :> Row(2, {pen}) @@ 6 :> Row(2, {pen}))
MCChanges == {[name |-> 1, row |-> [Row(-1, {pen}) EXCEPT !.hidden = TRUE]],
              [name |-> 3, row |-> Row(0, {pen})],
              [name |-> 5, row |-> [Row(Null, {pen}) EXCEPT !.status = "shut"]]}
Query(kind, column, order) ==
    [kind |-> kind, status |-> All, hidden |-> FALSE, search |-> All, column |-> column, order |-> order, hours |-> 0]
MCQueries == {Query("document", "value", "desc"),
              [Query("document", "value", "asc") EXCEPT !.hours = 2],
              [Query("master", "value", "desc") EXCEPT !.status = "open", !.search = pen]}
MCOneProcess == [x \in ListReaders \cup ListWriters |-> "p1"]
MCTwoProcesses == [x \in ListReaders \cup ListWriters |-> IF x = "reader" THEN "p2" ELSE "p1"]
=============================================================================

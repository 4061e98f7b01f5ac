-------------------------- MODULE StatementImport --------------------------
(***************************************************************************)
(* Import of bank statements.  An upload holds one or more CAMT files, is  *)
(* previewed, is read statement by statement in one transaction, and may   *)
(* be repeated, at the same time or after a lost answer; banks export the  *)
(* same bookings again in other files.  Unique indexes on the source and   *)
(* on the external id decide between transactions that overlap.            *)
(***************************************************************************)
EXTENDS Integers, Sequences, FiniteSets, Functions

CONSTANTS
    StatementNodes, \* [source, statement, iban, opening, closing, entries]; an entry is
                    \*   [booking, service, own, details, amount, booked, dated], where
                    \*   service and own are the references the bank gave and details
                    \*   the transactions of a batch, [uetr, amount]
    Uploads,        \* sequences of statements
    BankIds,        \* Bank Accounts
    IbanOf,         \* IbanOf[b]
    ClosedIds,      \* the disabled ones
    Importers,
    NoReference,
    NotProvided     \* what a bank writes for "no reference"

VARIABLES
    imports,        \* rows of Bank Statement Import: [source, statement]
    bankLines,      \* rows of Bank Transaction: [id, booking, source, account, amount, details]
    importer        \* importer[i]: [upload, mapping, todo, imports, lines] of an open upload

importVars == <<imports, bankLines, importer>>

NoUpload == [upload |-> <<>>, mapping |-> {}, todo |-> {}, imports |-> {}, lines |-> {}]

EntriesAmount(N, row) == SumFunctionOnSet([n \in N |-> row[n].amount], N)

-----------------------------------------------------------------------------
(* Reading a statement *)

\* _meaningful_reference
Meaningful(reference) == IF reference = NotProvided THEN NoReference ELSE reference

\* _parse_detail
Detail(d) == [d EXCEPT !.uetr = Meaningful(@)]

\* _parse_entry
Entry(e) == [e EXCEPT !.service = Meaningful(@), !.own = Meaningful(@),
                      !.details = [k \in DOMAIN @ |-> Detail(@[k])]]

BookedEntries(entries) == {n \in DOMAIN entries : entries[n].booked}

\* _parse_statement: its entries, and the warnings that its booked entries do not lead
\* from the opening to the closing balance or have other amounts than their details.
Parsed(node) ==
    LET entries == [n \in DOMAIN node.entries |-> Entry(node.entries[n])]
        batchesAgree == \A n \in DOMAIN entries : LET e == entries[n] IN
                            Len(e.details) > 1 => EntriesAmount(DOMAIN e.details, e.details) = e.amount
        movement == EntriesAmount(BookedEntries(entries), entries)
    IN  [source |-> node.source, statement |-> node.statement, iban |-> node.iban,
         opening |-> node.opening, closing |-> node.closing, entries |-> entries,
         warned |-> ~batchesAgree \/ node.opening + movement # node.closing]

Statements == {Parsed(node) : node \in StatementNodes}

\* Faulty: the reference is only unique within its file.
ExternalId_PerFile(s, n) == <<s.iban, <<"ASR", s.source, s.entries[n].service, n>>>>

\* entry_external_id: the bank's reference, or else the place in the statement.
ExternalId(s, n) ==
    LET e == s.entries[n]
        reference == IF e.service # NoReference THEN <<"ASR", e.service>>
                     ELSE IF e.own # NoReference THEN <<"NTRY", e.own>>
                     ELSE IF Len(e.details) = 1 /\ e.details[1].uetr # NoReference
                     THEN <<"UETR", e.details[1].uetr>>
                     ELSE <<"POSITION", s.statement, n>>
    IN  <<s.iban, reference>>

IsWeak(s, n) == ExternalId(s, n)[2][1] = "POSITION"

\* The references a bank gives an entry, and the reference of its only transaction.
BankReferences(e) ==
    <<e.service, e.own, IF Len(e.details) = 1 THEN e.details[1].uetr ELSE NoReference>>

\* What a bank sends: whole statements, each a file of its own; a booking that always
\* comes with the same references, if any; a reference, or else a place in a statement,
\* that stands for one booking of an account; a booking that is booked or pending in a
\* statement, and only once in it if the balances are right.
ASSUME StatementAssumption ==
    /\ \A u \in Uploads : \A n \in DOMAIN u : u[n] \in StatementNodes
    /\ \A s \in Statements :
          /\ s.opening \in Int /\ s.closing \in Int
          /\ Len(s.entries) \in Nat /\ DOMAIN s.entries = 1..Len(s.entries)
          /\ \A n \in DOMAIN s.entries : s.entries[n].amount \in Int /\ s.entries[n].booked \in BOOLEAN
          /\ \A m, n \in DOMAIN s.entries : s.entries[m].booking = s.entries[n].booking =>
                /\ s.entries[m].booked = s.entries[n].booked
                /\ s.warned \/ ~s.entries[m].booked \/ m = n
    /\ \A s, t \in Statements : s.source = t.source => s = t
    /\ \A s, t \in Statements : \A m \in BookedEntries(s.entries), n \in BookedEntries(t.entries) :
          LET d == s.entries[m]
              e == t.entries[n]
              same == d.booking = e.booking /\ d.amount = e.amount
              p == BankReferences(d)
              q == BankReferences(e)
              unnamed == \A k \in 1..3 : p[k] = NoReference /\ q[k] = NoReference
          IN  /\ d.booking = e.booking => s.iban = t.iban /\ p = q
              /\ s.iban = t.iban /\ (\E k \in 1..3 : p[k] = q[k] /\ p[k] # NoReference) => same
              /\ s.iban = t.iban /\ s.statement = t.statement /\ m = n /\ unnamed => same

Sources(rows) == {r.source : r \in rows}
Ids(rows) == {r.id : r \in rows}

-----------------------------------------------------------------------------
(* Preview and import *)

ImportInit ==
    /\ imports = {} /\ bankLines = {}
    /\ importer = [i \in Importers |-> NoUpload]

\* _matched_bank_account
MatchedAccounts(iban) == {b \in BankIds \ ClosedIds : IbanOf[b] = iban}

\* preview_documents: statements not imported before come with the account of their
\* IBAN, which the import page and the chat tool then send as the mapping.
PreviewUpload(i, upload) ==
    /\ importer[i] = NoUpload
    /\ LET unseen == {n \in DOMAIN upload : upload[n].source \notin Sources(imports)}
           proposed == {[source |-> upload[n].source, account |-> b] :
                            n \in unseen, b \in BankIds}
           mapping == {m \in proposed : \E n \in unseen :
                          upload[n].source = m.source /\ m.account \in MatchedAccounts(upload[n].iban)}
       IN  importer' = [importer EXCEPT ![i].upload = upload, ![i].mapping = mapping]
    /\ UNCHANGED <<imports, bankLines>>

\* _load_and_validate_mapping
Mapped(mapping, s) ==
    {m.account : m \in {m \in mapping : /\ m.source = s.source /\ m.account \notin ClosedIds
                                        /\ IbanOf[m.account] = s.iban}}

\* The first loop of import_documents: sources imported before, and repeated ones,
\* are skipped.
Prepared(upload) ==
    {n \in DOMAIN upload : /\ upload[n].source \notin Sources(imports)
                           /\ \A m \in 1..(n-1) : upload[m].source # upload[n].source}

\* Every statement to be read needs a mapping; without one the request is refused.
StartImport(i) ==
    /\ importer[i].upload # <<>> /\ importer[i].todo = {} /\ importer[i].imports = {}
    /\ LET upload == importer[i].upload
       IN  /\ Prepared(upload) # {}
           /\ \A n \in Prepared(upload) : Mapped(importer[i].mapping, upload[n]) # {}
           /\ importer' = [importer EXCEPT ![i].todo = Prepared(upload)]
    /\ UNCHANGED <<imports, bankLines>>

\* The booked entries whose id is new, the first one of each id.
NewEntries(s, known) ==
    {n \in DOMAIN s.entries :
        /\ s.entries[n].booked /\ ExternalId(s, n) \notin known
        /\ \A m \in 1..(n-1) : s.entries[m].booked => ExternalId(s, m) # ExternalId(s, n)}

\* _detail_row: the transactions of a batch stay below its one line.
DetailIds(s, n) ==
    LET row(k) == LET uetr == s.entries[n].details[k].uetr IN IF uetr = NoReference THEN k ELSE uetr
    IN  [k \in DOMAIN s.entries[n].details |-> <<ExternalId(s, n), row(k)>>]

\* _insert_transaction
LineOf(s, n, account) ==
    [id |-> ExternalId(s, n), booking |-> s.entries[n].booking, source |-> s.source,
     account |-> account, amount |-> s.entries[n].amount, details |-> DetailIds(s, n)]

\* A statement, read against what is committed and what the upload wrote before.
AfterFile(u, n, account) ==
    LET s == u.upload[n]
        known == Ids(bankLines) \cup Ids(u.lines)
    IN  [u EXCEPT !.todo = @ \ {n},
                  !.lines = @ \cup {LineOf(s, m, account) : m \in NewEntries(s, known)},
                  !.imports = @ \cup {[source |-> s.source, statement |-> s.statement]}]

\* The next statement of the upload; a booked entry without any date stops the import.
ImportFile(i) ==
    /\ LET u == importer[i]
       IN  \E n \in u.todo :
              /\ \A m \in u.todo : n <= m
              /\ \A m \in BookedEntries(u.upload[n].entries) : u.upload[n].entries[m].dated
              /\ \E account \in Mapped(u.mapping, u.upload[n]) :
                    importer' = [importer EXCEPT ![i] = AfterFile(u, n, account)]
    /\ UNCHANGED <<imports, bankLines>>

\* The unique indexes let the transaction through.
CommitImport(i) ==
    /\ importer[i].todo = {} /\ importer[i].imports # {}
    /\ Sources(importer[i].imports) \cap Sources(imports) = {}
    /\ Ids(importer[i].lines) \cap Ids(bankLines) = {}
    /\ imports' = imports \cup importer[i].imports
    /\ bankLines' = bankLines \cup importer[i].lines
    /\ importer' = [importer EXCEPT ![i] = NoUpload]

\* The user leaves the preview, or an index, a missing mapping or date, or a crash rolls
\* all of the upload back.
AbortImport(i) ==
    /\ importer[i] # NoUpload
    /\ importer' = [importer EXCEPT ![i] = NoUpload]
    /\ UNCHANGED <<imports, bankLines>>

\* The uploads as parse_camt_xml reads them.
ParsedUploads == {[n \in DOMAIN u |-> Parsed(u[n])] : u \in Uploads}

ImportNext ==
    \E i \in Importers : \/ \E u \in ParsedUploads : PreviewUpload(i, u)
                         \/ StartImport(i) \/ ImportFile(i) \/ CommitImport(i) \/ AbortImport(i)

ImportSpec == ImportInit /\ [][ImportNext]_importVars

-----------------------------------------------------------------------------
(* Properties *)

\* "Exact source re-uploads are skipped ... stable per-entry references prevent
\* duplicate Bank Transactions": a booking the bank names is one Bank Transaction of
\* the account it was booked on, however many files bring it and whoever uploads them
\* at once; an imported statement has all of its booked entries in the books and none
\* of the others; and the lines of a statement without warnings lead from its opening
\* to its closing balance, so that nothing of it is left out as a duplicate.
EachBookingImportedOnce ==
    /\ \A r \in bankLines : (\E q \in bankLines \ {r} : q.booking = r.booking) =>
          \E s \in Statements : \E n \in DOMAIN s.entries :
              s.entries[n].booking = r.booking /\ IsWeak(s, n)
    /\ \A s \in Statements : s.source \in Sources(imports) =>
          LET rows == {r \in bankLines : \E n \in BookedEntries(s.entries) : r.id = ExternalId(s, n)}
          IN  /\ \A n \in DOMAIN s.entries :
                    IF s.entries[n].booked
                    THEN \E r \in rows : r.booking = s.entries[n].booking
                    ELSE \A r \in bankLines : r.source = s.source => r.booking # s.entries[n].booking
              /\ \A r \in rows : IbanOf[r.account] = s.iban
              /\ ~s.warned => SumFunctionOnSet([r \in rows |-> r.amount], rows) = s.closing - s.opening

=============================================================================

------------------------------ MODULE TeamNotes ------------------------------
(***************************************************************************)
(* Internal notes on records, and the inbox of those whom a note mentions, *)
(* on PostgreSQL.  Every change of a note is one transaction of several    *)
(* statements; a statement sees what is committed when it starts and locks *)
(* the rows that it changes until its transaction ends.  Nothing locks the *)
(* record that a note is about.  The text of a note is the set of the      *)
(* colleagues that it mentions.                                            *)
(***************************************************************************)
EXTENDS Integers, FiniteSets

CONSTANTS
    Annotated,       \* names of records that take notes
    Team,           \* colleagues
    Moderators,         \* those among them who may delete every note
    Texts,          \* texts of notes
    Tickets,        \* request ids that a caller chooses
    NoteWorkers,    \* requests under way
    NoNote,
    MaxNotes, MaxTasks      \* bounds

ASSUME NotesAssumption ==
    /\ Moderators \subseteq Team /\ \A text \in Texts : text \subseteq Team
    /\ MaxNotes \in Nat

NoteIds == 1..MaxNotes

VARIABLES
    subjects,       \* the records there are
    teamNote,       \* teamNote[n]: NoNote, or [about, author, text]
    inbox,          \* mentions: [note, user, read, done]
    ticketed,       \* Mention Request: [who, ticket, about, text, note]
    task,           \* task[w]: the transaction of a worker
    drawn,          \* note ids drawn, by committed and by other transactions
    tasks           \* transactions begun

noteVars == <<subjects, teamNote, inbox, ticketed, task, drawn, tasks>>

NoTask == [at |-> "idle", kind |-> "none", who |-> NoNote, about |-> NoNote, text |-> {},
           ticket |-> NoNote, note |-> 0, notes |-> {}, plus |-> {}, minus |-> {}, rows |-> {}]
NoteRow(n) == <<"note", n>>
MentionRow(n, u) == <<"mention", n, u>>
Rows(w) == task[w].rows

\* No other transaction has a lock on any of these rows.
Unlocked(w, rows) == \A v \in NoteWorkers \ {w} : Rows(v) \cap rows = {}

NotedUsers(n) == {m.user : m \in {e \in inbox : e.note = n}}
NotesOn(about) == {n \in NoteIds : teamNote[n] # NoNote /\ teamNote[n].about = about}

\* _resolve: a note is shown as long as its record is there.
NoteShown(n) == teamNote[n] # NoNote /\ teamNote[n].about \in subjects

\* list_my_mentions: the mentions of a colleague, as far as their notes are shown.
MyMentions(u) == {m \in inbox : m.user = u /\ NoteShown(m.note)}

NotesInit ==
    /\ subjects = Annotated
    /\ teamNote = [n \in NoteIds |-> NoNote]
    /\ inbox = {} /\ ticketed = {}
    /\ task = [w \in NoteWorkers |-> NoTask]
    /\ drawn = 0 /\ tasks = 0

Begins(w, t) ==
    /\ task[w].at = "idle" /\ tasks < MaxTasks
    /\ task' = [task EXCEPT ![w] = t]
    /\ tasks' = tasks + 1
    /\ UNCHANGED <<subjects, teamNote, inbox, ticketed, drawn>>

Goes(w, t) ==
    /\ task' = [task EXCEPT ![w] = t]
    /\ UNCHANGED <<subjects, teamNote, inbox, ticketed, drawn, tasks>>

Fails(w) ==
    /\ task' = [task EXCEPT ![w] = NoTask]
    /\ UNCHANGED <<subjects, teamNote, inbox, ticketed, drawn, tasks>>

\* The mentions once these are added, unread, and those removed.
Delivered(plus, minus) ==
    {m \in inbox : <<m.note, m.user>> \notin minus}
    \cup {[note |-> p[1], user |-> p[2], read |-> FALSE, done |-> FALSE] : p \in plus}

-----------------------------------------------------------------------------
(* Adding a note *)

\* add_record_note: the record is there.
BeginNote(w, who, about, text, ticket) ==
    /\ about \in subjects
    /\ Begins(w, [NoTask EXCEPT !.at = "claim", !.kind = "add", !.who = who, !.about = about,
                                !.text = text, !.ticket = ticket])

\* Another transaction has inserted the same request and has not ended.
TicketHeld(w) ==
    \E v \in NoteWorkers \ {w} : /\ task[v].at \in {"write", "resolve"}
                                 /\ task[v].who = task[w].who /\ task[v].ticket = task[w].ticket

\* The request that a repeated call repeats, if any.
Earlier(w) == {e \in ticketed : e.who = task[w].who /\ e.ticket = task[w].ticket}

\* INSERT ... ON CONFLICT DO NOTHING waits for the other; a repeated call is answered
\* with the note that was saved, one for another note is refused.
ClaimTicket(w) ==
    /\ task[w].at = "claim" /\ ~TicketHeld(w)
    /\ IF Earlier(w) = {} THEN Goes(w, [task[w] EXCEPT !.at = "write"]) ELSE Fails(w)

\* create_note and sync_note_mentions: nobody else knows the new note yet.
WriteNote(w) ==
    /\ task[w].at = "write" /\ drawn < MaxNotes
    /\ IF task[w].text # {} /\ task[w].about \notin subjects THEN Fails(w)
       ELSE LET n == drawn + 1
                plus == {n} \X task[w].text
            IN  /\ task' = [task EXCEPT ![w] =
                      [task[w] EXCEPT !.at = "resolve", !.note = n, !.plus = plus,
                          !.rows = {NoteRow(n)} \cup {MentionRow(p[1], p[2]) : p \in plus}]]
                /\ drawn' = n
                /\ UNCHANGED <<subjects, teamNote, inbox, ticketed, tasks>>

\* resolve_note finds the note unless the record has gone; then the commit.
CommitNote(w) ==
    LET t == task[w]
    IN  /\ t.at = "resolve"
        /\ IF t.about \notin subjects THEN Fails(w)
           ELSE /\ teamNote' = [teamNote EXCEPT ![t.note] =
                                  [about |-> t.about, author |-> t.who, text |-> t.text]]
                /\ inbox' = Delivered(t.plus, {})
                /\ ticketed' = ticketed \cup
                     {[who |-> t.who, ticket |-> t.ticket, about |-> t.about, text |-> t.text, note |-> t.note]}
                /\ task' = [task EXCEPT ![w] = NoTask]
                /\ UNCHANGED <<subjects, drawn, tasks>>

-----------------------------------------------------------------------------
(* Changing and deleting a note *)

\* update_record_note: only by its author, while the record is there.
BeginEdit(w, who, n, text) ==
    /\ NoteShown(n) /\ teamNote[n].author = who
    /\ Begins(w, [NoTask EXCEPT !.at = "edit", !.kind = "edit", !.note = n,
                                !.about = teamNote[n].about, !.text = text])

\* UPDATE locks the note, or finds that it has gone.
EditText(w) ==
    LET n == task[w].note
    IN  /\ task[w].at = "edit" /\ Unlocked(w, {NoteRow(n)})
        /\ Goes(w, [task[w] EXCEPT !.at = "sync",
                    !.rows = IF teamNote[n] = NoNote THEN {} ELSE {NoteRow(n)}])

\* Faulty: those who are no longer mentioned keep the mention.
Dropped_Nobody(n, text) == {}

\* sync_note_mentions: who is no longer mentioned, and who is now.
Dropped(n, text) == {n} \X (NotedUsers(n) \ text)
Added(n, text) == {n} \X (text \ NotedUsers(n))

\* A text without mentions, of a note that had none, asks for nothing.
SyncMentions(w) ==
    LET t == task[w]
        plus == Added(t.note, t.text)
        minus == Dropped(t.note, t.text)
        rows == {MentionRow(p[1], p[2]) : p \in plus \cup minus}
    IN  /\ t.at = "sync" /\ Unlocked(w, rows)
        /\ IF (t.text \cup NotedUsers(t.note)) # {} /\ t.about \notin subjects THEN Fails(w)
           ELSE Goes(w, [t EXCEPT !.at = "commit", !.plus = plus, !.minus = minus,
                             !.rows = t.rows \cup rows])

\* delete_record_note: by its author or an admin.
BeginDelete(w, who, n) ==
    /\ NoteShown(n) /\ (teamNote[n].author = who \/ who \in Moderators)
    /\ Begins(w, [NoTask EXCEPT !.at = "unnotify", !.kind = "delete", !.notes = {n}])

\* delete_master_record: the notes of the record that there are now.
BeginRetire(w, about) ==
    /\ about \in subjects
    /\ Begins(w, [NoTask EXCEPT !.at = "unnotify", !.kind = "retire", !.about = about,
                                !.notes = NotesOn(about)])

\* The mentions of those notes go first ...
Unnotify(w) ==
    LET gone == UNION {{n} \X NotedUsers(n) : n \in task[w].notes}
        rows == {MentionRow(p[1], p[2]) : p \in gone}
    IN  /\ task[w].at = "unnotify" /\ Unlocked(w, rows)
        /\ Goes(w, [task[w] EXCEPT !.at = "unnote", !.minus = gone, !.rows = rows])

\* ... then the notes: the one, or all that the record has by now.
Unnote(w) ==
    LET t == task[w]
        gone == IF t.kind = "retire" THEN NotesOn(t.about) ELSE {n \in t.notes : teamNote[n] # NoNote}
        rows == {NoteRow(n) : n \in gone}
    IN  /\ t.at = "unnote" /\ Unlocked(w, rows)
        /\ Goes(w, [t EXCEPT !.at = "commit", !.notes = gone, !.rows = t.rows \cup rows])

\* The commit of a change, of a deletion, or of a record that is deleted.
CommitTask(w) ==
    LET t == task[w]
        gone(n) == t.kind # "edit" /\ n \in t.notes
        changed(n) == t.kind = "edit" /\ n = t.note /\ teamNote[n] # NoNote
    IN  /\ t.at = "commit"
        /\ teamNote' = [n \in NoteIds |-> IF gone(n) THEN NoNote
                                          ELSE IF changed(n) THEN [teamNote[n] EXCEPT !.text = t.text]
                                          ELSE teamNote[n]]
        /\ inbox' = Delivered(t.plus, t.minus)
        /\ subjects' = IF t.kind = "retire" THEN subjects \ {t.about} ELSE subjects
        /\ task' = [task EXCEPT ![w] = NoTask]
        /\ UNCHANGED <<ticketed, drawn, tasks>>

\* A deadlock's victim, a lost connection, a process that dies: all is rolled back.
RollBackTask(w) == task[w].at # "idle" /\ Fails(w)

-----------------------------------------------------------------------------
(* The rest *)

\* A record with the name of one that was deleted.
CreateSubject(about) ==
    /\ about \notin subjects /\ tasks < MaxTasks
    /\ subjects' = subjects \cup {about} /\ tasks' = tasks + 1
    /\ UNCHANGED <<teamNote, inbox, ticketed, task, drawn>>

\* set_mention_state: done is read as well, unread is open again.
Marked(m, state) ==
    [m EXCEPT !.read = CASE state \in {"read", "done"} -> TRUE [] state = "unread" -> FALSE
                         [] state = "reopen" -> @,
              !.done = CASE state = "done" -> TRUE [] state \in {"unread", "reopen"} -> FALSE
                         [] state = "read" -> @]

\* By the recipient, for a mention that is shown.
SetMentionState(m, state) ==
    /\ NoteShown(m.note)
    /\ \A w \in NoteWorkers : MentionRow(m.note, m.user) \notin Rows(w)
    /\ inbox' = (inbox \ {m}) \cup {Marked(m, state)}
    /\ inbox' # inbox
    /\ UNCHANGED <<subjects, teamNote, ticketed, task, drawn, tasks>>

NotesNext ==
    \/ \E w \in NoteWorkers :
          \/ \E who \in Team, about \in Annotated, text \in Texts, k \in Tickets :
                BeginNote(w, who, about, text, k)
          \/ \E who \in Team, n \in NoteIds :
                BeginDelete(w, who, n) \/ \E text \in Texts : BeginEdit(w, who, n, text)
          \/ \E about \in Annotated : BeginRetire(w, about)
          \/ ClaimTicket(w) \/ WriteNote(w) \/ CommitNote(w)
          \/ EditText(w) \/ SyncMentions(w) \/ Unnotify(w) \/ Unnote(w)
          \/ CommitTask(w) \/ RollBackTask(w)
    \/ \E about \in Annotated : CreateSubject(about)
    \/ \E m \in inbox, s \in {"read", "unread", "done", "reopen"} : SetMentionState(m, s)

NotesSpec == NotesInit /\ [][NotesNext]_noteVars

-----------------------------------------------------------------------------
(* Properties *)

\* A note that is asked for again under the same request is not saved again, and of
\* every note that is shown exactly those find a mention in their inbox whom its text,
\* as it now is, mentions: no edit, deletion or retry between loses or leaves one.
InboxFollowsNotes ==
    /\ \A d, e \in ticketed : d.who = e.who /\ d.ticket = e.ticket => d = e
    /\ \A n \in NoteIds : NoteShown(n) =>
          {u \in Team : \E m \in MyMentions(u) : m.note = n} = teamNote[n].text
=============================================================================

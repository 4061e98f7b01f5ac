------------------------------ MODULE Replicas ------------------------------
(***************************************************************************)
(* Processes that share one PostgreSQL database: replicas, and the old and *)
(* the new revision during a deploy.  Each brings the schema up to date    *)
(* when it boots, under an advisory lock, and then takes document numbers  *)
(* from the shared naming series.  A process may die at any moment; its    *)
(* connections close and what it had not committed is undone.              *)
(***************************************************************************)
EXTENDS Integers, FiniteSetsExt

CONSTANTS
    Processes,
    Knows,       \* Knows[p]: the migrations in the revision of process p
    Required,    \* migrations whose failure keeps a process from starting
    Splitting,   \* migrations that commit on their own, before their marker
    Taken,       \* numbers in names stored before the series was first used
    MaxNumber,   \* bound on the numbers handed out
    Nobody

Versions == UNION {Knows[p] : p \in Processes}

ASSUME ReplicaAssumption ==
    /\ Knows \in [Processes -> SUBSET Nat]
    /\ Required \subseteq Versions /\ Splitting \subseteq Versions
    /\ MaxNumber \in Nat /\ Taken \subseteq 1..MaxNumber
    /\ Nobody \notin Processes

VARIABLES
    markers,     \* versions recorded in "_SchemaMigrations"
    work,        \* work[v]: how often the changes of migration v were committed
    startup,     \* the process that holds the advisory lock
    proc,        \* proc[p]: where process p stands and what it has read
    current,     \* "_NamingSeries".current of one prefix, -1 without a row
    stored       \* numbers in the names of stored records

replicaVars == <<markers, work, startup, proc, current, stored>>

Down == [at |-> "down", seen |-> {}, number |-> 0]
Goto(p, at) == proc' = [proc EXCEPT ![p].at = at]
Count(n) == IF n < 2 THEN n + 1 ELSE n

ReplicaInit ==
    /\ markers = {}
    /\ work = [v \in Versions |-> 0]
    /\ startup = Nobody
    /\ proc = [p \in Processes |-> Down]
    /\ current = -1
    /\ stored = Taken

-----------------------------------------------------------------------------
(* Booting *)

\* Faulty: processes do not wait for each other.
StartupLock_None(p) ==
    /\ proc[p].at = "down"
    /\ proc' = [proc EXCEPT ![p].at = "migrate", ![p].seen = markers]
    /\ UNCHANGED <<markers, work, startup, current, stored>>

\* startup_lock, and what _migrate reads first: the versions applied so far.
StartupLock(p) ==
    /\ proc[p].at = "down" /\ startup = Nobody
    /\ startup' = p
    /\ proc' = [proc EXCEPT ![p].at = "migrate", ![p].seen = markers]
    /\ UNCHANGED <<markers, work, current, stored>>

Pending(p) == Knows[p] \ proc[p].seen

\* A migration that alters tables lock-safely commits its changes as it goes.
CommitPart(p) ==
    /\ proc[p].at = "migrate" /\ Pending(p) # {} /\ Min(Pending(p)) \in Splitting
    /\ work' = [work EXCEPT ![Min(Pending(p))] = Count(@)]
    /\ Goto(p, "mark")
    /\ UNCHANGED <<markers, startup, current, stored>>

\* The marker is unique; it is committed with the changes not yet committed.
Mark(p) ==
    /\ Pending(p) # {}
    /\ LET v == Min(Pending(p))
       IN  /\ proc[p].at = IF v \in Splitting THEN "mark" ELSE "migrate"
           /\ v \notin markers
           /\ markers' = markers \cup {v}
           /\ work' = IF v \in Splitting THEN work ELSE [work EXCEPT ![v] = Count(@)]
           /\ proc' = [proc EXCEPT ![p].at = "migrate", ![p].seen = @ \cup {v}]
    /\ UNCHANGED <<startup, current, stored>>

\* A migration or its marker fails and is rolled back.  The early ones are best
\* effort and stay pending for the next boot; a required one ends the process.
MigrationFails(p) ==
    /\ proc[p].at \in {"migrate", "mark"} /\ Pending(p) # {}
    /\ LET v == Min(Pending(p))
       IN  IF v \in Required
           THEN /\ proc' = [proc EXCEPT ![p] = Down]
                /\ startup' = IF startup = p THEN Nobody ELSE startup
           ELSE /\ proc' = [proc EXCEPT ![p].at = "migrate", ![p].seen = @ \cup {v}]
                /\ UNCHANGED startup
    /\ UNCHANGED <<markers, work, current, stored>>

\* The lock is given back and the process serves.
Serve(p) ==
    /\ proc[p].at = "migrate" /\ Pending(p) = {}
    /\ startup' = IF startup = p THEN Nobody ELSE startup
    /\ Goto(p, "serving")
    /\ UNCHANGED <<markers, work, current, stored>>

\* A process dies; its lock and its uncommitted work go with its connections.
Die(p) ==
    /\ proc[p].at # "down"
    /\ proc' = [proc EXCEPT ![p] = Down]
    /\ startup' = IF startup = p THEN Nobody ELSE startup
    /\ UNCHANGED <<markers, work, current, stored>>

-----------------------------------------------------------------------------
(* Naming; one request of a process at a time, as _series_lock has it *)

\* UPDATE ... SET current = current + 1 ... RETURNING, on its own connection.
TakeNumber(p) ==
    /\ proc[p].at \in {"serving", "seeded"} /\ current >= 0 /\ current < MaxNumber
    /\ current' = current + 1
    /\ proc' = [proc EXCEPT ![p].at = "named", ![p].number = current + 1]
    /\ UNCHANGED <<markers, work, startup, stored>>

\* _series_floor, when there is no row to update.
ReadFloor(p) ==
    /\ proc[p].at = "serving" /\ current = -1
    /\ proc' = [proc EXCEPT ![p].at = "seeding", ![p].number = Max(stored \cup {0})]
    /\ UNCHANGED <<markers, work, startup, current, stored>>

\* Faulty: the later of two seeds replaces the row.
Seed_Overwrites(p) ==
    /\ proc[p].at = "seeding"
    /\ current' = proc[p].number
    /\ Goto(p, "seeded")
    /\ UNCHANGED <<markers, work, startup, stored>>

\* INSERT ... ON CONFLICT DO UPDATE SET current = GREATEST(...).
SeedSeries(p) ==
    /\ proc[p].at = "seeding"
    /\ current' = Max({current, proc[p].number})
    /\ Goto(p, "seeded")
    /\ UNCHANGED <<markers, work, startup, stored>>

\* The connection of the series is lost, before or after the number was taken.
Reconnect(p) ==
    /\ proc[p].at \in {"seeding", "seeded", "named"}
    /\ Goto(p, "serving")
    /\ UNCHANGED <<markers, work, startup, current, stored>>

\* The record is stored under its number.
StoreRecord(p) ==
    /\ proc[p].at = "named"
    /\ stored' = stored \cup {proc[p].number}
    /\ Goto(p, "serving")
    /\ UNCHANGED <<markers, work, startup, current>>

ReplicaNext ==
    \E p \in Processes :
        \/ StartupLock(p) \/ CommitPart(p) \/ Mark(p) \/ MigrationFails(p) \/ Serve(p) \/ Die(p)
        \/ TakeNumber(p) \/ ReadFloor(p) \/ SeedSeries(p) \/ Reconnect(p) \/ StoreRecord(p)

ReplicaSpec == ReplicaInit /\ [][ReplicaNext]_replicaVars

-----------------------------------------------------------------------------
(* Properties *)

\* "makes the others wait and then find the work done": once a migration is marked
\* nobody does its work again, and who serves has every required migration.
MigratedOnceThenServed ==
    [][/\ \A v \in markers : work'[v] = work[v]
       /\ \A p \in Processes : proc'[p].at \notin {"down", "migrate", "mark"} =>
              Required \cap Knows[p] \subseteq markers']_replicaVars

\* "never handed out again": a number in use by a request belongs to no stored
\* record and to no other request, however the series was first seeded.
NumbersAreFresh ==
    \A p \in Processes : proc[p].at = "named" =>
        /\ proc[p].number \notin stored
        /\ \A q \in Processes \ {p} : proc[q].at = "named" => proc[q].number # proc[p].number
=============================================================================

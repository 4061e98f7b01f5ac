---------------------------- MODULE Reservations ----------------------------
(***************************************************************************)
(* Rental assets and their calendar.  Machines (Asset) belong to a pool,   *)
(* an item at a warehouse.  A booking (Reservation) holds one machine or a *)
(* number of unnamed machines of a pool over a half-open window, for a     *)
(* customer and possibly for a voucher.  Clerks are requests that save or  *)
(* discard bookings, machines and vouchers in concurrent transactions on   *)
(* PostgreSQL; a request reads committed rows and writes when it commits.  *)
(***************************************************************************)
EXTENDS Integers, FiniteSets, Functions

CONSTANTS
    Machines, Pools,
    ItemOf,        \* ItemOf[p]: the item of pool p
    Bookings,      \* names of reservations
    Wishes,        \* the contents users may give a booking
    Refits,        \* the contents users may give a machine
    RentalPapers,  \* quotations, orders and invoices bookings may belong to
    Customers, Moments,
    RentalRank,    \* RentalRank[r]: the place of row r in the order of locking
    Clerks, NoMachine, NoPaper, NoClaim, Closed, AnyPool

Items == {ItemOf[p] : p \in Pools}
RentalRows == Bookings \cup Machines \cup RentalPapers

\* A row of the table: a machine of the pool, or qty of them, from one moment to another.
BookingRecord == [status : {"Reserved", "Out", "Returned", "Discarded"},
                  pool : Pools \cup {AnyPool}, machine : Machines \cup {NoMachine}, qty : Nat,
                  from : Moments, to : Moments, voucher : RentalPapers \cup {NoPaper},
                  customer : Customers]

\* The tables are apart, and what stands for no machine, voucher, booking or claim is none.
ASSUME RentalAssumption ==
    /\ Wishes \subseteq BookingRecord /\ Refits \subseteq [pool : Pools, usable : BOOLEAN]
    /\ IsFiniteSet(Bookings) /\ IsFiniteSet(Machines) /\ Moments \subseteq Int
    /\ NoMachine \notin Machines /\ NoPaper \notin RentalPapers
    /\ Bookings \cap Machines = {} /\ (Bookings \cup Machines) \cap RentalPapers = {}
    /\ RentalRank \in [RentalRows \cup Items -> Nat]
    /\ NoClaim \notin BookingRecord /\ NoClaim \notin [pool : Pools, usable : BOOLEAN]
    /\ NoClaim \notin [pool : Pools, machine : Machines \cup {NoMachine}, qty : Nat,
                       from : Moments, to : Moments, voucher : RentalPapers \cup {NoPaper},
                       customer : Customers]

VARIABLES
    units,         \* units[m]: pool, and whether the machine may be hired out
    bookings,      \* bookings[b]: the stored reservation, or NoClaim
    papers,        \* papers[v]: whether voucher v stands, and its customer
    clerk          \* what every request is doing

rentalVars == <<units, bookings, papers, clerk>>

Idle == [at |-> "rest", row |-> NoPaper, new |-> NoClaim, want |-> {}, held |-> {}]

-----------------------------------------------------------------------------
(* Availability *)

Blocking(b) == bookings[b] # NoClaim /\ bookings[b].status \in {"Reserved", "Out"}
Pinned(w) == w.machine # NoMachine

\* The pool and quantity a wish is saved with: those of its machine if it names one.
PoolOf(w) == IF Pinned(w) THEN units[w.machine].pool ELSE w.pool
QtyOf(w) == IF Pinned(w) THEN 1 ELSE w.qty

\* overlapping_reservations: `existing.from < new.to AND existing.to > new.from`.
Overlapping(b, w) ==
    {c \in Bookings \ {b} : Blocking(c) /\ bookings[c].from < w.to /\ bookings[c].to > w.from}

UsableIn(p) == {m \in Machines : units[m].pool = p /\ units[m].usable}

\* _check_availability.
Available(b, w) ==
    LET inPool == {c \in Overlapping(b, w) : bookings[c].pool = PoolOf(w)}
    IN  /\ Pinned(w) => \A c \in Overlapping(b, w) : bookings[c].machine # w.machine
        /\ UsableIn(PoolOf(w)) # {}
        /\ SumFunctionOnSet([c \in inPool |-> bookings[c].qty], inPool) + QtyOf(w)
              <= Cardinality(UsableIn(PoolOf(w)))

-----------------------------------------------------------------------------
(* What a save or a discard checks *)

\* Reservation.validate, with validate_reservation_voucher.
BookingValid(b, w) ==
    /\ w.from < w.to
    /\ Pinned(w) => w.pool \in {AnyPool, units[w.machine].pool}
    /\ ~Pinned(w) => w.pool # AnyPool /\ w.qty > 0
    /\ w.status \in {"Reserved", "Out"} =>
          /\ w.status = "Out" => Pinned(w)
          /\ Pinned(w) => units[w.machine].usable
          /\ w.voucher # NoPaper =>
                papers[w.voucher].stands /\ papers[w.voucher].customer = w.customer
          /\ Available(b, w)

\* validate_asset_change: no active booking depends on the machine.
MachineReleasable(m) ==
    \A b \in Bookings : Blocking(b) =>
        /\ bookings[b].machine # m
        /\ Pinned(bookings[b]) \/ bookings[b].pool # units[m].pool

MachineValid(m, new) ==
    new.pool # units[m].pool \/ ~new.usable => MachineReleasable(m)

BookedOn(v) == {b \in Bookings : Blocking(b) /\ bookings[b].voucher = v}

\* validate_voucher_release and validate_voucher_reservations.
VoucherChangeValid(v, new) ==
    IF new.stands THEN \A b \in BookedOn(v) : bookings[b].customer = new.customer
    ELSE BookedOn(v) = {}

-----------------------------------------------------------------------------
(* Row locks *)

\* lock_rental_references: the rows one version of row r names.
RentalReferences(r, w) ==
    IF r \in RentalPapers THEN {}
    ELSE IF r \in Machines THEN {ItemOf[w.pool]}
    ELSE {x \in {w.machine, w.voucher} : x \in Machines \cup RentalPapers}
         \cup (IF w.pool \in Pools THEN {ItemOf[w.pool]} ELSE {})

\* Faulty: the item of the machine a booking names is not looked up.
RentalItems_Declared(r) == {}

\* The item of a machine, read under the machine's lock, is locked as well.
RentalItems(r) == IF r \in Machines THEN {ItemOf[units[r].pool]} ELSE {}

Stored(r) == IF r \in Bookings THEN bookings[r]
             ELSE IF r \in Machines THEN units[r] ELSE papers[r]

RowFree(r) == \A c \in Clerks : r \notin clerk[c].held

-----------------------------------------------------------------------------
(* Requests *)

RentalInit ==
    /\ units \in [Machines -> {r \in Refits : r.usable}]
    /\ bookings = [b \in Bookings |-> NoClaim]
    /\ papers \in [RentalPapers -> [stands : {TRUE}, customer : Customers]]
    /\ clerk = [c \in Clerks |-> Idle]

NewContents(r) ==
    IF r \in Bookings THEN Wishes
    ELSE IF r \in Machines THEN Refits
    ELSE [stands : BOOLEAN, customer : Customers]

\* The request loads the row, edits it and takes its lock; _check_write_state has
\* refused it if the row changed in between.  A released voucher and a discarded
\* booking are never written again.
RequestRental(c, r, new) ==
    /\ clerk[c].at = "rest" /\ RowFree(r)
    /\ r \in Bookings /\ bookings[r] # NoClaim => bookings[r].status # "Discarded"
    /\ r \in Bookings /\ bookings[r] = NoClaim => new.status # "Discarded"
    /\ r \in RentalPapers => papers[r].stands /\ (~new.stands => new.customer = papers[r].customer)
    /\ new # Stored(r)
    /\ clerk' = [clerk EXCEPT ![c] = [at |-> "refs", row |-> r, new |-> new, held |-> {r},
          want |-> RentalReferences(r, new) \cup
                   (IF Stored(r) # NoClaim THEN RentalReferences(r, Stored(r)) ELSE {})]]
    /\ UNCHANGED <<units, bookings, papers>>

\* The next row to lock, in the sort order of lock_rental_references.
NextRental(c) == CHOOSE r \in clerk[c].want : \A q \in clerk[c].want : RentalRank[r] <= RentalRank[q]

\* One SELECT ... FOR UPDATE; that of a machine also tells its item.
LockRental(c) ==
    /\ clerk[c].at = "refs" /\ clerk[c].want # {}
    /\ RowFree(NextRental(c))
    /\ clerk' = [clerk EXCEPT ![c].held = @ \cup {NextRental(c)},
          ![c].want = (@ \ {NextRental(c)}) \cup (RentalItems(NextRental(c)) \ clerk[c].held)]
    /\ UNCHANGED <<units, bookings, papers>>

RentalValid(r, new) ==
    IF r \in Bookings THEN new.status = "Discarded" \/ BookingValid(r, new)
    ELSE IF r \in Machines THEN MachineValid(r, new)
    ELSE VoucherChangeValid(r, new)

\* A booking is saved with the pool and quantity of its machine.
Resolved(r, w) ==
    IF r \in Bookings THEN [w EXCEPT !.pool = PoolOf(w), !.qty = QtyOf(w)] ELSE w

\* The checks pass on what is committed now; the row is written.
WriteRental(c) ==
    /\ clerk[c].at = "refs" /\ clerk[c].want = {}
    /\ RentalValid(clerk[c].row, clerk[c].new)
    /\ clerk' = [clerk EXCEPT ![c].at = "write", ![c].new = Resolved(clerk[c].row, @)]
    /\ UNCHANGED <<units, bookings, papers>>

CommitRental(c) ==
    /\ clerk[c].at = "write"
    /\ LET r == clerk[c].row
       IN  /\ bookings' = IF r \in Bookings THEN [bookings EXCEPT ![r] = clerk[c].new] ELSE bookings
           /\ units' = IF r \in Machines THEN [units EXCEPT ![r] = clerk[c].new] ELSE units
           /\ papers' = IF r \in RentalPapers THEN [papers EXCEPT ![r] = clerk[c].new] ELSE papers
    /\ clerk' = [clerk EXCEPT ![c] = Idle]

\* A check fails or the connection is lost.
AbortRental(c) ==
    /\ clerk[c].at # "rest"
    /\ clerk' = [clerk EXCEPT ![c] = Idle]
    /\ UNCHANGED <<units, bookings, papers>>

RentalNext ==
    \E c \in Clerks :
        \/ \E r \in RentalRows : \E new \in NewContents(r) : RequestRental(c, r, new)
        \/ LockRental(c) \/ WriteRental(c) \/ CommitRental(c) \/ AbortRental(c)

RentalSpec == RentalInit /\ [][RentalNext]_rentalVars

-----------------------------------------------------------------------------
(* Refinement *)

ClaimOf(b) ==
    IF ~Blocking(b) THEN NoClaim
    ELSE [x \in DOMAIN bookings[b] \ {"status"} |-> bookings[b][x]]

Calendar == INSTANCE RentalCalendar WITH
    claims <- [b \in Bookings |-> ClaimOf(b)],
    fleet <- [p \in Pools |-> UsableIn(p)],
    accounts <- [v \in RentalPapers |-> IF papers[v].stands THEN papers[v].customer ELSE Closed]

\* Whatever requests run at once, their commits are single steps of the rental
\* calendar: no machine is in two places, no pool is overbooked by a pooled and
\* a pinned booking that did not see each other, and no booking outlives its
\* voucher or its machine.
KeepsCalendarPromise == Calendar!CalendarSpec

=============================================================================

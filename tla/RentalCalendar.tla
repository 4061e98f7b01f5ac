--------------------------- MODULE RentalCalendar ---------------------------
(***************************************************************************)
(* What the rental calendar promises, one change at a time: every claim on *)
(* machines can be met at every moment of its window, on machines that are *)
(* in the fleet of their pool, and belongs to an open voucher of the same  *)
(* customer.  Reservations shows that the concurrent requests of the       *)
(* program never commit anything else.                                     *)
(***************************************************************************)
EXTENDS Integers, FiniteSets, Functions

CONSTANTS Bookings, Pools, Machines, RentalPapers, Customers, Moments,
          NoMachine, NoPaper, NoClaim, Closed

VARIABLES
    claims,    \* claims[b]: what booking b holds, or NoClaim
    fleet,     \* fleet[p]: the machines pool p can hire out
    accounts   \* accounts[v]: the customer of voucher v, or Closed

calendarVars == <<claims, fleet, accounts>>

Claims == [pool : Pools, machine : Machines \cup {NoMachine}, qty : Nat,
           from : Moments, to : Moments, voucher : RentalPapers \cup {NoPaper},
           customer : Customers]

Held(p, moment) ==
    {b \in Bookings : /\ claims[b] # NoClaim /\ claims[b].pool = p
                      /\ claims[b].from <= moment /\ moment < claims[b].to}

Promise ==
    /\ \A p \in Pools, moment \in Moments :
          /\ SumFunctionOnSet([b \in Held(p, moment) |-> claims[b].qty], Held(p, moment))
                <= Cardinality(fleet[p])
          /\ \A a, b \in Held(p, moment) :
                a # b /\ claims[a].machine # NoMachine => claims[a].machine # claims[b].machine
    /\ \A b \in Bookings : claims[b] # NoClaim =>
          /\ claims[b] \in Claims
          /\ claims[b].machine # NoMachine => claims[b].machine \in fleet[claims[b].pool]
          /\ claims[b].voucher # NoPaper => accounts[claims[b].voucher] = claims[b].customer

CalendarInit ==
    /\ claims = [b \in Bookings |-> NoClaim]
    /\ fleet \in [Pools -> SUBSET Machines]
    /\ accounts \in [RentalPapers -> Customers \cup {Closed}]
    /\ Promise

\* A booking is made, changed or released.
Rebook(b) ==
    /\ claims'[b] # claims[b]
    /\ \A c \in Bookings \ {b} : claims'[c] = claims[c]
    /\ UNCHANGED <<fleet, accounts>>

\* A machine joins, leaves or changes its pool.
Refit(m) ==
    /\ fleet' # fleet
    /\ \A p \in Pools : fleet'[p] \ {m} = fleet[p] \ {m}
    /\ UNCHANGED <<claims, accounts>>

\* A voucher is opened, changed or closed.
Reopen(v) ==
    /\ accounts'[v] # accounts[v]
    /\ \A w \in RentalPapers \ {v} : accounts'[w] = accounts[w]
    /\ UNCHANGED <<claims, fleet>>

CalendarNext ==
    /\ \/ \E b \in Bookings : Rebook(b)
       \/ \E m \in Machines : Refit(m)
       \/ \E v \in RentalPapers : Reopen(v)
    /\ Promise'

CalendarSpec == CalendarInit /\ [][CalendarNext]_calendarVars

=============================================================================

--------------------------- MODULE Subscriptions ---------------------------
(***************************************************************************)
(* Recurring invoices.  A subscription keeps the period it bills next; any *)
(* number of callers process it, edit it or discard it, each from a copy   *)
(* it loaded earlier.  Days are numbers and a period has Interval of them. *)
(***************************************************************************)
EXTENDS Integers, Sequences

CONSTANTS
    Plans, StartDay, Interval,
    EndDays,        \* end dates a user may enter, NoDay for none
    BillingDesks,   \* requests
    LastDay,        \* bound: days that pass
    MaxWrites,      \* bound: writes to a subscription
    NoDay, NoPlan

\* The interval is one of Monthly, Quarterly, Half-Yearly and Yearly.
ASSUME BillingAssumption ==
    /\ StartDay \in Int /\ LastDay \in Int /\ Interval \in Nat \ {0}
    /\ NoDay \notin Int /\ EndDays \subseteq Int \cup {NoDay}

VARIABLES
    today,
    plan,           \* plan[p]: [from, upto, stop, status, writes]
    invoiced,         \* invoiced[p]: the periods invoiced, [from, upto, on]
    billing         \* what every request loaded: [plan, copy]

billingVars == <<today, plan, invoiced, billing>>

BillingIdle == [plan |-> NoPlan, copy |-> <<>>]

-----------------------------------------------------------------------------
(* Validation *)

\* _set_status.
Status(s) ==
    IF s.status \in {"Cancelled", "Discarded"} THEN s.status
    ELSE IF s.stop # NoDay /\ s.from >= s.stop THEN "Completed"
    ELSE IF s.upto < today THEN "Past Due Date"
    ELSE "Active"

\* _get_next_date: the end of a period that starts on a day, cut at the end date.
Cut(day, stop) == IF stop # NoDay /\ day > stop THEN stop ELSE day
NextDate(day) == day + Interval

\* validate: the first period, and the end date.
ValidPlan(s) ==
    LET upto == IF s.upto = NoDay \/ s.upto <= s.from THEN NextDate(s.from) ELSE s.upto
        cut == [s EXCEPT !.upto = Cut(upto, s.stop)]
    IN  [cut EXCEPT !.status = Status(cut)]

Rewritten(s) == [s EXCEPT !.writes = @ + 1]

-----------------------------------------------------------------------------
(* Requests *)

BillingInit ==
    /\ today = StartDay
    /\ plan = [p \in Plans |-> ValidPlan([from |-> StartDay, upto |-> NoDay, stop |-> NoDay,
                                          status |-> "Active", writes |-> 0])]
    /\ invoiced = [p \in Plans |-> <<>>]
    /\ billing = [d \in BillingDesks |-> BillingIdle]

NextDay ==
    /\ today < LastDay
    /\ today' = today + 1
    /\ UNCHANGED <<plan, invoiced, billing>>

LoadPlan(d, p) ==
    /\ billing[d] = BillingIdle
    /\ billing' = [billing EXCEPT ![d] = [plan |-> p, copy |-> plan[p]]]
    /\ UNCHANGED <<today, plan, invoiced>>

Done(d) == billing' = [billing EXCEPT ![d] = BillingIdle]

\* _create_invoice.
InvoiceOf(s) == [from |-> s.from, upto |-> s.upto, on |-> today]

\* _process of a subscription: one invoice when its period is over, and the next
\* period; a completed one is only stored.
Bill(p, s) ==
    LET v == ValidPlan(s)
        next == [v EXCEPT !.from = v.upto, !.upto = Cut(NextDate(v.upto), v.stop)]
    IN  /\ s.status \notin {"Cancelled", "Discarded"}
        /\ plan[p].writes < MaxWrites
        /\ \/ /\ v.status = "Completed"
              /\ plan' = [plan EXCEPT ![p] = v]
              /\ UNCHANGED invoiced
           \/ /\ v.status # "Completed" /\ today >= v.upto
              /\ plan' = [plan EXCEPT ![p] = Rewritten([next EXCEPT !.status = Status(next)])]
              /\ invoiced' = [invoiced EXCEPT ![p] = Append(@, InvoiceOf(v))]

\* Faulty: the invoice is made from the copy that was loaded.
Process_Loaded(d) ==
    /\ billing[d] # BillingIdle
    /\ Bill(billing[d].plan, billing[d].copy)
    /\ Done(d)
    /\ UNCHANGED today

\* process: the row is locked and read again.
Process(d) ==
    /\ billing[d] # BillingIdle
    /\ Bill(billing[d].plan, plan[billing[d].plan])
    /\ Done(d)
    /\ UNCHANGED today

\* save of the loaded copy, refused when the stored one has changed since.
SavePlan(d, change) ==
    /\ billing[d] # BillingIdle
    /\ LET p == billing[d].plan
       IN  /\ plan[p] = billing[d].copy /\ plan[p].status # "Discarded" /\ plan[p].writes < MaxWrites
           /\ plan' = [plan EXCEPT ![p] = Rewritten(change)]
    /\ Done(d)
    /\ UNCHANGED <<today, invoiced>>

EditEnd(d, day) ==
    /\ day # NoDay => day >= StartDay
    /\ billing[d] # BillingIdle
    /\ SavePlan(d, ValidPlan([billing[d].copy EXCEPT !.stop = day]))

\* status = "Cancelled" stops the billing, any other value lets it go on.
EditStatus(d, status) ==
    /\ billing[d] # BillingIdle
    /\ SavePlan(d, ValidPlan([billing[d].copy EXCEPT !.status = status]))

DiscardPlan(d) ==
    /\ billing[d] # BillingIdle
    /\ SavePlan(d, [billing[d].copy EXCEPT !.status = "Discarded"])

\* The request is refused, there is nothing to do, or its process dies.
GiveUp(d) ==
    /\ billing[d] # BillingIdle
    /\ Done(d)
    /\ UNCHANGED <<today, plan, invoiced>>

BillingNext ==
    \/ NextDay
    \/ \E d \in BillingDesks :
          \/ \E p \in Plans : LoadPlan(d, p)
          \/ Process(d) \/ DiscardPlan(d) \/ GiveUp(d)
          \/ \E day \in EndDays : EditEnd(d, day)
          \/ \E status \in {"Cancelled", "Active"} : EditStatus(d, status)

BillingSpec == BillingInit /\ [][BillingNext]_billingVars

-----------------------------------------------------------------------------
(* Properties *)

\* However often a subscription is processed, retried or edited, its invoices
\* cover the time from its start to the period it bills next without a gap and
\* without an overlap, each of them after its period was over.
EachPeriodBilledOnce ==
    \A p \in Plans :
        LET bills == invoiced[p]
        IN  /\ \A i \in DOMAIN bills :
                  /\ bills[i].from = IF i = 1 THEN StartDay ELSE bills[i-1].upto
                  /\ bills[i].from < bills[i].upto /\ bills[i].upto <= bills[i].on
            /\ plan[p].from = IF bills = <<>> THEN StartDay ELSE bills[Len(bills)].upto
=============================================================================

----------------------------- MODULE SalesProofs ----------------------------
(***************************************************************************)
(* What is ordered, handed over, billed and hired out, for any orders,     *)
(* vouchers, bins, plans, machines, bookings, requests, intervals and end  *)
(* dates.                                                                  *)
(***************************************************************************)
EXTENDS Subscriptions, OrderProgress, Reservations, Sums, SequenceTheorems, TLAPS

\* Subscriptions: the invoices of a plan are a chain of periods.

PlanStates == {"Active", "Past Due Date", "Completed", "Cancelled", "Discarded"}
Entered == [from : Int, upto : Int \cup {NoDay}, stop : Int \cup {NoDay}, status : PlanStates,
            writes : Nat]
PlanRow == [from : Int, upto : Int, stop : Int \cup {NoDay}, status : PlanStates, writes : Nat]
Period == [from : Int, upto : Int, on : Int]

BillingTypeOK ==
    /\ today \in Int
    /\ plan \in [Plans -> PlanRow]
    /\ invoiced \in [Plans -> Seq(Period)]
    /\ billing \in [BillingDesks -> [plan : Plans, copy : PlanRow] \cup {BillingIdle}]

\* Periods that follow each other from the start to the day that is billed next.
Chain(bills, from) ==
    /\ \A i \in DOMAIN bills :
          /\ bills[i].from = IF i = 1 THEN StartDay ELSE bills[i-1].upto
          /\ bills[i].from < bills[i].upto /\ bills[i].upto <= bills[i].on
    /\ from = IF bills = <<>> THEN StartDay ELSE bills[Len(bills)].upto

BillingInv == BillingTypeOK /\ \A p \in Plans : Chain(invoiced[p], plan[p].from)

\* An entered plan keeps its start, and unless it is over its period is not empty.
LEMMA PlanIsValid ==
    ASSUME NEW s \in Entered, today \in Int
    PROVE  /\ ValidPlan(s) \in PlanRow
           /\ ValidPlan(s).from = s.from
           /\ s.status \notin {"Cancelled", "Discarded"} /\ ValidPlan(s).status # "Completed" =>
                  s.from < ValidPlan(s).upto
<1> DEFINE ends == IF s.upto = NoDay \/ s.upto <= s.from THEN NextDate(s.from) ELSE s.upto
           cut == [s EXCEPT !.upto = Cut(ends, s.stop)]
<1>1. ValidPlan(s) = [cut EXCEPT !.status = Status(cut)]
  BY DEF ValidPlan
<1>2. /\ s.from \in Int /\ s.upto \in Int \cup {NoDay} /\ s.stop \in Int \cup {NoDay}
      /\ s.status \in PlanStates
  BY DEF Entered
<1>3. ends \in Int /\ ends > s.from
  BY <1>2, BillingAssumption DEF NextDate
<1> HIDE DEF ends
<1>4. /\ Cut(ends, s.stop) \in Int
      /\ s.stop # NoDay => Cut(ends, s.stop) = IF ends > s.stop THEN s.stop ELSE ends
      /\ s.stop = NoDay => Cut(ends, s.stop) = ends
  BY <1>2, <1>3 DEF Cut
<1>5. /\ cut \in PlanRow /\ cut.from = s.from /\ cut.stop = s.stop /\ cut.status = s.status
      /\ cut.upto = Cut(ends, s.stop)
  BY <1>4 DEF Entered, PlanRow
<1> HIDE DEF cut
<1>6. Status(cut) \in PlanStates
  BY <1>2, <1>5 DEF Status, PlanStates
<1>7. /\ ValidPlan(s) \in PlanRow /\ ValidPlan(s).from = s.from
      /\ ValidPlan(s).upto = Cut(ends, s.stop) /\ ValidPlan(s).status = Status(cut)
  BY <1>1, <1>5, <1>6 DEF PlanRow
<1>8. ASSUME s.status \notin {"Cancelled", "Discarded"}, Status(cut) # "Completed"
      PROVE  s.from < Cut(ends, s.stop)
  <2>1. ~(s.stop # NoDay /\ s.from >= s.stop)
    BY <1>5, <1>8 DEF Status
  <2>2. CASE s.stop = NoDay
    BY <1>3, <1>4, <2>2
  <2>3. CASE s.stop # NoDay
    <3>1. s.stop \in Int /\ s.stop > s.from
      BY <1>2, <2>1, <2>3
    <3> QED BY <1>2, <1>3, <1>4, <2>3, <3>1
  <2> QED BY <2>2, <2>3
<1> QED BY <1>7, <1>8

\* A stored plan is one that could have been entered.
LEMMA RowIsEntered == PlanRow \subseteq Entered
BY DEF PlanRow, Entered

\* A new plan bills from its start and has no invoice.
LEMMA InitialBilling == BillingInit => BillingInv
<1> SUFFICES ASSUME BillingInit PROVE BillingInv
  OBVIOUS
<1> DEFINE s == [from |-> StartDay, upto |-> NoDay, stop |-> NoDay, status |-> "Active",
                 writes |-> 0]
<1>1. s \in Entered /\ s.from = StartDay
  BY BillingAssumption DEF Entered, PlanStates
<1>2. today \in Int /\ plan = [p \in Plans |-> ValidPlan(s)]
      /\ invoiced = [p \in Plans |-> <<>>] /\ billing = [d \in BillingDesks |-> BillingIdle]
  BY BillingAssumption DEF BillingInit
<1> HIDE DEF s
<1>3. ValidPlan(s) \in PlanRow /\ ValidPlan(s).from = StartDay
  BY <1>1, <1>2, PlanIsValid
<1>4. BillingTypeOK
  BY <1>2, <1>3 DEF BillingTypeOK
<1>5. ASSUME NEW p \in Plans PROVE Chain(invoiced[p], plan[p].from)
  <2>1. invoiced[p] = <<>> /\ plan[p].from = StartDay
    BY <1>2, <1>3
  <2>2. DOMAIN <<>> = {}
    OBVIOUS
  <2> QED BY <2>1, <2>2 DEF Chain
<1> QED BY <1>4, <1>5 DEF BillingInv

\* Another period is billed.
LEMMA ChainGrows ==
    ASSUME NEW bills \in Seq(Period), NEW from \in Int, Chain(bills, from),
           NEW bill \in Period, bill.from = from, bill.from < bill.upto, bill.upto <= bill.on
    PROVE  Chain(Append(bills, bill), bill.upto)
<1> DEFINE more == Append(bills, bill)
<1>1. /\ more \in Seq(Period) /\ Len(more) = Len(bills) + 1
      /\ \A i \in 1..Len(bills) : more[i] = bills[i]
      /\ more[Len(bills) + 1] = bill /\ Len(bills) \in Nat
  BY AppendProperties
<1>2. DOMAIN more = 1..(Len(bills) + 1) /\ DOMAIN bills = 1..Len(bills)
  BY <1>1
<1> HIDE DEF more
<1>3. bills = <<>> <=> Len(bills) = 0
  OBVIOUS
<1>4. ASSUME NEW i \in DOMAIN more
      PROVE  /\ more[i].from = IF i = 1 THEN StartDay ELSE more[i-1].upto
             /\ more[i].from < more[i].upto /\ more[i].upto <= more[i].on
  <2>1. CASE i <= Len(bills)
    <3>1. i \in DOMAIN bills /\ more[i] = bills[i] /\ (i # 1 => more[i-1] = bills[i-1])
      BY <1>1, <1>2, <2>1
    <3> QED BY <3>1 DEF Chain
  <2>2. CASE i > Len(bills)
    <3>1. i = Len(bills) + 1 /\ more[i] = bill /\ (i # 1 => more[i-1] = bills[Len(bills)])
      BY <1>1, <1>2, <2>2
    <3>2. from = IF i = 1 THEN StartDay ELSE more[i-1].upto
      BY <1>1, <1>3, <3>1 DEF Chain
    <3> QED BY <3>1, <3>2
  <2> QED BY <1>1, <1>2, <2>1, <2>2
<1>5. more # <<>> /\ more[Len(more)].upto = bill.upto
  BY <1>1
<1> QED BY <1>4, <1>5 DEF Chain, more

\* A plan is written that bills from the same day on.
LEMMA PlanWritten ==
    ASSUME BillingInv, NEW p \in Plans, NEW to \in PlanRow, to.from = plan[p].from,
           plan' = [plan EXCEPT ![p] = to], UNCHANGED <<today, invoiced>>,
           billing' \in [BillingDesks -> [plan : Plans, copy : PlanRow] \cup {BillingIdle}]
    PROVE  BillingInv'
<1> USE DEF BillingInv
<1>1. BillingTypeOK'
  BY DEF BillingTypeOK
<1>2. \A q \in Plans : plan'[q].from = plan[q].from
  BY DEF BillingTypeOK
<1>3. ASSUME NEW q \in Plans PROVE Chain(invoiced'[q], plan'[q].from)
  BY <1>2
<1> QED BY <1>1, <1>3

\* A request that ends leaves its place.
LEMMA DeskDone ==
    ASSUME BillingInv, NEW d \in BillingDesks, Done(d)
    PROVE  billing' \in [BillingDesks -> [plan : Plans, copy : PlanRow] \cup {BillingIdle}]
BY DEF BillingInv, BillingTypeOK, Done

\* The billing run writes the invoice and moves the plan to the next period in one transaction.
LEMMA ProcessPreserves ==
    ASSUME BillingInv, NEW d \in BillingDesks, Process(d)
    PROVE  BillingInv'
<1> USE DEF BillingInv
<1> DEFINE p == billing[d].plan
           s == plan[p]
           v == ValidPlan(s)
           next == [v EXCEPT !.from = v.upto, !.upto = Cut(NextDate(v.upto), v.stop)]
           after == Rewritten([next EXCEPT !.status = Status(next)])
<1>1. p \in Plans /\ s \in PlanRow /\ s \in Entered /\ today \in Int
  BY RowIsEntered DEF Process, BillingTypeOK
<1>2. /\ v \in PlanRow /\ v.from = s.from
      /\ s.status \notin {"Cancelled", "Discarded"} /\ v.status # "Completed" => s.from < v.upto
  BY <1>1, PlanIsValid
<1>3. s.status \notin {"Cancelled", "Discarded"} /\ today' = today
  BY DEF Process, Bill
<1>4. \/ plan' = [plan EXCEPT ![p] = v] /\ UNCHANGED invoiced
      \/ /\ v.status # "Completed" /\ today >= v.upto
         /\ plan' = [plan EXCEPT ![p] = after]
         /\ invoiced' = [invoiced EXCEPT ![p] = Append(@, InvoiceOf(v))]
  BY DEF Process, Bill
<1>5. billing' \in [BillingDesks -> [plan : Plans, copy : PlanRow] \cup {BillingIdle}]
  BY DeskDone DEF Process
<1> HIDE DEF p, s, v
<1>6. after \in PlanRow /\ after.from = v.upto
  <2>1. Cut(NextDate(v.upto), v.stop) \in Int
    BY <1>2, BillingAssumption DEF Cut, NextDate, PlanRow
  <2>2. next \in PlanRow /\ next.from = v.upto
    BY <1>2, <2>1 DEF PlanRow
  <2> HIDE DEF next
  <2>3. Status(next) \in PlanStates
    BY <2>2 DEF Status, PlanRow, PlanStates
  <2> DEFINE last == [next EXCEPT !.status = Status(next)]
  <2>4. last \in PlanRow /\ last.from = v.upto
    BY <2>2, <2>3 DEF PlanRow
  <2>5. after = Rewritten(last)
    OBVIOUS
  <2> HIDE DEF last, after
  <2> QED BY <2>4, <2>5 DEF Rewritten, PlanRow
<1> HIDE DEF after
<1>7. CASE plan' = [plan EXCEPT ![p] = v] /\ UNCHANGED invoiced
  BY <1>1, <1>2, <1>3, <1>5, <1>7, PlanWritten DEF s
<1>8. CASE /\ v.status # "Completed" /\ today >= v.upto
           /\ plan' = [plan EXCEPT ![p] = after]
           /\ invoiced' = [invoiced EXCEPT ![p] = Append(@, InvoiceOf(v))]
  <2> DEFINE bill == InvoiceOf(v)
  <2>1. /\ bill \in Period /\ bill.from = s.from /\ bill.upto = v.upto
        /\ bill.from < bill.upto /\ bill.upto <= bill.on
    BY <1>1, <1>2, <1>3, <1>8 DEF InvoiceOf, Period, PlanRow
  <2>2. invoiced[p] \in Seq(Period) /\ s.from \in Int /\ Chain(invoiced[p], s.from)
    BY <1>1 DEF BillingTypeOK, PlanRow, s
  <2> HIDE DEF bill
  <2>3. Chain(Append(invoiced[p], bill), v.upto)
    BY <2>1, <2>2, ChainGrows
  <2>4. Append(invoiced[p], bill) \in Seq(Period)
    BY <2>1, <2>2, AppendProperties
  <2>5. invoiced' = [invoiced EXCEPT ![p] = Append(invoiced[p], bill)]
    BY <1>8 DEF bill
  <2>6. BillingTypeOK'
    BY <1>1, <1>3, <1>5, <1>6, <1>8, <2>4, <2>5 DEF BillingTypeOK
  <2>7. ASSUME NEW q \in Plans PROVE Chain(invoiced'[q], plan'[q].from)
    <3>1. CASE q = p
      <4>1. invoiced'[q] = Append(invoiced[p], bill) /\ plan'[q] = after
        BY <1>1, <1>8, <2>5, <3>1 DEF BillingTypeOK
      <4> QED BY <1>6, <2>3, <4>1
    <3>2. CASE q # p
      <4>1. invoiced'[q] = invoiced[q] /\ plan'[q] = plan[q]
        BY <1>1, <1>8, <2>5, <3>2 DEF BillingTypeOK
      <4> QED BY <4>1
    <3> QED BY <3>1, <3>2
  <2> QED BY <2>6, <2>7
<1> QED BY <1>4, <1>7, <1>8

\* A save that keeps the start of the period changes nothing that is billed.
LEMMA SavePlanPreserves ==
    ASSUME BillingInv, NEW d \in BillingDesks, NEW change \in PlanRow,
           change.from = billing[d].copy.from, SavePlan(d, change), UNCHANGED <<today, invoiced>>
    PROVE  BillingInv'
<1> DEFINE p == billing[d].plan
<1>1. p \in Plans /\ plan[p] = billing[d].copy
  BY DEF SavePlan, BillingInv, BillingTypeOK
<1>2. Rewritten(change) \in PlanRow /\ Rewritten(change).from = plan[p].from
  BY <1>1 DEF Rewritten, PlanRow
<1>3. plan' = [plan EXCEPT ![p] = Rewritten(change)]
  BY DEF SavePlan
<1>4. billing' \in [BillingDesks -> [plan : Plans, copy : PlanRow] \cup {BillingIdle}]
  BY DeskDone DEF SavePlan
<1> HIDE DEF p
<1> QED BY <1>1, <1>2, <1>3, <1>4, PlanWritten

\* What a request loaded.
LEMMA CopyIsPlan ==
    ASSUME BillingInv, NEW d \in BillingDesks, billing[d] # BillingIdle
    PROVE  billing[d].copy \in PlanRow /\ today \in Int
BY DEF BillingInv, BillingTypeOK

\* Editing the end keeps the start of the period.
LEMMA EditEndPreserves ==
    ASSUME BillingInv, NEW d \in BillingDesks, NEW day \in EndDays, EditEnd(d, day)
    PROVE  BillingInv'
<1> DEFINE copy == billing[d].copy
           s == [copy EXCEPT !.stop = day]
<1>1. copy \in PlanRow /\ today \in Int
  BY CopyIsPlan DEF EditEnd
<1>2. s \in Entered /\ s.from = copy.from
  BY <1>1, BillingAssumption DEF PlanRow, Entered
<1>3. SavePlan(d, ValidPlan(s)) /\ UNCHANGED <<today, invoiced>>
  BY DEF EditEnd, SavePlan
<1> HIDE DEF s
<1>4. ValidPlan(s) \in PlanRow /\ ValidPlan(s).from = copy.from
  BY <1>1, <1>2, PlanIsValid
<1> QED BY <1>3, <1>4, SavePlanPreserves

\* So does cancelling and reactivating.
LEMMA EditStatusPreserves ==
    ASSUME BillingInv, NEW d \in BillingDesks, NEW status \in {"Cancelled", "Active"},
           EditStatus(d, status)
    PROVE  BillingInv'
<1> DEFINE copy == billing[d].copy
           s == [copy EXCEPT !.status = status]
<1>1. copy \in PlanRow /\ today \in Int
  BY CopyIsPlan DEF EditStatus
<1>2. s \in Entered /\ s.from = copy.from
  BY <1>1 DEF PlanRow, Entered, PlanStates
<1>3. SavePlan(d, ValidPlan(s)) /\ UNCHANGED <<today, invoiced>>
  BY DEF EditStatus, SavePlan
<1> HIDE DEF s
<1>4. ValidPlan(s) \in PlanRow /\ ValidPlan(s).from = copy.from
  BY <1>1, <1>2, PlanIsValid
<1> QED BY <1>3, <1>4, SavePlanPreserves

\* So does discarding.
LEMMA DiscardPlanPreserves ==
    ASSUME BillingInv, NEW d \in BillingDesks, DiscardPlan(d)
    PROVE  BillingInv'
<1> DEFINE copy == billing[d].copy
           s == [copy EXCEPT !.status = "Discarded"]
<1>1. copy \in PlanRow
  BY CopyIsPlan DEF DiscardPlan
<1>2. s \in PlanRow /\ s.from = copy.from
  BY <1>1 DEF PlanRow, PlanStates
<1>3. SavePlan(d, s) /\ UNCHANGED <<today, invoiced>>
  BY DEF DiscardPlan, SavePlan
<1> HIDE DEF s
<1> QED BY <1>2, <1>3, SavePlanPreserves

\* Days pass, requests load and give up: no plan and no invoice is written.
LEMMA NothingBilled ==
    ASSUME BillingInv, UNCHANGED <<plan, invoiced>>, today' \in Int,
           billing' \in [BillingDesks -> [plan : Plans, copy : PlanRow] \cup {BillingIdle}]
    PROVE  BillingInv'
BY DEF BillingInv, BillingTypeOK

\* Every other step writes neither a plan nor an invoice.
LEMMA OtherBillingPreserves ==
    ASSUME BillingInv
    PROVE  /\ NextDay => BillingInv'
           /\ \A d \in BillingDesks : GiveUp(d) \/ (\E p \in Plans : LoadPlan(d, p)) => BillingInv'
           /\ UNCHANGED billingVars => BillingInv'
<1>1. /\ today \in Int
      /\ billing \in [BillingDesks -> [plan : Plans, copy : PlanRow] \cup {BillingIdle}]
      /\ plan \in [Plans -> PlanRow]
  BY DEF BillingInv, BillingTypeOK
<1>2. NextDay => BillingInv'
  BY <1>1, NothingBilled DEF NextDay
<1>3. ASSUME NEW d \in BillingDesks, GiveUp(d) PROVE BillingInv'
  BY <1>1, <1>3, DeskDone, NothingBilled DEF GiveUp
<1>4. ASSUME NEW d \in BillingDesks, NEW p \in Plans, LoadPlan(d, p) PROVE BillingInv'
  BY <1>1, <1>4, NothingBilled DEF LoadPlan
<1>5. UNCHANGED billingVars => BillingInv'
  BY <1>1, NothingBilled DEF billingVars
<1> QED BY <1>2, <1>3, <1>4, <1>5

\* Every state: the invoices of a plan are periods that follow each other from its start to
\* the day that is billed next (lambda_erp/accounting/subscription.py, process).
THEOREM BillingInvariant == BillingSpec => []BillingInv
<1>1. BillingInv /\ [BillingNext]_billingVars => BillingInv'
  BY OtherBillingPreserves, ProcessPreserves, EditEndPreserves, EditStatusPreserves,
     DiscardPlanPreserves DEF BillingNext
<1> QED BY InitialBilling, <1>1, PTL DEF BillingSpec

\* Each period is billed once and in order, never before it is over, for any plans, desks,
\* intervals and end dates: a run that lost the race fails on the plan it loaded.
THEOREM PeriodsAreBilledOnce == BillingSpec => []EachPeriodBilledOnce
<1>1. BillingInv => EachPeriodBilledOnce
  BY DEF BillingInv, EachPeriodBilledOnce, Chain
<1> QED BY BillingInvariant, <1>1, PTL

-----------------------------------------------------------------------------
\* OrderProgress: the row locks of a desk keep what it has checked and counted true until
\* it commits, so that what an order shows is always the sum of what is posted.

Steps == {"submit", "cancel"}
DeskFields == {"at", "doing", "doc", "want", "held", "moved", "billed", "planned"}

DeskTyped(d) ==
    /\ DOMAIN d = DeskFields
    /\ d.at \in {"rest", "own", "refs", "plan"} /\ d.doing \in Steps
    /\ d.at # "rest" => d.doc \in Papers
    /\ d.want \subseteq Papers \cup Pairs
    /\ DOMAIN d.moved = OrderLines /\ DOMAIN d.billed = OrderLines /\ DOMAIN d.planned = Pairs

OrderTypes ==
    /\ trade \in Trades
    /\ DOMAIN paper = Papers
    /\ content \in [OrderVouchers -> [OrderLines -> Int]]
    /\ against \in [OrderVouchers -> OrderVouchers \cup {NoVoucher}]
    /\ DOMAIN desk = Desks /\ \A s \in Desks : DeskTyped(desk[s])

\* Row locks: one holder; a desk that has locked its document finds it as it was.
RowsOf(s) ==
    LET d == desk[s].doc
    IN  /\ desk[s].at \in {"rest", "own"} => desk[s].held = {}
        /\ desk[s].at = "own" => desk[s].want = {d}
        /\ desk[s].at \in {"refs", "plan"} => d \in desk[s].held /\ paper[d] = Before(desk[s].doing)
        /\ desk[s].at = "refs" => /\ References(d) \subseteq desk[s].held \cup desk[s].want
                                  /\ desk[s].held \cup desk[s].want \subseteq Papers
        /\ desk[s].at = "plan" => /\ References(d) \subseteq desk[s].held
                                  /\ OwnPairs(s) \subseteq desk[s].held \cup desk[s].want
                                  /\ desk[s].want \subseteq Pairs

RowsHeld ==
    /\ \A s, u \in Desks : s # u => desk[s].held \cap desk[u].held = {}
    /\ \A s \in Desks : RowsOf(s)

\* Only what is saved is ever asked for.
RowsSaved ==
    \A s \in Desks : \A r \in (desk[s].held \cup desk[s].want) \cap OrderVouchers : paper[r] # "unsaved"

\* What drafts are made of, and what a posted voucher stands on.
VouchersSound ==
    \A v \in OrderVouchers :
        /\ paper[v] = "unsaved" => against[v] = NoVoucher
        /\ IF IsReturn(v) THEN \A l \in OrderLines : content[v][l] <= 0
                          ELSE \A l \in OrderLines : content[v][l] >= 0
        /\ IsReturn(v) => trade.kind[v] = trade.kind[against[v]] /\ paper[against[v]] # "unsaved"
        /\ paper[v] = "posted" =>
              /\ \A o \in OrdersOf(v) : paper[o] = "posted"
              /\ IsReturn(v) => paper[against[v]] = "posted" /\ ~IsReturn(against[v])

ReturnsOf(g) == {w \in OrderVouchers : against[w] = g}

\* A posted original covers what its returns took back.
ReturnsCover ==
    \A g \in OrderVouchers : paper[g] = "posted" /\ ~IsReturn(g) =>
        \A l \in OrderLines : content[g][l] + SumLine(ReturnsOf(g), paper, l) >= 0

WithinLines ==
    \A l \in OrderLines : SumLine(Moving, paper, l) <= Ordered[l] /\ SumLine(Billing, paper, l) <= Ordered[l]

\* The checks a desk has passed stay true until it commits.
StillPermitted(s) ==
    LET d == desk[s].doc
    IN  /\ d \in OrderVouchers /\ desk[s].doing = "submit" =>
              /\ \A o \in OrdersOf(d) : paper[o] = "posted"
              /\ \A l \in Touched(d) : WithinOrder(d, l, content[d][l])
              /\ IsReturn(d) => ReturnFits(d)
        /\ d \in OrderVouchers /\ desk[s].doing = "cancel" =>
              /\ \A w \in OrderVouchers : against[w] = d => paper[w] # "posted"
              /\ \A l \in Touched(d) : WithinOrder(d, l, 0)
        /\ d \in Orders /\ desk[s].doing = "cancel" => OrderReleasable(d)

StillCounted(s) ==
    /\ \A l \in OwnLines(s) : /\ desk[s].moved[l] = SumLine(Moving, Seen(s), l)
                              /\ desk[s].billed[l] = SumLine(Billing, Seen(s), l)
    /\ \A p \in OwnPairs(s) \cap desk[s].held : desk[s].planned[p] = Demand(s, p)

DesksReady == \A s \in Desks : desk[s].at = "plan" => StillPermitted(s) /\ StillCounted(s)

OrderInv ==
    /\ OrderTypes /\ RowsHeld /\ RowsSaved /\ VouchersSound /\ ReturnsCover /\ WithinLines
    /\ DesksReady /\ ProgressIsPosted /\ PlanIsOpenDemand

-----------------------------------------------------------------------------
Contents == [OrderVouchers -> [OrderLines -> Int]]

\* What a voucher counts for, and the sum of that, for any contents.
Count(C, v, st, l) == IF st[v] = "posted" THEN C[v][l] ELSE 0
SumOf(C, V, st, l) == SumFunctionOnSet([v \in V |-> Count(C, v, st, l)], V)

\* The sum of the model is the sum of what the vouchers count for.
LEMMA SumLineOf == \A V, st, l : SumLine(V, st, l) = SumOf(content, V, st, l)
<1> SUFFICES ASSUME NEW V, NEW st, NEW l PROVE SumLine(V, st, l) = SumOf(content, V, st, l)
  OBVIOUS
<1>1. [v \in V |-> Count(content, v, st, l)] = [v \in V |-> IF st[v] = "posted" THEN content[v][l] ELSE 0]
  BY DEF Count
<1> QED BY <1>1 DEF SumLine, SumOf

\* The vouchers that move and that bill are finitely many, and of known kinds.
LEMMA Kinds ==
    ASSUME OrderTypes
    PROVE  /\ \A v \in OrderVouchers : trade.kind[v] \in {"movement", "invoice", "direct"}
           /\ Moving \in SUBSET OrderVouchers /\ Billing \in SUBSET OrderVouchers
<1>1. \A v \in OrderVouchers : trade.kind[v] \in {"movement", "invoice", "direct"}
  BY OrdersAssumption DEF OrderTypes
<1> QED BY <1>1 DEF Moving, Billing

\* There are finitely many vouchers.
LEMMA VouchersFinite == \A V \in SUBSET OrderVouchers : IsFiniteSet(V)
BY OrdersAssumption, FS_Subset

\* What is moved or billed of a line is a number.
LEMMA SumOfIsInt ==
    ASSUME NEW C \in Contents, NEW V \in SUBSET OrderVouchers, NEW st, NEW l \in OrderLines
    PROVE  SumOf(C, V, st, l) \in Int
<1> DEFINE f == [v \in V |-> Count(C, v, st, l)]
<1>1. \A v \in V : f[v] \in Int
  BY DEF Contents, Count
<1>2. IsFiniteSet(V)
  BY VouchersFinite
<1> HIDE DEF f
<1>3. SumFunctionOnSet(f, V) \in Int
  BY <1>1, <1>2, SumIsNumber
<1> QED BY <1>3 DEF SumOf, f

\* One voucher taken out of the sum.
LEMMA SumOfSplit ==
    ASSUME NEW C \in Contents, NEW V \in SUBSET OrderVouchers, NEW st, NEW l \in OrderLines, NEW d \in V
    PROVE  SumOf(C, V, st, l) = Count(C, d, st, l) + SumOf(C, V \ {d}, st, l)
<1> DEFINE f == [v \in V |-> Count(C, v, st, l)]
           g == [v \in V \ {d} |-> Count(C, v, st, l)]
<1>1. /\ \A v \in V : f[v] \in Int
      /\ \A v \in V \ {d} : f[v] \in Int /\ g[v] = f[v]
      /\ f[d] = Count(C, d, st, l)
  BY DEF Contents, Count
<1>2. IsFiniteSet(V) /\ IsFiniteSet(V \ {d})
  BY VouchersFinite
<1> HIDE DEF f, g
<1>3. SumFunctionOnSet(f, V) = f[d] + SumFunctionOnSet(f, V \ {d})
  BY <1>1, <1>2, SumRemove
<1>4. SumFunctionOnSet(g, V \ {d}) = SumFunctionOnSet(f, V \ {d})
  BY <1>1, <1>2, SumSame
<1>5. /\ SumOf(C, V, st, l) = SumFunctionOnSet(f, V)
      /\ SumOf(C, V \ {d}, st, l) = SumFunctionOnSet(g, V \ {d})
  BY DEF SumOf, f, g
<1> QED BY <1>1, <1>3, <1>4, <1>5

\* Vouchers that count for nothing can be left out; only what they count for matters.
LEMMA SumOfSame ==
    ASSUME NEW C \in Contents, NEW D \in Contents, NEW V \in SUBSET OrderVouchers, NEW W \in SUBSET OrderVouchers,
           NEW st, NEW su, NEW l \in OrderLines,
           \A v \in V \cap W : Count(D, v, su, l) = Count(C, v, st, l),
           \A v \in W \ V : Count(D, v, su, l) = 0, \A v \in V \ W : Count(C, v, st, l) = 0
    PROVE  SumOf(D, W, su, l) = SumOf(C, V, st, l)
<1> DEFINE U == V \cap W
           f == [v \in V |-> Count(C, v, st, l)]
           g == [v \in W |-> Count(D, v, su, l)]
<1>1. /\ \A v \in V : f[v] \in Int
      /\ \A v \in W : g[v] \in Int
      /\ \A v \in V \ U : f[v] = 0
      /\ \A v \in W \ U : g[v] = 0
      /\ \A v \in U : f[v] \in Int /\ g[v] = f[v]
  BY DEF Contents, Count
<1>2. /\ IsFiniteSet(V) /\ IsFiniteSet(W) /\ IsFiniteSet(U) /\ IsFiniteSet(V \ U) /\ IsFiniteSet(W \ U)
      /\ U \in SUBSET V /\ U \in SUBSET W
  BY VouchersFinite
<1> HIDE DEF f, g, U
<1>3. SumFunctionOnSet(f, V) = SumFunctionOnSet(f, U) + SumFunctionOnSet(f, V \ U)
  BY <1>1, <1>2, SumParts
<1>4. SumFunctionOnSet(g, W) = SumFunctionOnSet(g, U) + SumFunctionOnSet(g, W \ U)
  BY <1>1, <1>2, SumParts
<1>5. SumFunctionOnSet(f, V \ U) = 0 /\ SumFunctionOnSet(g, W \ U) = 0
  BY <1>1, <1>2, SumOfZeros
<1>6. SumFunctionOnSet(g, U) = SumFunctionOnSet(f, U)
  BY <1>1, <1>2, SumSame
<1>7. SumFunctionOnSet(f, U) \in Int
  BY <1>1, <1>2, SumIsNumber
<1> QED BY <1>3, <1>4, <1>5, <1>6, <1>7 DEF SumOf, f, g

\* A column of a bin depends on its own lines only.
LEMMA ColumnSame ==
    ASSUME NEW k, NEW p, NEW st, NEW su, NEW done, NEW dono,
           \A l \in OrderLines : PairOf[l] = p /\ PlanColumn(LineOrder[l]) = k =>
               /\ su[LineOrder[l]] = "posted" <=> st[LineOrder[l]] = "posted"
               /\ st[LineOrder[l]] = "posted" => dono[l] = done[l]
    PROVE  DemandIn(k, p, su, dono) = DemandIn(k, p, st, done)
<1> DEFINE A == {l \in OrderLines : /\ PairOf[l] = p /\ PlanColumn(LineOrder[l]) = k
                                    /\ su[LineOrder[l]] = "posted"}
           B == {l \in OrderLines : /\ PairOf[l] = p /\ PlanColumn(LineOrder[l]) = k
                                    /\ st[LineOrder[l]] = "posted"}
<1>1. A = B /\ \A l \in B : dono[l] = done[l]
  OBVIOUS
<1>2. DemandIn(k, p, su, dono) =
          SumFunctionOnSet([l \in A |-> IF Ordered[l] > dono[l] THEN Ordered[l] - dono[l] ELSE 0], A)
  BY DEF DemandIn
<1>3. DemandIn(k, p, st, done) =
          SumFunctionOnSet([l \in B |-> IF Ordered[l] > done[l] THEN Ordered[l] - done[l] ELSE 0], B)
  BY DEF DemandIn
<1> HIDE DEF A, B
<1>4. [l \in A |-> IF Ordered[l] > dono[l] THEN Ordered[l] - dono[l] ELSE 0]
      = [l \in B |-> IF Ordered[l] > done[l] THEN Ordered[l] - done[l] ELSE 0]
  BY <1>1
<1> QED BY <1>1, <1>2, <1>3, <1>4

\* The demand on a bin depends on its own lines only.
LEMMA DemandSame ==
    ASSUME NEW p, NEW st, NEW su, NEW done, NEW dono,
           \A l \in OrderLines : PairOf[l] = p =>
               /\ su[LineOrder[l]] = "posted" <=> st[LineOrder[l]] = "posted"
               /\ st[LineOrder[l]] = "posted" => dono[l] = done[l]
    PROVE  OpenDemand(p, su, dono) = OpenDemand(p, st, done)
<1>1. \A k \in BinColumns : DemandIn(k, p, su, dono) = DemandIn(k, p, st, done)
  BY ColumnSame
<1> QED BY <1>1 DEF OpenDemand

\* Whatever is posted of a line is covered by what was ordered and handed over.
LEMMA SumsNotNegative ==
    ASSUME OrderTypes, VouchersSound, ReturnsCover, NEW V \in {Moving, Billing}, NEW l \in OrderLines
    PROVE  SumLine(V, paper, l) >= 0
<1> DEFINE f == [v \in V |-> Count(content, v, paper, l)]
           key == [v \in V |-> IF IsReturn(v) THEN against[v] ELSE v]
           Of(g) == {v \in V : key[v] = g}
           group == [g \in OrderVouchers |-> SumFunctionOnSet(f, Of(g))]
<1>0. content \in Contents
  BY DEF OrderTypes, Contents
<1>1. /\ V \in SUBSET OrderVouchers /\ IsFiniteSet(V) /\ IsFiniteSet(OrderVouchers)
      /\ \A v \in V : f[v] \in Int
  BY <1>0, Kinds, VouchersFinite DEF Contents, Count
<1>2. \A v \in V : key[v] \in OrderVouchers
  BY <1>1 DEF IsReturn, OrderTypes
<1>3. SumFunctionOnSet(f, V) = SumFunctionOnSet(group, OrderVouchers)
  <2> HIDE DEF f, key
  <2> QED BY <1>1, <1>2, SumByGroup
<1>4. ASSUME NEW g \in OrderVouchers PROVE group[g] \in Nat
  <2>1. Of(g) \in SUBSET OrderVouchers /\ IsFiniteSet(Of(g))
    BY <1>1, FS_Subset
  <2>2. group[g] = SumOf(content, Of(g), paper, l)
    <3> DEFINE h == [v \in Of(g) |-> Count(content, v, paper, l)]
    <3>1. \A v \in Of(g) : h[v] = f[v] /\ f[v] \in Int
      BY <1>1
    <3>2. SumOf(content, Of(g), paper, l) = SumFunctionOnSet(h, Of(g))
      BY DEF SumOf
    <3>3. group[g] = SumFunctionOnSet(f, Of(g))
      OBVIOUS
    <3> HIDE DEF h, f, Of, group
    <3>4. SumFunctionOnSet(h, Of(g)) = SumFunctionOnSet(f, Of(g))
      BY <2>1, <3>1, SumSame
    <3> QED BY <3>2, <3>3, <3>4
  <2>3. CASE ~(paper[g] = "posted" /\ ~IsReturn(g) /\ g \in V)
    <3>1. \A v \in Of(g) : paper[v] # "posted"
      <4> SUFFICES ASSUME NEW v \in Of(g), paper[v] = "posted" PROVE FALSE
        OBVIOUS
      <4>1. v \in V /\ v \in OrderVouchers /\ (IF IsReturn(v) THEN against[v] = g ELSE v = g)
        BY <1>1
      <4>2. CASE IsReturn(v)
        <5>1. paper[g] = "posted" /\ ~IsReturn(g) /\ trade.kind[v] = trade.kind[g]
          BY <4>1, <4>2 DEF VouchersSound
        <5>2. g \in V
          BY <4>1, <5>1 DEF Moving, Billing
        <5> QED BY <2>3, <5>1, <5>2
      <4>3. CASE ~IsReturn(v)
        BY <2>3, <4>1, <4>3
      <4> QED BY <4>2, <4>3
    <3> DEFINE h == [v \in Of(g) |-> Count(content, v, paper, l)]
    <3>2. \A v \in Of(g) : h[v] = 0
      BY <3>1 DEF Count
    <3>3. SumOf(content, Of(g), paper, l) = SumFunctionOnSet(h, Of(g))
      BY DEF SumOf
    <3> HIDE DEF h, Of
    <3>4. SumFunctionOnSet(h, Of(g)) = 0
      BY <2>1, <3>2, SumOfZeros
    <3> QED BY <2>2, <3>3, <3>4
  <2>4. CASE paper[g] = "posted" /\ ~IsReturn(g) /\ g \in V
    <3>1. g \in Of(g) /\ Of(g) \ {g} \in SUBSET ReturnsOf(g) /\ g \notin ReturnsOf(g)
      <4>1. /\ NoVoucher \notin OrderVouchers /\ against[g] = NoVoucher
            /\ \A v \in V : v \in OrderVouchers /\ against[v] \in OrderVouchers \cup {NoVoucher}
        BY <1>1, <2>4, OrdersAssumption DEF IsReturn, OrderTypes, Papers
      <4>2. g \in Of(g)
        BY <2>4
      <4>3. \A v \in Of(g) : v # g => against[v] = g
        BY <4>1
      <4> QED BY <4>1, <4>2, <4>3 DEF ReturnsOf
    <3>2. \A w \in ReturnsOf(g) : w \in Of(g)
      <4> SUFFICES ASSUME NEW w \in ReturnsOf(g) PROVE w \in Of(g)
        OBVIOUS
      <4>1. w \in OrderVouchers /\ against[w] = g /\ IsReturn(w)
        BY OrdersAssumption DEF ReturnsOf, IsReturn, Papers
      <4>2. trade.kind[w] = trade.kind[g]
        BY <4>1 DEF VouchersSound
      <4>3. w \in V
        BY <2>4, <4>1, <4>2 DEF Moving, Billing
      <4> QED BY <4>1, <4>3
    <3>3. Of(g) \ {g} = ReturnsOf(g)
      BY <3>1, <3>2
    <3> HIDE DEF Of, group, f
    <3>4. SumOf(content, Of(g), paper, l) = content[g][l] + SumOf(content, ReturnsOf(g), paper, l)
      <4>1. SumOf(content, Of(g), paper, l)
                = Count(content, g, paper, l) + SumOf(content, Of(g) \ {g}, paper, l)
        BY <1>0, <2>1, <3>1, SumOfSplit
      <4> QED BY <2>4, <3>3, <4>1 DEF Count
    <3>5. content[g][l] + SumOf(content, ReturnsOf(g), paper, l) >= 0
      BY <2>4, SumLineOf DEF ReturnsCover
    <3>6. SumOf(content, Of(g), paper, l) \in Int
      BY <1>0, <2>1, SumOfIsInt
    <3> QED BY <2>2, <3>4, <3>5, <3>6
  <2> QED BY <2>3, <2>4
<1> HIDE DEF f, group
<1>5. SumFunctionOnSet(group, OrderVouchers) \in Nat
  BY <1>1, <1>4, SumNotNegative
<1>6. SumLine(V, paper, l) = SumFunctionOnSet(f, V)
  BY SumLineOf DEF SumOf, f
<1> QED BY <1>3, <1>5, <1>6

-----------------------------------------------------------------------------
\* And so it is in the next state.
LEMMA SumLineNext == \A V, st, l : SumLine(V, st, l)' = SumOf(content', V, st, l)
<1> SUFFICES ASSUME NEW V, NEW st, NEW l PROVE SumLine(V, st, l)' = SumOf(content', V, st, l)
  OBVIOUS
<1>1. [v \in V |-> Count(content', v, st, l)] = [v \in V |-> IF st[v] = "posted" THEN content'[v][l] ELSE 0]
  BY DEF Count
<1> QED BY <1>1 DEF SumLine, SumOf

\* A step that leaves alone what desk u holds.
Spares(u) ==
    /\ desk'[u] = desk[u] /\ trade' = trade
    /\ \A r \in desk[u].held \cap Papers : paper'[r] = paper[r]
    /\ \A v \in OrderVouchers :
          /\ content'[v] # content[v] \/ against'[v] # against[v] =>
                v \notin desk[u].held /\ paper[v] # "posted" /\ paper'[v] # "posted"
          /\ (paper[v] = "posted") # (paper'[v] = "posted") => References(v) \cap desk[u].held = {}
    /\ \A p \in OwnPairs(u) \cap desk[u].held, l \in OrderLines : PairOf[l] = p =>
          /\ moved'[l] = moved[l]
          /\ paper'[LineOrder[l]] = "posted" <=> paper[LineOrder[l]] = "posted"

\* What a desk holds when it plans the bins: its document, its orders, its original.
LEMMA PlanHolds ==
    ASSUME OrderTypes, RowsHeld, NEW u \in Desks, desk[u].at = "plan", NEW d, d = desk[u].doc
    PROVE  /\ d \in Papers /\ d \in desk[u].held /\ paper[d] = Before(desk[u].doing)
           /\ OrdersOf(d) \subseteq desk[u].held /\ OrdersOf(d) \subseteq Orders
           /\ References(d) \subseteq desk[u].held
<1>1. d \in Papers /\ d \in desk[u].held /\ paper[d] = Before(desk[u].doing)
      /\ References(d) \subseteq desk[u].held
  BY DEF OrderTypes, DeskTyped, RowsHeld, RowsOf
<1>2. OrdersOf(d) \subseteq Orders
  BY <1>1, OrdersAssumption DEF OrdersOf, Touched, Papers
<1>3. OrdersOf(d) \subseteq desk[u].held
  BY <1>1 DEF OrdersOf, References
<1> QED BY <1>1, <1>2, <1>3

\* The lines of held orders count as before.
LEMMA CountsSpared ==
    ASSUME OrderTypes, NEW u \in Desks, Spares(u), NEW v \in OrderVouchers, NEW l \in OrderLines,
           LineOrder[l] \in desk[u].held
    PROVE  Count(content', v, paper', l) = Count(content, v, paper, l)
<1>1. CASE content'[v] # content[v]
  BY <1>1 DEF Spares, Count
<1>2. CASE content'[v] = content[v] /\ ((paper[v] = "posted") # (paper'[v] = "posted"))
  <2>1. References(v) \cap desk[u].held = {}
    BY <1>2 DEF Spares
  <2>2. content[v][l] = 0
    <3>1. v \notin Orders
      BY OrdersAssumption
    <3> QED BY <2>1, <3>1 DEF References, OrdersOf, Touched
  <2> QED BY <1>2, <2>2 DEF Count
<1>3. CASE content'[v] = content[v] /\ (paper[v] = "posted" <=> paper'[v] = "posted")
  BY <1>3 DEF Count
<1> QED BY <1>1, <1>2, <1>3

\* So do their sums.
LEMMA SumsSpared ==
    ASSUME OrderTypes, OrderTypes', NEW u \in Desks, Spares(u), NEW V \in SUBSET OrderVouchers,
           NEW l \in OrderLines, LineOrder[l] \in desk[u].held
    PROVE  SumOf(content', V, paper', l) = SumOf(content, V, paper, l)
<1>1. content \in Contents /\ content' \in Contents
  BY DEF OrderTypes, Contents
<1>2. \A v \in V : Count(content', v, paper', l) = Count(content, v, paper, l)
  BY CountsSpared
<1>3. PICK C, D, st, su : C = content /\ D = content' /\ st = paper /\ su = paper'
  OBVIOUS
<1>4. SumOf(D, V, su, l) = SumOf(C, V, st, l)
  BY <1>1, <1>2, <1>3, SumOfSame
<1> QED BY <1>3, <1>4

\* Its document is what it was.
LEMMA DocSpared ==
    ASSUME OrderTypes, OrderTypes', RowsHeld, NEW u \in Desks, Spares(u), desk[u].at = "plan",
           NEW d, d = desk[u].doc
    PROVE  /\ d \in OrderVouchers => content'[d] = content[d] /\ against'[d] = against[d]
           /\ OrdersOf(d)' = OrdersOf(d) /\ OwnLines(u)' = OwnLines(u) /\ OwnPairs(u)' = OwnPairs(u)
           /\ \A l \in OwnLines(u) : l \in OrderLines /\ LineOrder[l] \in desk[u].held
           /\ d \in OrderVouchers => /\ Touched(d)' = Touched(d) /\ Touched(d) \subseteq OwnLines(u)
                                     /\ IsReturn(d)' = IsReturn(d) /\ Peers(d)' = Peers(d)
           /\ Moving' = Moving /\ Billing' = Billing
<1>1. d = desk[u].doc
  OBVIOUS
<1>2. d \in Papers /\ d \in desk[u].held /\ OrdersOf(d) \subseteq desk[u].held
  BY <1>1, PlanHolds
<1>3. d \in OrderVouchers => content'[d] = content[d] /\ against'[d] = against[d]
  BY <1>2 DEF Spares
<1>4. Moving' = Moving /\ Billing' = Billing
  BY DEF Spares, Moving, Billing
<1>5. d \in OrderVouchers => Touched(d)' = Touched(d) /\ IsReturn(d)' = IsReturn(d)
  BY <1>3 DEF Touched, IsReturn
<1>6. OrdersOf(d)' = OrdersOf(d)
  BY <1>2, <1>5 DEF OrdersOf, Papers
<1>7. desk'[u].doc = d
  BY <1>1 DEF Spares
<1>8. OwnLines(u)' = OwnLines(u) /\ OwnPairs(u)' = OwnPairs(u)
  BY <1>1, <1>6, <1>7 DEF OwnLines, OwnPairs
<1>9. \A l \in OwnLines(u) : l \in OrderLines /\ LineOrder[l] \in desk[u].held
  BY <1>1, <1>2 DEF OwnLines, LinesOf
<1>10. d \in OrderVouchers => Touched(d) \subseteq OwnLines(u)
  BY <1>1, OrdersAssumption DEF OwnLines, LinesOf, OrdersOf, Touched
<1>11. Peers(d)' = Peers(d)
  BY <1>4 DEF Peers
<1> QED BY <1>1, <1>3, <1>4, <1>5, <1>6, <1>8, <1>9, <1>10, <1>11

\* What it has checked stays true, and what it has counted stays right.
LEMMA PermissionSpared ==
    ASSUME OrderTypes, OrderTypes', RowsHeld, NEW u \in Desks, Spares(u), desk[u].at = "plan",
           StillPermitted(u)
    PROVE  StillPermitted(u)'
<1>1. PICK d : d = desk[u].doc
  OBVIOUS
<1>2. desk'[u] = desk[u] /\ d = desk'[u].doc
  BY <1>1 DEF Spares
<1>3. /\ d \in OrderVouchers => content'[d] = content[d] /\ against'[d] = against[d]
      /\ OrdersOf(d)' = OrdersOf(d)
      /\ \A l \in OwnLines(u) : l \in OrderLines /\ LineOrder[l] \in desk[u].held
      /\ d \in OrderVouchers => /\ Touched(d)' = Touched(d) /\ Touched(d) \subseteq OwnLines(u)
                                /\ IsReturn(d)' = IsReturn(d) /\ Peers(d)' = Peers(d)
      /\ Moving' = Moving
  BY <1>1, DocSpared
<1>4. /\ d \in Papers /\ d \in desk[u].held /\ OrdersOf(d) \subseteq desk[u].held \cap Papers
      /\ References(d) \subseteq desk[u].held
  BY <1>1, PlanHolds DEF Papers
<1>5. Peers(d) \in SUBSET OrderVouchers /\ Moving \in SUBSET OrderVouchers
  BY Kinds DEF Peers
<1>6. ASSUME NEW V \in SUBSET OrderVouchers, NEW l \in OwnLines(u)
      PROVE  SumOf(content', V, paper', l) = SumOf(content, V, paper, l)
  BY <1>3, SumsSpared
<1>7. ASSUME d \in OrderVouchers, NEW l \in Touched(d), NEW q, WithinOrder(d, l, q) PROVE WithinOrder(d, l, q)'
  <2>1. /\ SumOf(content, Peers(d), paper, l) + q <= Ordered[l]
        /\ d \in Moving => SumOf(content, Moving \ {d}, paper, l) + q <= Ordered[l]
    BY <1>7, SumLineOf DEF WithinOrder
  <2>2. l \in OwnLines(u)
    BY <1>3, <1>7
  <2>3. /\ SumOf(content', Peers(d), paper', l) = SumOf(content, Peers(d), paper, l)
        /\ SumOf(content', Moving \ {d}, paper', l) = SumOf(content, Moving \ {d}, paper, l)
    BY <1>5, <1>6, <2>2
  <2>4. /\ SumOf(content', Peers(d), paper', l) + q <= Ordered[l]
        /\ d \in Moving => SumOf(content', Moving \ {d}, paper', l) + q <= Ordered[l]
    BY <2>1, <2>3
  <2>5. /\ SumLine(Peers(d), paper, l)' = SumOf(content', Peers(d), paper', l)
        /\ SumLine(Moving \ {d}, paper, l)' = SumOf(content', Moving \ {d}, paper', l)
    <3>1. PICK P, M, st : P = Peers(d) /\ M = Moving \ {d} /\ st = paper'
      OBVIOUS
    <3>2. SumLine(Peers(d), paper, l)' = SumLine(P, st, l)' /\ SumLine(Moving \ {d}, paper, l)' = SumLine(M, st, l)'
      BY <1>3, <1>7, <3>1 DEF SumLine
    <3> QED BY <3>1, <3>2, SumLineNext
  <2> QED BY <1>3, <1>7, <2>4, <2>5 DEF WithinOrder
\* A voucher that became posted or stopped being so refers to nothing that desk u holds.
<1>8. \A w \in OrderVouchers : d \in References(w) => (paper'[w] = "posted" <=> paper[w] = "posted")
  BY <1>4 DEF Spares
<1>9. ASSUME d \in OrderVouchers, IsReturn(d), ReturnFits(d) PROVE ReturnFits(d)'
  <2> DEFINE g == against[d]
             W == {w \in OrderVouchers \ {d} : against[w] = g}
             X == {w \in OrderVouchers \ {d} : against'[w] = g}
  <2>1. /\ paper[g] = "posted" /\ ~IsReturn(g)
        /\ \A l \in OrderLines : content[d][l] < 0 =>
              content[g][l] + SumOf(content, W, paper, l) + content[d][l] >= 0
    BY <1>9, SumLineOf DEF ReturnFits
  <2>2. g \in OrderVouchers /\ g \in desk[u].held
    BY <1>4, <1>9, OrdersAssumption DEF References, IsReturn, OrderTypes, Papers
  <2>3. PICK h, A, B : h = g /\ A = W /\ B = X
    OBVIOUS
  <2>4. /\ h \in OrderVouchers /\ paper'[h] = "posted" /\ against'[h] = NoVoucher
        /\ content'[h] = content[h] /\ against'[d] = h /\ content'[d] = content[d]
    BY <1>3, <1>9, <2>1, <2>2, <2>3 DEF Spares, IsReturn, Papers
  <2>5. A \in SUBSET OrderVouchers /\ B \in SUBSET OrderVouchers
    BY <2>3
  <2>6. ASSUME NEW l \in OrderLines, content'[d][l] < 0
        PROVE  content'[h][l] + SumOf(content', B, paper', l) + content'[d][l] >= 0
    <3>1. l \in OwnLines(u)
      BY <1>3, <1>9, <2>4, <2>6 DEF Touched
    <3>2. \A w \in OrderVouchers : Count(content', w, paper', l) = Count(content, w, paper, l)
      BY <1>3, <3>1, CountsSpared
    <3>3. \A w \in OrderVouchers : against'[w] # against[w] =>
              Count(content', w, paper', l) = 0 /\ Count(content, w, paper, l) = 0
      BY DEF Spares, Count
    <3>4. /\ \A w \in A \cap B : Count(content', w, paper', l) = Count(content, w, paper, l)
          /\ \A w \in B \ A : Count(content', w, paper', l) = 0
          /\ \A w \in A \ B : Count(content, w, paper, l) = 0
      BY <2>3, <3>2, <3>3
    <3>5. PICK C, D, st, su : /\ C = content /\ D = content' /\ st = paper /\ su = paper'
                              /\ C \in Contents /\ D \in Contents
      BY DEF OrderTypes, Contents
    <3>6. SumOf(D, B, su, l) = SumOf(C, A, st, l)
      BY <2>5, <3>4, <3>5, SumOfSame
    <3> QED BY <2>1, <2>3, <2>4, <2>6, <3>5, <3>6
  <2>7. \A l \in OrderLines : SumOf(content', B, paper', l)
            = SumLine({w \in OrderVouchers \ {d} : against[w] = against[d]}, paper, l)'
    <3> SUFFICES ASSUME NEW l \in OrderLines
                 PROVE  SumOf(content', B, paper', l)
                            = SumLine({w \in OrderVouchers \ {d} : against[w] = against[d]}, paper, l)'
      OBVIOUS
    <3>1. PICK st : st = paper'
      OBVIOUS
    <3>2. B = {w \in OrderVouchers \ {d} : against'[w] = against'[d]}
      BY <2>3, <2>4
    <3>3. SumLine({w \in OrderVouchers \ {d} : against[w] = against[d]}, paper, l)' = SumLine(B, st, l)'
      BY <3>1, <3>2 DEF SumLine
    <3> QED BY <3>1, <3>3, SumLineNext
  <2>8. \A l \in OrderLines : content'[d][l] < 0 =>
            content'[against'[d]][l]
            + SumLine({w \in OrderVouchers \ {d} : against[w] = against[d]}, paper, l)' + content'[d][l] >= 0
    BY <2>4, <2>6, <2>7
  <2> QED BY <2>4, <2>8 DEF ReturnFits, IsReturn
<1>10. ASSUME d \in OrderVouchers, desk[u].doing = "submit"
       PROVE  /\ \A o \in OrdersOf(d)' : paper'[o] = "posted"
              /\ \A l \in Touched(d)' : WithinOrder(d, l, content[d][l])'
              /\ IsReturn(d)' => ReturnFits(d)'
  <2>1. /\ \A o \in OrdersOf(d) : paper[o] = "posted"
        /\ \A l \in Touched(d) : WithinOrder(d, l, content[d][l])
        /\ IsReturn(d) => ReturnFits(d)
    BY <1>1, <1>10 DEF StillPermitted
  <2>2. \A o \in OrdersOf(d)' : paper'[o] = "posted"
    BY <1>3, <1>4, <2>1 DEF Spares
  <2>3. ASSUME NEW l \in Touched(d)' PROVE WithinOrder(d, l, content[d][l])'
    <3>1. PICK q : q = content[d][l]
      OBVIOUS
    <3>2. WithinOrder(d, l, q)'
      BY <1>3, <1>7, <1>10, <2>1, <2>3, <3>1
    <3>3. content'[d][l] = q
      BY <1>3, <1>10, <3>1
    <3> QED BY <3>2, <3>3 DEF WithinOrder
  <2> QED BY <1>3, <1>9, <1>10, <2>1, <2>2, <2>3
<1>11. ASSUME d \in OrderVouchers, desk[u].doing = "cancel"
       PROVE  /\ \A w \in OrderVouchers : against'[w] = d => paper'[w] # "posted"
              /\ \A l \in Touched(d)' : WithinOrder(d, l, 0)'
  <2>1. /\ \A w \in OrderVouchers : against[w] = d => paper[w] # "posted"
        /\ \A l \in Touched(d) : WithinOrder(d, l, 0)
    BY <1>1, <1>11 DEF StillPermitted
  <2>2. \A l \in Touched(d)' : WithinOrder(d, l, 0)'
    BY <1>3, <1>7, <1>11, <2>1
  <2>3. ASSUME NEW w \in OrderVouchers, against'[w] = d PROVE paper'[w] # "posted"
    <3>1. CASE against'[w] # against[w]
      BY <3>1 DEF Spares
    <3>2. CASE against'[w] = against[w]
      <4>1. d \in References(w)
        BY <1>11, <2>3, <3>2, OrdersAssumption DEF References, IsReturn, Papers
      <4> QED BY <1>8, <2>1, <2>3, <3>2, <4>1
    <3> QED BY <3>1, <3>2
  <2> QED BY <2>2, <2>3
<1>12. ASSUME d \in Orders, desk[u].doing = "cancel" PROVE OrderReleasable(d)'
  <2>1. OrderReleasable(d)
    BY <1>1, <1>12 DEF StillPermitted
  <2>2. ASSUME NEW v \in OrderVouchers, paper'[v] = "posted" PROVE d \notin OrdersOf(v)'
    <3>1. content'[v] = content[v] /\ v \notin Orders
      BY <2>2, OrdersAssumption DEF Spares
    <3>2. OrdersOf(v)' = OrdersOf(v)
      BY <3>1 DEF OrdersOf, Touched
    <3>3. OrdersOf(v) \subseteq References(v)
      BY <3>1 DEF References
    <3> QED BY <1>8, <2>1, <2>2, <3>2, <3>3 DEF OrderReleasable
  <2> QED BY <2>2 DEF OrderReleasable
<1> QED BY <1>2, <1>10, <1>11, <1>12 DEF StillPermitted

\* The progress and the demand it has computed stay what they would be if computed now.
LEMMA CountSpared ==
    ASSUME OrderTypes, OrderTypes', RowsHeld, NEW u \in Desks, Spares(u), desk[u].at = "plan",
           StillCounted(u)
    PROVE  StillCounted(u)'
<1>1. PICK d : d = desk[u].doc
  OBVIOUS
<1>2. desk'[u] = desk[u] /\ d = desk'[u].doc
  BY <1>1 DEF Spares
<1>3. /\ OwnLines(u)' = OwnLines(u) /\ OwnPairs(u)' = OwnPairs(u)
      /\ \A l \in OwnLines(u) : l \in OrderLines /\ LineOrder[l] \in desk[u].held
      /\ Moving' = Moving /\ Billing' = Billing
      /\ d \in OrderVouchers => content'[d] = content[d]
  BY <1>1, DocSpared
<1>4. PICK a : a = After(desk[u].doing)
  OBVIOUS
<1>5. PICK st, su : st = Seen(u) /\ su = Seen(u)'
  OBVIOUS
<1>6. st = [paper EXCEPT ![d] = a] /\ su = [paper' EXCEPT ![d] = a]
  BY <1>1, <1>2, <1>4, <1>5 DEF Seen
<1>7. \A x \in Papers : /\ st[x] = (IF x = d THEN a ELSE paper[x])
                        /\ su[x] = (IF x = d THEN a ELSE paper'[x])
  BY <1>6 DEF OrderTypes
<1>8. ASSUME NEW V \in {Moving, Billing}, NEW l \in OwnLines(u)
      PROVE  SumLine(V, Seen(u), l)' = SumLine(V, Seen(u), l)
  <2>1. V \in SUBSET OrderVouchers /\ l \in OrderLines /\ LineOrder[l] \in desk[u].held
    BY <1>3, Kinds
  <2>2. \A v \in V : Count(content', v, su, l) = Count(content, v, st, l)
    <3> SUFFICES ASSUME NEW v \in V PROVE Count(content', v, su, l) = Count(content, v, st, l)
      OBVIOUS
    <3>1. v \in OrderVouchers /\ v \in Papers
      BY <2>1 DEF Papers
    <3>2. CASE v = d
      BY <1>3, <1>7, <3>1, <3>2 DEF Count
    <3>3. CASE v # d
      <4>1. Count(content', v, paper', l) = Count(content, v, paper, l)
        BY <2>1, <3>1, CountsSpared
      <4>2. st[v] = paper[v] /\ su[v] = paper'[v]
        BY <1>7, <3>1, <3>3
      <4> QED BY <4>1, <4>2 DEF Count
    <3> QED BY <3>2, <3>3
  <2>3. PICK C, D : C = content /\ D = content' /\ C \in Contents /\ D \in Contents
    BY DEF OrderTypes, Contents
  <2>4. SumOf(D, V, su, l) = SumOf(C, V, st, l)
    BY <2>1, <2>2, <2>3, SumOfSame
  <2>5. SumLine(V, Seen(u), l)' = SumLine(V, su, l)'
    BY <1>5 DEF SumLine
  <2> QED BY <1>5, <2>3, <2>4, <2>5, SumLineOf, SumLineNext
<1>9. DOMAIN desk'[u].moved = OrderLines
  BY DEF OrderTypes, DeskTyped
<1>10. ASSUME NEW p \in OwnPairs(u) \cap desk[u].held PROVE Demand(u, p)' = Demand(u, p)
  <2>1. PICK m, mu : m = MovedSeen(u) /\ mu = MovedSeen(u)'
    OBVIOUS
  <2>2. \A l \in OrderLines : /\ m[l] = (IF l \in OwnLines(u) THEN desk[u].moved[l] ELSE moved[l])
                              /\ mu[l] = (IF l \in OwnLines(u) THEN desk[u].moved[l] ELSE moved'[l])
    BY <1>2, <1>3, <2>1 DEF MovedSeen
  <2>3. ASSUME NEW l \in OrderLines, PairOf[l] = p
        PROVE  /\ su[LineOrder[l]] = "posted" <=> st[LineOrder[l]] = "posted"
               /\ mu[l] = m[l]
    <3>1. LineOrder[l] \in Papers
      BY OrdersAssumption DEF Papers
    <3>2. moved'[l] = moved[l] /\ (paper'[LineOrder[l]] = "posted" <=> paper[LineOrder[l]] = "posted")
      BY <2>3 DEF Spares
    <3> QED BY <1>7, <2>2, <3>1, <3>2
  <2>4. OpenDemand(p, su, mu) = OpenDemand(p, st, m)
    BY <2>3, DemandSame
  <2>5. Demand(u, p)' = OpenDemand(p, su, mu)
    BY <1>5, <2>1 DEF Demand, OpenDemand, DemandIn
  <2> QED BY <1>5, <2>1, <2>4, <2>5 DEF Demand
<1>11. ASSUME NEW l \in OwnLines(u)'
       PROVE  /\ desk'[u].moved[l] = SumLine(Moving, Seen(u), l)'
              /\ desk'[u].billed[l] = SumLine(Billing, Seen(u), l)'
  <2>1. PICK M, B : M = Moving /\ B = Billing
    OBVIOUS
  <2>2. SumLine(M, Seen(u), l)' = SumLine(M, Seen(u), l) /\ SumLine(B, Seen(u), l)' = SumLine(B, Seen(u), l)
    BY <1>3, <1>8, <1>11, <2>1
  <2>3. SumLine(Moving, Seen(u), l)' = SumLine(M, Seen(u), l)' /\ SumLine(Billing, Seen(u), l)' = SumLine(B, Seen(u), l)'
    BY <1>3, <2>1 DEF SumLine
  <2>4. /\ desk[u].moved[l] = SumLine(M, Seen(u), l)
        /\ desk[u].billed[l] = SumLine(B, Seen(u), l)
    BY <1>3, <1>11, <2>1 DEF StillCounted
  <2> QED BY <1>2, <2>2, <2>3, <2>4
<1>12. ASSUME NEW p \in OwnPairs(u)' \cap desk'[u].held PROVE desk'[u].planned[p] = Demand(u, p)'
  BY <1>2, <1>3, <1>10, <1>12 DEF StillCounted
<1> QED BY <1>11, <1>12 DEF StillCounted

-----------------------------------------------------------------------------
\* A step that posts and cancels nothing, and changes no paper that is held.
PostsNothing ==
    /\ trade' = trade /\ moved' = moved /\ billed' = billed /\ planned' = planned /\ desk' = desk
    /\ \A x \in Papers : /\ paper'[x] = "posted" <=> paper[x] = "posted"
                         /\ paper'[x] = "unsaved" => paper[x] = "unsaved"
    /\ \A v \in OrderVouchers : content'[v] # content[v] \/ against'[v] # against[v] => paper[v] = "unsaved"
    /\ \A s \in Desks : \A r \in desk[s].held \cap Papers : paper'[r] = paper[r]

\* Such a step keeps the invariant.
LEMMA NothingPosted ==
    ASSUME OrderInv, OrderTypes', VouchersSound', PostsNothing
    PROVE  OrderInv'
<1>1. /\ OrderTypes /\ RowsHeld /\ RowsSaved /\ VouchersSound /\ ReturnsCover /\ WithinLines
      /\ DesksReady /\ ProgressIsPosted /\ PlanIsOpenDemand
  BY DEF OrderInv
<1>2. PICK C, D, st, su : /\ C = content /\ D = content' /\ st = paper /\ su = paper'
                          /\ C \in Contents /\ D \in Contents
  BY <1>1 DEF OrderTypes, Contents
<1>3. ASSUME NEW v \in OrderVouchers, NEW l PROVE Count(D, v, su, l) = Count(C, v, st, l)
  BY <1>2 DEF PostsNothing, Count, Papers
<1>4. ASSUME NEW V \in SUBSET OrderVouchers, NEW l \in OrderLines
      PROVE  SumLine(V, paper, l)' = SumLine(V, paper, l)
  <2>1. SumOf(D, V, su, l) = SumOf(C, V, st, l)
    BY <1>2, <1>3, SumOfSame
  <2>2. SumLine(V, paper, l)' = SumLine(V, su, l)'
    BY <1>2 DEF SumLine
  <2> QED BY <1>2, <2>1, <2>2, SumLineOf, SumLineNext
<1>5. Moving' = Moving /\ Billing' = Billing
  BY DEF PostsNothing, Moving, Billing
<1>6. ASSUME NEW s \in Desks, NEW v \in (desk[s].held \cup desk[s].want) \cap OrderVouchers
      PROVE  content'[v] = content[v] /\ against'[v] = against[v]
  BY <1>1 DEF PostsNothing, RowsSaved
<1>7. ASSUME NEW s \in Desks, NEW d \in desk[s].held, d \in Papers
      PROVE  OrdersOf(d)' = OrdersOf(d) /\ References(d)' = References(d)
  <2>1. d \in OrderVouchers => content'[d] = content[d] /\ against'[d] = against[d]
    BY <1>6, <1>7
  <2>2. OrdersOf(d)' = OrdersOf(d)
    BY <1>7, <2>1 DEF OrdersOf, Touched, Papers
  <2> QED BY <1>7, <2>1, <2>2 DEF References, IsReturn, Papers
<1>8. RowsHeld'
  <2>1. desk' = desk
    BY DEF PostsNothing
  <2>2. ASSUME NEW s \in Desks, desk[s].at \in {"refs", "plan"}, NEW d, d = desk[s].doc
        PROVE  /\ d \in desk[s].held /\ paper'[d] = Before(desk[s].doing)
               /\ References(d)' = References(d) /\ OwnPairs(s)' = OwnPairs(s)
    <3>1. d \in desk[s].held /\ paper[d] = Before(desk[s].doing) /\ d \in Papers
      BY <1>1, <2>2 DEF RowsHeld, RowsOf, OrderTypes, DeskTyped
    <3>2. paper'[d] = paper[d]
      BY <3>1 DEF PostsNothing
    <3>3. OrdersOf(d)' = OrdersOf(d) /\ References(d)' = References(d)
      BY <1>7, <3>1
    <3>4. OwnPairs(s)' = OwnPairs(s)
      BY <2>1, <2>2, <3>3 DEF OwnPairs
    <3> QED BY <3>1, <3>2, <3>3, <3>4
  <2>3. \A s, u \in Desks : s # u => desk'[s].held \cap desk'[u].held = {}
    BY <1>1, <2>1 DEF RowsHeld, RowsOf
  <2>4. ASSUME NEW s \in Desks, NEW d, d = desk'[s].doc
        PROVE  /\ desk'[s].at \in {"rest", "own"} => desk'[s].held = {}
               /\ desk'[s].at = "own" => desk'[s].want = {d}
               /\ desk'[s].at \in {"refs", "plan"} => d \in desk'[s].held /\ paper'[d] = Before(desk'[s].doing)
               /\ desk'[s].at = "refs" => /\ References(d)' \subseteq desk'[s].held \cup desk'[s].want
                                         /\ desk'[s].held \cup desk'[s].want \subseteq Papers
               /\ desk'[s].at = "plan" => /\ References(d)' \subseteq desk'[s].held
                                         /\ OwnPairs(s)' \subseteq desk'[s].held \cup desk'[s].want
                                         /\ desk'[s].want \subseteq Pairs
    <3>1. d = desk[s].doc
      BY <2>1, <2>4
    <3>2. desk[s].at \in {"refs", "plan"} =>
               /\ d \in desk[s].held /\ paper'[d] = Before(desk[s].doing)
               /\ References(d)' = References(d) /\ OwnPairs(s)' = OwnPairs(s)
      BY <2>2, <3>1
    <3> QED BY <1>1, <2>1, <3>1, <3>2 DEF RowsHeld, RowsOf
  <2> QED BY <2>3, <2>4 DEF RowsHeld, RowsOf
<1>9. RowsSaved'
  BY <1>1 DEF RowsSaved, PostsNothing, Papers
<1>10. ReturnsCover'
  <2> SUFFICES ASSUME NEW g \in OrderVouchers, paper'[g] = "posted", against'[g] = NoVoucher, NEW l \in OrderLines
               PROVE  content'[g][l] + SumLine(ReturnsOf(g), paper, l)' >= 0
    BY DEF ReturnsCover, IsReturn
  <2>1. paper[g] = "posted" /\ against[g] = NoVoucher /\ content'[g] = content[g]
    BY DEF PostsNothing, Papers
  <2>2. content[g][l] + SumLine(ReturnsOf(g), paper, l) >= 0
    BY <1>1, <2>1 DEF ReturnsCover, IsReturn
  <2>3. PICK A, B : A = ReturnsOf(g) /\ B = ReturnsOf(g)'
    OBVIOUS
  <2>4. A \in SUBSET OrderVouchers /\ B \in SUBSET OrderVouchers
    BY <2>3 DEF ReturnsOf
  <2>5. \A w \in OrderVouchers : against'[w] # against[w] => Count(D, w, su, l) = 0 /\ Count(C, w, st, l) = 0
    BY <1>2 DEF PostsNothing, Count, Papers
  <2>6. /\ \A w \in A \cap B : Count(D, w, su, l) = Count(C, w, st, l)
        /\ \A w \in B \ A : Count(D, w, su, l) = 0
        /\ \A w \in A \ B : Count(C, w, st, l) = 0
    BY <1>3, <2>3, <2>4, <2>5 DEF ReturnsOf
  <2>7. SumOf(D, B, su, l) = SumOf(C, A, st, l)
    BY <1>2, <2>4, <2>6, SumOfSame
  <2>8. SumLine(ReturnsOf(g), paper, l)' = SumLine(B, su, l)'
    BY <1>2, <2>3 DEF SumLine
  <2>9. SumLine(ReturnsOf(g), paper, l)' = SumLine(ReturnsOf(g), paper, l)
    BY <1>2, <2>3, <2>7, <2>8, SumLineOf, SumLineNext
  <2> QED BY <2>1, <2>2, <2>9
<1>11. PICK M, B : M = Moving /\ B = Billing /\ M \in SUBSET OrderVouchers /\ B \in SUBSET OrderVouchers
  BY <1>1, Kinds
<1>12. \A l \in OrderLines : /\ SumLine(Moving, paper, l)' = SumLine(Moving, paper, l)
                             /\ SumLine(Billing, paper, l)' = SumLine(Billing, paper, l)
  <2> SUFFICES ASSUME NEW l \in OrderLines
               PROVE  /\ SumLine(Moving, paper, l)' = SumLine(Moving, paper, l)
                      /\ SumLine(Billing, paper, l)' = SumLine(Billing, paper, l)
    OBVIOUS
  <2>1. SumLine(Moving, paper, l)' = SumLine(M, paper, l)' /\ SumLine(Billing, paper, l)' = SumLine(B, paper, l)'
    BY <1>5, <1>11 DEF SumLine
  <2> QED BY <1>4, <1>11, <2>1
<1>13. WithinLines'
  BY <1>1, <1>12 DEF WithinLines
<1>14. \A l \in OrderLines : LineOrder[l] \in Papers
  BY OrdersAssumption DEF Papers
<1>15. ProgressIsPosted'
  BY <1>1, <1>12, <1>14 DEF ProgressIsPosted, PostsNothing
<1>16. PlanIsOpenDemand'
  <2> SUFFICES ASSUME NEW p \in Pairs PROVE planned'[p] = OpenDemand(p, paper, moved)'
    BY DEF PlanIsOpenDemand
  <2>1. PICK m, mu : m = moved /\ mu = moved'
    OBVIOUS
  <2>2. OpenDemand(p, su, mu) = OpenDemand(p, st, m)
    BY <1>2, <1>14, <2>1, DemandSame DEF PostsNothing
  <2>3. OpenDemand(p, paper, moved)' = OpenDemand(p, su, mu)
    BY <1>2, <2>1 DEF OpenDemand, DemandIn
  <2> QED BY <1>1, <1>2, <2>1, <2>2, <2>3 DEF PlanIsOpenDemand, PostsNothing
<1>17. DesksReady'
  <2> SUFFICES ASSUME NEW u \in Desks, desk'[u].at = "plan" PROVE StillPermitted(u)' /\ StillCounted(u)'
    BY DEF DesksReady
  <2>1. desk[u].at = "plan" /\ StillPermitted(u) /\ StillCounted(u)
    BY <1>1 DEF DesksReady, PostsNothing
  <2>2. Spares(u)
    <3>1. \A v \in OrderVouchers : content'[v] # content[v] \/ against'[v] # against[v] =>
              v \notin desk[u].held /\ paper[v] # "posted" /\ paper'[v] # "posted"
      BY <1>6 DEF PostsNothing, Papers
    <3>2. \A v \in OrderVouchers : paper'[v] = "posted" <=> paper[v] = "posted"
      BY DEF PostsNothing, Papers
    <3> QED BY <1>14, <3>1, <3>2 DEF Spares, PostsNothing
  <2> QED BY <1>1, <2>1, <2>2, PermissionSpared, CountSpared
<1> QED BY <1>1, <1>8, <1>9, <1>10, <1>13, <1>15, <1>16, <1>17 DEF OrderInv

-----------------------------------------------------------------------------
\* Drafts of orders and of returns, and their disposal.
LEMMA UnsavedIsFree ==
    ASSUME OrderTypes, RowsSaved, NEW v \in OrderVouchers, paper[v] = "unsaved",
           NEW s \in Desks, NEW r \in desk[s].held \cap Papers
    PROVE  r # v
BY DEF RowsSaved

\* A draft against an order keeps the invariant.
LEMMA DraftKept ==
    ASSUME OrderInv, NEW v \in OrderVouchers, NEW o \in Orders, NEW done, DraftOf(v, o, done),
           done \in {moved, billed}
    PROVE  OrderInv'
<1>1. OrderTypes /\ RowsSaved /\ VouchersSound
  BY DEF OrderInv
<1>2. /\ paper[v] = "unsaved" /\ paper' = [paper EXCEPT ![v] = "draft"]
      /\ trade' = trade /\ against' = against /\ moved' = moved /\ billed' = billed
      /\ planned' = planned /\ desk' = desk
  BY DEF DraftOf
<1>3. v \in Papers /\ \A x \in Papers : paper'[x] = (IF x = v THEN "draft" ELSE paper[x])
  BY <1>1, <1>2 DEF OrderTypes, Papers
<1>4. PICK rows \in SUBSET LinesOf(o) :
          /\ \A l \in rows : Ordered[l] - done[l] - trade.keptBack > 0
          /\ content' = [content EXCEPT ![v] =
                [l \in OrderLines |-> IF l \in rows THEN Ordered[l] - done[l] - trade.keptBack ELSE 0]]
  BY DEF DraftOf
<1>5. /\ \A w \in OrderVouchers \ {v} : content'[w] = content[w]
      /\ content'[v] = [l \in OrderLines |-> IF l \in rows THEN Ordered[l] - done[l] - trade.keptBack ELSE 0]
      /\ content' \in [OrderVouchers -> [OrderLines -> Int]]
  <2>1. \A l \in rows : Ordered[l] - done[l] - trade.keptBack \in Int
    <3>1. trade.keptBack \in Int
      BY <1>1, OrdersAssumption DEF OrderTypes
    <3>2. ASSUME NEW l \in rows PROVE Ordered[l] \in Int /\ done[l] \in Int
      <4>1. l \in OrderLines /\ LineOrder[l] = o /\ paper[LineOrder[l]] = "posted"
        BY DEF LinesOf, DraftOf
      <4>2. moved[l] = SumLine(Moving, paper, l) /\ billed[l] = SumLine(Billing, paper, l)
        BY <4>1 DEF OrderInv, ProgressIsPosted
      <4>3. SumLine(Moving, paper, l) \in Int /\ SumLine(Billing, paper, l) \in Int
        BY <1>1, <4>1, Kinds, SumLineOf, SumOfIsInt DEF OrderTypes, Contents
      <4> QED BY <4>1, <4>2, <4>3, OrdersAssumption
    <3> QED BY <3>1, <3>2
  <2>2. [l \in OrderLines |-> IF l \in rows THEN Ordered[l] - done[l] - trade.keptBack ELSE 0]
            \in [OrderLines -> Int]
    BY <2>1
  <2> QED BY <1>1, <1>4, <2>2 DEF OrderTypes
<1>6. OrderTypes'
  BY <1>1, <1>2, <1>5 DEF OrderTypes
<1>7. PostsNothing
  <2>1. \A s \in Desks : \A r \in desk[s].held \cap Papers : paper'[r] = paper[r]
    BY <1>1, <1>2, <1>3, UnsavedIsFree
  <2> QED BY <1>2, <1>3, <1>5, <2>1 DEF PostsNothing
<1>8. VouchersSound'
  <2> SUFFICES ASSUME NEW w \in OrderVouchers
               PROVE  /\ paper'[w] = "unsaved" => against'[w] = NoVoucher
                      /\ IF IsReturn(w)' THEN \A l \in OrderLines : content'[w][l] <= 0
                                        ELSE \A l \in OrderLines : content'[w][l] >= 0
                      /\ IsReturn(w)' => trade'.kind[w] = trade'.kind[against'[w]] /\ paper'[against'[w]] # "unsaved"
                      /\ paper'[w] = "posted" =>
                            /\ \A x \in OrdersOf(w)' : paper'[x] = "posted"
                            /\ IsReturn(w)' => paper'[against'[w]] = "posted" /\ ~IsReturn(against[w])'
    BY DEF VouchersSound
  <2>1. \A x \in OrderVouchers : IsReturn(x)' = IsReturn(x) /\ x \in Papers /\ x \notin Orders
    BY <1>2, OrdersAssumption DEF IsReturn, Papers
  <2>2. IsReturn(w) => against[w] \in OrderVouchers /\ against[w] \in Papers
    BY <1>1, OrdersAssumption DEF IsReturn, OrderTypes, Papers
  <2>3. CASE w = v
    <3>1. ~IsReturn(v)
      BY <1>1, <1>2 DEF VouchersSound, IsReturn
    <3>2. \A l \in OrderLines : content'[v][l] >= 0
      <4> SUFFICES ASSUME NEW l \in OrderLines PROVE content'[v][l] >= 0
        OBVIOUS
      <4>1. CASE l \in rows
        <5>1. content'[v][l] = Ordered[l] - done[l] - trade.keptBack
          BY <1>5, <4>1
        <5>2. content'[v][l] \in Int
          BY <1>5
        <5> QED BY <1>4, <4>1, <5>1, <5>2
      <4>2. CASE l \notin rows
        BY <1>5, <4>2
      <4> QED BY <4>1, <4>2
    <3> QED BY <1>3, <2>1, <2>3, <3>1, <3>2
  <2>4. CASE w # v
    <3>1. content'[w] = content[w] /\ paper'[w] = paper[w] /\ against'[w] = against[w]
      BY <1>2, <1>3, <1>5, <2>1, <2>4
    <3>2. OrdersOf(w)' = OrdersOf(w) /\ OrdersOf(w) \subseteq Orders
      BY <2>1, <3>1, OrdersAssumption DEF OrdersOf, Touched
    <3>3. \A x \in OrdersOf(w) : paper[x] = "posted" => paper'[x] = "posted"
      BY <1>2, <1>3, <3>2 DEF Papers
    <3>4. IsReturn(w) => /\ paper[against[w]] = "posted" => paper'[against'[w]] = "posted"
                         /\ paper[against[w]] # "unsaved" => paper'[against'[w]] # "unsaved"
                         /\ ~IsReturn(against[w]) => ~IsReturn(against[w])'
      <4> SUFFICES ASSUME IsReturn(w)
                   PROVE  /\ paper[against[w]] = "posted" => paper'[against'[w]] = "posted"
                          /\ paper[against[w]] # "unsaved" => paper'[against'[w]] # "unsaved"
                          /\ ~IsReturn(against[w]) => ~IsReturn(against[w])'
        OBVIOUS
      <4>1. ~IsReturn(against[w]) => ~IsReturn(against[w])'
        BY <1>2 DEF IsReturn
      <4> QED BY <1>2, <1>3, <2>2, <3>1, <4>1
    <3> QED BY <1>1, <1>2, <2>1, <3>1, <3>2, <3>3, <3>4 DEF VouchersSound
  <2> QED BY <2>3, <2>4
<1> QED BY <1>6, <1>7, <1>8, NothingPosted

\* A draft of a return keeps the invariant.
LEMMA ReturnKept ==
    ASSUME OrderInv, NEW v \in OrderVouchers, NEW g \in OrderVouchers, DraftReturn(v, g)
    PROVE  OrderInv'
<1>1. OrderTypes /\ RowsSaved /\ VouchersSound /\ ReturnsCover
  BY DEF OrderInv
<1>2. /\ paper[v] = "unsaved" /\ paper' = [paper EXCEPT ![v] = "draft"]
      /\ against' = [against EXCEPT ![v] = g]
      /\ content' = [content EXCEPT ![v] = [l \in OrderLines |-> -Returnable(g, l)]]
      /\ trade' = trade /\ moved' = moved /\ billed' = billed /\ planned' = planned /\ desk' = desk
      /\ paper[g] = "posted" /\ ~IsReturn(g) /\ trade.kind[v] = trade.kind[g]
  BY DEF DraftReturn
<1>3. v \in Papers /\ \A x \in Papers : paper'[x] = (IF x = v THEN "draft" ELSE paper[x])
  BY <1>1, <1>2 DEF OrderTypes, Papers
<1>4. ASSUME NEW l \in OrderLines PROVE Returnable(g, l) \in Int /\ Returnable(g, l) >= 0
  <2>1. Returnable(g, l) = content[g][l] + SumLine(ReturnsOf(g), paper, l)
    BY DEF Returnable, ReturnsOf
  <2>2. ReturnsOf(g) \in SUBSET OrderVouchers
    BY DEF ReturnsOf
  <2>3. SumLine(ReturnsOf(g), paper, l) \in Int /\ content[g][l] \in Int
    BY <1>1, <2>2, SumLineOf, SumOfIsInt DEF OrderTypes, Contents
  <2>4. content[g][l] + SumLine(ReturnsOf(g), paper, l) >= 0
    BY <1>1, <1>2 DEF ReturnsCover
  <2> QED BY <2>1, <2>3, <2>4
<1>5. /\ \A w \in OrderVouchers \ {v} : content'[w] = content[w]
      /\ \A l \in OrderLines : content'[v][l] = -Returnable(g, l)
      /\ content' \in [OrderVouchers -> [OrderLines -> Int]]
  <2>1. [l \in OrderLines |-> -Returnable(g, l)] \in [OrderLines -> Int]
    BY <1>4
  <2> QED BY <1>1, <1>2, <2>1 DEF OrderTypes
<1>6. /\ \A w \in OrderVouchers \ {v} : against'[w] = against[w]
      /\ against'[v] = g
      /\ against' \in [OrderVouchers -> OrderVouchers \cup {NoVoucher}]
  BY <1>1, <1>2 DEF OrderTypes
<1>7. OrderTypes'
  BY <1>1, <1>2, <1>5, <1>6 DEF OrderTypes
<1>8. PostsNothing
  <2>1. \A s \in Desks : \A r \in desk[s].held \cap Papers : paper'[r] = paper[r]
    BY <1>1, <1>2, <1>3, UnsavedIsFree
  <2> QED BY <1>2, <1>3, <1>5, <1>6, <2>1 DEF PostsNothing
<1>9. VouchersSound'
  <2> SUFFICES ASSUME NEW w \in OrderVouchers
               PROVE  /\ paper'[w] = "unsaved" => against'[w] = NoVoucher
                      /\ IF IsReturn(w)' THEN \A l \in OrderLines : content'[w][l] <= 0
                                        ELSE \A l \in OrderLines : content'[w][l] >= 0
                      /\ IsReturn(w)' => trade'.kind[w] = trade'.kind[against'[w]] /\ paper'[against'[w]] # "unsaved"
                      /\ paper'[w] = "posted" =>
                            /\ \A x \in OrdersOf(w)' : paper'[x] = "posted"
                            /\ IsReturn(w)' => paper'[against'[w]] = "posted" /\ ~IsReturn(against[w])'
    BY DEF VouchersSound
  <2>1. w \in Papers /\ w \notin Orders /\ g \in Papers /\ g # v
    BY <1>2, OrdersAssumption DEF Papers
  <2>3. CASE w = v
    <3>1. IsReturn(v)'
      BY <1>6, OrdersAssumption DEF IsReturn, Papers
    <3>2. \A l \in OrderLines : content'[v][l] <= 0
      BY <1>4, <1>5
    <3> QED BY <1>2, <1>3, <1>6, <2>1, <2>3, <3>1, <3>2
  <2>4. CASE w # v
    <3>1. /\ content'[w] = content[w] /\ paper'[w] = paper[w] /\ against'[w] = against[w]
          /\ IsReturn(w)' = IsReturn(w)
      BY <1>3, <1>5, <1>6, <2>1, <2>4 DEF IsReturn
    <3>2. OrdersOf(w)' = OrdersOf(w) /\ OrdersOf(w) \subseteq Orders
      BY <2>1, <3>1, OrdersAssumption DEF OrdersOf, Touched
    <3>3. \A x \in OrdersOf(w) : paper[x] = "posted" => paper'[x] = "posted"
      BY <1>2, <1>3, <3>2 DEF Papers
    <3>4. IsReturn(w) => /\ paper[against[w]] = "posted" =>
                               paper'[against'[w]] = "posted" /\ (~IsReturn(against[w]) => ~IsReturn(against[w])')
                         /\ paper[against[w]] # "unsaved" => paper'[against'[w]] # "unsaved"
      <4> SUFFICES ASSUME IsReturn(w)
                   PROVE  /\ paper[against[w]] = "posted" =>
                                paper'[against'[w]] = "posted" /\ (~IsReturn(against[w]) => ~IsReturn(against[w])')
                          /\ paper[against[w]] # "unsaved" => paper'[against'[w]] # "unsaved"
        OBVIOUS
      <4>1. against[w] \in OrderVouchers /\ against[w] \in Papers
        BY <1>1 DEF IsReturn, OrderTypes, Papers
      <4>2. against[w] # v => against'[against[w]] = against[against[w]]
        BY <1>6, <4>1
      <4>3. paper[against[w]] = "posted" => against[w] # v
        BY <1>2
      <4>4. ~IsReturn(against[w]) /\ paper[against[w]] = "posted" => ~IsReturn(against[w])'
        BY <3>1, <4>2, <4>3 DEF IsReturn
      <4> QED BY <1>2, <1>3, <3>1, <4>1, <4>3, <4>4
    <3>5. IF IsReturn(w) THEN \A l \in OrderLines : content[w][l] <= 0
                         ELSE \A l \in OrderLines : content[w][l] >= 0
      BY <1>1 DEF VouchersSound
    <3> QED BY <1>1, <1>2, <2>1, <3>1, <3>2, <3>3, <3>4, <3>5 DEF VouchersSound
  <2> QED BY <2>3, <2>4
<1> QED BY <1>7, <1>8, <1>9, NothingPosted

\* A discarded draft keeps the invariant.
LEMMA DiscardKept ==
    ASSUME OrderInv, NEW d \in Papers, DiscardPaper(d)
    PROVE  OrderInv'
<1>1. OrderTypes /\ VouchersSound
  BY DEF OrderInv
<1>2. /\ paper[d] = "draft" /\ paper' = [paper EXCEPT ![d] = "discarded"]
      /\ trade' = trade /\ against' = against /\ content' = content /\ moved' = moved /\ billed' = billed
      /\ planned' = planned /\ desk' = desk
      /\ \A s \in Desks : d \notin desk[s].held
  BY DEF DiscardPaper
<1>3. \A x \in Papers : paper'[x] = (IF x = d THEN "discarded" ELSE paper[x])
  BY <1>1, <1>2 DEF OrderTypes
<1>4. OrderTypes'
  BY <1>1, <1>2 DEF OrderTypes
<1>5. PostsNothing
  BY <1>2, <1>3 DEF PostsNothing
<1>6. VouchersSound'
  <2> SUFFICES ASSUME NEW w \in OrderVouchers
               PROVE  /\ paper'[w] = "unsaved" => against'[w] = NoVoucher
                      /\ IF IsReturn(w)' THEN \A l \in OrderLines : content'[w][l] <= 0
                                        ELSE \A l \in OrderLines : content'[w][l] >= 0
                      /\ IsReturn(w)' => trade'.kind[w] = trade'.kind[against'[w]] /\ paper'[against'[w]] # "unsaved"
                      /\ paper'[w] = "posted" =>
                            /\ \A x \in OrdersOf(w)' : paper'[x] = "posted"
                            /\ IsReturn(w)' => paper'[against'[w]] = "posted" /\ ~IsReturn(against[w])'
    BY DEF VouchersSound
  <2>1. /\ OrdersOf(w)' = OrdersOf(w) /\ OrdersOf(w) \subseteq Orders /\ w \in Papers
        /\ \A x : IsReturn(x)' = IsReturn(x)
    BY <1>2, OrdersAssumption DEF OrdersOf, Touched, IsReturn, Papers
  <2>2. \A x \in OrdersOf(w) : paper[x] = "posted" => paper'[x] = "posted"
    BY <1>2, <1>3, <2>1 DEF Papers
  <2>3. IsReturn(w) => against[w] \in Papers /\ IsReturn(against[w])' = IsReturn(against[w])
    BY <1>1, <1>2, <2>1 DEF IsReturn, OrderTypes, Papers
  <2> QED BY <1>1, <1>2, <1>3, <2>1, <2>2, <2>3 DEF VouchersSound
<1> QED BY <1>4, <1>5, <1>6, NothingPosted

-----------------------------------------------------------------------------
\* A step that one desk takes for itself.
DeskOnly(s) ==
    /\ trade' = trade /\ paper' = paper /\ content' = content /\ against' = against
    /\ moved' = moved /\ billed' = billed /\ planned' = planned
    /\ DOMAIN desk' = Desks /\ \A u \in Desks \ {s} : desk'[u] = desk[u]

\* It keeps the invariant if the desk keeps its own part.
LEMMA DeskSteps ==
    ASSUME OrderInv, NEW s \in Desks, DeskOnly(s), DeskTyped(desk'[s]), RowsOf(s)',
           \A u \in Desks \ {s} : desk'[s].held \cap desk[u].held = {},
           \A r \in (desk'[s].held \cup desk'[s].want) \cap OrderVouchers : paper[r] # "unsaved",
           desk'[s].at = "plan" => StillPermitted(s)' /\ StillCounted(s)'
    PROVE  OrderInv'
<1>1. /\ OrderTypes /\ RowsHeld /\ RowsSaved /\ VouchersSound /\ ReturnsCover /\ WithinLines
      /\ DesksReady /\ ProgressIsPosted /\ PlanIsOpenDemand
  BY DEF OrderInv
<1>2. OrderTypes'
  BY <1>1 DEF OrderTypes, DeskOnly
<1>3. \A d : OrdersOf(d)' = OrdersOf(d) /\ References(d)' = References(d)
  BY DEF DeskOnly, OrdersOf, Touched, References, IsReturn
<1>4. ASSUME NEW u \in Desks, u # s PROVE RowsOf(u)'
  <2>1. RowsOf(u) /\ desk'[u] = desk[u] /\ paper' = paper
    BY <1>1, <1>4 DEF RowsHeld, DeskOnly
  <2>2. OwnPairs(u)' = OwnPairs(u)
    BY <1>3, <2>1 DEF OwnPairs
  <2>3. PICK d : d = desk[u].doc
    OBVIOUS
  <2>4. d = desk'[u].doc /\ References(d)' = References(d)
    BY <1>3, <2>1, <2>3
  <2>5. References(desk[u].doc)' = References(d)'
    BY <2>4 DEF References, OrdersOf, IsReturn, Touched
  <2> QED BY <2>1, <2>2, <2>3, <2>4, <2>5 DEF RowsOf
<1>5. RowsHeld'
  <2>1. ASSUME NEW u \in Desks, NEW w \in Desks, u # w PROVE desk'[u].held \cap desk'[w].held = {}
    BY <1>1, <2>1 DEF RowsHeld, DeskOnly
  <2> QED BY <1>4, <2>1 DEF RowsHeld
<1>6. RowsSaved'
  BY <1>1 DEF RowsSaved, DeskOnly
<1>7. VouchersSound'
  <2>1. \A v \in OrderVouchers : IsReturn(v)' = IsReturn(v) /\ IsReturn(against[v])' = IsReturn(against[v])
    BY DEF IsReturn, DeskOnly
  <2> QED BY <1>1, <1>3, <2>1 DEF VouchersSound, DeskOnly
<1>8. \A V, st, l : SumLine(V, st, l)' = SumLine(V, st, l)
  BY DEF SumLine, DeskOnly
<1>9. Moving' = Moving /\ Billing' = Billing /\ \A v : ReturnsOf(v)' = ReturnsOf(v) /\ IsReturn(v)' = IsReturn(v)
  BY DEF Moving, Billing, ReturnsOf, DeskOnly, IsReturn
<1>10. \A l : /\ SumLine(Moving, paper, l)' = SumLine(Moving, paper, l)
              /\ SumLine(Billing, paper, l)' = SumLine(Billing, paper, l)
  BY <1>9 DEF SumLine, DeskOnly
<1>11. ReturnsCover'
  <2>1. \A v, l : SumLine(ReturnsOf(v), paper, l)' = SumLine(ReturnsOf(v), paper, l)
    BY <1>9 DEF SumLine, DeskOnly
  <2> QED BY <1>1, <1>9, <2>1 DEF ReturnsCover, DeskOnly
<1>12. WithinLines' /\ ProgressIsPosted'
  BY <1>1, <1>10 DEF WithinLines, ProgressIsPosted, DeskOnly
<1>13. PlanIsOpenDemand'
  BY <1>1 DEF PlanIsOpenDemand, OpenDemand, DemandIn, DeskOnly
<1>14. DesksReady'
  <2> SUFFICES ASSUME NEW u \in Desks, u # s, desk'[u].at = "plan" PROVE StillPermitted(u)' /\ StillCounted(u)'
    BY DEF DesksReady
  <2>1. desk[u].at = "plan" /\ StillPermitted(u) /\ StillCounted(u)
    BY <1>1 DEF DesksReady, DeskOnly
  <2>2. Spares(u)
    BY DEF Spares, DeskOnly
  <2> QED BY <1>1, <1>2, <2>1, <2>2, PermissionSpared, CountSpared
<1> QED BY <1>2, <1>5, <1>6, <1>7, <1>11, <1>12, <1>13, <1>14 DEF OrderInv

\* A desk at rest has its type.
LEMMA RestingTyped == DeskTyped(Resting)
BY DEF Resting, DeskTyped, DeskFields, Steps, NoLines, NothingPlanned

\* An abort keeps the invariant.
LEMMA DeskGoesHome ==
    ASSUME OrderInv, NEW s \in Desks, AbortPaper(s)
    PROVE  OrderInv'
<1>1. OrderTypes
  BY DEF OrderInv
<1>2. DeskOnly(s) /\ desk'[s] = Resting
  BY <1>1 DEF AbortPaper, DeskOnly, OrderTypes
<1>3. Resting.at = "rest" /\ Resting.held = {} /\ Resting.want = {}
  BY DEF Resting
<1>4. RowsOf(s)'
  BY <1>2, <1>3 DEF RowsOf
<1> QED BY <1>2, <1>3, <1>4, RestingTyped, DeskSteps

\* A request keeps the invariant.
LEMMA PaperRequested ==
    ASSUME OrderInv, NEW s \in Desks, NEW d \in Papers, NEW doing \in Steps, RequestPaper(s, d, doing)
    PROVE  OrderInv'
<1>1. OrderTypes
  BY DEF OrderInv
<1>2. /\ DeskOnly(s)
      /\ desk'[s] = [Resting EXCEPT !.at = "own", !.doing = doing, !.doc = d, !.want = {d}]
  BY <1>1 DEF RequestPaper, DeskOnly, OrderTypes
<1>3. DeskTyped(desk'[s]) /\ desk'[s].at = "own" /\ desk'[s].held = {} /\ desk'[s].want = {d} /\ desk'[s].doc = d
  BY <1>2 DEF Resting, DeskTyped, DeskFields, Steps, NoLines, NothingPlanned, Papers
<1>4. RowsOf(s)'
  BY <1>3 DEF RowsOf
<1>5. paper[d] # "unsaved"
  BY DEF RequestPaper, Before
<1> QED BY <1>2, <1>3, <1>4, <1>5, DeskSteps

\* A row lock keeps the invariant.
LEMMA PaperLocked ==
    ASSUME OrderInv, NEW s \in Desks, LockPaper(s)
    PROVE  OrderInv'
<1>1. OrderTypes /\ RowsHeld /\ RowsSaved /\ VouchersSound
  BY DEF OrderInv
<1>2. PICK r \in desk[s].want :
          /\ Free(r)
          /\ desk[s].at = "own" => paper[r] = Before(desk[s].doing)
          /\ desk' = [desk EXCEPT ![s].at = "refs",
                         ![s].held = @ \cup {r},
                         ![s].want = IF desk[s].at = "own" THEN References(r) ELSE @ \ {r}]
  BY DEF LockPaper
<1>3. PICK d : d = desk[s].doc
  OBVIOUS
<1>4. DeskTyped(desk[s]) /\ RowsOf(s) /\ desk[s].at \in {"own", "refs"} /\ d \in Papers
  BY <1>1, <1>3 DEF OrderTypes, DeskTyped, RowsHeld, LockPaper
<1>5. /\ DeskOnly(s)
      /\ desk'[s].at = "refs" /\ desk'[s].held = desk[s].held \cup {r}
      /\ desk'[s].want = (IF desk[s].at = "own" THEN References(r) ELSE desk[s].want \ {r})
      /\ desk'[s].doc = d /\ desk'[s].doing = desk[s].doing /\ desk'[s].moved = desk[s].moved
      /\ desk'[s].billed = desk[s].billed /\ desk'[s].planned = desk[s].planned
      /\ DOMAIN desk'[s] = DeskFields
  BY <1>1, <1>2, <1>3, <1>4 DEF LockPaper, DeskOnly, OrderTypes, DeskTyped, DeskFields
<1>6. References(d)' = References(d) /\ References(d) \subseteq Papers
  <2>1. References(d)' = References(d)
    BY <1>5 DEF DeskOnly, References, OrdersOf, Touched, IsReturn
  <2>2. OrdersOf(d) \subseteq Orders
    BY <1>4, OrdersAssumption DEF OrdersOf, Touched, Papers
  <2>3. d \in OrderVouchers /\ IsReturn(d) => against[d] \in Papers
    BY <1>1 DEF OrderTypes, IsReturn, Papers
  <2> QED BY <1>4, <2>1, <2>2, <2>3 DEF References, Papers
<1>7. desk[s].at = "own" => r = d /\ desk[s].held = {}
  BY <1>3, <1>4 DEF RowsOf
<1>8. desk'[s].held \cup desk'[s].want \subseteq Papers
  BY <1>4, <1>5, <1>6, <1>7 DEF RowsOf
<1>9. DeskTyped(desk'[s])
  <2>1. desk'[s].want \subseteq Papers \cup Pairs
    BY <1>8
  <2> QED BY <1>4, <1>5, <2>1 DEF DeskTyped
<1>10. RowsOf(s)'
  <2>1. d \in desk'[s].held /\ paper'[d] = Before(desk'[s].doing)
    BY <1>2, <1>3, <1>4, <1>5, <1>7 DEF RowsOf, DeskOnly
  <2>2. References(d) \subseteq desk'[s].held \cup desk'[s].want
    BY <1>3, <1>4, <1>5, <1>7 DEF RowsOf
  <2>3. References(desk[s].doc)' = References(d)
    BY <1>5, <1>6 DEF References, OrdersOf, Touched, IsReturn
  <2>4. desk'[s].at = "refs"
    BY <1>5
  <2> QED BY <1>5, <1>8, <2>1, <2>2, <2>3, <2>4 DEF RowsOf
<1>11. \A u \in Desks \ {s} : desk'[s].held \cap desk[u].held = {}
  BY <1>1, <1>2, <1>5 DEF RowsHeld, Free
<1>12. \A x \in (desk'[s].held \cup desk'[s].want) \cap OrderVouchers : paper[x] # "unsaved"
  <2>1. \A x \in (desk[s].held \cup desk[s].want) \cap OrderVouchers : paper[x] # "unsaved"
    BY <1>1 DEF RowsSaved
  <2>2. \A x \in References(d) \cap OrderVouchers : paper[x] # "unsaved"
    <3> SUFFICES ASSUME NEW x \in References(d) \cap OrderVouchers PROVE paper[x] # "unsaved"
      OBVIOUS
    <3>1. d \in OrderVouchers /\ IsReturn(d) /\ x = against[d]
      <4>1. OrdersOf(d) \subseteq Orders /\ Orders \cap OrderVouchers = {}
        BY <1>4, OrdersAssumption DEF OrdersOf, Touched, Papers
      <4> QED BY <1>4, <4>1 DEF References, Papers
    <3> QED BY <1>1, <3>1 DEF VouchersSound
  <2>3. CASE desk[s].at = "own"
    <3>1. desk'[s].want = References(d) /\ r = d /\ r \in desk[s].want
      BY <1>5, <1>7, <2>3
    <3> QED BY <1>5, <2>1, <2>2, <3>1
  <2>4. CASE desk[s].at # "own"
    <3>1. desk'[s].want = desk[s].want \ {r} /\ r \in desk[s].want
      BY <1>5, <2>4
    <3> QED BY <1>5, <2>1, <3>1
  <2> QED BY <2>3, <2>4
<1> QED BY <1>5, <1>9, <1>10, <1>11, <1>12, DeskSteps

\* The checks and the progress computed after them keep the invariant.
LEMMA PaperPosted ==
    ASSUME OrderInv, NEW s \in Desks, PostPaper(s)
    PROVE  OrderInv'
<1>1. OrderTypes /\ RowsHeld /\ RowsSaved /\ VouchersSound
  BY DEF OrderInv
<1>2. PICK d, a, M, B, st : d = desk[s].doc /\ a = desk[s].doing /\ M = Moving /\ B = Billing /\ st = Seen(s)
  OBVIOUS
<1>3. /\ DeskTyped(desk[s]) /\ RowsOf(s) /\ desk[s].at = "refs" /\ desk[s].want = {} /\ d \in Papers
      /\ Permitted(d, a)
  BY <1>1, <1>2 DEF OrderTypes, DeskTyped, RowsHeld, PostPaper
<1>4. /\ DeskOnly(s)
      /\ desk'[s].at = "plan" /\ desk'[s].held = desk[s].held /\ desk'[s].want = OwnPairs(s)
      /\ desk'[s].doc = d /\ desk'[s].doing = a /\ desk'[s].planned = desk[s].planned
      /\ desk'[s].moved = [l \in OrderLines |-> IF l \in OwnLines(s) THEN SumLine(M, st, l) ELSE 0]
      /\ desk'[s].billed = [l \in OrderLines |-> IF l \in OwnLines(s) THEN SumLine(B, st, l) ELSE 0]
      /\ DOMAIN desk'[s] = DeskFields
  BY <1>1, <1>2, <1>3 DEF PostPaper, DeskOnly, OrderTypes, DeskTyped, DeskFields
<1>5. /\ References(d)' = References(d) /\ OrdersOf(d)' = OrdersOf(d)
      /\ OwnPairs(s)' = OwnPairs(s) /\ OwnLines(s)' = OwnLines(s) /\ OwnPairs(s) \subseteq Pairs
      /\ OwnLines(s) \subseteq OrderLines
      /\ Seen(s)' = st /\ Moving' = M /\ Billing' = B
  <2>1. References(d)' = References(d) /\ OrdersOf(d)' = OrdersOf(d)
    BY <1>4 DEF DeskOnly, References, OrdersOf, Touched, IsReturn
  <2>2. OwnPairs(s) \subseteq Pairs /\ OwnLines(s) \subseteq OrderLines
    BY OrdersAssumption DEF OwnPairs, PairsOf, OwnLines, LinesOf
  <2>3. OwnPairs(s)' = OwnPairs(s) /\ OwnLines(s)' = OwnLines(s)
    BY <1>2, <1>4, <2>1 DEF OwnPairs, OwnLines
  <2>4. Seen(s)' = st
    BY <1>2, <1>4 DEF Seen, DeskOnly
  <2>5. Moving' = M /\ Billing' = B
    BY <1>2, <1>4 DEF Moving, Billing, DeskOnly
  <2> QED BY <2>1, <2>2, <2>3, <2>4, <2>5
<1>6. DeskTyped(desk'[s])
  BY <1>2, <1>3, <1>4, <1>5 DEF DeskTyped
<1>7. RowsOf(s)'
  <2>1. d \in desk'[s].held /\ paper'[d] = Before(desk'[s].doing) /\ References(d) \subseteq desk'[s].held
    BY <1>2, <1>3, <1>4 DEF RowsOf, DeskOnly
  <2>2. References(desk[s].doc)' = References(d)
    BY <1>4, <1>5 DEF References, OrdersOf, Touched, IsReturn
  <2>3. desk'[s].at = "plan"
    BY <1>4
  <2> QED BY <1>4, <1>5, <2>1, <2>2, <2>3 DEF RowsOf
<1>8. \A u \in Desks \ {s} : desk'[s].held \cap desk[u].held = {}
  BY <1>1, <1>4 DEF RowsHeld
<1>9. \A x \in (desk'[s].held \cup desk'[s].want) \cap OrderVouchers : paper[x] # "unsaved"
  <2>1. \A x \in OwnPairs(s) : x \notin OrderVouchers
    BY <1>5, OrdersAssumption DEF Papers
  <2> QED BY <1>1, <1>4, <2>1 DEF RowsSaved
<1>10. StillPermitted(s)'
  <2>1. \A l, q : WithinOrder(d, l, q)' <=> WithinOrder(d, l, q)
    BY <1>4 DEF WithinOrder, SumLine, Peers, Moving, Billing, DeskOnly
  <2>2. ReturnFits(d)' <=> ReturnFits(d)
    BY <1>4 DEF ReturnFits, SumLine, IsReturn, DeskOnly
  <2>3. OrderReleasable(d)' <=> OrderReleasable(d)
    <3>1. \A v : OrdersOf(v)' = OrdersOf(v)
      BY <1>4 DEF OrdersOf, Touched, DeskOnly
    <3> QED BY <1>4, <3>1 DEF OrderReleasable, DeskOnly
  <2>4. /\ paper' = paper /\ against' = against /\ content' = content /\ IsReturn(d)' = IsReturn(d)
        /\ Touched(d)' = Touched(d)
    BY <1>4 DEF DeskOnly, IsReturn, Touched
  <2>5. d \in Orders => d \notin OrderVouchers
    BY OrdersAssumption
  <2>6. d \in OrderVouchers /\ a = "submit" => VoucherValid(d)
    BY <1>3 DEF Permitted
  <2>7. d \in OrderVouchers /\ a = "cancel" => VoucherReleasable(d)
    BY <1>3 DEF Permitted
  <2>8. d \in Orders /\ a = "cancel" => OrderReleasable(d)
    BY <1>3, <2>5 DEF Permitted
  <2>9. d \in OrderVouchers /\ a = "submit" =>
              /\ \A o \in OrdersOf(d)' : paper'[o] = "posted"
              /\ \A l \in Touched(d)' : WithinOrder(d, l, content[d][l])'
              /\ IsReturn(d)' => ReturnFits(d)'
    <3> SUFFICES ASSUME VoucherValid(d)
                 PROVE  /\ \A o \in OrdersOf(d)' : paper'[o] = "posted"
                        /\ \A l \in Touched(d)' : WithinOrder(d, l, content[d][l])'
                        /\ IsReturn(d)' => ReturnFits(d)'
      BY <2>6
    <3>1. ASSUME NEW l \in Touched(d)' PROVE WithinOrder(d, l, content[d][l])'
      <4>1. PICK q : q = content[d][l]
        OBVIOUS
      <4>2. content'[d][l] = q
        BY <2>4, <4>1
      <4>3. WithinOrder(d, l, q)'
        BY <2>1, <2>4, <3>1, <4>1 DEF VoucherValid
      <4> QED BY <4>2, <4>3 DEF WithinOrder
    <3> QED BY <1>5, <2>2, <2>4, <3>1 DEF VoucherValid
  <2>10. d \in OrderVouchers /\ a = "cancel" =>
              /\ \A w \in OrderVouchers : against'[w] = d => paper'[w] # "posted"
              /\ \A l \in Touched(d)' : WithinOrder(d, l, 0)'
    BY <2>1, <2>4, <2>7 DEF VoucherReleasable
  <2> QED BY <1>4, <2>3, <2>8, <2>9, <2>10 DEF StillPermitted
<1>11. StillCounted(s)'
  <2>1. ASSUME NEW l \in OwnLines(s)'
        PROVE  /\ desk'[s].moved[l] = SumLine(Moving, Seen(s), l)'
               /\ desk'[s].billed[l] = SumLine(Billing, Seen(s), l)'
    <3>1. desk'[s].moved[l] = SumLine(M, st, l) /\ desk'[s].billed[l] = SumLine(B, st, l)
      BY <1>4, <1>5, <2>1
    <3>2. SumLine(Moving, Seen(s), l)' = SumLine(M, st, l) /\ SumLine(Billing, Seen(s), l)' = SumLine(B, st, l)
      BY <1>4, <1>5 DEF SumLine, DeskOnly
    <3> QED BY <3>1, <3>2
  <2>2. OwnPairs(s)' \cap desk'[s].held = {}
    BY <1>3, <1>4, <1>5, OrdersAssumption DEF RowsOf
  <2> QED BY <2>1, <2>2 DEF StillCounted
<1> QED BY <1>4, <1>6, <1>7, <1>8, <1>9, <1>10, <1>11, DeskSteps

\* A bin planned under its lock keeps the invariant.
LEMMA BinPlanned ==
    ASSUME OrderInv, NEW s \in Desks, PlanBin(s)
    PROVE  OrderInv'
<1>1. OrderTypes /\ RowsHeld /\ RowsSaved /\ DesksReady
  BY DEF OrderInv
<1>2. PICK d, M, B, st, m : /\ d = desk[s].doc /\ M = Moving /\ B = Billing /\ st = Seen(s)
                            /\ m = MovedSeen(s)
  OBVIOUS
<1>3. PICK p \in desk[s].want :
          /\ Free(p)
          /\ desk' = [desk EXCEPT ![s].held = @ \cup {p}, ![s].want = @ \ {p}, ![s].planned[p] = Demand(s, p)]
  BY DEF PlanBin
<1>4. /\ DeskTyped(desk[s]) /\ RowsOf(s) /\ desk[s].at = "plan" /\ d \in Papers /\ p \in Pairs
      /\ StillPermitted(s) /\ StillCounted(s)
  BY <1>1, <1>2, <1>3 DEF OrderTypes, DeskTyped, RowsHeld, RowsOf, DesksReady, PlanBin
<1>5. /\ DeskOnly(s)
      /\ desk'[s].at = "plan" /\ desk'[s].held = desk[s].held \cup {p} /\ desk'[s].want = desk[s].want \ {p}
      /\ desk'[s].doc = d /\ desk'[s].doing = desk[s].doing
      /\ desk'[s].planned = [desk[s].planned EXCEPT ![p] = OpenDemand(p, st, m)]
      /\ desk'[s].moved = desk[s].moved /\ desk'[s].billed = desk[s].billed
      /\ DOMAIN desk'[s] = DeskFields
  BY <1>1, <1>2, <1>3, <1>4 DEF PlanBin, DeskOnly, OrderTypes, DeskTyped, DeskFields, Demand
<1>6. /\ References(d)' = References(d) /\ OrdersOf(d)' = OrdersOf(d)
      /\ OwnPairs(s)' = OwnPairs(s) /\ OwnLines(s)' = OwnLines(s)
      /\ Seen(s)' = st /\ MovedSeen(s)' = m /\ Moving' = M /\ Billing' = B
  <2>1. References(d)' = References(d) /\ OrdersOf(d)' = OrdersOf(d)
    BY <1>5 DEF DeskOnly, References, OrdersOf, Touched, IsReturn
  <2>2. OwnPairs(s)' = OwnPairs(s) /\ OwnLines(s)' = OwnLines(s)
    BY <1>2, <1>5, <2>1 DEF OwnPairs, OwnLines
  <2>3. Seen(s)' = st
    BY <1>2, <1>5 DEF Seen, DeskOnly
  <2>4. MovedSeen(s)' = m
    BY <1>2, <1>5, <2>2 DEF MovedSeen, DeskOnly
  <2>5. Moving' = M /\ Billing' = B
    BY <1>2, <1>5 DEF Moving, Billing, DeskOnly
  <2> QED BY <2>1, <2>2, <2>3, <2>4, <2>5
<1>7. DeskTyped(desk'[s])
  BY <1>4, <1>5 DEF DeskTyped
<1>8. RowsOf(s)'
  <2>1. d \in desk'[s].held /\ paper'[d] = Before(desk'[s].doing) /\ References(d) \subseteq desk'[s].held
    BY <1>2, <1>4, <1>5 DEF RowsOf, DeskOnly
  <2>2. References(desk[s].doc)' = References(d)
    BY <1>5, <1>6 DEF References, OrdersOf, Touched, IsReturn
  <2>3. desk'[s].at = "plan" /\ OwnPairs(s) \subseteq desk'[s].held \cup desk'[s].want
        /\ desk'[s].want \subseteq Pairs
    BY <1>4, <1>5 DEF RowsOf
  <2> QED BY <1>5, <1>6, <2>1, <2>2, <2>3 DEF RowsOf
<1>9. \A u \in Desks \ {s} : desk'[s].held \cap desk[u].held = {}
  BY <1>1, <1>3, <1>5 DEF RowsHeld, Free
<1>10. \A x \in (desk'[s].held \cup desk'[s].want) \cap OrderVouchers : paper[x] # "unsaved"
  <2>1. \A x \in (desk[s].held \cup desk[s].want) \cap OrderVouchers : paper[x] # "unsaved"
    BY <1>1 DEF RowsSaved
  <2>2. p \in desk[s].want
    OBVIOUS
  <2> QED BY <1>5, <2>1, <2>2
<1>11. StillPermitted(s)'
  <2>1. \A l, q : WithinOrder(d, l, q)' <=> WithinOrder(d, l, q)
    BY <1>5 DEF WithinOrder, SumLine, Peers, Moving, Billing, DeskOnly
  <2>2. ReturnFits(d)' <=> ReturnFits(d)
    BY <1>5 DEF ReturnFits, SumLine, IsReturn, DeskOnly
  <2>3. OrderReleasable(d)' <=> OrderReleasable(d)
    <3>1. \A v : OrdersOf(v)' = OrdersOf(v)
      BY <1>5 DEF OrdersOf, Touched, DeskOnly
    <3> QED BY <1>5, <3>1 DEF OrderReleasable, DeskOnly
  <2>4. /\ paper' = paper /\ against' = against /\ content' = content /\ IsReturn(d)' = IsReturn(d)
        /\ Touched(d)' = Touched(d)
    BY <1>5 DEF DeskOnly, IsReturn, Touched
  <2>5. ASSUME NEW l \in Touched(d)', WithinOrder(d, l, content[d][l]) PROVE WithinOrder(d, l, content[d][l])'
    <3>1. PICK q : q = content[d][l]
      OBVIOUS
    <3>2. content'[d][l] = q
      BY <2>4, <3>1
    <3>3. WithinOrder(d, l, q)'
      BY <2>1, <2>5, <3>1
    <3> QED BY <3>2, <3>3 DEF WithinOrder
  <2> QED BY <1>2, <1>4, <1>5, <1>6, <2>1, <2>2, <2>3, <2>4, <2>5 DEF StillPermitted
<1>12. StillCounted(s)'
  <2>1. ASSUME NEW l \in OwnLines(s)'
        PROVE  /\ desk'[s].moved[l] = SumLine(Moving, Seen(s), l)'
               /\ desk'[s].billed[l] = SumLine(Billing, Seen(s), l)'
    <3>1. desk'[s].moved[l] = SumLine(M, st, l) /\ desk'[s].billed[l] = SumLine(B, st, l)
      BY <1>2, <1>4, <1>5, <1>6, <2>1 DEF StillCounted
    <3>2. SumLine(Moving, Seen(s), l)' = SumLine(M, st, l) /\ SumLine(Billing, Seen(s), l)' = SumLine(B, st, l)
      BY <1>5, <1>6 DEF SumLine, DeskOnly
    <3> QED BY <3>1, <3>2
  <2>2. ASSUME NEW q \in OwnPairs(s)' \cap desk'[s].held PROVE desk'[s].planned[q] = Demand(s, q)'
    <3>1. Demand(s, q)' = OpenDemand(q, st, m)
      BY <1>6 DEF Demand, OpenDemand, DemandIn
    <3>2. CASE q = p
      BY <1>4, <1>5, <3>1, <3>2 DEF DeskTyped
    <3>3. CASE q # p
      <4>1. q \in OwnPairs(s) \cap desk[s].held
        BY <1>5, <1>6, <2>2, <3>3
      <4>2. desk[s].planned[q] = OpenDemand(q, st, m)
        BY <1>2, <1>4, <4>1 DEF StillCounted, Demand
      <4>3. desk'[s].planned[q] = desk[s].planned[q]
        BY <1>5, <3>3
      <4> QED BY <3>1, <4>2, <4>3
    <3> QED BY <3>2, <3>3
  <2> QED BY <2>1, <2>2 DEF StillCounted
<1> QED BY <1>5, <1>7, <1>8, <1>9, <1>10, <1>11, <1>12, DeskSteps

-----------------------------------------------------------------------------
\* Vouchers that count for nothing add up to nothing.
LEMMA SumOfNothing ==
    ASSUME NEW C \in Contents, NEW V \in SUBSET OrderVouchers, NEW st, NEW l,
           \A v \in V : Count(C, v, st, l) = 0
    PROVE  SumOf(C, V, st, l) = 0
<1> DEFINE f == [v \in V |-> Count(C, v, st, l)]
<1>1. \A v \in V : f[v] = 0
  OBVIOUS
<1>2. IsFiniteSet(V)
  BY VouchersFinite
<1> HIDE DEF f
<1>3. SumFunctionOnSet(f, V) = 0
  BY <1>1, <1>2, SumOfZeros
<1> QED BY <1>3 DEF SumOf, f

\* Who bills: the invoices, and no movement.
LEMMA PeersOfBilling ==
    ASSUME OrderTypes, NEW d \in Billing
    PROVE  Peers(d) = Billing \ {d}
<1>1. \A v \in OrderVouchers : trade.kind[v] \in {"movement", "invoice", "direct"}
  BY Kinds
<1>2. \A v \in OrderVouchers : v \in Moving \ Billing <=> v \notin Billing
  BY <1>1 DEF Moving, Billing
<1>3. Billing \subseteq OrderVouchers /\ d \in OrderVouchers
  BY DEF Billing
<1> QED BY <1>2, <1>3 DEF Peers

\* The commit keeps the invariant: what it makes visible is what it had checked and
\* counted, and no desk that is not done relies on anything it changes.
LEMMA PaperCommitted ==
    ASSUME OrderInv, NEW s \in Desks, CommitPaper(s)
    PROVE  OrderInv'
<1>1. /\ OrderTypes /\ RowsHeld /\ RowsSaved /\ VouchersSound /\ ReturnsCover /\ WithinLines
      /\ DesksReady /\ ProgressIsPosted /\ PlanIsOpenDemand
  BY DEF OrderInv
<1>2. PICK d, a, C, st, su : /\ d = desk[s].doc /\ a = desk[s].doing /\ C = content /\ st = paper
                             /\ su = paper' /\ C \in Contents
  BY <1>1 DEF OrderTypes, Contents
<1>3. /\ desk[s].at = "plan" /\ desk[s].want = {} /\ a \in Steps /\ d \in Papers
      /\ RowsOf(s) /\ StillPermitted(s) /\ StillCounted(s)
  BY <1>1, <1>2 DEF OrderTypes, DeskTyped, RowsHeld, DesksReady, CommitPaper
<1>4. /\ d \in desk[s].held /\ paper[d] = Before(a) /\ References(d) \subseteq desk[s].held
      /\ OwnPairs(s) \subseteq desk[s].held
  BY <1>2, <1>3 DEF RowsOf
<1>5. /\ paper' = [paper EXCEPT ![d] = After(a)] /\ su = Seen(s)
      /\ moved' = MovedSeen(s)
      /\ billed' = [l \in OrderLines |-> IF l \in OwnLines(s) THEN desk[s].billed[l] ELSE billed[l]]
      /\ planned' = [p \in Pairs |-> [k \in BinColumns |->
            IF OwnColumn(s, p, k) THEN desk[s].planned[p][k] ELSE planned[p][k]]]
      /\ desk' = [desk EXCEPT ![s] = Resting]
      /\ trade' = trade /\ content' = content /\ against' = against
  BY <1>2 DEF CommitPaper, Seen
<1>6. \A x \in Papers : /\ paper'[x] = (IF x = d THEN After(a) ELSE paper[x])
                        /\ su[x] = (IF x = d THEN After(a) ELSE st[x])
  BY <1>1, <1>2, <1>5 DEF OrderTypes
<1>7. /\ a = "submit" => paper[d] = "draft" /\ After(a) = "posted"
      /\ a = "cancel" => paper[d] = "posted" /\ After(a) = "cancelled"
      /\ a = "submit" \/ a = "cancel"
  BY <1>3, <1>4 DEF Before, After, Steps
<1>8. /\ OrdersOf(d) \subseteq Orders /\ Orders \subseteq Papers /\ OrderVouchers \subseteq Papers
      /\ Orders \cap OrderVouchers = {} /\ (d \in Orders \/ d \in OrderVouchers)
      /\ d \in Orders => OrdersOf(d) = {d}
      /\ \A l \in OrderLines : LineOrder[l] \in Orders
      /\ \A l \in OrderLines : l \in OwnLines(s) <=> LineOrder[l] \in OrdersOf(d)
  BY <1>2, <1>3, OrdersAssumption DEF OrdersOf, Touched, Papers, OwnLines, LinesOf
<1>9. /\ \A v : /\ OrdersOf(v)' = OrdersOf(v) /\ References(v)' = References(v) /\ Touched(v)' = Touched(v)
                /\ IsReturn(v)' = IsReturn(v) /\ ReturnsOf(v)' = ReturnsOf(v)
      /\ Moving' = Moving /\ Billing' = Billing
  BY <1>5 DEF OrdersOf, References, Touched, IsReturn, ReturnsOf, Moving, Billing
<1>10. ASSUME NEW l \in OrderLines, NEW v \in OrderVouchers, v # d
       PROVE  Count(C, v, su, l) = Count(C, v, st, l)
  BY <1>6, <1>8, <1>10 DEF Count
<1>11. ASSUME NEW l \in OrderLines, d \in OrderVouchers
       PROVE  /\ a = "submit" => Count(C, d, su, l) = content[d][l] /\ Count(C, d, st, l) = 0
              /\ a = "cancel" => Count(C, d, su, l) = 0 /\ Count(C, d, st, l) = content[d][l]
              /\ content[d][l] \in Int
              /\ LineOrder[l] \notin OrdersOf(d) => content[d][l] = 0
  <2>1. ASSUME content[d][l] # 0 PROVE LineOrder[l] \in OrdersOf(d)
    <3>1. d \notin Orders /\ l \in Touched(d)
      BY <1>11, <2>1, OrdersAssumption DEF Touched
    <3> QED BY <3>1 DEF OrdersOf
  <2>2. content[d][l] \in Int
    BY <1>1, <1>11 DEF OrderTypes
  <2>3. su[d] = After(a) /\ st[d] = paper[d] /\ C = content
    BY <1>2, <1>3, <1>6
  <2> QED BY <1>7, <2>1, <2>2, <2>3 DEF Count
\* The sums before and after.
<1>12. ASSUME NEW V \in SUBSET OrderVouchers, NEW l \in OrderLines
       PROVE  /\ SumLine(V, paper, l) = SumOf(C, V, st, l)
              /\ SumLine(V, paper, l)' = SumOf(C, V, su, l)
              /\ SumLine(V, Seen(s), l) = SumOf(C, V, su, l)
              /\ d \notin V \/ LineOrder[l] \notin OrdersOf(d) => SumOf(C, V, su, l) = SumOf(C, V, st, l)
              /\ d \in V => /\ SumOf(C, V, st, l) = Count(C, d, st, l) + SumOf(C, V \ {d}, st, l)
                            /\ SumOf(C, V, su, l) = Count(C, d, su, l) + SumOf(C, V \ {d}, st, l)
                            /\ SumOf(C, V \ {d}, st, l) \in Int
  <2>1. SumLine(V, paper, l) = SumOf(C, V, st, l) /\ SumLine(V, Seen(s), l) = SumOf(C, V, su, l)
    BY <1>2, <1>5, SumLineOf
  <2>2. SumLine(V, paper, l)' = SumLine(V, su, l)'
    BY <1>2 DEF SumLine
  <2>3. SumLine(V, paper, l)' = SumOf(C, V, su, l)
    BY <1>2, <1>5, <2>2, SumLineNext
  <2>4. d \notin V \/ LineOrder[l] \notin OrdersOf(d) => SumOf(C, V, su, l) = SumOf(C, V, st, l)
    <3> SUFFICES ASSUME d \notin V \/ LineOrder[l] \notin OrdersOf(d)
                 PROVE  SumOf(C, V, su, l) = SumOf(C, V, st, l)
      OBVIOUS
    <3>1. \A v \in V : Count(C, v, su, l) = Count(C, v, st, l)
      BY <1>7, <1>10, <1>11
    <3> QED BY <1>2, <3>1, SumOfSame
  <2>5. ASSUME d \in V
        PROVE  /\ SumOf(C, V, st, l) = Count(C, d, st, l) + SumOf(C, V \ {d}, st, l)
               /\ SumOf(C, V, su, l) = Count(C, d, su, l) + SumOf(C, V \ {d}, st, l)
               /\ SumOf(C, V \ {d}, st, l) \in Int
    <3>1. \A v \in V \ {d} : Count(C, v, su, l) = Count(C, v, st, l)
      BY <1>10
    <3>2. C \in Contents
      BY <1>2
    <3>3. SumOf(C, V, st, l) = Count(C, d, st, l) + SumOf(C, V \ {d}, st, l)
      BY <2>5, <3>2, SumOfSplit
    <3>4. SumOf(C, V, su, l) = Count(C, d, su, l) + SumOf(C, V \ {d}, su, l)
      BY <2>5, <3>2, SumOfSplit
    <3>5. V \ {d} \in SUBSET OrderVouchers
      OBVIOUS
    <3>6. SumOf(C, V \ {d}, su, l) = SumOf(C, V \ {d}, st, l)
      BY <3>1, <3>2, <3>5, SumOfSame
    <3>7. SumOf(C, V \ {d}, st, l) \in Int
      BY <3>2, <3>5, SumOfIsInt
    <3> QED BY <3>3, <3>4, <3>6, <3>7
  <2> QED BY <2>1, <2>3, <2>4, <2>5
<1>13. OrderTypes'
  <2>1. DOMAIN paper' = Papers /\ DOMAIN desk' = Desks
    BY <1>1, <1>5 DEF OrderTypes
  <2>2. \A u \in Desks : DeskTyped(desk'[u])
    BY <1>1, <1>5, RestingTyped DEF OrderTypes
  <2> QED BY <1>1, <1>5, <2>1, <2>2 DEF OrderTypes
<1>14. desk'[s] = Resting /\ \A u \in Desks \ {s} : desk'[u] = desk[u]
  BY <1>1, <1>5 DEF OrderTypes
<1>15. Resting.at = "rest" /\ Resting.held = {} /\ Resting.want = {}
  BY DEF Resting
<1>16. RowsHeld'
  <2>1. ASSUME NEW u \in Desks, NEW w \in Desks, u # w PROVE desk'[u].held \cap desk'[w].held = {}
    BY <1>1, <1>14, <1>15, <2>1 DEF RowsHeld
  <2>2. RowsOf(s)'
    BY <1>14, <1>15 DEF RowsOf
  <2>3. ASSUME NEW u \in Desks, u # s PROVE RowsOf(u)'
    <3>1. PICK e : e = desk[u].doc
      OBVIOUS
    <3>2. RowsOf(u) /\ desk'[u] = desk[u] /\ e = desk'[u].doc
      BY <1>1, <1>14, <2>3, <3>1 DEF RowsHeld
    <3>3. OwnPairs(u)' = OwnPairs(u) /\ References(e)' = References(e)
      BY <1>9, <3>1, <3>2 DEF OwnPairs
    <3>4. References(desk[u].doc)' = References(e)'
      BY <3>2 DEF References, OrdersOf, IsReturn, Touched
    <3>5. desk[u].at \in {"refs", "plan"} => e \in desk[u].held /\ paper'[e] = paper[e]
      <4>1. desk[u].at \in {"refs", "plan"} => e \in desk[u].held /\ e \in Papers
        BY <1>1, <3>1, <3>2 DEF RowsOf, OrderTypes, DeskTyped
      <4>2. e \in desk[u].held => e # d
        BY <1>1, <1>4, <2>3 DEF RowsHeld
      <4> QED BY <1>6, <4>1, <4>2
    <3> QED BY <3>1, <3>2, <3>3, <3>4, <3>5 DEF RowsOf
  <2> QED BY <2>1, <2>2, <2>3 DEF RowsHeld
<1>17. RowsSaved'
  <2> SUFFICES ASSUME NEW u \in Desks, NEW r \in (desk'[u].held \cup desk'[u].want) \cap OrderVouchers
               PROVE  paper'[r] # "unsaved"
    BY DEF RowsSaved
  <2>1. u # s
    BY <1>14, <1>15
  <2>2. paper[r] # "unsaved"
    BY <1>1, <1>14, <2>1 DEF RowsSaved
  <2> QED BY <1>6, <1>7, <1>8, <2>2
<1>18. VouchersSound'
  <2> SUFFICES ASSUME NEW w \in OrderVouchers
               PROVE  /\ paper'[w] = "unsaved" => against'[w] = NoVoucher
                      /\ IF IsReturn(w)' THEN \A l \in OrderLines : content'[w][l] <= 0
                                        ELSE \A l \in OrderLines : content'[w][l] >= 0
                      /\ IsReturn(w)' => trade'.kind[w] = trade'.kind[against'[w]] /\ paper'[against'[w]] # "unsaved"
                      /\ paper'[w] = "posted" =>
                            /\ \A x \in OrdersOf(w)' : paper'[x] = "posted"
                            /\ IsReturn(w)' => paper'[against'[w]] = "posted" /\ ~IsReturn(against[w])'
    BY DEF VouchersSound
  <2>1. /\ OrdersOf(w) \subseteq Orders /\ w \notin Orders
        /\ IsReturn(w) => against[w] \in OrderVouchers /\ against[w] \in Papers
    <3>1. w \notin Orders /\ OrdersOf(w) \subseteq Orders
      BY OrdersAssumption DEF OrdersOf, Touched
    <3>2. against[w] \in OrderVouchers \cup {NoVoucher}
      BY <1>1 DEF OrderTypes
    <3> QED BY <1>8, <3>1, <3>2 DEF IsReturn
  <2>2. paper'[w] = "unsaved" => against'[w] = NoVoucher
    BY <1>1, <1>5, <1>6, <1>7, <1>8 DEF VouchersSound
  <2>3. IF IsReturn(w)' THEN \A l \in OrderLines : content'[w][l] <= 0
                       ELSE \A l \in OrderLines : content'[w][l] >= 0
    BY <1>1, <1>5, <1>9 DEF VouchersSound
  <2>4. IsReturn(w) => trade'.kind[w] = trade'.kind[against'[w]] /\ paper'[against'[w]] # "unsaved"
    BY <1>1, <1>5, <1>6, <1>7, <2>1 DEF VouchersSound
  <2>5. ASSUME paper'[w] = "posted"
        PROVE  /\ \A x \in OrdersOf(w) : paper'[x] = "posted"
               /\ IsReturn(w) => paper'[against[w]] = "posted" /\ ~IsReturn(against[w])
    <3>1. CASE w = d
      <4>1. a = "submit" /\ d \in OrderVouchers
        BY <1>6, <1>7, <1>8, <2>5, <3>1
      <4>2. /\ \A x \in OrdersOf(d) : paper[x] = "posted"
            /\ IsReturn(d) => ReturnFits(d)
        BY <1>2, <1>3, <4>1 DEF StillPermitted
      <4>3. IsReturn(d) => paper[against[d]] = "posted" /\ ~IsReturn(against[d])
        BY <4>2 DEF ReturnFits
      <4> QED BY <1>6, <1>7, <1>8, <2>1, <3>1, <4>1, <4>2, <4>3
    <3>2. CASE w # d
      <4>1. paper[w] = "posted"
        BY <1>6, <1>8, <2>5, <3>2
      <4>2. /\ \A x \in OrdersOf(w) : paper[x] = "posted"
            /\ IsReturn(w) => paper[against[w]] = "posted" /\ ~IsReturn(against[w])
        BY <1>1, <4>1 DEF VouchersSound
      <4>3. d \in Orders /\ a = "cancel" => d \notin OrdersOf(w)
        BY <1>2, <1>3, <4>1 DEF StillPermitted, OrderReleasable
      <4>4. d \in OrderVouchers /\ a = "cancel" => against[w] # d
        BY <1>2, <1>3, <4>1 DEF StillPermitted
      <4>5. ASSUME NEW x \in OrdersOf(w) PROVE paper'[x] = "posted"
        BY <1>6, <1>7, <1>8, <2>1, <4>2, <4>3
      <4>6. IsReturn(w) => paper'[against[w]] = "posted"
        BY <1>6, <1>7, <1>8, <2>1, <4>2, <4>4
      <4> QED BY <4>2, <4>5, <4>6
    <3> QED BY <3>1, <3>2
  <2>6. IsReturn(against[w])' = IsReturn(against[w])
    BY <1>5 DEF IsReturn
  <2> QED BY <1>5, <1>9, <2>2, <2>3, <2>4, <2>5, <2>6
<1>19. ReturnsCover'
  <2> SUFFICES ASSUME NEW g \in OrderVouchers, paper'[g] = "posted", ~IsReturn(g), NEW l \in OrderLines
               PROVE  content[g][l] + SumLine(ReturnsOf(g), paper, l)' >= 0
    <3>1. ASSUME NEW g \in OrderVouchers, NEW l PROVE SumLine(ReturnsOf(g)', paper', l) = SumLine(ReturnsOf(g), paper', l)
      BY <1>9
    <3> QED BY <1>5, <1>9 DEF ReturnsCover
  <2>1. PICK R : R = ReturnsOf(g) /\ R \in SUBSET OrderVouchers
    BY DEF ReturnsOf
  <2>2. SumLine(ReturnsOf(g), paper, l)' = SumOf(C, R, su, l)
    <3>1. SumLine(ReturnsOf(g), paper, l)' = SumLine(R, paper, l)'
      BY <1>9, <2>1 DEF SumLine
    <3> QED BY <1>12, <2>1, <3>1
  <2>3. content[g][l] \in Int /\ SumOf(C, R, su, l) \in Int /\ SumOf(C, R, st, l) \in Int
    BY <1>1, <1>2, <2>1, SumOfIsInt DEF OrderTypes
  <2>4. CASE g = d
    <3>1. a = "submit" /\ paper[d] = "draft"
      BY <1>6, <1>7, <1>8, <2>4
    <3>2. \A w \in R : Count(C, w, su, l) = 0
      <4> SUFFICES ASSUME NEW w \in R PROVE Count(C, w, su, l) = 0
        OBVIOUS
      <4>1. w \in OrderVouchers /\ against[w] = d /\ IsReturn(w)
        BY <1>8, <2>1, <2>4, OrdersAssumption DEF ReturnsOf, IsReturn, Papers
      <4>2. w # d
        BY <2>4, <4>1
      <4>3. paper[w] # "posted"
        BY <1>1, <3>1, <4>1 DEF VouchersSound
      <4> QED BY <1>2, <1>6, <1>8, <4>1, <4>2, <4>3 DEF Count
    <3>3. SumOf(C, R, su, l) = 0
      BY <1>2, <2>1, <3>2, SumOfNothing
    <3>4. content[g][l] >= 0
      BY <1>1 DEF VouchersSound
    <3> QED BY <2>2, <2>3, <3>3, <3>4
  <2>5. CASE g # d
    <3>1. content[g][l] + SumOf(C, R, st, l) >= 0
      <4>1. paper[g] = "posted"
        BY <1>6, <1>8, <2>5
      <4>2. content[g][l] + SumLine(ReturnsOf(g), paper, l) >= 0
        BY <1>1, <4>1 DEF ReturnsCover
      <4> QED BY <1>12, <2>1, <4>2
    <3>2. CASE d \notin R \/ content[d][l] = 0
      <4>1. d \in R => Count(C, d, su, l) = 0 /\ Count(C, d, st, l) = 0
        BY <1>2, <2>1, <3>2 DEF Count
      <4>2. SumOf(C, R, su, l) = SumOf(C, R, st, l)
        <5>1. CASE d \notin R
          BY <1>12, <2>1, <5>1
        <5>2. CASE d \in R
          BY <1>12, <2>1, <4>1, <5>2
        <5> QED BY <5>1, <5>2
      <4> QED BY <2>2, <3>1, <4>2
    <3>3. CASE d \in R /\ content[d][l] # 0
      <4>1. d \in OrderVouchers /\ against[d] = g /\ IsReturn(d)
        BY <2>1, <3>3, OrdersAssumption DEF ReturnsOf, IsReturn, Papers
      <4>2. content[d][l] \in Int /\ content[d][l] < 0
        <5>1. content[d][l] <= 0
          BY <1>1, <4>1 DEF VouchersSound
        <5>2. content[d][l] \in Int
          BY <1>11, <4>1
        <5> QED BY <3>3, <5>1, <5>2
      <4>3. PICK P : P = R \ {d} /\ P \in SUBSET OrderVouchers
        BY <2>1
      <4>4. /\ SumOf(C, R, st, l) = Count(C, d, st, l) + SumOf(C, P, st, l)
            /\ SumOf(C, R, su, l) = Count(C, d, su, l) + SumOf(C, P, st, l)
            /\ SumOf(C, P, st, l) \in Int
        BY <1>12, <2>1, <3>3, <4>3
      <4>5. CASE a = "submit"
        <5>1. ReturnFits(d)
          BY <1>2, <1>3, <4>1, <4>5 DEF StillPermitted
        <5>2. content[g][l] + SumLine(P, paper, l) + content[d][l] >= 0
          <6>1. P = {w \in OrderVouchers \ {d} : against[w] = against[d]}
            BY <2>1, <4>1, <4>3 DEF ReturnsOf
          <6> QED BY <4>1, <4>2, <5>1, <6>1 DEF ReturnFits
        <5>3. SumLine(P, paper, l) = SumOf(C, P, st, l)
          BY <1>12, <4>3
        <5>4. Count(C, d, su, l) = content[d][l]
          BY <1>11, <4>1, <4>5
        <5> QED BY <2>2, <2>3, <4>2, <4>4, <5>2, <5>3, <5>4
      <4>6. CASE a = "cancel"
        <5>1. Count(C, d, su, l) = 0 /\ Count(C, d, st, l) = content[d][l]
          BY <1>11, <4>1, <4>6
        <5> QED BY <2>2, <2>3, <3>1, <4>2, <4>4, <5>1
      <4> QED BY <1>7, <4>5, <4>6
    <3> QED BY <3>2, <3>3
  <2> QED BY <2>4, <2>5
<1>20. ASSUME NEW V \in {Moving, Billing}, NEW l \in OrderLines
       PROVE  SumOf(C, V, su, l) <= Ordered[l]
  <2>1. V \in SUBSET OrderVouchers
    BY <1>1, Kinds
  <2>2. SumOf(C, V, st, l) <= Ordered[l]
    BY <1>1, <1>12, <2>1 DEF WithinLines
  <2>3. CASE d \notin V \/ content[d][l] = 0
    <3>1. d \in V => Count(C, d, su, l) = 0 /\ Count(C, d, st, l) = 0
      BY <1>2, <2>1, <2>3 DEF Count
    <3>2. CASE d \notin V
      BY <1>12, <2>1, <2>2, <3>2
    <3>3. CASE d \in V
      BY <1>12, <2>1, <2>2, <3>1, <3>3
    <3> QED BY <3>2, <3>3
  <2>4. CASE d \in V /\ content[d][l] # 0
    <3>1. d \in OrderVouchers /\ l \in Touched(d) /\ content[d][l] \in Int
      BY <1>11, <2>1, <2>4 DEF Touched
    <3>2. PICK P : P = V \ {d} /\ P \in SUBSET OrderVouchers
      BY <2>1
    <3>3. /\ SumOf(C, V, su, l) = Count(C, d, su, l) + SumOf(C, P, st, l)
          /\ SumOf(C, P, st, l) \in Int
      BY <1>12, <2>1, <2>4, <3>2
    <3>4. Count(C, d, su, l) \in Int
      BY <1>7, <1>11, <3>1
    <3>5. WithinOrder(d, l, Count(C, d, su, l))
      <4>1. CASE a = "submit"
        <5>1. WithinOrder(d, l, content[d][l])
          BY <1>2, <1>3, <3>1, <4>1 DEF StillPermitted
        <5>2. Count(C, d, su, l) = content[d][l]
          BY <1>11, <3>1, <4>1
        <5> QED BY <5>1, <5>2
      <4>2. CASE a = "cancel"
        <5>1. WithinOrder(d, l, 0)
          BY <1>2, <1>3, <3>1, <4>2 DEF StillPermitted
        <5>2. Count(C, d, su, l) = 0
          BY <1>11, <3>1, <4>2
        <5> QED BY <5>1, <5>2
      <4> QED BY <1>7, <4>1, <4>2
    <3>6. SumLine(P, paper, l) + Count(C, d, su, l) <= Ordered[l]
      <4>1. CASE V = Moving
        BY <2>4, <3>2, <3>5, <4>1 DEF WithinOrder
      <4>2. CASE V = Billing
        <5>1. P = Peers(d)
          BY <1>1, <2>4, <3>2, <4>2, PeersOfBilling
        <5> QED BY <3>5, <5>1 DEF WithinOrder
      <4> QED BY <4>1, <4>2
    <3>7. SumLine(P, paper, l) = SumOf(C, P, st, l)
      BY <1>12, <3>2
    <3>8. Ordered[l] \in Int
      BY OrdersAssumption
    <3> QED BY <3>3, <3>4, <3>6, <3>7, <3>8
  <2> QED BY <2>3, <2>4
<1>21. ASSUME NEW l \in OrderLines
       PROVE  /\ SumLine(Moving, paper, l)' = SumOf(C, Moving, su, l)
              /\ SumLine(Billing, paper, l)' = SumOf(C, Billing, su, l)
  <2>1. PICK M, B : M = Moving /\ B = Billing /\ M \in SUBSET OrderVouchers /\ B \in SUBSET OrderVouchers
    BY <1>1, Kinds
  <2>2. SumLine(Moving, paper, l)' = SumLine(M, paper, l)' /\ SumLine(Billing, paper, l)' = SumLine(B, paper, l)'
    BY <1>9, <2>1 DEF SumLine
  <2> QED BY <1>12, <2>1, <2>2
<1>22. WithinLines'
  BY <1>20, <1>21 DEF WithinLines
<1>23. \A l \in OrderLines : l \notin OwnLines(s) =>
           /\ moved'[l] = moved[l] /\ billed'[l] = billed[l]
           /\ paper'[LineOrder[l]] = paper[LineOrder[l]]
  <2> SUFFICES ASSUME NEW l \in OrderLines, l \notin OwnLines(s)
               PROVE  /\ moved'[l] = moved[l] /\ billed'[l] = billed[l]
                      /\ paper'[LineOrder[l]] = paper[LineOrder[l]]
    OBVIOUS
  <2>1. moved'[l] = moved[l] /\ billed'[l] = billed[l]
    BY <1>5 DEF MovedSeen
  <2>2. LineOrder[l] # d /\ LineOrder[l] \in Papers
    BY <1>8
  <2> QED BY <1>6, <2>1, <2>2
<1>24. ProgressIsPosted'
  <2> SUFFICES ASSUME NEW l \in OrderLines, paper'[LineOrder[l]] = "posted"
               PROVE  /\ moved'[l] = SumOf(C, Moving, su, l)
                      /\ billed'[l] = SumOf(C, Billing, su, l)
    BY <1>21 DEF ProgressIsPosted
  <2>1. Moving \in SUBSET OrderVouchers /\ Billing \in SUBSET OrderVouchers
    BY <1>1, Kinds
  <2>2. CASE l \in OwnLines(s)
    <3>1. moved'[l] = desk[s].moved[l] /\ billed'[l] = desk[s].billed[l]
      BY <1>5, <2>2 DEF MovedSeen
    <3>2. /\ desk[s].moved[l] = SumLine(Moving, Seen(s), l)
          /\ desk[s].billed[l] = SumLine(Billing, Seen(s), l)
      BY <1>3, <2>2 DEF StillCounted
    <3> QED BY <1>12, <2>1, <3>1, <3>2
  <2>3. CASE l \notin OwnLines(s)
    <3>1. /\ moved'[l] = moved[l] /\ billed'[l] = billed[l] /\ paper[LineOrder[l]] = "posted"
          /\ LineOrder[l] \notin OrdersOf(d)
      BY <1>8, <1>23, <2>3
    <3>2. moved[l] = SumLine(Moving, paper, l) /\ billed[l] = SumLine(Billing, paper, l)
      BY <1>1, <3>1 DEF ProgressIsPosted
    <3> QED BY <1>12, <2>1, <3>1, <3>2
  <2> QED BY <2>2, <2>3
<1>25. \A l \in OrderLines : l \in OwnLines(s) => PairOf[l] \in OwnPairs(s)
  BY <1>2, <1>8 DEF OwnPairs, PairsOf, LinesOf
<1>26. PlanIsOpenDemand'
  <2> SUFFICES ASSUME NEW p \in Pairs PROVE planned'[p] = OpenDemand(p, paper, moved)'
    BY DEF PlanIsOpenDemand
  <2>1. PICK m, mu : m = moved /\ mu = moved'
    OBVIOUS
  <2>2. OpenDemand(p, paper, moved)' = [k \in BinColumns |-> DemandIn(k, p, su, mu)]
    BY <1>2, <2>1 DEF OpenDemand, DemandIn
  <2>3. planned'[p] = [k \in BinColumns |->
                          IF OwnColumn(s, p, k) THEN desk[s].planned[p][k] ELSE planned[p][k]]
    BY <1>5
  <2>4. ASSUME NEW k \in BinColumns, OwnColumn(s, p, k)
        PROVE  desk[s].planned[p][k] = DemandIn(k, p, su, mu)
    <3>1. p \in OwnPairs(s)
      BY <1>25, <2>4 DEF OwnColumn, OwnLines, LinesOf
    <3>2. desk[s].planned[p] = OpenDemand(p, su, mu)
      BY <1>3, <1>4, <1>5, <2>1, <3>1 DEF StillCounted, Demand
    <3> QED BY <3>2 DEF OpenDemand
  <2>5. ASSUME NEW k \in BinColumns, ~OwnColumn(s, p, k)
        PROVE  planned[p][k] = DemandIn(k, p, su, mu)
    <3>1. planned[p] = OpenDemand(p, st, m)
      BY <1>1, <1>2, <2>1 DEF PlanIsOpenDemand
    <3>2. \A l \in OrderLines : PairOf[l] = p /\ PlanColumn(LineOrder[l]) = k =>
              /\ su[LineOrder[l]] = "posted" <=> st[LineOrder[l]] = "posted"
              /\ st[LineOrder[l]] = "posted" => mu[l] = m[l]
      BY <1>2, <1>23, <2>1, <2>5 DEF OwnColumn
    <3>3. DemandIn(k, p, su, mu) = DemandIn(k, p, st, m)
      BY <3>2, ColumnSame
    <3> QED BY <3>1, <3>3 DEF OpenDemand
  <2> QED BY <2>2, <2>3, <2>4, <2>5
<1>27. DesksReady'
  <2> SUFFICES ASSUME NEW u \in Desks, desk'[u].at = "plan" PROVE StillPermitted(u)' /\ StillCounted(u)'
    BY DEF DesksReady
  <2>1. u # s
    BY <1>14, <1>15
  <2>2. desk[u].at = "plan" /\ StillPermitted(u) /\ StillCounted(u) /\ desk'[u] = desk[u]
    BY <1>1, <1>14, <2>1 DEF DesksReady
  <2>3. desk[s].held \cap desk[u].held = {}
    BY <1>1, <2>1 DEF RowsHeld
  <2>4. Spares(u)
    <3>1. \A r \in desk[u].held \cap Papers : paper'[r] = paper[r]
      BY <1>4, <1>6, <2>3
    <3>2. \A v \in OrderVouchers :
              (paper[v] = "posted") # (paper'[v] = "posted") => References(v) \cap desk[u].held = {}
      BY <1>4, <1>6, <1>8, <2>3
    <3>3. ASSUME NEW p \in OwnPairs(u) \cap desk[u].held, NEW l \in OrderLines, PairOf[l] = p
          PROVE  /\ moved'[l] = moved[l]
                 /\ paper'[LineOrder[l]] = "posted" <=> paper[LineOrder[l]] = "posted"
      <4>1. l \notin OwnLines(s)
        BY <1>4, <1>25, <2>3, <3>3
      <4> QED BY <1>23, <4>1
    <3> QED BY <1>5, <2>2, <3>1, <3>2, <3>3 DEF Spares
  <2> QED BY <1>1, <1>13, <2>2, <2>4, PermissionSpared, CountSpared
<1> QED BY <1>13, <1>16, <1>17, <1>18, <1>19, <1>22, <1>24, <1>26, <1>27 DEF OrderInv

-----------------------------------------------------------------------------
\* The invariant holds at the start.
LEMMA OrdersStart == OrdersInit => OrderInv
<1> SUFFICES ASSUME OrdersInit PROVE OrderInv
  OBVIOUS
<1>1. /\ paper = [d \in Papers |-> IF d \in trade.orders THEN "draft" ELSE "unsaved"]
      /\ content = [v \in OrderVouchers |-> NoLines] /\ against = [v \in OrderVouchers |-> NoVoucher]
      /\ moved = NoLines /\ billed = NoLines /\ planned = NothingPlanned
      /\ desk = [s \in Desks |-> Resting] /\ trade \in Trades
  BY DEF OrdersInit
<1>2. OrderTypes
  BY <1>1, RestingTyped DEF OrderTypes, NoLines
<1>3. \A s \in Desks : desk[s].at = "rest" /\ desk[s].held = {} /\ desk[s].want = {}
  BY <1>1 DEF Resting
<1>4. RowsHeld /\ RowsSaved /\ DesksReady
  BY <1>3 DEF RowsHeld, RowsOf, RowsSaved, DesksReady
<1>5. \A v \in OrderVouchers : paper[v] # "posted" /\ ~IsReturn(v)
  BY <1>1 DEF Papers, IsReturn
<1>6. \A d \in Papers : paper[d] # "posted"
  BY <1>1
<1>7. VouchersSound
  BY <1>1, <1>5 DEF VouchersSound, NoLines
<1>8. ReturnsCover
  BY <1>5 DEF ReturnsCover
<1>9. \A l \in OrderLines : SumLine(Moving, paper, l) = 0 /\ SumLine(Billing, paper, l) = 0
  <2> SUFFICES ASSUME NEW l \in OrderLines, NEW V \in {Moving, Billing} PROVE SumLine(V, paper, l) = 0
    OBVIOUS
  <2>1. V \in SUBSET OrderVouchers
    BY <1>2, Kinds
  <2>2. \A v \in V : Count(content, v, paper, l) = 0
    BY <1>5, <2>1 DEF Count
  <2>3. PICK C, st : C = content /\ st = paper /\ C \in Contents
    BY <1>2 DEF OrderTypes, Contents
  <2>4. SumOf(C, V, st, l) = 0
    BY <2>1, <2>2, <2>3, SumOfNothing
  <2> QED BY <2>3, <2>4, SumLineOf
<1>10. \A l \in OrderLines : Ordered[l] >= 0 /\ LineOrder[l] \in Papers
  BY OrdersAssumption DEF Papers
<1>11. WithinLines /\ ProgressIsPosted
  BY <1>6, <1>9, <1>10 DEF WithinLines, ProgressIsPosted
<1>12. PlanIsOpenDemand
  <2> SUFFICES ASSUME NEW p \in Pairs PROVE planned[p] = OpenDemand(p, paper, moved)
    BY DEF PlanIsOpenDemand
  <2>1. ASSUME NEW k \in BinColumns PROVE DemandIn(k, p, paper, moved) = 0
    <3> DEFINE lines == {l \in OrderLines : /\ PairOf[l] = p /\ PlanColumn(LineOrder[l]) = k
                                            /\ paper[LineOrder[l]] = "posted"}
               f == [l \in lines |-> IF Ordered[l] > moved[l] THEN Ordered[l] - moved[l] ELSE 0]
    <3>1. lines = {}
      BY <1>6, <1>10
    <3>2. DemandIn(k, p, paper, moved) = SumFunctionOnSet(f, lines)
      BY DEF DemandIn
    <3> HIDE DEF f
    <3>3. SumFunctionOnSet(f, {}) = 0
      BY SumOfNone
    <3> QED BY <3>1, <3>2, <3>3
  <2> QED BY <1>1, <2>1 DEF OpenDemand, NothingPlanned
<1> QED BY <1>2, <1>4, <1>7, <1>8, <1>11, <1>12 DEF OrderInv

\* Every step keeps it.
LEMMA OrdersStep == OrderInv /\ [OrdersNext]_orderVars => OrderInv'
<1> SUFFICES ASSUME OrderInv, [OrdersNext]_orderVars PROVE OrderInv'
  OBVIOUS
<1>1. ASSUME NEW v \in OrderVouchers, NEW o \in Orders,
             \/ MakeDeliveryNote(v, o) \/ MakePurchaseReceipt(v, o)
             \/ MakeSalesInvoice(v, o) \/ MakePurchaseInvoice(v, o)
      PROVE  OrderInv'
  <2>1. DraftOf(v, o, moved) \/ DraftOf(v, o, billed)
    BY <1>1 DEF MakeDeliveryNote, MakePurchaseReceipt, MakeSalesInvoice, MakePurchaseInvoice
  <2> QED BY <2>1, DraftKept
<1>2. ASSUME NEW v \in OrderVouchers, NEW w \in OrderVouchers,
             \/ MakeDeliveryReturn(v, w) \/ MakePurchaseReceiptReturn(v, w)
             \/ MakeSalesReturn(v, w) \/ MakePurchaseReturn(v, w)
      PROVE  OrderInv'
  BY <1>2, ReturnKept DEF MakeDeliveryReturn, MakePurchaseReceiptReturn, MakeSalesReturn, MakePurchaseReturn
<1>3. ASSUME NEW d \in Papers, DiscardPaper(d) PROVE OrderInv'
  BY <1>3, DiscardKept
<1>4. ASSUME NEW s \in Desks, NEW d \in Papers, NEW doing \in Steps, RequestPaper(s, d, doing) PROVE OrderInv'
  BY <1>4, PaperRequested
<1>5. ASSUME NEW s \in Desks, LockPaper(s) PROVE OrderInv'
  BY <1>5, PaperLocked
<1>6. ASSUME NEW s \in Desks, PostPaper(s) PROVE OrderInv'
  BY <1>6, PaperPosted
<1>7. ASSUME NEW s \in Desks, PlanBin(s) PROVE OrderInv'
  BY <1>7, BinPlanned
<1>8. ASSUME NEW s \in Desks, CommitPaper(s) PROVE OrderInv'
  BY <1>8, PaperCommitted
<1>9. ASSUME NEW s \in Desks, AbortPaper(s) PROVE OrderInv'
  BY <1>9, DeskGoesHome
<1>10. CASE UNCHANGED orderVars
  <2>1. PostsNothing /\ OrderTypes' /\ VouchersSound'
    <3>1. trade' = trade /\ paper' = paper /\ content' = content /\ against' = against /\ moved' = moved
          /\ billed' = billed /\ planned' = planned /\ desk' = desk
      BY <1>10 DEF orderVars
    <3>2. PostsNothing
      BY <3>1 DEF PostsNothing
    <3>3. OrderTypes'
      BY <3>1 DEF OrderInv, OrderTypes
    <3>4. VouchersSound'
      BY <3>1 DEF OrderInv, VouchersSound, OrdersOf, Touched, IsReturn
    <3> QED BY <3>2, <3>3, <3>4
  <2> QED BY <2>1, NothingPosted
<1> QED BY <1>1, <1>2, <1>3, <1>4, <1>5, <1>6, <1>7, <1>8, <1>9, <1>10 DEF OrdersNext, Steps

\* Every reachable state satisfies the inductive invariant.
THEOREM OrdersHold == OrdersSpec => []OrderInv
BY OrdersStart, OrdersStep, PTL DEF OrdersSpec

\* What an order shows as delivered and billed is what is posted against it,
\* whatever desks work on it at the same time.
THEOREM ProgressFollowsPostings == OrdersSpec => []ProgressIsPosted
<1>1. OrderInv => ProgressIsPosted
  BY DEF OrderInv
<1> QED BY <1>1, OrdersHold, PTL

\* No order line is delivered, received or billed beyond what was ordered, and no
\* more is taken back than was handed over.
THEOREM OrdersAreNotOverfulfilled == OrdersSpec => []LinesNotOverfulfilled
<1>1. OrderInv => LinesNotOverfulfilled
  <2> SUFFICES ASSUME OrderInv, NEW l \in OrderLines, NEW V \in {Moving, Billing}
               PROVE  SumLine(V, paper, l) \in 0..Ordered[l]
    BY DEF LinesNotOverfulfilled
  <2>1. OrderTypes /\ VouchersSound /\ ReturnsCover /\ WithinLines
    BY DEF OrderInv
  <2>2. SumLine(V, paper, l) >= 0
    BY <2>1, SumsNotNegative
  <2>3. SumLine(V, paper, l) <= Ordered[l]
    BY <2>1 DEF WithinLines
  <2>4. SumLine(V, paper, l) \in Int
    BY <2>1, Kinds, SumLineOf, SumOfIsInt DEF OrderTypes, Contents
  <2>5. Ordered[l] \in Int
    BY OrdersAssumption
  <2> QED BY <2>2, <2>3, <2>4, <2>5
<1> QED BY <1>1, OrdersHold, PTL

\* Each planned quantity of a bin is what the posted orders of its kind still wait for.
THEOREM PlansFollowOrders == OrdersSpec => []PlanIsOpenDemand
<1>1. OrderInv => PlanIsOpenDemand
  BY DEF OrderInv
<1> QED BY <1>1, OrdersHold, PTL

-----------------------------------------------------------------------------
(* Reservations: what the calendar promises.  Everything is stated of rows *)
(* bk, un and pa - bookings, machines and vouchers - so that it can be said*)
(* of those before and of those after a commit.                            *)

MachineRecord == [pool : Pools, usable : BOOLEAN]
PaperRecord == [stands : BOOLEAN, customer : Customers]

\* Of the bookings bk, machines un and vouchers pa: who holds something, and when.
Blocks(k) == k # NoClaim /\ k.status \in {"Reserved", "Out"}
Meet(k, w) == k.from < w.to /\ k.to > w.from
InWay(bk, b, w) == {c \in Bookings \ {b} : Blocks(bk[c]) /\ Meet(bk[c], w) /\ bk[c].pool = w.pool}
HeldAt(bk, p, t) == {b \in Bookings : Blocks(bk[b]) /\ bk[b].pool = p /\ bk[b].from <= t /\ t < bk[b].to}
Usable(un, p) == {m \in Machines : un[m].pool = p /\ un[m].usable}
QtyIn(bk, S) == SumFunctionOnSet([b \in S |-> bk[b].qty], S)

\* A booking stands on a machine or a pool, and on its voucher.
Stands(w, un, pa) ==
    /\ w.pool \in Pools
    /\ Pinned(w) => un[w.machine].usable /\ un[w.machine].pool = w.pool /\ w.qty = 1
    /\ w.voucher # NoPaper => pa[w.voucher].stands /\ pa[w.voucher].customer = w.customer

Apart(bk, b, w) ==
    Pinned(w) => \A c \in Bookings \ {b} : Blocks(bk[c]) /\ Meet(bk[c], w) => bk[c].machine # w.machine

Fits(bk, un, b, w) == QtyIn(bk, InWay(bk, b, w)) + w.qty <= Cardinality(Usable(un, w.pool))

EachStands(bk, un, pa) == \A b \in Bookings : Blocks(bk[b]) => Stands(bk[b], un, pa)
EachApart(bk) == \A b \in Bookings : Blocks(bk[b]) => Apart(bk, b, bk[b])
Enough(bk, un) == \A p \in Pools, t \in Moments : QtyIn(bk, HeldAt(bk, p, t)) <= Cardinality(Usable(un, p))

BookingsTyped(bk) == bk \in [Bookings -> BookingRecord \cup {NoClaim}]
UnitsTyped(un) == un \in [Machines -> MachineRecord]

Sound(bk, un, pa) ==
    /\ BookingsTyped(bk) /\ UnitsTyped(un)
    /\ EachStands(bk, un, pa) /\ EachApart(bk) /\ Enough(bk, un)

\* What a save of booking b as w, of machine m and of voucher v has checked.
BookingGood(bk, un, pa, b, w) ==
    Blocks(w) => Stands(w, un, pa) /\ Apart(bk, b, w) /\ Fits(bk, un, b, w)
Spare(bk, un, m) ==
    \A b \in Bookings : Blocks(bk[b]) => bk[b].machine # m /\ (Pinned(bk[b]) \/ bk[b].pool # un[m].pool)
MachineGood(bk, un, m, new) == new.pool # un[m].pool \/ ~new.usable => Spare(bk, un, m)
PaperGood(bk, v, new) ==
    \A b \in Bookings : Blocks(bk[b]) /\ bk[b].voucher = v => new.stands /\ bk[b].customer = new.customer

-----------------------------------------------------------------------------
(* Quantities *)

\* There are finitely many bookings and machines.
LEMMA RentalFinite ==
    /\ \A S \in SUBSET Bookings : IsFiniteSet(S)
    /\ \A S \in SUBSET Machines : IsFiniteSet(S) /\ Cardinality(S) \in Nat
    /\ \A S \in SUBSET Machines : \A T \in SUBSET S : Cardinality(T) <= Cardinality(S)
<1>1. IsFiniteSet(Bookings) /\ IsFiniteSet(Machines)
  BY RentalAssumption
<1>2. \A S \in SUBSET Bookings : IsFiniteSet(S)
  BY <1>1, FS_Subset
<1>3. \A S \in SUBSET Machines : IsFiniteSet(S)
  BY <1>1, FS_Subset
<1>4. \A S \in SUBSET Machines : Cardinality(S) \in Nat
  BY <1>3, FS_CardinalityType
<1>5. \A S \in SUBSET Machines : \A T \in SUBSET S : Cardinality(T) <= Cardinality(S)
  BY <1>3, FS_Subset
<1> QED BY <1>2, <1>3, <1>4, <1>5

\* Bookings that hold something are records.
LEMMA BlockingIsRecord ==
    ASSUME NEW bk, BookingsTyped(bk), NEW b \in Bookings, Blocks(bk[b])
    PROVE  bk[b] \in BookingRecord /\ bk[b].qty \in Nat /\ bk[b].from \in Int /\ bk[b].to \in Int
<1>1. bk[b] \in BookingRecord
  BY DEF BookingsTyped, Blocks
<1> QED BY <1>1, RentalAssumption DEF BookingRecord

\* Fewer bookings hold no more.
LEMMA QtyOfPart ==
    ASSUME NEW bk, BookingsTyped(bk), NEW S \in SUBSET Bookings, \A b \in S : Blocks(bk[b]),
           NEW T \in SUBSET S
    PROVE  QtyIn(bk, T) \in Nat /\ QtyIn(bk, S) \in Nat /\ QtyIn(bk, T) <= QtyIn(bk, S)
<1>1. PICK f, g : f = [b \in S |-> bk[b].qty] /\ g = [b \in T |-> bk[b].qty]
  OBVIOUS
<1>2. \A b \in S : f[b] \in Nat /\ (b \in T => g[b] = f[b])
  BY <1>1, BlockingIsRecord
<1>3. IsFiniteSet(S) /\ IsFiniteSet(T) /\ IsFiniteSet(S \ T)
  BY RentalFinite
<1>4. SumFunctionOnSet(g, T) = SumFunctionOnSet(f, T)
  BY <1>2, <1>3, SumSame
<1>5. SumFunctionOnSet(f, S) = SumFunctionOnSet(f, T) + SumFunctionOnSet(f, S \ T)
  BY <1>2, <1>3, SumParts
<1>6. SumFunctionOnSet(f, T) \in Nat /\ SumFunctionOnSet(f, S \ T) \in Nat /\ SumFunctionOnSet(f, S) \in Nat
  BY <1>2, <1>3, SumNotNegative
<1> QED BY <1>1, <1>4, <1>5, <1>6 DEF QtyIn

\* Bookings that stay hold what they held.
LEMMA QtySame ==
    ASSUME NEW bk, BookingsTyped(bk), NEW S \in SUBSET Bookings, \A b \in S : Blocks(bk[b]),
           NEW ck, \A b \in S : ck[b] = bk[b]
    PROVE  QtyIn(ck, S) = QtyIn(bk, S)
<1>1. [b \in S |-> ck[b].qty] = [b \in S |-> bk[b].qty]
  OBVIOUS
<1> QED BY <1>1 DEF QtyIn

\* One booking more.
LEMMA QtyOfOneMore ==
    ASSUME NEW bk, BookingsTyped(bk), NEW S \in SUBSET Bookings, \A b \in S : Blocks(bk[b]),
           NEW b \in S
    PROVE  QtyIn(bk, S) = QtyIn(bk, S \ {b}) + bk[b].qty
<1>1. PICK f, g : f = [c \in S |-> bk[c].qty] /\ g = [c \in S \ {b} |-> bk[c].qty]
  OBVIOUS
<1>2. \A c \in S : f[c] \in Int /\ (c # b => g[c] = f[c])
  BY <1>1, BlockingIsRecord
<1>3. IsFiniteSet(S) /\ IsFiniteSet(S \ {b})
  BY RentalFinite
<1>4. SumFunctionOnSet(f, S) = f[b] + SumFunctionOnSet(f, S \ {b})
  BY <1>2, <1>3, SumRemove
<1>5. SumFunctionOnSet(g, S \ {b}) = SumFunctionOnSet(f, S \ {b})
  BY <1>2, <1>3, SumSame
<1>6. SumFunctionOnSet(f, S \ {b}) \in Int /\ f[b] \in Int /\ f[b] = bk[b].qty
  BY <1>1, <1>2, <1>3, SumIsNumber
<1> QED BY <1>1, <1>4, <1>5, <1>6 DEF QtyIn

\* A machine each: as many bookings as machines.
LEMMA MachineEach ==
    ASSUME NEW bk, BookingsTyped(bk), NEW S \in SUBSET Bookings, NEW M \in SUBSET Machines,
           \A b \in S : Blocks(bk[b]) /\ bk[b].qty = 1 /\ bk[b].machine \in M,
           \A a, b \in S : a # b => bk[a].machine # bk[b].machine
    PROVE  QtyIn(bk, S) <= Cardinality(M)
<1>1. IsFiniteSet(S) /\ IsFiniteSet(M)
  BY RentalFinite
<1>2. QtyIn(bk, S) = Cardinality(S)
  <2> DEFINE F == {T \in SUBSET S : QtyIn(bk, T) = Cardinality(T)}
  <2>1. {} \in F
    BY SumOfNone, FS_EmptySet DEF QtyIn
  <2>2. ASSUME NEW T \in F, NEW b \in S \ T PROVE T \cup {b} \in F
    <3>0. PICK U : U = T \cup {b}
      OBVIOUS
    <3>1. U = T \cup {b} /\ U \ {b} = T
      BY <3>0
    <3>2. U \in SUBSET Bookings /\ b \in U /\ IsFiniteSet(T)
      BY <1>1, <3>1, FS_Subset
    <3>3. \A c \in U : Blocks(bk[c])
      BY <3>1
    <3>4. QtyIn(bk, U) = QtyIn(bk, U \ {b}) + bk[b].qty
      BY <3>2, <3>3, QtyOfOneMore
    <3>5. Cardinality(U) = Cardinality(T) + 1
      BY <3>1, <3>2, FS_AddElement
    <3> QED BY <3>1, <3>4, <3>5
  <2> HIDE DEF F
  <2>3. S \in F
    BY <1>1, <2>1, <2>2, SetInduction
  <2> QED BY <2>3 DEF F
<1>3. PICK f : f = [b \in S |-> bk[b].machine]
  OBVIOUS
<1>4. f \in Injection(S, M)
  BY <1>3 DEF Injection, IsInjective
<1>5. Cardinality(S) <= Cardinality(M)
  BY <1>1, <1>4, FS_Injection
<1> QED BY <1>2, <1>5

-----------------------------------------------------------------------------
(* What a commit does to a sound calendar *)

\* Windows that share a moment meet.
LEMMA SharedMoment ==
    ASSUME NEW bk, BookingsTyped(bk), NEW a \in Bookings, NEW b \in Bookings, NEW p, NEW t \in Moments,
           a \in HeldAt(bk, p, t), b \in HeldAt(bk, p, t)
    PROVE  Meet(bk[a], bk[b])
<1>0. Blocks(bk[a]) /\ Blocks(bk[b])
  BY DEF HeldAt
<1>1. bk[a].from \in Int /\ bk[a].to \in Int /\ bk[b].from \in Int /\ bk[b].to \in Int
  BY <1>0, BlockingIsRecord
<1>2. t \in Int
  BY RentalAssumption
<1>3. bk[a].from <= t /\ t < bk[a].to /\ bk[b].from <= t /\ t < bk[b].to
  BY DEF HeldAt
<1> QED BY <1>1, <1>2, <1>3 DEF Meet

\* A booking that was checked keeps the calendar sound.
LEMMA BookingCommits ==
    ASSUME NEW bk, NEW un, NEW pa, Sound(bk, un, pa), NEW b \in Bookings, NEW w \in BookingRecord,
           BookingGood(bk, un, pa, b, w),
           NEW ck, BookingsTyped(ck), ck[b] = w, \A a \in Bookings \ {b} : ck[a] = bk[a]
    PROVE  Sound(ck, un, pa)
<1>0. BookingsTyped(bk) /\ UnitsTyped(un) /\ EachStands(bk, un, pa) /\ EachApart(bk) /\ Enough(bk, un)
  BY DEF Sound
<1>1. EachStands(ck, un, pa)
  BY <1>0 DEF EachStands, BookingGood
<1>2. ASSUME NEW a \in Bookings, Blocks(ck[a]), Pinned(ck[a]),
             NEW c \in Bookings \ {a}, Blocks(ck[c]), Meet(ck[c], ck[a])
      PROVE  ck[c].machine # ck[a].machine
  <2>1. CASE a = b
    BY <1>2, <2>1 DEF BookingGood, Apart
  <2>2. CASE c = b
    <3>1. bk[a] = ck[a] /\ Blocks(w) /\ Meet(ck[a], w)
      <4>1. ck[a].from \in Int /\ ck[a].to \in Int /\ w.from \in Int /\ w.to \in Int
        BY <1>2, <2>2, BlockingIsRecord
      <4> QED BY <1>2, <2>2, <4>1 DEF Meet
    <3>2. CASE Pinned(w)
      BY <1>2, <2>2, <3>1, <3>2 DEF BookingGood, Apart
    <3>3. CASE ~Pinned(w)
      BY <1>2, <2>2, <3>3 DEF Pinned
    <3> QED BY <3>2, <3>3
  <2>3. CASE a # b /\ c # b
    BY <1>0, <1>2, <2>3 DEF EachApart, Apart
  <2> QED BY <2>1, <2>2, <2>3
<1>3. EachApart(ck)
  BY <1>2 DEF EachApart, Apart
<1>4. ASSUME NEW p \in Pools, NEW t \in Moments
      PROVE  QtyIn(ck, HeldAt(ck, p, t)) <= Cardinality(Usable(un, p))
  <2>1. PICK H, G, n : H = HeldAt(ck, p, t) /\ G = HeldAt(bk, p, t) /\ n = Cardinality(Usable(un, p))
    OBVIOUS
  <2>2. H \in SUBSET Bookings /\ G \in SUBSET Bookings /\ n \in Nat
    <3>1. Usable(un, p) \in SUBSET Machines
      BY DEF Usable
    <3> QED BY <2>1, <3>1, RentalFinite DEF HeldAt
  <2>3. (\A a \in H : Blocks(ck[a])) /\ (\A a \in G : Blocks(bk[a]))
    BY <2>1 DEF HeldAt
  <2>4. QtyIn(bk, G) <= n
    BY <1>0, <2>1 DEF Enough
  <2>5. CASE b \notin H
    <3>1. H \in SUBSET G /\ \A a \in H : ck[a] = bk[a]
      BY <2>1, <2>2, <2>5 DEF HeldAt
    <3>2. QtyIn(bk, H) \in Nat /\ QtyIn(bk, G) \in Nat /\ QtyIn(bk, H) <= QtyIn(bk, G)
      BY <1>0, <2>2, <2>3, <3>1, QtyOfPart
    <3>3. QtyIn(ck, H) = QtyIn(bk, H)
      BY <1>0, <2>2, <2>3, <3>1, QtySame
    <3> QED BY <2>1, <2>2, <2>4, <3>2, <3>3
  <2>6. CASE b \in H
    <3>1. Blocks(w) /\ w.pool = p /\ w.from <= t /\ t < w.to
      BY <2>1, <2>6 DEF HeldAt
    <3>2. PICK I, J : I = InWay(bk, b, w) /\ J = H \ {b}
      OBVIOUS
    <3>3. \A a \in J : ck[a] = bk[a]
      BY <2>2, <3>2
    <3>4. I \in SUBSET Bookings /\ \A a \in I : Blocks(bk[a])
      BY <3>2 DEF InWay
    <3>5. ASSUME NEW a \in J PROVE a \in I
      <4>1. Meet(ck[a], ck[b])
        BY <2>1, <2>2, <2>6, <3>2, SharedMoment
      <4>2. Blocks(ck[a]) /\ ck[a].pool = p
        BY <2>1, <3>2 DEF HeldAt
      <4> QED BY <2>2, <3>1, <3>2, <3>3, <4>1, <4>2 DEF InWay
    <3>6. J \in SUBSET I /\ J \in SUBSET Bookings
      BY <3>5, <3>4
    <3>7. QtyIn(bk, J) \in Nat /\ QtyIn(bk, I) \in Nat /\ QtyIn(bk, J) <= QtyIn(bk, I)
      BY <1>0, <3>4, <3>6, QtyOfPart
    <3>8. \A a \in J : Blocks(bk[a])
      BY <3>4, <3>6
    <3>9. QtyIn(ck, J) = QtyIn(bk, J)
      BY <1>0, <3>3, <3>6, <3>8, QtySame
    <3>10. QtyIn(ck, H) = QtyIn(ck, H \ {b}) + ck[b].qty
      BY <2>2, <2>3, <2>6, QtyOfOneMore
    <3>11. QtyIn(bk, I) + w.qty <= n /\ w.qty \in Nat
      BY <2>1, <3>1, <3>2 DEF BookingGood, Fits, BookingRecord
    <3> QED BY <2>1, <2>2, <3>2, <3>7, <3>9, <3>10, <3>11
  <2> QED BY <2>5, <2>6
<1> QED BY <1>0, <1>1, <1>3, <1>4 DEF Sound, Enough

\* A machine that was checked keeps the calendar sound: those that stay in its old
\* pool are enough for the bookings there, because each has a machine of its own.
LEMMA MachineCommits ==
    ASSUME NEW bk, NEW un, NEW pa, Sound(bk, un, pa), NEW m \in Machines, NEW new \in MachineRecord,
           MachineGood(bk, un, m, new),
           NEW vn, UnitsTyped(vn), vn[m] = new, \A k \in Machines \ {m} : vn[k] = un[k]
    PROVE  Sound(bk, vn, pa)
<1>0. BookingsTyped(bk) /\ UnitsTyped(un) /\ EachStands(bk, un, pa) /\ EachApart(bk) /\ Enough(bk, un)
  BY DEF Sound
<1>1. ASSUME NEW b \in Bookings, Blocks(bk[b]) PROVE Stands(bk[b], vn, pa)
  <2>1. Stands(bk[b], un, pa)
    BY <1>0, <1>1 DEF EachStands
  <2>2. Pinned(bk[b]) => bk[b].machine \in Machines
    BY <1>0, <1>1, BlockingIsRecord DEF Pinned, BookingRecord
  <2>3. bk[b].machine = m => new.pool = un[m].pool /\ new.usable
    BY <1>1 DEF MachineGood, Spare
  <2> QED BY <2>1, <2>2, <2>3 DEF Stands
<1>2. EachStands(bk, vn, pa)
  BY <1>1 DEF EachStands
<1>3. ASSUME NEW p \in Pools, NEW t \in Moments
      PROVE  QtyIn(bk, HeldAt(bk, p, t)) <= Cardinality(Usable(vn, p))
  <2>1. PICK H, U, V : H = HeldAt(bk, p, t) /\ U = Usable(un, p) /\ V = Usable(vn, p)
    OBVIOUS
  <2>2. H \in SUBSET Bookings /\ U \in SUBSET Machines /\ V \in SUBSET Machines
    BY <2>1 DEF HeldAt, Usable
  <2>3. \A a \in H : Blocks(bk[a]) /\ bk[a].pool = p
    BY <2>1 DEF HeldAt
  <2>4. QtyIn(bk, H) <= Cardinality(U)
    BY <1>0, <2>1 DEF Enough
  <2>5. Cardinality(U) \in Nat /\ Cardinality(V) \in Nat
    BY <2>2, RentalFinite
  <2>6. QtyIn(bk, H) \in Nat
    <3>1. H \in SUBSET H
      OBVIOUS
    <3> QED BY <1>0, <2>2, <2>3, <3>1, QtyOfPart
  <2>7. CASE p # un[m].pool \/ (new.pool = un[m].pool /\ new.usable)
    <3>1. U \in SUBSET V
      BY <2>1, <2>7 DEF Usable
    <3>2. Cardinality(U) <= Cardinality(V)
      BY <2>2, <3>1, RentalFinite
    <3> QED BY <2>1, <2>4, <2>5, <2>6, <3>2
  <2>8. CASE p = un[m].pool /\ ~(new.pool = un[m].pool /\ new.usable)
    <3>1. Spare(bk, un, m)
      BY <2>8 DEF MachineGood
    <3>2. ASSUME NEW a \in H PROVE Blocks(bk[a]) /\ bk[a].qty = 1 /\ bk[a].machine \in V
      <4>1. Blocks(bk[a]) /\ a \in Bookings /\ bk[a].pool = un[m].pool
        BY <2>2, <2>3, <2>8
      <4>2. Pinned(bk[a]) /\ bk[a].machine # m
        BY <3>1, <4>1 DEF Spare
      <4>3. bk[a].machine \in Machines
        BY <1>0, <4>1, <4>2, BlockingIsRecord DEF Pinned, BookingRecord
      <4>4. un[bk[a].machine].usable /\ un[bk[a].machine].pool = bk[a].pool /\ bk[a].qty = 1
        BY <1>0, <4>1, <4>2 DEF EachStands, Stands
      <4> QED BY <2>1, <2>8, <4>1, <4>2, <4>3, <4>4 DEF Usable
    <3>3. ASSUME NEW a \in H, NEW c \in H, a # c PROVE bk[a].machine # bk[c].machine
      <4>1. Meet(bk[c], bk[a])
        BY <1>0, <2>1, <2>2, SharedMoment
      <4>2. Pinned(bk[a])
        BY <2>2, <2>3, <2>8, <3>1 DEF Spare
      <4> QED BY <1>0, <2>2, <2>3, <3>3, <4>1, <4>2 DEF EachApart, Apart
    <3>4. QtyIn(bk, H) <= Cardinality(V)
      BY <1>0, <2>2, <3>2, <3>3, MachineEach
    <3> QED BY <2>1, <3>4
  <2> QED BY <2>7, <2>8
<1> QED BY <1>0, <1>2, <1>3 DEF Sound, Enough

\* A voucher that was checked keeps the calendar sound.
LEMMA PaperCommits ==
    ASSUME NEW bk, NEW un, NEW pa, Sound(bk, un, pa), NEW v \in RentalPapers, NEW new,
           PaperGood(bk, v, new),
           NEW qa, qa[v] = new, \A k \in RentalPapers \ {v} : qa[k] = pa[k]
    PROVE  Sound(bk, un, qa)
<1>1. ASSUME NEW b \in Bookings, Blocks(bk[b]) PROVE Stands(bk[b], un, qa)
  <2>1. Stands(bk[b], un, pa)
    BY <1>1 DEF Sound, EachStands
  <2>2. bk[b].voucher # NoPaper => bk[b].voucher \in RentalPapers
    BY <1>1, BlockingIsRecord DEF Sound, BookingRecord
  <2>3. bk[b].voucher = v => new.stands /\ new.customer = bk[b].customer
    BY <1>1 DEF PaperGood
  <2> QED BY <2>1, <2>2, <2>3 DEF Stands
<1> QED BY <1>1 DEF Sound, EachStands

-----------------------------------------------------------------------------
(* What a request holds *)

RentalLocks == RentalRows \cup Items

ClerkRecord == [at : {"rest", "refs", "write"}, row : RentalRows \cup {NoPaper},
                new : BookingRecord \cup MachineRecord \cup PaperRecord \cup {NoClaim},
                want : SUBSET RentalLocks, held : SUBSET RentalLocks]

Worded(r, w) ==
    /\ r \in Bookings => w \in BookingRecord
    /\ r \in Machines => w \in MachineRecord
    /\ r \in RentalPapers => w \in PaperRecord

\* Request k holds its row, and holds or will lock what the new and the stored version name.
Covered(bk, un, k) ==
    /\ k.row \in RentalRows /\ k.row \in k.held /\ Worded(k.row, k.new)
    /\ RentalReferences(k.row, k.new) \subseteq k.held \cup k.want
    /\ k.row \in Bookings /\ bk[k.row] # NoClaim =>
          RentalReferences(k.row, bk[k.row]) \subseteq k.held \cup k.want
    /\ \A m \in Machines : m \in k.held => ItemOf[un[m].pool] \in k.held \cup k.want

\* What it checked before it wrote still holds.
StillValid(bk, un, pa, k) ==
    /\ k.row \in Bookings => BookingGood(bk, un, pa, k.row, k.new)
    /\ k.row \in Machines => MachineGood(bk, un, k.row, k.new)
    /\ k.row \in RentalPapers => PaperGood(bk, k.row, k.new)

ClerkGood(bk, un, pa, k) ==
    /\ k \in ClerkRecord
    /\ k.at = "rest" => k.held = {}
    /\ k.at # "rest" => Covered(bk, un, k)
    /\ k.at = "write" => k.want = {} /\ StillValid(bk, un, pa, k)

HeldOnce(cl) == \A c, d \in Clerks : c # d => cl[c].held \cap cl[d].held = {}

RentalSafe(bk, un, pa, cl) ==
    /\ pa \in [RentalPapers -> PaperRecord] /\ DOMAIN cl = Clerks
    /\ Sound(bk, un, pa)
    /\ \A c \in Clerks : ClerkGood(bk, un, pa, cl[c])
    /\ HeldOnce(cl)

\* The inductive invariant of the calendar.
RentalInvariant == RentalSafe(bookings, units, papers, clerk)

\* The tables share no row.
LEMMA RowsApart ==
    ASSUME NEW r
    PROVE  /\ r \in Bookings => r \notin Machines /\ r \notin RentalPapers
           /\ r \in Machines => r \notin Bookings /\ r \notin RentalPapers
           /\ r \in RentalPapers => r \notin Bookings /\ r \notin Machines
BY RentalAssumption

\* What a version of a booking names.
LEMMA BookingNames ==
    ASSUME NEW r \in Bookings, NEW w \in BookingRecord, NEW S, RentalReferences(r, w) \subseteq S
    PROVE  /\ Pinned(w) => w.machine \in S
           /\ w.voucher # NoPaper => w.voucher \in S
           /\ w.pool \in Pools => ItemOf[w.pool] \in S
<1>1. r \notin Machines /\ r \notin RentalPapers
  BY RowsApart
<1>2. w.machine \in Machines \cup {NoMachine} /\ w.voucher \in RentalPapers \cup {NoPaper}
  BY DEF BookingRecord
<1> QED BY <1>1, <1>2 DEF RentalReferences, Pinned

\* What a version of a row names can be locked.
LEMMA NamesAreLocks ==
    ASSUME NEW r \in RentalRows, NEW w, Worded(r, w)
    PROVE  RentalReferences(r, w) \subseteq RentalLocks
<1>1. CASE r \in Bookings
  <2>1. r \notin Machines /\ r \notin RentalPapers
    BY <1>1, RowsApart
  <2> QED BY <1>1, <2>1 DEF RentalReferences, RentalLocks, RentalRows, Items
<1>2. CASE r \in Machines
  <2>1. w.pool \in Pools
    BY <1>2 DEF Worded, MachineRecord
  <2> QED BY <1>2, <2>1 DEF RentalReferences, RentalLocks, Items
<1>3. CASE r \in RentalPapers
  BY <1>3 DEF RentalReferences
<1> QED BY <1>1, <1>2, <1>3 DEF RentalRows

-----------------------------------------------------------------------------
(* What one request checked is not disturbed by a row it does not share *)

\* A booking in the pool's calendar is not disturbed by one of another pool.
LEMMA BookingBesideBooking ==
    ASSUME NEW bk, NEW un, NEW pa, NEW b \in Bookings, NEW w, BookingGood(bk, un, pa, b, w),
           NEW e \in Bookings, e # b, NEW ck, \A a \in Bookings \ {e} : ck[a] = bk[a],
           Blocks(w) => \A k \in {bk[e], ck[e]} :
              Blocks(k) => k.pool # w.pool /\ (Pinned(w) => k.machine # w.machine)
    PROVE  BookingGood(ck, un, pa, b, w)
<1> SUFFICES ASSUME Blocks(w)
             PROVE  Stands(w, un, pa) /\ Apart(ck, b, w) /\ Fits(ck, un, b, w)
  BY DEF BookingGood
<1>1. Stands(w, un, pa) /\ Apart(bk, b, w) /\ Fits(bk, un, b, w)
  BY DEF BookingGood
<1>2. Apart(ck, b, w)
  BY <1>1 DEF Apart
<1>3. InWay(ck, b, w) = InWay(bk, b, w)
  BY DEF InWay
<1>4. PICK I : I = InWay(bk, b, w)
  OBVIOUS
<1>5. [c \in I |-> ck[c].qty] = [c \in I |-> bk[c].qty]
  <2>1. \A c \in I : ck[c] = bk[c]
    BY <1>4 DEF InWay
  <2> QED BY <2>1
<1>6. QtyIn(ck, I) = QtyIn(bk, I)
  BY <1>5 DEF QtyIn
<1>7. Fits(ck, un, b, w)
  BY <1>1, <1>3, <1>4, <1>6 DEF Fits
<1> QED BY <1>1, <1>2, <1>7

\* Nor by a machine of another pool.
LEMMA BookingBesideMachine ==
    ASSUME NEW bk, NEW un, NEW pa, NEW b \in Bookings, NEW w \in BookingRecord,
           BookingGood(bk, un, pa, b, w),
           NEW m \in Machines, NEW vn, \A k \in Machines \ {m} : vn[k] = un[k],
           Blocks(w) => un[m].pool # w.pool /\ vn[m].pool # w.pool /\ (Pinned(w) => w.machine # m)
    PROVE  BookingGood(bk, vn, pa, b, w)
<1>1. w.machine \in Machines \cup {NoMachine}
  BY DEF BookingRecord
<1>2. Blocks(w) => Usable(vn, w.pool) = Usable(un, w.pool)
  BY DEF Usable
<1>3. Blocks(w) => Stands(w, vn, pa)
  BY <1>1 DEF BookingGood, Stands, Pinned
<1> QED BY <1>2, <1>3 DEF BookingGood, Fits

\* Nor by a voucher it is not for.
LEMMA BookingBesidePaper ==
    ASSUME NEW bk, NEW un, NEW pa, NEW b \in Bookings, NEW w \in BookingRecord,
           BookingGood(bk, un, pa, b, w),
           NEW v \in RentalPapers, NEW qa, \A k \in RentalPapers \ {v} : qa[k] = pa[k], w.voucher # v
    PROVE  BookingGood(bk, un, qa, b, w)
<1>1. w.voucher \in RentalPapers \cup {NoPaper}
  BY DEF BookingRecord
<1> QED BY <1>1 DEF BookingGood, Stands

\* A machine is not disturbed by a booking of another machine and pool.
LEMMA MachineBesideBooking ==
    ASSUME NEW bk, NEW un, NEW m \in Machines, NEW new, MachineGood(bk, un, m, new),
           NEW e \in Bookings, NEW ck, \A a \in Bookings \ {e} : ck[a] = bk[a],
           Blocks(ck[e]) => ck[e].machine # m /\ ck[e].pool # un[m].pool
    PROVE  MachineGood(ck, un, m, new)
BY DEF MachineGood, Spare

\* Nor a voucher by a booking that is not for it.
LEMMA PaperBesideBooking ==
    ASSUME NEW bk, NEW v \in RentalPapers, NEW new, PaperGood(bk, v, new),
           NEW e \in Bookings, NEW ck, \A a \in Bookings \ {e} : ck[a] = bk[a],
           Blocks(ck[e]) => ck[e].voucher # v
    PROVE  PaperGood(ck, v, new)
BY DEF PaperGood

-----------------------------------------------------------------------------
(* The steps of a request *)

\* One request moves on and nothing is committed.
LEMMA ClerkMoves ==
    ASSUME NEW bk, NEW un, NEW pa, NEW cl, RentalSafe(bk, un, pa, cl), NEW c \in Clerks,
           NEW k, ClerkGood(bk, un, pa, k), \A d \in Clerks \ {c} : cl[d].held \cap k.held = {},
           NEW dl, dl = [cl EXCEPT ![c] = k]
    PROVE  RentalSafe(bk, un, pa, dl)
<1>1. DOMAIN cl = Clerks /\ (\A d \in Clerks : ClerkGood(bk, un, pa, cl[d])) /\ HeldOnce(cl)
  BY DEF RentalSafe
<1>2. DOMAIN dl = Clerks /\ dl[c] = k /\ \A d \in Clerks \ {c} : dl[d] = cl[d]
  BY <1>1
<1>3. \A d \in Clerks : ClerkGood(bk, un, pa, dl[d])
  BY <1>1, <1>2
<1>4. HeldOnce(dl)
  <2> SUFFICES ASSUME NEW d \in Clerks, NEW e \in Clerks, d # e
               PROVE  dl[d].held \cap dl[e].held = {}
    BY DEF HeldOnce
  <2>1. CASE d = c
    <3>1. dl[d] = k /\ dl[e] = cl[e] /\ cl[e].held \cap k.held = {}
      BY <1>2, <2>1
    <3> QED BY <3>1
  <2>2. CASE e = c
    <3>1. dl[e] = k /\ dl[d] = cl[d] /\ cl[d].held \cap k.held = {}
      BY <1>2, <2>2
    <3> QED BY <3>1
  <2>3. CASE d # c /\ e # c
    BY <1>1, <1>2, <2>3 DEF HeldOnce
  <2> QED BY <2>1, <2>2, <2>3
<1> QED BY <1>2, <1>3, <1>4 DEF RentalSafe

\* A request at rest.
LEMMA IdleIsGood == ASSUME NEW bk, NEW un, NEW pa PROVE ClerkGood(bk, un, pa, Idle)
<1>1. Idle \in ClerkRecord
  BY DEF Idle, ClerkRecord
<1>2. Idle.at = "rest" /\ Idle.held = {}
  BY DEF Idle
<1> QED BY <1>1, <1>2 DEF ClerkGood

\* The row an edit starts from names only what can be locked.
LEMMA StoredIsWorded ==
    ASSUME RentalInvariant, NEW r \in RentalRows, Stored(r) # NoClaim
    PROVE  Worded(r, Stored(r))
<1>1. Sound(bookings, units, papers) /\ papers \in [RentalPapers -> PaperRecord]
  BY DEF RentalInvariant, RentalSafe
<1>2. CASE r \in Bookings
  BY <1>1, <1>2, RowsApart DEF Stored, Worded, Sound, BookingsTyped
<1>3. CASE r \in Machines
  BY <1>1, <1>3, RowsApart DEF Stored, Worded, Sound, UnitsTyped
<1>4. CASE r \in RentalPapers
  BY <1>1, <1>4, RowsApart DEF Stored, Worded
<1> QED BY <1>2, <1>3, <1>4 DEF RentalRows

\* What users ask for is a version of the row.
LEMMA NewIsWorded == ASSUME NEW r \in RentalRows, NEW new \in NewContents(r) PROVE Worded(r, new)
BY RowsApart, RentalAssumption DEF NewContents, Worded, RentalRows, MachineRecord, PaperRecord

\* A request takes the lock of its row.
LEMMA RequestIsSafe ==
    ASSUME RentalInvariant, NEW c \in Clerks, NEW r \in RentalRows, NEW new \in NewContents(r),
           RequestRental(c, r, new)
    PROVE  RentalInvariant'
<1>1. PICK k, W : /\ k = [at |-> "refs", row |-> r, new |-> new, held |-> {r}, want |-> W]
                  /\ W = RentalReferences(r, new) \cup
                           (IF Stored(r) # NoClaim THEN RentalReferences(r, Stored(r)) ELSE {})
                  /\ clerk' = [clerk EXCEPT ![c] = k]
  BY DEF RequestRental
<1>2. k.at = "refs" /\ k.row = r /\ k.new = new /\ k.held = {r} /\ k.want = W
  BY <1>1
<1>3. Worded(r, new)
  BY NewIsWorded
<1>4. W \subseteq RentalLocks
  <2>1. RentalReferences(r, new) \subseteq RentalLocks
    BY <1>3, NamesAreLocks
  <2>2. Stored(r) # NoClaim => RentalReferences(r, Stored(r)) \subseteq RentalLocks
    BY StoredIsWorded, NamesAreLocks
  <2> QED BY <1>1, <2>1, <2>2
<1>5. k \in ClerkRecord
  <2>1. new \in BookingRecord \cup MachineRecord \cup PaperRecord
    BY <1>3 DEF Worded, RentalRows
  <2>2. r \in RentalLocks
    BY DEF RentalLocks
  <2> QED BY <1>1, <1>4, <2>1, <2>2 DEF ClerkRecord
<1>6. Covered(bookings, units, k)
  <2>1. RentalReferences(r, new) \subseteq k.held \cup k.want
    BY <1>1, <1>2
  <2>2. r \in Bookings /\ bookings[r] # NoClaim => RentalReferences(r, bookings[r]) \subseteq k.held \cup k.want
    BY <1>1, <1>2 DEF Stored
  <2>3. ASSUME NEW m \in Machines, m \in k.held PROVE ItemOf[units[m].pool] \in k.held \cup k.want
    <3>1. m = r /\ r \in Machines /\ r \notin Bookings /\ r \notin RentalPapers
      BY <1>2, <2>3, RowsApart
    <3>2. Stored(r) = units[m]
      BY <3>1 DEF Stored
    <3>3. units[m] \in MachineRecord
      BY DEF RentalInvariant, RentalSafe, Sound, UnitsTyped
    <3>4. units[m] # NoClaim
      BY <3>3, RentalAssumption DEF MachineRecord
    <3> QED BY <1>1, <1>2, <3>1, <3>2, <3>4 DEF RentalReferences
  <2> QED BY <1>2, <1>3, <2>1, <2>2, <2>3 DEF Covered
<1>7. ClerkGood(bookings, units, papers, k)
  BY <1>2, <1>5, <1>6 DEF ClerkGood
<1>8. \A d \in Clerks \ {c} : clerk[d].held \cap k.held = {}
  BY <1>2 DEF RequestRental, RowFree
<1>9. RentalSafe(bookings, units, papers, clerk')
  BY <1>1, <1>7, <1>8, ClerkMoves DEF RentalInvariant
<1> QED BY <1>9 DEF RentalInvariant, RequestRental

\* The next row of the locking order is one the request wants.
LEMMA NextIsWanted ==
    ASSUME NEW c \in Clerks, clerk[c].want \subseteq RentalLocks, clerk[c].want # {}
    PROVE  NextRental(c) \in clerk[c].want
<1>1. PICK S, T : S = clerk[c].want /\ T = {RentalRank[r] : r \in S}
  OBVIOUS
<1>2. \A r \in S : RentalRank[r] \in Nat
  BY <1>1, RentalAssumption DEF RentalLocks
<1>3. T \in SUBSET Nat /\ T # {}
  BY <1>1, <1>2
<1>4. PICK n \in T : \A m \in T : n <= m
  BY <1>3, SmallestNumber
<1>5. \E r \in S : \A q \in S : RentalRank[r] <= RentalRank[q]
  BY <1>1, <1>4
<1> QED BY <1>1, <1>5 DEF NextRental

\* It takes one lock more.
LEMMA LockIsSafe ==
    ASSUME RentalInvariant, NEW c \in Clerks, LockRental(c)
    PROVE  RentalInvariant'
<1>1. PICK o, n, I : o = clerk[c] /\ n = NextRental(c) /\ I = RentalItems(n) \ o.held
  OBVIOUS
<1>2. PICK k : k = [o EXCEPT !.held = @ \cup {n}, !.want = (@ \ {n}) \cup I]
  OBVIOUS
<1>3. ClerkGood(bookings, units, papers, o) /\ DOMAIN clerk = Clerks
  BY <1>1 DEF RentalInvariant, RentalSafe
<1>4. o \in ClerkRecord /\ o.at = "refs" /\ Covered(bookings, units, o)
  BY <1>1, <1>3 DEF ClerkGood, LockRental
<1>5. /\ k.at = "refs" /\ k.row = o.row /\ k.new = o.new
      /\ k.held = o.held \cup {n} /\ k.want = (o.want \ {n}) \cup I
  BY <1>2, <1>4 DEF ClerkRecord
<1>6. n \in o.want
  <2>1. clerk[c].want \subseteq RentalLocks
    BY <1>1, <1>4 DEF ClerkRecord
  <2> QED BY <1>1, <2>1, NextIsWanted DEF LockRental
<1>7. UnitsTyped(units)
  BY DEF RentalInvariant, RentalSafe, Sound
<1>8. I \subseteq RentalLocks
  <2>1. ASSUME n \in Machines PROVE ItemOf[units[n].pool] \in Items
    BY <1>7, <2>1 DEF UnitsTyped, MachineRecord, Items
  <2> QED BY <1>1, <2>1 DEF RentalItems, RentalLocks
<1>9. k \in ClerkRecord
  <2>1. o.want \subseteq RentalLocks /\ o.held \subseteq RentalLocks
    BY <1>4 DEF ClerkRecord
  <2>2. (o.want \ {n}) \cup I \subseteq RentalLocks /\ o.held \cup {n} \subseteq RentalLocks
    BY <1>6, <1>8, <2>1
  <2> QED BY <1>2, <1>4, <2>2 DEF ClerkRecord
<1>10. o.held \cup o.want \subseteq k.held \cup k.want
  BY <1>5
<1>11. \A m \in Machines : m \in k.held => ItemOf[units[m].pool] \in k.held \cup k.want
  <2> SUFFICES ASSUME NEW m \in Machines, m \in k.held PROVE ItemOf[units[m].pool] \in k.held \cup k.want
    OBVIOUS
  <2>1. CASE m \in o.held
    BY <1>4, <1>10, <2>1 DEF Covered
  <2>2. CASE m = n
    <3>1. RentalItems(n) = {ItemOf[units[m].pool]}
      BY <2>2 DEF RentalItems
    <3> QED BY <1>1, <1>5, <3>1
  <2> QED BY <1>5, <2>1, <2>2
<1>12. Covered(bookings, units, k)
  BY <1>4, <1>5, <1>10, <1>11 DEF Covered
<1>13. ClerkGood(bookings, units, papers, k)
  BY <1>5, <1>9, <1>12 DEF ClerkGood
<1>14. \A d \in Clerks \ {c} : clerk[d].held \cap k.held = {}
  BY <1>1, <1>5 DEF RentalInvariant, RentalSafe, HeldOnce, LockRental, RowFree
<1>15. clerk' = [clerk EXCEPT ![c] = k]
  BY <1>1, <1>2, <1>3 DEF LockRental
<1>16. RentalSafe(bookings, units, papers, clerk')
  BY <1>13, <1>14, <1>15, ClerkMoves DEF RentalInvariant
<1> QED BY <1>16 DEF RentalInvariant, LockRental

\* A check that fails or a lost connection releases the locks.
LEMMA AbortIsSafe ==
    ASSUME RentalInvariant, NEW c \in Clerks, AbortRental(c)
    PROVE  RentalInvariant'
<1>1. \A d \in Clerks \ {c} : clerk[d].held \cap Idle.held = {}
  BY DEF Idle
<1>2. RentalSafe(bookings, units, papers, clerk')
  BY <1>1, IdleIsGood, ClerkMoves DEF RentalInvariant, AbortRental
<1> QED BY <1>2 DEF RentalInvariant, AbortRental

\* A booking that passes its checks is written as one that fits the calendar.
LEMMA CheckedBooking ==
    ASSUME RentalInvariant, NEW b \in Bookings, NEW w \in BookingRecord,
           w.status = "Discarded" \/ BookingValid(b, w),
           NEW v, v = [w EXCEPT !.pool = PoolOf(w), !.qty = QtyOf(w)]
    PROVE  v \in BookingRecord /\ BookingGood(bookings, units, papers, b, v)
<1>1. UnitsTyped(units)
  BY DEF RentalInvariant, RentalSafe, Sound
<1>2. Pinned(w) => w.machine \in Machines /\ units[w.machine].pool \in Pools
  BY <1>1 DEF Pinned, BookingRecord, UnitsTyped, MachineRecord
<1>3. PICK p, q : p = PoolOf(w) /\ q = QtyOf(w)
  OBVIOUS
<1>4. p \in Pools \cup {AnyPool} /\ q \in Nat
  BY <1>2, <1>3 DEF PoolOf, QtyOf, BookingRecord
<1>5. /\ v \in BookingRecord /\ v.pool = p /\ v.qty = q /\ v.machine = w.machine /\ v.status = w.status
      /\ v.from = w.from /\ v.to = w.to /\ v.voucher = w.voucher /\ v.customer = w.customer
  BY <1>3, <1>4 DEF BookingRecord
<1>6. Pinned(v) <=> Pinned(w)
  BY <1>5 DEF Pinned
<1> SUFFICES ASSUME Blocks(v)
             PROVE  Stands(v, units, papers) /\ Apart(bookings, b, v) /\ Fits(bookings, units, b, v)
  BY <1>5 DEF BookingGood
<1>7. BookingValid(b, w) /\ w.status \in {"Reserved", "Out"}
  BY <1>5 DEF Blocks
<1>8. Available(b, w)
  BY <1>7 DEF BookingValid
<1>9. Stands(v, units, papers)
  <2>1. p \in Pools
    BY <1>2, <1>3, <1>4, <1>7 DEF BookingValid, PoolOf
  <2>2. Pinned(w) => p = units[w.machine].pool /\ q = 1
    BY <1>3 DEF PoolOf, QtyOf
  <2>3. Pinned(w) => units[w.machine].usable
    BY <1>7 DEF BookingValid
  <2>4. w.voucher # NoPaper => papers[w.voucher].stands /\ papers[w.voucher].customer = w.customer
    BY <1>7 DEF BookingValid
  <2> QED BY <1>5, <1>6, <2>1, <2>2, <2>3, <2>4 DEF Stands
<1>10. Overlapping(b, w) = {c \in Bookings \ {b} : Blocks(bookings[c]) /\ Meet(bookings[c], v)}
  BY <1>5 DEF Overlapping, Blocking, Blocks, Meet
<1>11. Apart(bookings, b, v)
  BY <1>5, <1>6, <1>8, <1>10 DEF Apart, Available
<1>12. {c \in Overlapping(b, w) : bookings[c].pool = p} = InWay(bookings, b, v)
  BY <1>5, <1>10 DEF InWay
<1>13. UsableIn(p) = Usable(units, p)
  BY DEF UsableIn, Usable
<1>14. PICK I : I = InWay(bookings, b, v)
  OBVIOUS
<1>15. SumFunctionOnSet([c \in I |-> bookings[c].qty], I) + q <= Cardinality(UsableIn(p))
  BY <1>3, <1>8, <1>12, <1>14 DEF Available
<1>16. Fits(bookings, units, b, v)
  BY <1>5, <1>13, <1>14, <1>15 DEF Fits, QtyIn
<1> QED BY <1>9, <1>11, <1>16

\* With every lock taken, a request checks and writes.
LEMMA WriteIsSafe ==
    ASSUME RentalInvariant, NEW c \in Clerks, WriteRental(c)
    PROVE  RentalInvariant'
<1>1. PICK o : o = clerk[c]
  OBVIOUS
<1>2. PICK v : v = Resolved(o.row, o.new)
  OBVIOUS
<1>3. PICK k : k = [o EXCEPT !.at = "write", !.new = v]
  OBVIOUS
<1>4. ClerkGood(bookings, units, papers, o) /\ DOMAIN clerk = Clerks /\ UnitsTyped(units)
  BY <1>1 DEF RentalInvariant, RentalSafe, Sound
<1>5. /\ o \in ClerkRecord /\ o.at = "refs" /\ o.want = {} /\ Covered(bookings, units, o)
      /\ RentalValid(o.row, o.new)
  BY <1>1, <1>4 DEF ClerkGood, WriteRental
<1>6. k.at = "write" /\ k.row = o.row /\ k.new = v /\ k.held = o.held /\ k.want = {}
  BY <1>3, <1>5 DEF ClerkRecord
<1>7. o.row \in RentalRows /\ o.row \in o.held /\ Worded(o.row, o.new) /\ o.held \cup o.want = o.held
  BY <1>5 DEF Covered
<1>8. ASSUME o.row \in Bookings
      PROVE  /\ v \in BookingRecord /\ BookingGood(bookings, units, papers, o.row, v)
             /\ RentalReferences(o.row, v) \subseteq o.held
  <2>1. v = [o.new EXCEPT !.pool = PoolOf(o.new), !.qty = QtyOf(o.new)]
    BY <1>2, <1>8 DEF Resolved
  <2>2. o.new \in BookingRecord /\ (o.new.status = "Discarded" \/ BookingValid(o.row, o.new))
    BY <1>5, <1>7, <1>8 DEF Worded, RentalValid
  <2>3. v \in BookingRecord /\ BookingGood(bookings, units, papers, o.row, v)
    BY <1>8, <2>1, <2>2, CheckedBooking
  <2>4. v.machine = o.new.machine /\ v.voucher = o.new.voucher /\ v.pool = PoolOf(o.new)
    BY <2>1, <2>2 DEF BookingRecord
  <2>5. RentalReferences(o.row, o.new) \subseteq o.held
    BY <1>5, <1>7 DEF Covered
  <2>6. o.row \notin Machines /\ o.row \notin RentalPapers
    BY <1>8, RowsApart
  <2>7. v.pool \in Pools => ItemOf[v.pool] \in o.held
    <3>1. CASE Pinned(o.new)
      <4>1. o.new.machine \in Machines /\ o.new.machine \in o.held
        BY <1>8, <2>2, <2>5, <3>1, BookingNames DEF Pinned, BookingRecord
      <4>2. ItemOf[units[o.new.machine].pool] \in o.held
        BY <1>5, <1>7, <4>1 DEF Covered
      <4> QED BY <2>4, <3>1, <4>2 DEF PoolOf
    <3>2. CASE ~Pinned(o.new)
      BY <1>8, <2>2, <2>4, <2>5, <3>2, BookingNames DEF PoolOf
    <3> QED BY <3>1, <3>2
  <2>8. RentalReferences(o.row, v) \subseteq o.held
    BY <2>4, <2>5, <2>6, <2>7 DEF RentalReferences
  <2> QED BY <2>3, <2>8
<1>9. o.row \notin Bookings => v = o.new
  BY <1>2 DEF Resolved
<1>10. Worded(o.row, v)
  BY <1>7, <1>8, <1>9, RowsApart DEF Worded
<1>11. RentalReferences(o.row, v) \subseteq o.held
  BY <1>5, <1>7, <1>8, <1>9 DEF Covered
<1>12. k \in ClerkRecord
  <2>1. v \in BookingRecord \cup MachineRecord \cup PaperRecord
    BY <1>7, <1>10 DEF Worded, RentalRows
  <2> QED BY <1>3, <1>5, <2>1 DEF ClerkRecord
<1>13. Covered(bookings, units, k)
  BY <1>5, <1>6, <1>7, <1>10, <1>11 DEF Covered
<1>14. StillValid(bookings, units, papers, k)
  <2>1. o.row \in Machines => MachineGood(bookings, units, o.row, v)
    BY <1>5, <1>9, RowsApart
       DEF RentalValid, MachineValid, MachineReleasable, MachineGood, Spare, Blocking, Blocks
  <2>2. o.row \in RentalPapers => PaperGood(bookings, o.row, v)
    BY <1>5, <1>9, RowsApart
       DEF RentalValid, VoucherChangeValid, BookedOn, PaperGood, Blocking, Blocks
  <2> QED BY <1>6, <1>8, <2>1, <2>2 DEF StillValid
<1>15. ClerkGood(bookings, units, papers, k)
  BY <1>6, <1>12, <1>13, <1>14 DEF ClerkGood
<1>16. \A d \in Clerks \ {c} : clerk[d].held \cap k.held = {}
  BY <1>1, <1>6 DEF RentalInvariant, RentalSafe, HeldOnce
<1>17. clerk' = [clerk EXCEPT ![c] = k]
  BY <1>1, <1>2, <1>3, <1>4 DEF WriteRental
<1>18. RentalSafe(bookings, units, papers, clerk')
  BY <1>15, <1>16, <1>17, ClerkMoves DEF RentalInvariant
<1> QED BY <1>18 DEF RentalInvariant, WriteRental

\* A request that is about to commit, and one that goes on, share no row.
LEMMA BesideCommit ==
    ASSUME NEW bk, NEW un, NEW pa, Sound(bk, un, pa), NEW k, NEW j,
           ClerkGood(bk, un, pa, k), k.at = "write", ClerkGood(bk, un, pa, j),
           k.held \cap j.held = {},
           NEW ck, NEW vn, NEW qa,
           ck = (IF k.row \in Bookings THEN [bk EXCEPT ![k.row] = k.new] ELSE bk),
           vn = (IF k.row \in Machines THEN [un EXCEPT ![k.row] = k.new] ELSE un),
           qa = (IF k.row \in RentalPapers THEN [pa EXCEPT ![k.row] = k.new] ELSE pa),
           pa \in [RentalPapers -> PaperRecord]
    PROVE  ClerkGood(ck, vn, qa, j)
<1>1. /\ Covered(bk, un, k) /\ StillValid(bk, un, pa, k) /\ k.held \cup k.want = k.held
      /\ BookingsTyped(bk) /\ UnitsTyped(un) /\ EachStands(bk, un, pa)
  BY DEF ClerkGood, Sound
<1>2. k.row \in RentalRows /\ k.row \in k.held /\ Worded(k.row, k.new)
  BY <1>1 DEF Covered
<1>3. \A r : r # k.row => (r \in Bookings => ck[r] = bk[r]) /\ (r \in Machines => vn[r] = un[r])
                          /\ (r \in RentalPapers => qa[r] = pa[r])
  BY <1>1 DEF BookingsTyped, UnitsTyped
<1>4. \A r : r \in j.held => r # k.row /\ r \notin k.held
  BY <1>2
<1>5. ASSUME j.at # "rest" PROVE Covered(ck, vn, j)
  <2>1. Covered(bk, un, j)
    BY <1>5 DEF ClerkGood
  <2>2. j.row # k.row
    BY <1>4, <2>1 DEF Covered
  <2>3. j.row \in Bookings => ck[j.row] = bk[j.row]
    BY <1>3, <2>2
  <2>4. \A m \in Machines : m \in j.held => vn[m] = un[m]
    BY <1>3, <1>4
  <2> QED BY <2>1, <2>3, <2>4 DEF Covered
<1>6. ASSUME j.at = "write" PROVE StillValid(ck, vn, qa, j)
  <2>1. Covered(bk, un, j) /\ StillValid(bk, un, pa, j) /\ j.held \cup j.want = j.held /\ j.at # "rest"
    BY <1>6 DEF ClerkGood
  <2>2. j.row \in j.held /\ Worded(j.row, j.new) /\ j.row # k.row
    BY <1>4, <2>1 DEF Covered
  <2>3. RentalReferences(j.row, j.new) \subseteq j.held /\ RentalReferences(k.row, k.new) \subseteq k.held
    BY <1>1, <2>1 DEF Covered
  <2>4. ASSUME NEW b, b = j.row, b \in Bookings, NEW w, w = j.new
        PROVE  BookingGood(ck, vn, qa, b, w)
    <3>1. w \in BookingRecord /\ BookingGood(bk, un, pa, b, w) /\ b # k.row
      BY <2>1, <2>2, <2>4 DEF Worded, StillValid
    <3>2. /\ Pinned(w) => w.machine \in j.held
          /\ w.voucher # NoPaper => w.voucher \in j.held
          /\ w.pool \in Pools => ItemOf[w.pool] \in j.held
      BY <2>3, <2>4, <3>1, BookingNames
    <3>3. Blocks(w) => w.pool \in Pools
      BY <3>1 DEF BookingGood, Stands
    <3>4. CASE k.row \in Bookings
      <4>1. vn = un /\ qa = pa /\ ck[k.row] = k.new /\ k.new \in BookingRecord
        BY <1>1, <1>2, <3>4, RowsApart DEF BookingsTyped, Worded
      <4>2. ASSUME Blocks(w), NEW q \in {bk[k.row], ck[k.row]}, Blocks(q)
            PROVE  q.pool # w.pool /\ (Pinned(w) => q.machine # w.machine)
        <5>1. q \in BookingRecord /\ RentalReferences(k.row, q) \subseteq k.held /\ q.pool \in Pools
          <6>1. CASE q = bk[k.row]
            BY <1>1, <3>4, <4>2, <6>1 DEF BookingsTyped, Blocks, Covered, EachStands, Stands
          <6>2. CASE q = ck[k.row]
            BY <1>1, <2>3, <3>4, <4>1, <4>2, <6>2 DEF StillValid, BookingGood, Stands
          <6> QED BY <6>1, <6>2
        <5>2. ItemOf[q.pool] \in k.held /\ (Pinned(q) => q.machine \in k.held)
          BY <3>4, <5>1, BookingNames
        <5> QED BY <1>4, <3>2, <3>3, <4>2, <5>2 DEF Pinned
      <4>3. \A a \in Bookings \ {k.row} : ck[a] = bk[a]
        BY <1>3
      <4>4. PICK e : e = k.row
        OBVIOUS
      <4>5. /\ BookingGood(bk, un, pa, b, w) /\ b \in Bookings /\ e \in Bookings /\ e # b
            /\ \A a \in Bookings \ {e} : ck[a] = bk[a]
            /\ Blocks(w) => \A q \in {bk[e], ck[e]} :
                 Blocks(q) => q.pool # w.pool /\ (Pinned(w) => q.machine # w.machine)
        BY <2>4, <3>1, <3>4, <4>2, <4>3, <4>4
      <4>6. BookingGood(ck, un, pa, b, w)
        BY ONLY <4>5, BookingBesideBooking
      <4> QED BY <4>1, <4>6
    <3>5. CASE k.row \in Machines
      <4>1. ck = bk /\ qa = pa /\ vn[k.row] = k.new /\ k.new \in MachineRecord /\ un[k.row] \in MachineRecord
        BY <1>1, <1>2, <3>5, RowsApart DEF UnitsTyped, Worded
      <4>2. ItemOf[k.new.pool] \in k.held /\ ItemOf[un[k.row].pool] \in k.held
        BY <1>1, <1>2, <2>3, <3>5, RowsApart DEF RentalReferences, Covered
      <4>3. Blocks(w) => un[k.row].pool # w.pool /\ vn[k.row].pool # w.pool /\ (Pinned(w) => w.machine # k.row)
        BY <1>4, <3>2, <3>3, <4>1, <4>2
      <4>4. \A m \in Machines \ {k.row} : vn[m] = un[m]
        BY <1>3
      <4>5. PICK m : m = k.row
        OBVIOUS
      <4>6. /\ BookingGood(bk, un, pa, b, w) /\ b \in Bookings /\ w \in BookingRecord
            /\ m \in Machines /\ \A x \in Machines \ {m} : vn[x] = un[x]
            /\ Blocks(w) => un[m].pool # w.pool /\ vn[m].pool # w.pool /\ (Pinned(w) => w.machine # m)
        BY <2>4, <3>1, <3>5, <4>3, <4>4, <4>5
      <4>7. BookingGood(bk, vn, pa, b, w)
        BY ONLY <4>6, BookingBesideMachine
      <4> QED BY <4>1, <4>7
    <3>6. CASE k.row \in RentalPapers
      <4>1. ck = bk /\ vn = un
        BY <3>6, RowsApart
      <4>2. CASE w.voucher # k.row
        <5>1. \A x \in RentalPapers \ {k.row} : qa[x] = pa[x]
          BY <1>3
        <5> QED BY <2>4, <3>1, <3>6, <4>1, <4>2, <5>1, BookingBesidePaper
      <4>3. CASE w.voucher = k.row /\ w.voucher # NoPaper
        BY <1>4, <3>2, <4>3
      <4>4. CASE w.voucher = NoPaper
        BY <3>1, <4>1, <4>4 DEF BookingGood, Stands
      <4> QED BY <4>2, <4>3, <4>4
    <3> QED BY <1>2, <3>4, <3>5, <3>6 DEF RentalRows
  <2>5. ASSUME NEW m, m = j.row, m \in Machines, NEW new, new = j.new
        PROVE  MachineGood(ck, vn, m, new)
    <3>1. MachineGood(bk, un, m, new) /\ vn[m] = un[m] /\ ItemOf[un[m].pool] \in j.held
      BY <1>3, <2>1, <2>2, <2>5 DEF StillValid, Covered
    <3>2. CASE k.row \in Bookings
      <4>1. vn = un /\ ck[k.row] = k.new /\ k.new \in BookingRecord
        BY <1>1, <1>2, <3>2, RowsApart DEF BookingsTyped, Worded
      <4>2. Blocks(k.new) => k.new.pool \in Pools
        BY <1>1, <3>2 DEF StillValid, BookingGood, Stands
      <4>3. /\ k.new.machine \in Machines /\ Pinned(k.new) => k.new.machine \in k.held
            /\ k.new.pool \in Pools => ItemOf[k.new.pool] \in k.held
        BY <2>3, <3>2, <4>1, BookingNames
      <4>4. Blocks(ck[k.row]) /\ Pinned(k.new) => ck[k.row].machine # m
        BY <1>4, <2>2, <2>5, <4>1, <4>3
      <4>5. Blocks(ck[k.row]) => ck[k.row].pool # un[m].pool
        BY <1>4, <3>1, <4>1, <4>2, <4>3
      <4>6. \A a \in Bookings \ {k.row} : ck[a] = bk[a]
        BY <1>3
      <4>7. Blocks(ck[k.row]) => ck[k.row].machine # m
        BY <2>5, <4>1, <4>4, RentalAssumption DEF Pinned
      <4>8. PICK e : e = k.row
        OBVIOUS
      <4>9. /\ MachineGood(bk, un, m, new) /\ m \in Machines /\ e \in Bookings
            /\ \A a \in Bookings \ {e} : ck[a] = bk[a]
            /\ Blocks(ck[e]) => ck[e].machine # m /\ ck[e].pool # un[m].pool
        BY <2>5, <3>1, <3>2, <4>5, <4>6, <4>7, <4>8
      <4>10. MachineGood(ck, un, m, new)
        BY ONLY <4>9, MachineBesideBooking
      <4> QED BY <4>1, <4>10
    <3>3. CASE k.row \notin Bookings
      BY <3>1, <3>3 DEF MachineGood, Spare
    <3> QED BY <3>2, <3>3
  <2>6. ASSUME NEW v, v = j.row, v \in RentalPapers, NEW new, new = j.new
        PROVE  PaperGood(ck, v, new)
    <3>1. PaperGood(bk, v, new)
      BY <2>1, <2>6 DEF StillValid
    <3>2. CASE k.row \in Bookings
      <4>1. ck[k.row] = k.new /\ k.new \in BookingRecord
        BY <1>1, <1>2, <3>2 DEF BookingsTyped, Worded
      <4>2. k.new.voucher # NoPaper => k.new.voucher \in k.held
        BY <2>3, <3>2, <4>1, BookingNames
      <4>3. k.new.voucher # v
        BY <1>4, <2>2, <2>6, <4>2, RentalAssumption
      <4>4. \A a \in Bookings \ {k.row} : ck[a] = bk[a]
        BY <1>3
      <4>5. PICK e : e = k.row
        OBVIOUS
      <4>6. /\ PaperGood(bk, v, new) /\ v \in RentalPapers /\ e \in Bookings
            /\ \A a \in Bookings \ {e} : ck[a] = bk[a]
            /\ Blocks(ck[e]) => ck[e].voucher # v
        BY <2>6, <3>1, <3>2, <4>1, <4>3, <4>4, <4>5
      <4> QED BY ONLY <4>6, PaperBesideBooking
    <3>3. CASE k.row \notin Bookings
      BY <3>1, <3>3
    <3> QED BY <3>2, <3>3
  <2> QED BY <2>4, <2>5, <2>6 DEF StillValid
<1> QED BY <1>5, <1>6 DEF ClerkGood

\* The row commits and the locks are released.
LEMMA CommitIsSafe ==
    ASSUME RentalInvariant, NEW c \in Clerks, CommitRental(c)
    PROVE  RentalInvariant'
<1>1. PICK bk, un, pa, cl : bk = bookings /\ un = units /\ pa = papers /\ cl = clerk
  OBVIOUS
<1>2. PICK k, r, w : k = cl[c] /\ r = k.row /\ w = k.new
  OBVIOUS
<1>3. PICK ck, vn, qa, dl : ck = bookings' /\ vn = units' /\ qa = papers' /\ dl = clerk'
  OBVIOUS
<1>4. /\ k.at = "write" /\ dl = [cl EXCEPT ![c] = Idle]
      /\ ck = (IF r \in Bookings THEN [bk EXCEPT ![r] = w] ELSE bk)
      /\ vn = (IF r \in Machines THEN [un EXCEPT ![r] = w] ELSE un)
      /\ qa = (IF r \in RentalPapers THEN [pa EXCEPT ![r] = w] ELSE pa)
  BY <1>1, <1>2, <1>3 DEF CommitRental
<1>5. /\ pa \in [RentalPapers -> PaperRecord] /\ DOMAIN cl = Clerks /\ Sound(bk, un, pa)
      /\ (\A d \in Clerks : ClerkGood(bk, un, pa, cl[d])) /\ HeldOnce(cl)
  BY <1>1 DEF RentalInvariant, RentalSafe
<1>6. BookingsTyped(bk) /\ UnitsTyped(un)
  BY <1>5 DEF Sound
<1>7. Covered(bk, un, k) /\ StillValid(bk, un, pa, k)
  BY <1>2, <1>4, <1>5 DEF ClerkGood
<1>8. r \in RentalRows /\ Worded(r, w)
  BY <1>2, <1>7 DEF Covered
<1>9. Sound(ck, vn, qa)
  <2>1. CASE r \in Bookings
    <3>1. vn = un /\ qa = pa /\ ck = [bk EXCEPT ![r] = w]
      BY <1>4, <2>1, RowsApart
    <3>2. w \in BookingRecord /\ BookingGood(bk, un, pa, r, w)
      BY <1>2, <1>7, <1>8, <2>1 DEF Worded, StillValid
    <3>3. BookingsTyped(ck) /\ ck[r] = w /\ \A a \in Bookings \ {r} : ck[a] = bk[a]
      BY <1>6, <2>1, <3>1, <3>2 DEF BookingsTyped
    <3>4. Sound(ck, un, pa)
      BY ONLY <1>5, <2>1, <3>2, <3>3, BookingCommits
    <3> QED BY <3>1, <3>4
  <2>2. CASE r \in Machines
    <3>1. ck = bk /\ qa = pa /\ vn = [un EXCEPT ![r] = w]
      BY <1>4, <2>2, RowsApart
    <3>2. w \in MachineRecord /\ MachineGood(bk, un, r, w)
      BY <1>2, <1>7, <1>8, <2>2 DEF Worded, StillValid
    <3>3. UnitsTyped(vn) /\ vn[r] = w /\ \A m \in Machines \ {r} : vn[m] = un[m]
      BY <1>6, <2>2, <3>1, <3>2 DEF UnitsTyped
    <3>4. Sound(bk, vn, pa)
      BY ONLY <1>5, <2>2, <3>2, <3>3, MachineCommits
    <3> QED BY <3>1, <3>4
  <2>3. CASE r \in RentalPapers
    <3>1. ck = bk /\ vn = un /\ qa = [pa EXCEPT ![r] = w]
      BY <1>4, <2>3, RowsApart
    <3>2. PaperGood(bk, r, w)
      BY <1>2, <1>7, <2>3 DEF StillValid
    <3>3. qa[r] = w /\ \A v \in RentalPapers \ {r} : qa[v] = pa[v]
      BY <1>5, <2>3, <3>1
    <3>4. Sound(bk, un, qa)
      BY ONLY <1>5, <2>3, <3>2, <3>3, PaperCommits
    <3> QED BY <3>1, <3>4
  <2> QED BY <1>8, <2>1, <2>2, <2>3 DEF RentalRows
<1>10. qa \in [RentalPapers -> PaperRecord]
  BY <1>4, <1>5, <1>8 DEF Worded
<1>11. DOMAIN dl = Clerks /\ dl[c] = Idle /\ \A d \in Clerks \ {c} : dl[d] = cl[d]
  BY <1>4, <1>5
<1>12. ASSUME NEW d \in Clerks PROVE ClerkGood(ck, vn, qa, dl[d])
  <2>1. CASE d = c
    BY <1>11, <2>1, IdleIsGood
  <2>2. CASE d # c
    <3>1. PICK j : j = cl[d]
      OBVIOUS
    <3>2. ClerkGood(bk, un, pa, k) /\ ClerkGood(bk, un, pa, j) /\ k.held \cap j.held = {}
      BY <1>2, <1>5, <2>2, <3>1 DEF HeldOnce
    <3>3. /\ ck = (IF k.row \in Bookings THEN [bk EXCEPT ![k.row] = k.new] ELSE bk)
          /\ vn = (IF k.row \in Machines THEN [un EXCEPT ![k.row] = k.new] ELSE un)
          /\ qa = (IF k.row \in RentalPapers THEN [pa EXCEPT ![k.row] = k.new] ELSE pa)
      BY <1>2, <1>4
    <3>4. Sound(bk, un, pa) /\ k.at = "write" /\ pa \in [RentalPapers -> PaperRecord]
      BY <1>4, <1>5
    <3>5. ClerkGood(ck, vn, qa, j)
      BY ONLY <3>2, <3>3, <3>4, BesideCommit
    <3> QED BY <1>11, <2>2, <3>1, <3>5
  <2> QED BY <2>1, <2>2
<1>13. HeldOnce(dl)
  <2> SUFFICES ASSUME NEW d \in Clerks, NEW e \in Clerks, d # e
               PROVE  dl[d].held \cap dl[e].held = {}
    BY DEF HeldOnce
  <2>1. CASE d = c \/ e = c
    BY <1>11, <2>1 DEF Idle
  <2>2. CASE d # c /\ e # c
    BY <1>5, <1>11, <2>2 DEF HeldOnce
  <2> QED BY <2>1, <2>2
<1>14. RentalSafe(ck, vn, qa, dl)
  BY <1>9, <1>10, <1>11, <1>12, <1>13 DEF RentalSafe
<1> QED BY <1>3, <1>14 DEF RentalInvariant

\* With no booking stored nothing is held.
LEMMA RentalStarts == ASSUME RentalInit PROVE RentalInvariant
<1>1. \A b \in Bookings : bookings[b] = NoClaim
  BY DEF RentalInit
<1>2. BookingsTyped(bookings)
  BY DEF RentalInit, BookingsTyped
<1>3. UnitsTyped(units)
  <2>1. Refits \subseteq MachineRecord
    BY RentalAssumption DEF MachineRecord
  <2> QED BY <2>1 DEF RentalInit, UnitsTyped
<1>4. EachStands(bookings, units, papers) /\ EachApart(bookings)
  BY <1>1 DEF EachStands, EachApart, Blocks
<1>5. ASSUME NEW p \in Pools, NEW t \in Moments
      PROVE  QtyIn(bookings, HeldAt(bookings, p, t)) <= Cardinality(Usable(units, p))
  <2>1. HeldAt(bookings, p, t) = {}
    BY <1>1 DEF HeldAt, Blocks
  <2>2. QtyIn(bookings, {}) = 0
    BY SumOfNone DEF QtyIn
  <2>3. Usable(units, p) \in SUBSET Machines
    BY DEF Usable
  <2>4. Cardinality(Usable(units, p)) \in Nat
    BY <2>3, RentalFinite
  <2> QED BY <2>1, <2>2, <2>4
<1>6. Sound(bookings, units, papers)
  BY <1>2, <1>3, <1>4, <1>5 DEF Sound, Enough
<1>7. papers \in [RentalPapers -> PaperRecord]
  BY DEF RentalInit, PaperRecord
<1>8. DOMAIN clerk = Clerks /\ \A c \in Clerks : clerk[c] = Idle
  BY DEF RentalInit
<1>9. HeldOnce(clerk)
  BY <1>8 DEF HeldOnce, Idle
<1> QED BY <1>6, <1>7, <1>8, <1>9, IdleIsGood DEF RentalInvariant, RentalSafe

\* Every step keeps the invariant.
LEMMA RentalStep == ASSUME RentalInvariant, [RentalNext]_rentalVars PROVE RentalInvariant'
<1>1. CASE UNCHANGED rentalVars
  BY <1>1 DEF rentalVars, RentalInvariant
<1>2. ASSUME NEW c \in Clerks,
             NEW r \in RentalRows, NEW new \in NewContents(r), RequestRental(c, r, new)
      PROVE  RentalInvariant'
  BY <1>2, RequestIsSafe
<1>3. ASSUME NEW c \in Clerks, LockRental(c) PROVE RentalInvariant'
  BY <1>3, LockIsSafe
<1>4. ASSUME NEW c \in Clerks, WriteRental(c) PROVE RentalInvariant'
  BY <1>4, WriteIsSafe
<1>5. ASSUME NEW c \in Clerks, CommitRental(c) PROVE RentalInvariant'
  BY <1>5, CommitIsSafe
<1>6. ASSUME NEW c \in Clerks, AbortRental(c) PROVE RentalInvariant'
  BY <1>6, AbortIsSafe
<1> QED BY <1>1, <1>2, <1>3, <1>4, <1>5, <1>6 DEF RentalNext

-----------------------------------------------------------------------------
(* One change of the calendar *)

ClaimBy(k) == IF ~Blocks(k) THEN NoClaim ELSE [x \in DOMAIN k \ {"status"} |-> k[x]]

ClaimRecord == [pool : Pools, machine : Machines \cup {NoMachine}, qty : Nat,
                from : Moments, to : Moments, voucher : RentalPapers \cup {NoPaper},
                customer : Customers]

\* A claim has what its booking has, its status apart.
LEMMA ClaimIsRecord ==
    ASSUME NEW k \in BookingRecord, Blocks(k), k.pool \in Pools, NEW f, f = ClaimBy(k)
    PROVE  /\ f \in ClaimRecord /\ f # NoClaim
           /\ f.pool = k.pool /\ f.machine = k.machine /\ f.qty = k.qty /\ f.from = k.from
           /\ f.to = k.to /\ f.voucher = k.voucher /\ f.customer = k.customer
<1>1. DOMAIN k = {"status", "pool", "machine", "qty", "from", "to", "voucher", "customer"}
  BY DEF BookingRecord
<1>2. DOMAIN k \ {"status"} = {"pool", "machine", "qty", "from", "to", "voucher", "customer"}
  BY <1>1
<1>3. f = [x \in {"pool", "machine", "qty", "from", "to", "voucher", "customer"} |-> k[x]]
  BY <1>2 DEF ClaimBy
<1>4. f = [pool |-> k.pool, machine |-> k.machine, qty |-> k.qty, from |-> k.from, to |-> k.to,
           voucher |-> k.voucher, customer |-> k.customer]
  BY <1>3
<1>5. f \in ClaimRecord
  BY <1>4 DEF ClaimRecord, BookingRecord
<1>6. f # NoClaim
  BY <1>5, RentalAssumption DEF ClaimRecord
<1> QED BY <1>4, <1>5, <1>6

\* The calendar of the stored rows, and its promise.
ClaimsOf(bk) == [b \in Bookings |-> ClaimBy(bk[b])]
FleetOf(un) == [p \in Pools |-> Usable(un, p)]
AccountsOf(pa) == [v \in RentalPapers |-> IF pa[v].stands THEN pa[v].customer ELSE Closed]

ClaimedAt(cm, p, t) ==
    {b \in Bookings : cm[b] # NoClaim /\ cm[b].pool = p /\ cm[b].from <= t /\ t < cm[b].to}

PromiseOf(cm, fl, ac) ==
    /\ \A p \in Pools, t \in Moments :
          /\ SumFunctionOnSet([b \in ClaimedAt(cm, p, t) |-> cm[b].qty], ClaimedAt(cm, p, t))
                <= Cardinality(fl[p])
          /\ \A a, b \in ClaimedAt(cm, p, t) :
                a # b /\ cm[a].machine # NoMachine => cm[a].machine # cm[b].machine
    /\ \A b \in Bookings : cm[b] # NoClaim =>
          /\ cm[b] \in ClaimRecord
          /\ cm[b].machine # NoMachine => cm[b].machine \in fl[cm[b].pool]
          /\ cm[b].voucher # NoPaper => ac[cm[b].voucher] = cm[b].customer

\* A sound calendar keeps its promise.
LEMMA SoundKeepsPromise ==
    ASSUME NEW bk, NEW un, NEW pa, Sound(bk, un, pa),
           NEW cm, cm = ClaimsOf(bk), NEW fl, fl = FleetOf(un), NEW ac, ac = AccountsOf(pa)
    PROVE  PromiseOf(cm, fl, ac)
<1>0. BookingsTyped(bk) /\ UnitsTyped(un) /\ EachStands(bk, un, pa) /\ EachApart(bk) /\ Enough(bk, un)
  BY DEF Sound
<1>1. ASSUME NEW b \in Bookings, ~Blocks(bk[b]) PROVE cm[b] = NoClaim
  BY <1>1 DEF ClaimsOf, ClaimBy
<1>2. ASSUME NEW b \in Bookings, Blocks(bk[b])
      PROVE  /\ bk[b] \in BookingRecord /\ Stands(bk[b], un, pa)
             /\ cm[b] \in ClaimRecord /\ cm[b] # NoClaim
             /\ cm[b].pool = bk[b].pool /\ cm[b].machine = bk[b].machine /\ cm[b].qty = bk[b].qty
             /\ cm[b].from = bk[b].from /\ cm[b].to = bk[b].to
             /\ cm[b].voucher = bk[b].voucher /\ cm[b].customer = bk[b].customer
  <2>1. bk[b] \in BookingRecord /\ Stands(bk[b], un, pa) /\ bk[b].pool \in Pools
    BY <1>0, <1>2, BlockingIsRecord DEF EachStands, Stands
  <2>2. PICK k, f : k = bk[b] /\ f = ClaimBy(k)
    OBVIOUS
  <2>3. k \in BookingRecord /\ Blocks(k) /\ k.pool \in Pools
    BY <1>2, <2>1, <2>2
  <2>4. cm[b] = f
    BY <2>2 DEF ClaimsOf
  <2> QED BY <2>1, <2>2, <2>3, <2>4, ClaimIsRecord
<1>3. ASSUME NEW p \in Pools, NEW t \in Moments
      PROVE  /\ SumFunctionOnSet([b \in ClaimedAt(cm, p, t) |-> cm[b].qty], ClaimedAt(cm, p, t))
                   <= Cardinality(fl[p])
             /\ \A a, b \in ClaimedAt(cm, p, t) :
                   a # b /\ cm[a].machine # NoMachine => cm[a].machine # cm[b].machine
  <2>1. ClaimedAt(cm, p, t) = HeldAt(bk, p, t)
    BY <1>1, <1>2 DEF ClaimedAt, HeldAt
  <2>2. PICK H : H = HeldAt(bk, p, t)
    OBVIOUS
  <2>3. \A b \in H : b \in Bookings /\ Blocks(bk[b])
    BY <2>2 DEF HeldAt
  <2>4. [b \in H |-> cm[b].qty] = [b \in H |-> bk[b].qty]
    BY <1>2, <2>3
  <2>5. fl[p] = Usable(un, p)
    BY DEF FleetOf
  <2>6. SumFunctionOnSet([b \in H |-> cm[b].qty], H) <= Cardinality(fl[p])
    BY <1>0, <2>2, <2>4, <2>5 DEF Enough, QtyIn
  <2>7. ASSUME NEW a \in H, NEW b \in H, a # b, cm[a].machine # NoMachine
        PROVE  cm[a].machine # cm[b].machine
    <3>1. Meet(bk[b], bk[a])
      BY <1>0, <2>2, <2>3, SharedMoment
    <3>2. Pinned(bk[a]) /\ Blocks(bk[a]) /\ Blocks(bk[b]) /\ a \in Bookings /\ b \in Bookings
      BY <1>2, <2>3, <2>7 DEF Pinned
    <3>3. bk[b].machine # bk[a].machine
      BY <1>0, <2>7, <3>1, <3>2 DEF EachApart, Apart
    <3> QED BY <1>2, <3>2, <3>3
  <2> QED BY <2>1, <2>2, <2>6, <2>7
<1>4. ASSUME NEW b \in Bookings, cm[b] # NoClaim
      PROVE  /\ cm[b] \in ClaimRecord
             /\ cm[b].machine # NoMachine => cm[b].machine \in fl[cm[b].pool]
             /\ cm[b].voucher # NoPaper => ac[cm[b].voucher] = cm[b].customer
  <2>1. Blocks(bk[b])
    BY <1>1, <1>4
  <2>2. bk[b].machine \in Machines \cup {NoMachine} /\ bk[b].voucher \in RentalPapers \cup {NoPaper}
    BY <1>2, <2>1 DEF BookingRecord
  <2>3. cm[b].machine # NoMachine => cm[b].machine \in fl[cm[b].pool]
    BY <1>2, <2>1, <2>2 DEF Stands, Pinned, FleetOf, Usable
  <2>4. cm[b].voucher # NoPaper => ac[cm[b].voucher] = cm[b].customer
    BY <1>2, <2>1, <2>2 DEF Stands, AccountsOf
  <2> QED BY <1>2, <2>1, <2>3, <2>4
<1> QED BY <1>3, <1>4 DEF PromiseOf

\* The calendar counts as this module does.
LEMMA CalendarCounts == ASSUME NEW S PROVE Calendar!Cardinality(S) = Cardinality(S)
BY DEF Cardinality, Calendar!Cardinality

\* And it adds as this module does.
LEMMA CalendarAdds == ASSUME NEW f, NEW S PROVE Calendar!SumFunctionOnSet(f, S) = SumFunctionOnSet(f, S)
BY DEF SumFunctionOnSet, FoldFunctionOnSet, MapThenFoldSet,
       Calendar!SumFunctionOnSet, Calendar!FoldFunctionOnSet, Calendar!MapThenFoldSet

\* The rows stand for the variables of the calendar.
LEMMA RowsAreCalendar ==
    /\ [b \in Bookings |-> ClaimOf(b)] = ClaimsOf(bookings)
    /\ [p \in Pools |-> UsableIn(p)] = FleetOf(units)
    /\ [v \in RentalPapers |-> IF papers[v].stands THEN papers[v].customer ELSE Closed] = AccountsOf(papers)
BY DEF ClaimOf, Blocking, ClaimsOf, ClaimBy, Blocks, UsableIn, FleetOf, Usable, AccountsOf

\* A sound state of the rows keeps the promise.
LEMMA PromiseNow == ASSUME Sound(bookings, units, papers) PROVE Calendar!Promise
<1>1. PICK cm, fl, ac : /\ cm = [b \in Bookings |-> ClaimOf(b)] /\ fl = [p \in Pools |-> UsableIn(p)]
                        /\ ac = [v \in RentalPapers |-> IF papers[v].stands THEN papers[v].customer ELSE Closed]
  OBVIOUS
<1>2. PromiseOf(cm, fl, ac)
  BY <1>1, RowsAreCalendar, SoundKeepsPromise
<1>3. \A p \in Pools, t \in Moments : Calendar!Held(p, t) = ClaimedAt(cm, p, t)
  BY <1>1 DEF Calendar!Held, ClaimedAt
<1>4. ASSUME NEW p \in Pools, NEW t \in Moments
      PROVE  Calendar!SumFunctionOnSet([b \in Calendar!Held(p, t) |-> cm[b].qty], Calendar!Held(p, t))
                <= Calendar!Cardinality(fl[p])
  <2>1. PICK H : H = ClaimedAt(cm, p, t)
    OBVIOUS
  <2>2. SumFunctionOnSet([b \in H |-> cm[b].qty], H) <= Cardinality(fl[p])
    BY <1>2, <2>1 DEF PromiseOf
  <2>3. Calendar!SumFunctionOnSet([b \in H |-> cm[b].qty], H) <= Calendar!Cardinality(fl[p])
    BY <2>2, CalendarCounts, CalendarAdds
  <2> QED BY <1>3, <2>1, <2>3
<1>5. ASSUME NEW p \in Pools, NEW t \in Moments, NEW a \in Calendar!Held(p, t), NEW b \in Calendar!Held(p, t),
             a # b, cm[a].machine # NoMachine
      PROVE  cm[a].machine # cm[b].machine
  BY <1>2, <1>3, <1>5 DEF PromiseOf
<1>6. ASSUME NEW b \in Bookings, cm[b] # NoClaim
      PROVE  /\ cm[b] \in Calendar!Claims
             /\ cm[b].machine # NoMachine => cm[b].machine \in fl[cm[b].pool]
             /\ cm[b].voucher # NoPaper => ac[cm[b].voucher] = cm[b].customer
  BY <1>2, <1>6 DEF PromiseOf, Calendar!Claims, ClaimRecord
<1>7. ASSUME NEW p \in Pools, NEW t \in Moments
      PROVE  /\ Calendar!SumFunctionOnSet([b \in Calendar!Held(p, t) |-> ([c \in Bookings |-> ClaimOf(c)])[b].qty],
                                          Calendar!Held(p, t))
                   <= Calendar!Cardinality(([q \in Pools |-> UsableIn(q)])[p])
             /\ \A a, b \in Calendar!Held(p, t) :
                   a # b /\ ([c \in Bookings |-> ClaimOf(c)])[a].machine # NoMachine =>
                      ([c \in Bookings |-> ClaimOf(c)])[a].machine # ([c \in Bookings |-> ClaimOf(c)])[b].machine
  <2>1. Calendar!SumFunctionOnSet([b \in Calendar!Held(p, t) |-> ([c \in Bookings |-> ClaimOf(c)])[b].qty],
                                  Calendar!Held(p, t))
           <= Calendar!Cardinality(([q \in Pools |-> UsableIn(q)])[p])
    <3>1. PICK g, H : /\ H = Calendar!Held(p, t)
                      /\ g = [b \in Calendar!Held(p, t) |-> ([c \in Bookings |-> ClaimOf(c)])[b].qty]
      OBVIOUS
    <3>2. g = [b \in H |-> cm[b].qty]
      <4>1. \A b \in H : b \in Bookings
        BY <1>3, <3>1 DEF ClaimedAt
      <4>2. \A b \in Bookings : cm[b] = ClaimOf(b)
        BY <1>1
      <4> QED BY <3>1, <4>1, <4>2
    <3>3. Calendar!SumFunctionOnSet(g, H) <= Calendar!Cardinality(fl[p])
      BY <1>4, <3>1, <3>2
    <3>4. fl[p] = ([q \in Pools |-> UsableIn(q)])[p]
      BY <1>1, Zenon
    <3> QED BY <3>1, <3>3, <3>4, Zenon
  <2>2. ASSUME NEW a \in Calendar!Held(p, t), NEW b \in Calendar!Held(p, t),
               a # b, ([c \in Bookings |-> ClaimOf(c)])[a].machine # NoMachine
        PROVE  ([c \in Bookings |-> ClaimOf(c)])[a].machine # ([c \in Bookings |-> ClaimOf(c)])[b].machine
    BY <1>1, <1>5, <2>2, Zenon
  <2> QED BY <2>1, <2>2, Zenon
<1>8. ASSUME NEW b \in Bookings, ([c \in Bookings |-> ClaimOf(c)])[b] # NoClaim
      PROVE  LET cn == [c \in Bookings |-> ClaimOf(c)]
                 fn == [q \in Pools |-> UsableIn(q)]
                 an == [v \in RentalPapers |-> IF papers[v].stands THEN papers[v].customer ELSE Closed]
             IN  /\ cn[b] \in Calendar!Claims
                 /\ cn[b].machine # NoMachine => cn[b].machine \in fn[cn[b].pool]
                 /\ cn[b].voucher # NoPaper => an[cn[b].voucher] = cn[b].customer
  BY <1>1, <1>6, <1>8, Zenon
<1> QED BY <1>7, <1>8, Zenon DEF Calendar!Promise

\* So does one that a step leads to.
LEMMA PromiseThen == Sound(bookings, units, papers)' => Calendar!Promise'
<1>1. Sound(bookings, units, papers) => Calendar!Promise
  BY PromiseNow
<1> QED BY <1>1, PTL

\* Initially nothing is claimed and the promise is kept.
LEMMA CalendarStarts == ASSUME RentalInit PROVE Calendar!CalendarInit
<1>1. Sound(bookings, units, papers) /\ papers \in [RentalPapers -> PaperRecord]
  BY RentalStarts DEF RentalInvariant, RentalSafe
<1>2. Calendar!Promise
  BY <1>1, PromiseNow
<1>3. [b \in Bookings |-> ClaimOf(b)] = [b \in Bookings |-> NoClaim]
  BY DEF RentalInit, ClaimOf, Blocking
<1>4. [p \in Pools |-> UsableIn(p)] \in [Pools -> SUBSET Machines]
  BY DEF UsableIn
<1>5. [v \in RentalPapers |-> IF papers[v].stands THEN papers[v].customer ELSE Closed]
         \in [RentalPapers -> Customers \cup {Closed}]
  BY <1>1 DEF PaperRecord
<1> QED BY <1>2, <1>3, <1>4, <1>5 DEF Calendar!CalendarInit

\* What stays in the tables stays in the calendar.
LEMMA CalendarSame ==
    /\ UNCHANGED bookings => UNCHANGED [b \in Bookings |-> ClaimOf(b)]
    /\ UNCHANGED units => UNCHANGED [p \in Pools |-> UsableIn(p)]
    /\ UNCHANGED papers =>
          UNCHANGED [v \in RentalPapers |-> IF papers[v].stands THEN papers[v].customer ELSE Closed]
BY DEF ClaimOf, Blocking, UsableIn

\* A commit is one step of the calendar, or none.
LEMMA CommitIsOneChange ==
    ASSUME RentalInvariant, NEW c \in Clerks, CommitRental(c)
    PROVE  [Calendar!CalendarNext]_(Calendar!calendarVars)
<1>1. Calendar!Promise'
  <2>1. Sound(bookings, units, papers)'
    BY CommitIsSafe DEF RentalInvariant, RentalSafe
  <2> QED BY <2>1, PromiseThen
<1>2. PICK r, w : r = clerk[c].row /\ w = clerk[c].new
  OBVIOUS
<1>3. /\ bookings' = (IF r \in Bookings THEN [bookings EXCEPT ![r] = w] ELSE bookings)
      /\ units' = (IF r \in Machines THEN [units EXCEPT ![r] = w] ELSE units)
      /\ papers' = (IF r \in RentalPapers THEN [papers EXCEPT ![r] = w] ELSE papers)
  BY <1>2 DEF CommitRental
<1>4. /\ r \in RentalRows /\ BookingsTyped(bookings) /\ UnitsTyped(units)
      /\ papers \in [RentalPapers -> PaperRecord]
  BY <1>2 DEF RentalInvariant, RentalSafe, Sound, ClerkGood, Covered, CommitRental
<1>5. CASE r \in Bookings
  <2>1. units' = units /\ papers' = papers
    BY <1>3, <1>5, RowsApart
  <2>2. \A b \in Bookings \ {r} : ClaimOf(b)' = ClaimOf(b)
    BY <1>3, <1>4, <1>5 DEF BookingsTyped, ClaimOf, Blocking
  <2>3. CASE ClaimOf(r)' = ClaimOf(r)
    <3>1. UNCHANGED [b \in Bookings |-> ClaimOf(b)]
      BY <2>2, <2>3
    <3> QED BY <2>1, <3>1, CalendarSame DEF Calendar!calendarVars
  <2>4. CASE ClaimOf(r)' # ClaimOf(r)
    <3>1. Calendar!Rebook(r)
      BY <1>5, <2>1, <2>2, <2>4, CalendarSame DEF Calendar!Rebook
    <3> QED BY <1>1, <1>5, <3>1 DEF Calendar!CalendarNext
  <2> QED BY <2>3, <2>4
<1>6. CASE r \in Machines
  <2>1. bookings' = bookings /\ papers' = papers
    BY <1>3, <1>6, RowsApart
  <2>2. \A p \in Pools : UsableIn(p)' \ {r} = UsableIn(p) \ {r}
    BY <1>3, <1>4, <1>6 DEF UnitsTyped, UsableIn
  <2>3. CASE UNCHANGED [p \in Pools |-> UsableIn(p)]
    BY <2>1, <2>3, CalendarSame DEF Calendar!calendarVars
  <2>4. CASE ~UNCHANGED [p \in Pools |-> UsableIn(p)]
    <3>1. Calendar!Refit(r)
      BY <2>1, <2>2, <2>4, CalendarSame DEF Calendar!Refit
    <3> QED BY <1>1, <1>6, <3>1 DEF Calendar!CalendarNext
  <2> QED BY <2>3, <2>4
<1>7. CASE r \in RentalPapers
  <2>1. bookings' = bookings /\ units' = units
    BY <1>3, <1>7, RowsApart
  <2>2. \A v \in RentalPapers \ {r} : papers'[v] = papers[v]
    BY <1>3, <1>4, <1>7
  <2>3. PICK ac, ad :
           /\ ac = [v \in RentalPapers |-> IF papers[v].stands THEN papers[v].customer ELSE Closed]
           /\ ad = [v \in RentalPapers |-> IF papers[v].stands THEN papers[v].customer ELSE Closed]'
    OBVIOUS
  <2>4. \A v \in RentalPapers \ {r} : ad[v] = ac[v]
    BY <2>2, <2>3
  <2>5. CASE ad[r] = ac[r]
    <3>1. ad = ac
      BY <2>3, <2>4, <2>5
    <3> QED BY <2>1, <2>3, <3>1, CalendarSame DEF Calendar!calendarVars
  <2>6. CASE ad[r] # ac[r]
    <3>1. Calendar!Reopen(r)
      BY <2>1, <2>3, <2>4, <2>6, CalendarSame DEF Calendar!Reopen
    <3> QED BY <1>1, <1>7, <3>1 DEF Calendar!CalendarNext
  <2> QED BY <2>5, <2>6
<1> QED BY <1>4, <1>5, <1>6, <1>7 DEF RentalRows

\* Every step of the requests is a step of the calendar, or none.
LEMMA StepIsOneChange ==
    ASSUME RentalInvariant, [RentalNext]_rentalVars
    PROVE  [Calendar!CalendarNext]_(Calendar!calendarVars)
<1>1. CASE UNCHANGED <<units, bookings, papers>>
  BY <1>1, CalendarSame DEF Calendar!calendarVars
<1>2. ASSUME NEW c \in Clerks, CommitRental(c) PROVE [Calendar!CalendarNext]_(Calendar!calendarVars)
  BY <1>2, CommitIsOneChange
<1> QED BY <1>1, <1>2 DEF RentalNext, rentalVars, RequestRental, LockRental, WriteRental, AbortRental

\* The concurrent requests that save bookings, machines and vouchers keep row locks, the
\* quantities they count and the vouchers they name consistent at every moment.
THEOREM CalendarIsSound == RentalSpec => []RentalInvariant
<1>1. RentalInit => RentalInvariant
  BY RentalStarts
<1>2. RentalInvariant /\ [RentalNext]_rentalVars => RentalInvariant'
  BY RentalStep
<1> QED BY <1>1, <1>2, PTL DEF RentalSpec

\* Every commit of the rental routes is one change of a calendar in which all claims can be
\* met: no machine is in two places, no pool is overbooked, and no booking outlives its
\* voucher or its machine.
THEOREM CalendarIsImplemented == RentalSpec => KeepsCalendarPromise
<1>1. RentalInit => Calendar!CalendarInit
  BY CalendarStarts
<1>2. RentalInvariant /\ [RentalNext]_rentalVars => [Calendar!CalendarNext]_(Calendar!calendarVars)
  BY StepIsOneChange
<1> QED BY <1>1, <1>2, CalendarIsSound, PTL DEF RentalSpec, KeepsCalendarPromise, Calendar!CalendarSpec

=============================================================================

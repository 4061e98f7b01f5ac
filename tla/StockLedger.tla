---------------------------- MODULE StockLedger ----------------------------
(***************************************************************************)
(* The stock ledger under concurrent submits and cancels of the documents  *)
(* that move stock, and of the orders they fulfil.  A request (one database*)
(* transaction of a session) locks its own row, then the original of a     *)
(* return and the orders its rows name by table and name, then every item  *)
(* it names (lock_workflow_references), validates, posts its movements one *)
(* by one (make_sl_entries: read the Bin, insert the Stock Ledger Entry,   *)
(* write the Bin, which locks its row), books the stock account, locks the *)
(* Bin of every line of its orders (refresh_planning) and commits.         *)
(*                                                                         *)
(* The documents by what they pass to the stock ledger and to the books:   *)
(*   "entry"     Stock Entry: receipts at their own rate, issues at the    *)
(*               moving average, transfers at the cost that left the source*)
(*   "receipt"   Purchase Receipt, and its returns at the document's rate  *)
(*   "purchase"  Purchase Invoice with update_stock; its returns go out at *)
(*               the moving average                                        *)
(*   "sale"      Delivery Note, Sales Invoice and POS Invoice with         *)
(*               update_stock: out and back in at the moving average       *)
(*   "order"     Sales Order and Purchase Order: move nothing, but have the*)
(*               Bins of their rows planned                                *)
(*                                                                         *)
(* Money and rates are whole cents, quantities whole units.  PostgreSQL is *)
(* modelled; SQLite admits one transaction at a time, so its behaviours are*)
(* among these.  The waiting for the own row, stale versions and the       *)
(* settlement side of an invoice are in the module Settlement, what is     *)
(* planned for a Bin and the progress of an order in OrderProgress.  Row   *)
(* locks of customers, budgets and machines are left out.                  *)
(***************************************************************************)
EXTENDS Integers, FiniteSets, Sequences, Functions

CONSTANTS
    Sessions,
    Documents,
    Items,
    Bins,          \* the item-warehouse pairs
    ItemOf,        \* ItemOf[b]: the item of a bin
    NameRank,      \* NameRank[r]: position of a row by its table and name
    KindOf,        \* KindOf[d]: one of Kinds
    RowsOf,        \* RowsOf[d]: the item rows of a document, a sequence
    Original,      \* Original[d]: the document a return is against, or None
    OrdersOf,      \* OrdersOf[d]: the orders the rows of d name
    MaxPosted,     \* bound: documents submitted in a behaviour
    None

Kinds == {"entry", "receipt", "purchase", "sale", "order"}
Lockable == Documents \cup Items \cup Bins
LastRank == Cardinality(Lockable)
Rows == [from : Bins \cup {None}, to : Bins \cup {None}, qty : Nat \ {0}, rate : Nat]

ASSUME StockAssumption ==
    /\ None \notin Bins \cup Documents \cup Items \cup Sessions
    /\ Documents \cap Items = {} /\ Bins \cap (Documents \cup Items) = {}
    /\ ItemOf \in [Bins -> Items]
    /\ IsFiniteSet(Items) /\ IsFiniteSet(Bins) /\ IsFiniteSet(Documents)
    /\ KindOf \in [Documents -> Kinds]
    /\ RowsOf \in [Documents -> Seq(Rows)]
    /\ Original \in [Documents -> Documents \cup {None}]
    /\ \A d \in Documents : Original[d] # None => Original[Original[d]] = None
    /\ \A d \in Documents : KindOf[d] = "purchase" /\ Original[d] = None =>
          \A i \in DOMAIN RowsOf[d] : RowsOf[d][i].from = None
    /\ MaxPosted \in Nat

\* "Sales Order" sorts behind the names of its vouchers, "Purchase Order" behind
\* "Purchase Invoice" but before "Purchase Receipt".
ASSUME OrderAssumption ==
    /\ NameRank \in [Lockable -> 1..LastRank]
    /\ \A r, q \in Lockable : NameRank[r] = NameRank[q] => r = q
    /\ OrdersOf \in [Documents -> SUBSET Documents]
    /\ \A d \in Documents : \A x \in OrdersOf[d] : KindOf[x] = "order"
    /\ \A d \in Documents : Original[d] # None => KindOf[Original[d]] = KindOf[d]
    /\ \A d \in Documents : KindOf[d] \in {"order", "entry"} => Original[d] = None /\ OrdersOf[d] = {}
    /\ \A d, e \in Documents : KindOf[d] = KindOf[e] =>
          \A x \in OrdersOf[d] : (NameRank[e] < NameRank[x]) = (KindOf[d] # "receipt")

VARIABLES
    status,        \* docstatus of every document
    bin,           \* the Bin table
    entries,       \* the Stock Ledger Entries of every voucher, oldest first
    booked,        \* booked[d]: the net of d's GL entries on the stock account
    lock,          \* the session that holds a row
    job            \* job[s]: the request session s is working on

vars == <<status, bin, entries, booked, lock, job>>

Balances == [qty : Int, average : Int, value : Int]
Entries == [bin : Bins, qty : Int, rate : Int]
Moves == [bin : Bins, qty : Int, rate : Int, basis : {"average", "given", "moved"}]

NoStock == [qty |-> 0, average |-> 0, value |-> 0]

\* at: between transactions, taking locks, posting; legs: the movements still to
\* post; lines: the order lines still to plan; last: the unit cost of the movement posted last; cost, stated: the sums
\* of what was posted and of what the document says; touched: the bins read or
\* written, work: what the transaction sees in them.
Jobs == [at : {"idle", "lock", "post"}, op : {"submit", "cancel"},
         doc : Documents \cup {None}, locks : SUBSET (Documents \cup Items),
         legs : SUBSET Nat, lines : SUBSET (Documents \X Bins), posted : Seq(Entries), last : Int, cost : Int, stated : Int,
         touched : SUBSET Bins, work : [Bins -> Balances]]

NoJob == [at |-> "idle", op |-> "submit", doc |-> None, locks |-> {},
          legs |-> {}, lines |-> {}, posted |-> <<>>, last |-> 0, cost |-> 0, stated |-> 0,
          touched |-> {}, work |-> [b \in Bins |-> NoStock]]

-----------------------------------------------------------------------------
(* What a document moves *)

\* The rows or entries of seq with the numbers N, added up.
QtyIn(seq, N) == SumFunctionOnSet([n \in N |-> seq[n].qty], N)
CostIn(seq, N) == SumFunctionOnSet([n \in N |-> seq[n].qty * seq[n].rate], N)

IsReturn(d) == Original[d] # None
BinsOf(d) == (UNION {{RowsOf[d][i].from, RowsOf[d][i].to} : i \in DOMAIN RowsOf[d]}) \ {None}
ItemsOf(d) == {ItemOf[b] : b \in BinsOf(d)}

Leaving(d, r) == [bin |-> r.from, qty |-> -r.qty, rate |-> r.rate,
                  basis |-> IF KindOf[d] = "receipt" THEN "given" ELSE "average"]

\* A transfer arrives at the cost just posted for its source.
Arriving(d, r) == [bin |-> r.to, qty |-> r.qty, rate |-> r.rate,
                   basis |-> CASE KindOf[d] = "sale" -> "average"
                               [] KindOf[d] = "entry" /\ r.from # None -> "moved"
                               [] OTHER -> "given"]

\* The movements of a document are numbered: row i leaves as 2i - 1 and arrives
\* as 2i (_get_sl_entries and the loop of StockEntry.on_submit).
Leg(d, k) == LET r == RowsOf[d][(k + 1) \div 2]
             IN  IF k % 2 = 1 THEN Leaving(d, r) ELSE Arriving(d, r)

LegsOf(d) == {k \in 1..(2 * Len(RowsOf[d])) : KindOf[d] # "order" /\ Leg(d, k).bin # None}

\* reverse_stock_sles: the sign flips, and with it which of the two rates is
\* the explicit one.
Reversed(m) == [m EXCEPT !.qty = -m.qty]

ReadsBack(o, d) == o = "cancel" /\ KindOf[d] = "entry"

\* Faulty: a Stock Entry is reversed like a Delivery Note, at today's average.
Movement_AtAverage(o, d, k) ==
    IF o = "submit" THEN Leg(d, k)
    ELSE IF KindOf[d] = "entry"
    THEN [bin |-> entries[d][k].bin, qty |-> -entries[d][k].qty, rate |-> 0,
          basis |-> "average"]
    ELSE Reversed(Leg(d, k))

\* A cancelled Stock Entry reads its posted entries back and reverses them at the
\* rates they were posted with; the others reverse what they would post.
Movement(o, d, k) ==
    IF o = "submit" THEN Leg(d, k)
    ELSE IF KindOf[d] = "entry"
    THEN [bin |-> entries[d][k].bin, qty |-> -entries[d][k].qty,
          rate |-> entries[d][k].rate, basis |-> "given"]
    ELSE Reversed(Leg(d, k))

\* The movements a request posts; entries are read back in no particular order.
Movements(o, d) == IF ReadsBack(o, d) THEN DOMAIN entries[d] ELSE LegsOf(d)
NextLeg(o, d, legs, k) == k \in legs /\ (ReadsBack(o, d) \/ \A n \in legs : k <= n)

-----------------------------------------------------------------------------
(* Moving average valuation: update_stock_values *)

\* value / qty in cents: float rounding may take a tie either way.
Rounded(value, qty) ==
    {r \in {value \div qty, value \div qty + 1} : 2 * (r * qty - value) \in (-qty)..qty}

\* The unit cost of a movement: explicit, that of the entry posted before it, or
\* the current average of the bin.
RateOf(m, average, last) ==
    CASE m.basis = "given"   -> m.rate
      [] m.basis = "moved"   -> last
      [] m.basis = "average" -> average

\* The valuation rate after a movement that leaves qty units worth value.
Averages(m, rate, qty, value, old) ==
    CASE qty > 0 /\ (m.qty > 0 \/ m.basis = "given") -> Rounded(value, qty)
      [] qty <= 0 /\ m.qty > 0 -> {rate}
      [] OTHER -> {old}

\* allow_negative_stock is passed by the cancels only.
Overdrawn(o, qty) == qty < 0 /\ o = "submit"

-----------------------------------------------------------------------------
(* What the books show *)

\* Faulty: a sale books its sales amount.
Booking_AsSold(d, cost, stated) == IF KindOf[d] = "entry" THEN cost ELSE stated

\* What submitting books on the stock account: the posted cost of a Stock Entry
\* or a sale (build_cost_basis_gl), the document's own amounts of a purchase.
Booking(d, cost, stated) == IF KindOf[d] \in {"entry", "sale"} THEN cost ELSE stated

-----------------------------------------------------------------------------
(* What submitting and cancelling require *)

RowsWith(d, i) ==
    {n \in DOMAIN RowsOf[d] :
        i \in {ItemOf[b] : b \in {RowsOf[d][n].from, RowsOf[d][n].to} \ {None}}}

\* The quantity of an item that a document moves.
Moved(d, i) == QtyIn(RowsOf[d], RowsWith(d, i))

ReturnsOf(d) == {r \in Documents : Original[r] = d /\ status[r] = "submitted"}

\* The quantity of an item that the submitted returns of d have taken back.
Returned(d, i) == SumFunctionOnSet([r \in ReturnsOf(d) |-> Moved(r, i)], ReturnsOf(d))

\* The submitted documents that name the order x, and what they take of an item
\* of it: what a return brings back is free again.
UsersOf(x) == {r \in Documents : x \in OrdersOf[r] /\ status[r] = "submitted"}
Taken(R, i) == SumFunctionOnSet([r \in R |-> IF IsReturn(r) THEN -Moved(r, i) ELSE Moved(r, i)], R)

\* validate_links and validate_order_quantities: with the request the order is
\* submitted, and not exceeded in what d names.
WithinOrders(o, d) ==
    \A x \in OrdersOf[d] :
        /\ o = "submit" => status[x] = "submitted"
        /\ \A i \in ItemsOf(d) :
              Taken(IF o = "submit" THEN UsersOf(x) \cup {d} ELSE UsersOf(x) \ {d}, i) <= Moved(x, i)

Expected(o) == IF o = "submit" THEN "draft" ELSE "submitted"

\* Faulty: a return is compared with the original, not with what is left of it.
Allowed_AloneOnly(o, d) ==
    /\ o = "submit" /\ IsReturn(d) =>
          /\ status[Original[d]] = "submitted"
          /\ \A i \in ItemsOf(d) : Moved(d, i) <= Moved(Original[d], i)
    /\ o = "cancel" => ReturnsOf(d) = {} /\ UsersOf(d) = {}
    /\ WithinOrders(o, d)

\* validate_return and validate_cancellation.
Allowed(o, d) ==
    /\ o = "submit" /\ IsReturn(d) =>
          /\ status[Original[d]] = "submitted"
          /\ \A i \in ItemsOf(d) :
                Returned(Original[d], i) + Moved(d, i) <= Moved(Original[d], i)
    /\ o = "cancel" => ReturnsOf(d) = {} /\ UsersOf(d) = {}
    /\ WithinOrders(o, d)

\* Faulty: only the first item is locked.
Referenced_FirstItem(d) ==
    ({Original[d]} \ {None}) \cup OrdersOf[d] \cup
    {i \in ItemsOf(d) : \A k \in ItemsOf(d) : NameRank[i] <= NameRank[k]}

\* lock_workflow_references: the original of a return, the orders and the items.
Referenced(d) == ({Original[d]} \ {None}) \cup OrdersOf[d] \cup ItemsOf(d)

LockRank(r) == NameRank[r] + IF r \in Items THEN LastRank ELSE 0

\* Faulty: the rows are locked in the order of the document.
NextLock_AnyOrder(locks, r) == r \in locks

\* The rows are locked in sorted order, items last.
NextLock(locks, r) == r \in locks /\ \A q \in locks : LockRank(r) <= LockRank(q)

\* refresh_order_progress: the orders that are planned again, order by order and
\* bin by bin, without the items of their lines being locked.
Planned(d) == IF KindOf[d] = "order" THEN {d} ELSE OrdersOf[d]
LinesOf(d) == {l \in Planned(d) \X Bins : l[2] \in BinsOf(l[1])}
LineRank(l) == NameRank[l[1]] * LastRank + NameRank[l[2]]
NextLine(lines, l) == l \in lines /\ \A n \in lines : LineRank(l) <= LineRank(n)

-----------------------------------------------------------------------------
Init ==
    /\ status = [d \in Documents |-> "draft"]
    /\ bin = [b \in Bins |-> NoStock]
    /\ entries = [d \in Documents |-> <<>>]
    /\ booked = [d \in Documents |-> 0]
    /\ lock = [r \in Lockable |-> None]
    /\ job = [s \in Sessions |-> NoJob]

\* The documents that are posted or about to be.
Begun == ({d \in Documents : status[d] # "draft"} \cup {job[s].doc : s \in Sessions}) \ {None}

\* _check_write_state: the own row is locked and has the expected docstatus.
Begin(s, o, d) ==
    /\ job[s].at = "idle"
    /\ lock[d] = None /\ status[d] = Expected(o)
    /\ o = "submit" => Cardinality(Begun \cup {d}) <= MaxPosted
    /\ lock' = [lock EXCEPT ![d] = s]
    /\ job' = [job EXCEPT ![s] = [NoJob EXCEPT !.at = "lock", !.op = o, !.doc = d,
                                               !.locks = Referenced(d)]]
    /\ UNCHANGED <<status, bin, entries, booked>>

\* lock_workflow_references: the next row lock.
Take(s) ==
    /\ job[s].at = "lock"
    /\ \E r \in Documents \cup Items :
          /\ NextLock(job[s].locks, r)
          /\ lock[r] = None
          /\ lock' = [lock EXCEPT ![r] = s]
          /\ job' = [job EXCEPT ![s] = [@ EXCEPT !.locks = job[s].locks \ {r}]]
    /\ UNCHANGED <<status, bin, entries, booked>>

\* validate() or validate_cancellation(), then the movements to post.
Validate(s) ==
    /\ job[s].at = "lock" /\ job[s].locks = {}
    /\ Allowed(job[s].op, job[s].doc)
    /\ job' = [job EXCEPT ![s] = [@ EXCEPT !.at = "post",
                                           !.legs = Movements(job[s].op, job[s].doc),
                                           !.lines = LinesOf(job[s].doc)]]
    /\ UNCHANGED <<status, bin, entries, booked, lock>>

\* What a transaction sees of a bin: what it has read or written, or the committed one.
Seen(s, b) == IF b \in job[s].touched THEN job[s].work[b] ELSE bin[b]

\* The row r is free for s, and s holds it from now on.
Lock(s, r) == lock[r] \in {None, s} /\ lock' = [lock EXCEPT ![r] = s]

\* One round of make_sl_entries, first half: update_stock_values reads the Bin,
\* without a lock.
Load(s) ==
    /\ job[s].at = "post"
    /\ \E k \in job[s].legs :
       LET b == Movement(job[s].op, job[s].doc, k).bin
       IN  /\ NextLeg(job[s].op, job[s].doc, job[s].legs, k)
           /\ b \notin job[s].touched
           /\ job' = [job EXCEPT ![s] = [@ EXCEPT !.touched = job[s].touched \cup {b},
                                                  !.work = [job[s].work EXCEPT ![b] = bin[b]]]]
    /\ UNCHANGED <<status, bin, entries, booked, lock>>

\* Second half: writing the Bin locks its row, which another request may hold.
Post(s) ==
    /\ job[s].at = "post"
    /\ \E k \in job[s].legs :
       LET m == Movement(job[s].op, job[s].doc, k)
           old == Seen(s, m.bin)
           rate == RateOf(m, old.average, job[s].last)
           qty == old.qty + m.qty
           value == old.value + m.qty * rate
       IN  /\ NextLeg(job[s].op, job[s].doc, job[s].legs, k)
           /\ m.bin \in job[s].touched
           /\ ~Overdrawn(job[s].op, qty)
           /\ Lock(s, m.bin)
           /\ \E average \in Averages(m, rate, qty, value, old.average) :
                 job' = [job EXCEPT ![s] = [@ EXCEPT
                    !.legs = job[s].legs \ {k},
                    !.posted = Append(job[s].posted, [bin |-> m.bin, qty |-> m.qty, rate |-> rate]),
                    !.last = rate,
                    !.cost = job[s].cost + m.qty * rate,
                    !.stated = job[s].stated + m.qty * m.rate,
                    !.work = [job[s].work EXCEPT ![m.bin] =
                                [qty |-> qty, average |-> average, value |-> value]]]]
    /\ UNCHANGED <<status, bin, entries, booked>>

\* One round of refresh_planning: the next Bin of an order is locked.
Refresh(s) ==
    /\ job[s].at = "post" /\ job[s].legs = {}
    /\ \E l \in job[s].lines :
          /\ NextLine(job[s].lines, l)
          /\ Lock(s, l[2])
          /\ job' = [job EXCEPT ![s] = [@ EXCEPT !.lines = job[s].lines \ {l}]]
    /\ UNCHANGED <<status, bin, entries, booked>>

Released(s) == [r \in Lockable |-> IF lock[r] = s THEN None ELSE lock[r]]

\* The stock account is booked, or the document's booking reversed, and the
\* transaction becomes visible.
Commit(s) ==
    LET j == job[s]
    IN  /\ j.at = "post" /\ j.legs = {} /\ j.lines = {}
        /\ status' = [status EXCEPT ![j.doc] =
                         IF j.op = "submit" THEN "submitted" ELSE "cancelled"]
        /\ bin' = [b \in Bins |-> IF b \in j.touched THEN j.work[b] ELSE bin[b]]
        /\ entries' = [entries EXCEPT ![j.doc] = @ \o j.posted]
        /\ booked' = [booked EXCEPT ![j.doc] =
                         IF j.op = "submit" THEN Booking(j.doc, j.cost, j.stated) ELSE 0]
        /\ lock' = Released(s)
        /\ job' = [job EXCEPT ![s] = NoJob]

\* Faulty: the transaction is left open when a check fails.
Rollback_KeepsLocks(s) ==
    /\ job' = [job EXCEPT ![s] = NoJob]
    /\ UNCHANGED <<status, bin, entries, booked, lock>>

Rollback(s) ==
    /\ lock' = Released(s)
    /\ job' = [job EXCEPT ![s] = NoJob]
    /\ UNCHANGED <<status, bin, entries, booked>>

\* A rejected validation, and NegativeStockError in the middle of the postings.
Refuse(s) ==
    /\ \/ /\ job[s].at = "lock" /\ job[s].locks = {}
          /\ ~Allowed(job[s].op, job[s].doc)
       \/ /\ job[s].at = "post"
          /\ \E k \in job[s].legs :
                LET m == Movement(job[s].op, job[s].doc, k)
                IN  /\ NextLeg(job[s].op, job[s].doc, job[s].legs, k)
                    /\ Overdrawn(job[s].op, Seen(s, m.bin).qty + m.qty)
    /\ Rollback(s)

\* The process, the connection or a statement fails; so does the request that
\* PostgreSQL picks when several wait in a circle.
Fail(s) == job[s].at # "idle" /\ Rollback(s)

Next ==
    \E s \in Sessions :
        \/ \E o \in {"submit", "cancel"}, d \in Documents : Begin(s, o, d)
        \/ Take(s) \/ Validate(s) \/ Load(s) \/ Post(s) \/ Refresh(s) \/ Commit(s) \/ Refuse(s) \/ Fail(s)

Spec == Init /\ [][Next]_vars

-----------------------------------------------------------------------------
(* Properties *)

\* The state has its types, and only open transactions hold locks.
TypeOK ==
    /\ status \in [Documents -> {"draft", "submitted", "cancelled"}]
    /\ bin \in [Bins -> Balances]
    /\ entries \in [Documents -> Seq(Entries)]
    /\ booked \in [Documents -> Int]
    /\ lock \in [Lockable -> Sessions \cup {None}]
    /\ job \in [Sessions -> Jobs]
    /\ \A r \in Lockable : lock[r] # None => job[lock[r]].at # "idle"

\* The entries of a bin, and what they add up to over all vouchers.
At(seq, b) == {n \in DOMAIN seq : seq[n].bin = b}
LedgerQty(b) == SumFunctionOnSet([d \in Documents |-> QtyIn(entries[d], At(entries[d], b))], Documents)
LedgerValue(b) == SumFunctionOnSet([d \in Documents |-> CostIn(entries[d], At(entries[d], b))], Documents)

\* The Bin, which every check and valuation reads, is the sum of the stock ledger
\* entries of its item and warehouse, in quantity and in value: no movement is
\* lost to a concurrent one (workflow.py:32).
BinMatchesLedger ==
    \A b \in Bins : bin[b].qty = LedgerQty(b) /\ bin[b].value = LedgerValue(b)

\* No submit leaves a bin short of stock, whatever was posted while it waited
\* for its locks; only cancelling may (stock_ledger.py:107).
SubmitNeverOverdraws ==
    [][\A b \in Bins : bin'[b] # bin[b] /\ bin'[b].qty < 0 =>
          \E d \in Documents : status[d] = "submitted" /\ status'[d] = "cancelled"]_vars

CostAtAverage(d) == KindOf[d] = "sale" \/ (KindOf[d] = "purchase" /\ IsReturn(d))

\* A cancelled document leaves no quantity behind in any bin, and no value when
\* its costs were its own, however the average moved in between.
CancelLeavesNothing ==
    \A d \in Documents : status[d] = "cancelled" =>
        \A b \in Bins : /\ QtyIn(entries[d], At(entries[d], b)) = 0
                        /\ ~CostAtAverage(d) => CostIn(entries[d], At(entries[d], b)) = 0

\* The stock account is booked with exactly the cost a submitted document
\* posted to the stock ledger, returns of purchase invoices excepted.
BookedAtCost ==
    \A d \in Documents :
        status[d] = "submitted" /\ ~(KindOf[d] = "purchase" /\ IsReturn(d)) =>
            booked[d] = CostIn(entries[d], DOMAIN entries[d])

\* The submitted returns of a document never take back more than it moved.
ReturnsWithinOriginal ==
    \A d \in Documents, i \in Items : Returned(d, i) <= Moved(d, i)

\* The rows s may need for its next step, and the others that hold them.
Needs(s) ==
    {r \in Lockable :
       \/ job[s].at = "lock" /\ NextLock(job[s].locks, r)
       \/ job[s].at = "post" /\ \E k \in job[s].legs :
             /\ NextLeg(job[s].op, job[s].doc, job[s].legs, k)
             /\ r = Movement(job[s].op, job[s].doc, k).bin
       \/ job[s].at = "post" /\ job[s].legs = {} /\ \E l \in job[s].lines :
             NextLine(job[s].lines, l) /\ r = l[2]}
Holders(s) == {lock[r] : r \in Needs(s)} \ {None, s}

\* Two kinds of requests take rows out of order: one that plans orders holds bins
\* without their items, and the return of a receipt locks its order before its
\* original.
OutOfOrder(s) ==
    \/ job[s].at = "post" /\ job[s].legs = {}
    \/ /\ job[s].at = "lock" /\ IsReturn(job[s].doc)
       /\ KindOf[job[s].doc] = "receipt" /\ OrdersOf[job[s].doc] # {}

\* Every circle of requests that wait for each other goes through one of these:
\* the others take documents, orders, items and bins in one order, whatever goods
\* they move (workflow.py:28-36).
NoWaitCycle ==
    \A S \in (SUBSET Sessions) \ {{}} :
        (\A s \in S : ~OutOfOrder(s)) => \E s \in S : Holders(s) \cap S = {}

\* The stock account is worth what the bins are worth.  The code breaks it: the
\* return of a purchase invoice leaves stock at the moving average and the books
\* at its purchase price.
StockAccountMatchesBins ==
    SumFunctionOnSet([b \in Bins |-> bin[b].value], Bins) = SumFunctionOnSet(booked, Documents)

\* Where the two may part: a purchase return is booked at its own price, and a
\* cancelled document that moved at the average comes back at another one.
Apart == {d \in Documents :
             \/ status[d] = "submitted" /\ KindOf[d] = "purchase" /\ IsReturn(d)
             \/ status[d] = "cancelled" /\ CostAtAverage(d)}

\* Nothing else does: the stock account differs from the bins by what these
\* documents posted to the ledger and not to the books.
AccountFollowsBins ==
    SumFunctionOnSet([b \in Bins |-> bin[b].value], Bins) - SumFunctionOnSet(booked, Documents)
        = SumFunctionOnSet([d \in Apart |-> CostIn(entries[d], DOMAIN entries[d]) - booked[d]], Apart)
=============================================================================

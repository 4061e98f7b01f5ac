--------------------------- MODULE OrderProgress ---------------------------
(***************************************************************************)
(* Orders and what is delivered, received and billed against their lines.  *)
(* A voucher is a Delivery Note or Purchase Receipt ("movement"), an       *)
(* invoice ("invoice") or an invoice that also moves the goods ("direct",  *)
(* update_stock = 1); it may be a return.  Desks are requests that submit  *)
(* and cancel orders and vouchers in concurrent transactions on            *)
(* PostgreSQL; every submit and cancel recomputes the progress of the      *)
(* orders it touches and the quantities planned in the bins of their       *)
(* lines.  Sales and purchase are mirror images, but for one check.        *)
(***************************************************************************)
EXTENDS Integers, FiniteSetsExt

CONSTANTS
    Orders,        \* Sales Orders and Purchase Orders
    Buying,        \* the Purchase Orders among them
    OrderLines,    \* their item rows
    LineOrder,     \* LineOrder[l]: the order of line l
    Ordered,       \* Ordered[l]: qty
    Pairs,         \* bins, one per item and warehouse
    PairOf,        \* PairOf[l]: the bin of the item and warehouse of line l
    OrderVouchers, \* names of delivery notes, receipts and invoices
    Trades,        \* the trades looked at: [orders, kind, keptBack], where kind[v] is
                   \*   "movement", "invoice" or "direct" and keptBack what the user
                   \*   takes off each row of a draft
    RowRank,       \* RowRank[r]: the place of a document or bin in the sort order
    Desks,         \* concurrent requests
    NoVoucher

Papers == Orders \cup OrderVouchers

ASSUME OrdersAssumption ==
    /\ Buying \subseteq Orders /\ Orders \cap OrderVouchers = {}
    /\ LineOrder \in [OrderLines -> Orders] /\ Ordered \in [OrderLines -> Nat \ {0}]
    /\ PairOf \in [OrderLines -> Pairs] /\ Pairs \cap Papers = {}
    /\ Trades \subseteq [orders : SUBSET Orders, keptBack : Nat,
                          kind : [OrderVouchers -> {"movement", "invoice", "direct"}]]
    /\ RowRank \in [Papers \cup Pairs -> Nat] /\ NoVoucher \notin Papers
    /\ IsFiniteSet(OrderLines) /\ IsFiniteSet(OrderVouchers)

VARIABLES
    paper,         \* docstatus and `discarded` of every order and voucher
    trade,         \* the orders there are, and doctype and update_stock of the vouchers
    content,       \* content[v][l]: qty of voucher v on line l, negative on returns
    against,       \* return_against of every voucher
    moved,         \* delivered_qty, received_qty of every line
    billed,        \* billed_qty of every line
    planned,       \* reserved_qty, ordered_qty of every bin
    desk           \* what every request is doing

orderVars == <<paper, trade, content, against, moved, billed, planned, desk>>

NoLines == [l \in OrderLines |-> 0]

\* The planning columns of a bin, and the one the orders of a kind are summed in.
BinColumns == {"reserved_qty", "ordered_qty"}
PlanColumn(o) == IF o \in Buying THEN "ordered_qty" ELSE "reserved_qty"
NothingPlanned == [p \in Pairs |-> [k \in BinColumns |-> 0]]

Resting == [at |-> "rest", doing |-> "submit", doc |-> NoVoucher, want |-> {}, held |-> {},
            moved |-> NoLines, billed |-> NoLines, planned |-> NothingPlanned]

-----------------------------------------------------------------------------
(* Quantities *)

LinesOf(o) == {l \in OrderLines : LineOrder[l] = o}
Touched(v) == {l \in OrderLines : content[v][l] # 0}
OrdersOf(d) == IF d \in Orders THEN {d} ELSE {LineOrder[l] : l \in Touched(d)}
PairsOf(o) == {PairOf[l] : l \in LinesOf(o)}
IsReturn(v) == against[v] # NoVoucher

Moving == {v \in OrderVouchers : trade.kind[v] # "invoice"}
Billing == {v \in OrderVouchers : trade.kind[v] # "movement"}

\* _sum_line: what the vouchers of V that are posted in `st` have of line l.
SumLine(V, st, l) ==
    SumFunctionOnSet([v \in V |-> IF st[v] = "posted" THEN content[v][l] ELSE 0], V)

\* What is still to be moved of the lines of a bin, of the posted orders of one kind.
DemandIn(k, p, st, done) ==
    LET lines == {l \in OrderLines : /\ PairOf[l] = p /\ PlanColumn(LineOrder[l]) = k
                                     /\ st[LineOrder[l]] = "posted"}
    IN  SumFunctionOnSet([l \in lines |-> IF Ordered[l] > done[l] THEN Ordered[l] - done[l] ELSE 0], lines)

OpenDemand(p, st, done) == [k \in BinColumns |-> DemandIn(k, p, st, done)]

\* What the vouchers with the doctype of v have of line l, v itself left out.
Peers(v) == {w \in OrderVouchers : (w \in Moving \ Billing) <=> (v \in Moving \ Billing)} \ {v}

\* Faulty: direct-stock invoices do not consume the quantity to deliver.
WithinOrder_ByDoctype(v, l, qty) == SumLine(Peers(v), paper, l) + qty <= Ordered[l]

\* validate_order_quantities of one line.
WithinOrder(v, l, qty) ==
    /\ SumLine(Peers(v), paper, l) + qty <= Ordered[l]
    /\ v \in Moving => SumLine(Moving \ {v}, paper, l) + qty <= Ordered[l]

\* validate_return: the original stands, is no return itself, and its rows less
\* the posted returns still cover the rows of v.
ReturnFits(v) ==
    /\ paper[against[v]] = "posted" /\ ~IsReturn(against[v])
    /\ \A l \in OrderLines :
          LET others == {w \in OrderVouchers \ {v} : against[w] = against[v]}
          IN  content[v][l] < 0 =>
                 content[against[v]][l] + SumLine(others, paper, l) + content[v][l] >= 0

\* A direct invoice and a posted movement have a line of L in common.
MovedTwice(v, L) ==
    /\ trade.kind[v] = "direct" /\ ~IsReturn(v)
    /\ \E w \in OrderVouchers : /\ trade.kind[w] = "movement" /\ paper[w] = "posted"
                               /\ Touched(w) \cap Touched(v) \cap L # {}

\* _validate_no_double_shipment, and _validate_no_double_receipt of purchases.
NotShippedYet(v) == ~MovedTwice(v, {l \in OrderLines : LineOrder[l] \notin Buying})
NotReceivedYet(v) == ~MovedTwice(v, {l \in OrderLines : LineOrder[l] \in Buying})

\* The checks of save and submit.
VoucherValid(v) ==
    /\ \A o \in OrdersOf(v) : paper[o] = "posted"
    /\ \A l \in Touched(v) : WithinOrder(v, l, content[v][l])
    /\ NotShippedYet(v) /\ NotReceivedYet(v)
    /\ IsReturn(v) => ReturnFits(v)

\* _check_no_linked_purchase_invoice: a receipt stays while its order is billed.
NotBilledYet(v) ==
    trade.kind[v] = "movement" /\ OrdersOf(v) \cap Buying # {} =>
        \A w \in Billing : paper[w] = "posted" => OrdersOf(w) \cap OrdersOf(v) = {}

\* validate_cancellation, and the check of receipts.
VoucherReleasable(v) ==
    /\ \A w \in OrderVouchers : against[w] = v => paper[w] # "posted"
    /\ \A l \in Touched(v) : WithinOrder(v, l, 0)
    /\ NotBilledYet(v)

OrderReleasable(o) == \A v \in OrderVouchers : paper[v] = "posted" => o \notin OrdersOf(v)

Permitted(d, doing) ==
    IF doing = "submit" THEN d \in OrderVouchers => VoucherValid(d)
    ELSE IF d \in OrderVouchers THEN VoucherReleasable(d) ELSE OrderReleasable(d)

-----------------------------------------------------------------------------
(* Drafts *)

OrdersInit ==
    /\ trade \in Trades
    /\ paper = [d \in Papers |-> IF d \in trade.orders THEN "draft" ELSE "unsaved"]
    /\ content = [v \in OrderVouchers |-> NoLines]
    /\ against = [v \in OrderVouchers |-> NoVoucher]
    /\ moved = NoLines
    /\ billed = NoLines
    /\ planned = NothingPlanned
    /\ desk = [s \in Desks |-> Resting]

\* A draft of what `done` leaves open of a posted order, of the rows the user keeps.
DraftOf(v, o, done) ==
    LET open(l) == Ordered[l] - done[l] - trade.keptBack
    IN  /\ paper[v] = "unsaved" /\ paper[o] = "posted"
        /\ \E rows \in SUBSET LinesOf(o) :
              /\ rows # {} /\ \A l \in rows : open(l) > 0
              /\ content' = [content EXCEPT ![v] =
                    [l \in OrderLines |-> IF l \in rows THEN open(l) ELSE 0]]
        /\ paper' = [paper EXCEPT ![v] = "draft"]
        /\ UNCHANGED <<trade, against, moved, billed, planned, desk>>
        /\ VoucherValid(v)'

MakeDeliveryNote(v, o) == v \notin Billing /\ o \notin Buying /\ DraftOf(v, o, moved)
MakePurchaseReceipt(v, o) == v \notin Billing /\ o \in Buying /\ DraftOf(v, o, moved)
MakeSalesInvoice(v, o) == v \in Billing /\ o \notin Buying /\ DraftOf(v, o, billed)
MakePurchaseInvoice(v, o) == v \in Billing /\ o \in Buying /\ DraftOf(v, o, billed)

\* returnable_rows: what the posted returns of a document leave of its lines.
Returnable(original, l) ==
    content[original][l] + SumLine({w \in OrderVouchers : against[w] = original}, paper, l)

\* A draft that takes all of that back.
DraftReturn(v, original) ==
    /\ paper[v] = "unsaved" /\ paper[original] = "posted" /\ ~IsReturn(original)
    /\ trade.kind[v] = trade.kind[original]
    /\ \E l \in OrderLines : Returnable(original, l) > 0
    /\ content' = [content EXCEPT ![v] = [l \in OrderLines |-> -Returnable(original, l)]]
    /\ against' = [against EXCEPT ![v] = original]
    /\ paper' = [paper EXCEPT ![v] = "draft"]
    /\ UNCHANGED <<trade, moved, billed, planned, desk>>

Bought(v) == OrdersOf(v) \cap Buying # {}

MakeDeliveryReturn(v, w) == DraftReturn(v, w) /\ w \notin Billing /\ ~Bought(w)
MakePurchaseReceiptReturn(v, w) == DraftReturn(v, w) /\ w \notin Billing /\ Bought(w)
MakeSalesReturn(v, w) == DraftReturn(v, w) /\ w \in Billing /\ ~Bought(w)
MakePurchaseReturn(v, w) == DraftReturn(v, w) /\ w \in Billing /\ Bought(w)

\* Document.discard of a draft, in one step.
DiscardPaper(d) ==
    /\ paper[d] = "draft"
    /\ \A s \in Desks : d \notin desk[s].held
    /\ paper' = [paper EXCEPT ![d] = "discarded"]
    /\ UNCHANGED <<trade, content, against, moved, billed, planned, desk>>

-----------------------------------------------------------------------------
(* Submit and cancel as transactions *)

Before(doing) == IF doing = "submit" THEN "draft" ELSE "posted"
After(doing) == IF doing = "submit" THEN "posted" ELSE "cancelled"

Free(r) == \A s \in Desks : r \notin desk[s].held
NextWanted(s, r) == r \in desk[s].want /\ \A q \in desk[s].want : RowRank[r] <= RowRank[q]

\* Faulty: a voucher does not lock the orders it is made against.
References_OriginalOnly(d) == IF d \in OrderVouchers /\ IsReturn(d) THEN {against[d]} ELSE {}

\* lock_workflow_references.  The item rows it locks as well are the subject of
\* StockLedger; without them more interleavings are possible here, not fewer.
References(d) ==
    IF d \in Orders THEN {}
    ELSE OrdersOf(d) \cup (IF IsReturn(d) THEN {against[d]} ELSE {})

\* What the desk sees once its document is written: committed data and its own.
Seen(s) == [paper EXCEPT ![desk[s].doc] = After(desk[s].doing)]
OwnLines(s) == UNION {LinesOf(o) : o \in OrdersOf(desk[s].doc)}
OwnPairs(s) == UNION {PairsOf(o) : o \in OrdersOf(desk[s].doc)}

\* The columns a desk writes: those of the kinds of its orders.
OwnColumn(s, p, k) == \E l \in OwnLines(s) : PairOf[l] = p /\ PlanColumn(LineOrder[l]) = k

\* cls.load and the checks on the docstatus in memory.
RequestPaper(s, d, doing) ==
    /\ desk[s].at = "rest" /\ paper[d] = Before(doing)
    /\ desk' = [desk EXCEPT ![s] = [Resting EXCEPT !.at = "own", !.doing = doing,
                                                   !.doc = d, !.want = {d}]]
    /\ UNCHANGED <<paper, trade, content, against, moved, billed, planned>>

\* One SELECT ... FOR UPDATE; the first is that of _check_write_state.
LockPaper(s) ==
    /\ desk[s].at \in {"own", "refs"}
    /\ \E r \in desk[s].want :
          /\ NextWanted(s, r) /\ Free(r)
          /\ desk[s].at = "own" => paper[r] = Before(desk[s].doing)
          /\ desk' = [desk EXCEPT ![s].at = "refs",
                         ![s].held = @ \cup {r},
                         ![s].want = IF desk[s].at = "own" THEN References(r) ELSE @ \ {r}]
    /\ UNCHANGED <<paper, trade, content, against, moved, billed, planned>>

\* The checks, the document itself, and refresh_order_progress of its orders,
\* recalculated from the posted vouchers.
PostPaper(s) ==
    /\ desk[s].at = "refs" /\ desk[s].want = {}
    /\ Permitted(desk[s].doc, desk[s].doing)
    /\ desk' = [desk EXCEPT ![s].at = "plan", ![s].want = OwnPairs(s),
          ![s].moved = [l \in OrderLines |->
              IF l \in OwnLines(s) THEN SumLine(Moving, Seen(s), l) ELSE 0],
          ![s].billed = [l \in OrderLines |->
              IF l \in OwnLines(s) THEN SumLine(Billing, Seen(s), l) ELSE 0]]
    /\ UNCHANGED <<paper, trade, content, against, moved, billed, planned>>

\* The demand as the desk reads it.
MovedSeen(s) == [l \in OrderLines |-> IF l \in OwnLines(s) THEN desk[s].moved[l] ELSE moved[l]]
Demand(s, p) == OpenDemand(p, Seen(s), MovedSeen(s))

\* Faulty: the bin is read and written without its row lock.
PlanBin_Unlocked(s) ==
    /\ desk[s].at = "plan"
    /\ \E p \in desk[s].want :
          /\ NextWanted(s, p)
          /\ desk' = [desk EXCEPT ![s].want = @ \ {p}, ![s].planned[p] = Demand(s, p)]
    /\ UNCHANGED <<paper, trade, content, against, moved, billed, planned>>

\* refresh_planning of one bin: lock it, then read the open lines again.  Of the two
\* columns only the desk's own is written, when it commits.
PlanBin(s) ==
    /\ desk[s].at = "plan"
    /\ \E p \in desk[s].want :
          /\ NextWanted(s, p) /\ Free(p)
          /\ desk' = [desk EXCEPT ![s].held = @ \cup {p}, ![s].want = @ \ {p},
                                  ![s].planned[p] = Demand(s, p)]
    /\ UNCHANGED <<paper, trade, content, against, moved, billed, planned>>

CommitPaper(s) ==
    /\ desk[s].at = "plan" /\ desk[s].want = {}
    /\ paper' = Seen(s)
    /\ moved' = MovedSeen(s)
    /\ billed' = [l \in OrderLines |-> IF l \in OwnLines(s) THEN desk[s].billed[l] ELSE billed[l]]
    /\ planned' = [p \in Pairs |-> [k \in BinColumns |->
          IF OwnColumn(s, p, k) THEN desk[s].planned[p][k] ELSE planned[p][k]]]
    /\ desk' = [desk EXCEPT ![s] = Resting]
    /\ UNCHANGED <<trade, content, against>>

\* A check fails, the connection is lost, or the database picks the request as
\* the victim of a deadlock (two requests may lock bins in opposite orders).
AbortPaper(s) ==
    /\ desk[s].at # "rest"
    /\ desk' = [desk EXCEPT ![s] = Resting]
    /\ UNCHANGED <<paper, trade, content, against, moved, billed, planned>>

OrdersNext ==
    \/ \E v \in OrderVouchers :
          \/ \E o \in Orders : \/ MakeDeliveryNote(v, o) \/ MakePurchaseReceipt(v, o)
                             \/ MakeSalesInvoice(v, o) \/ MakePurchaseInvoice(v, o)
          \/ \E w \in OrderVouchers : \/ MakeDeliveryReturn(v, w) \/ MakePurchaseReceiptReturn(v, w)
                                    \/ MakeSalesReturn(v, w) \/ MakePurchaseReturn(v, w)
    \/ \E d \in Papers : DiscardPaper(d)
    \/ \E s \in Desks :
          \/ \E d \in Papers, doing \in {"submit", "cancel"} : RequestPaper(s, d, doing)
          \/ LockPaper(s) \/ PostPaper(s) \/ PlanBin(s) \/ CommitPaper(s) \/ AbortPaper(s)

OrdersSpec == OrdersInit /\ [][OrdersNext]_orderVars

-----------------------------------------------------------------------------
(* Properties *)

\* "Recalculate from submitted vouchers; never add/subtract cached counters": what
\* a posted order shows as delivered and billed is what is posted against it,
\* whichever vouchers are posted, returned and cancelled at the same time.
ProgressIsPosted ==
    \A l \in OrderLines : paper[LineOrder[l]] = "posted" =>
        /\ moved[l] = SumLine(Moving, paper, l)
        /\ billed[l] = SumLine(Billing, paper, l)

\* No sequence of deliveries, direct-stock invoices, returns and cancellations
\* hands over or bills more of a line than was ordered, or takes back more than
\* was handed over.
LinesNotOverfulfilled ==
    \A l \in OrderLines, V \in {Moving, Billing} : SumLine(V, paper, l) \in 0..Ordered[l]

\* The quantity reserved in a bin is what the posted sales orders still wait for, the
\* quantity on order what the posted purchase orders do, though orders that share a
\* bin are refreshed by different requests.
PlanIsOpenDemand ==
    \A p \in Pairs : planned[p] = OpenDemand(p, paper, moved)

=============================================================================

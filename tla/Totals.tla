------------------------------- MODULE Totals -------------------------------
(***************************************************************************)
(* Prices, taxes and totals of a sales document: what every save fills in  *)
(* from the price lists, what the pricing rules make of it and what the    *)
(* tax rows and discounts add up to, and what a document made from         *)
(* another one takes over.  Amounts are in cents, the unrounded tax of an  *)
(* item in ten-thousandths of a cent; tax rows refer to rows before them.  *)
(***************************************************************************)
EXTENDS Money, Sequences, FiniteSetsExt, SequencesExt

CONSTANTS
    Goods,          \* items
    StandardRate,   \* Item.standard_rate
    ListRows,       \* Item Price rows the document may use: [item, named, minQty, rate]
    PriceRules,     \* rules of its company, side, party and date: [item, minQty, maxQty,
                    \*   minAmt, priority, specificity, rank, kind, value]
    TaxSets,        \* sequences of tax rows [kind, rate, row, included, amount]
    Quantities, HandRates, Rebates,
    MaxLines,       \* bound: lines of the document
    MaxChanges,     \* bound: saves, conversions and switches of rules
    Unset

VARIABLES
    sheet,          \* the document: [kind, lines, taxes, rebate, onNet, net, grand,
                    \*   under]: as it is stored, and by which rules it was priced
    offer,          \* the document it was made from, while it has not been edited
    enabled,        \* the rules that are switched on
    changes         \* how many steps were taken

totalsVars == <<sheet, offer, enabled, changes>>

\* The next step F of a calculation, on what the step before it came to.
Then(x, F(_)) == CHOOSE y \in {F(z) : z \in {x}} : TRUE

Sum(f) == MapThenSumSet(LAMBDA i : f[i], DOMAIN f)

-----------------------------------------------------------------------------
(* The price of a line *)

\* get_item_price: a row naming the party first, then the highest volume band.
ListPrice(line) ==
    LET usable == {r \in ListRows : r.item = line.item /\ r.minQty <= line.qty}
        best == CHOOSE r \in usable : \A s \in usable :
                    (s.named => r.named) /\ (s.named = r.named => s.minQty <= r.minQty)
    IN  IF usable = {} THEN Unset ELSE best.rate

\* set_item_defaults.
Defaulted(line) ==
    IF line.rate # Unset \/ line.printed # Unset THEN line
    ELSE IF ListPrice(line) = Unset THEN [line EXCEPT !.rate = StandardRate[line.item]]
    ELSE [line EXCEPT !.printed = ListPrice(line), !.rate = ListPrice(line)]

\* Faulty: a discount is taken off the price that is already discounted.
Base_Discounted(line) == line.rate

\* What a rule modifies, and measures the amount by.
Base(line) == IF line.printed \notin {Unset, 0} THEN line.printed ELSE line.rate

Fitting(line) ==
    {r \in enabled : /\ r.item = line.item
                     /\ r.minQty <= line.qty /\ (r.maxQty # 0 => line.qty <= r.maxQty)
                     /\ r.minAmt <= line.qty * Base(line)}

\* Priority, then specificity, then the tightest volume band, then the name.
Precedes(r, s) ==
    LET key(x) == <<-x.priority, -x.specificity, -x.minQty, x.rank>>
    IN  \E i \in 1..4 : key(r)[i] < key(s)[i] /\ \A j \in 1..(i-1) : key(r)[j] = key(s)[j]

\* What rule r makes of a line.
Repriced(line, r, base) ==
    CASE r.kind = "Rate" ->
            [line EXCEPT !.rate = r.value, !.printed = r.value, !.percent = 0, !.off = 0]
      [] r.kind = "Discount Percentage" ->
            [line EXCEPT !.rate = Nearest(base * (100 - r.value), 100), !.printed = base,
                         !.percent = r.value, !.off = 0]
      [] r.kind = "Discount Amount" ->
            [line EXCEPT !.rate = base - r.value, !.printed = base, !.percent = 0, !.off = r.value]

First(rules) == CHOOSE r \in rules : \A s \in rules \ {r} : Precedes(r, s)

\* apply_pricing_rules: free and agreed lines keep their price.
Ruled(line) ==
    IF line.agreed \/ line.rate = 0 \/ Fitting(line) = {} THEN line
    ELSE Then(Then(Fitting(line), First), LAMBDA r : Repriced(line, r, Base(line)))

\* calculate_item_values: the rate from the printed price and its discount.
Discounted(line) ==
    IF line.rate = 0 \/ line.percent = 100 THEN [line EXCEPT !.rate = 0]
    ELSE IF line.printed = Unset \/ (line.printed = 0 /\ line.rate # Unset) THEN line
    ELSE IF line.rate = Unset \/ line.percent > 0
         THEN [line EXCEPT !.rate = Nearest(line.printed * (100 - line.percent), 100),
                           !.off = Nearest(line.printed * line.percent, 100)]
    ELSE IF line.off # 0 THEN [line EXCEPT !.rate = line.printed - line.off]
    ELSE line

Valued(line) ==
    Then(Discounted(line), LAMBDA d : [d EXCEPT !.amount = d.rate * d.qty, !.net = d.rate * d.qty])

-----------------------------------------------------------------------------
(* Taxes *)

\* Faulty: tax on a previous row's total is computed as if on the net.
Fractions_OfNet(T) ==
    LET f[i \in 0..Len(T)] ==
            IF i = 0 THEN [own |-> 0, cum |-> 10000]
            ELSE LET own == IF T[i].included /\ T[i].kind # "On Item Quantity" THEN T[i].rate * 100 ELSE 0
                 IN  [own |-> own, cum |-> f[i-1].cum + own]
    IN  f

\* _get_current_tax_fraction: [own, cum] of every row, in ten-thousandths.
Fractions(T) ==
    LET f[i \in 0..Len(T)] ==
            IF i = 0 THEN [own |-> 0, cum |-> 10000]
            ELSE LET t == T[i]
                     own == CASE ~t.included -> 0
                              [] t.kind = "On Net Total" -> t.rate * 100
                              [] t.row = 0 -> 0
                              [] t.kind = "On Previous Row Amount" -> (t.rate * f[t.row].own) \div 100
                              [] t.kind = "On Previous Row Total" -> (t.rate * f[t.row].cum) \div 100
                              [] OTHER -> 0
                 IN  [own |-> own, cum |-> f[i-1].cum + own]
    IN  f

\* determine_exclusive_rate: what is left when the included taxes are taken out.
Exclusive(line, T) ==
    LET cum == Fractions(T)[Len(T)].cum
        perUnit == Sum([i \in DOMAIN T |->
                          IF T[i].included /\ T[i].kind = "On Item Quantity" THEN T[i].rate ELSE 0])
    IN  IF line.qty = 0 \/ (cum = 10000 /\ perUnit = 0) THEN line
        ELSE [line EXCEPT !.net = Nearest((line.amount - perUnit * line.qty) * 10000, cum)]

NetTotal(L) == Sum([j \in DOMAIN L |-> L[j].net])

\* The share of a fixed amount that falls on a line; the last one takes the rest.
Share(t, L, j) ==
    LET total == IF NetTotal(L) = 0 THEN 1 ELSE NetTotal(L)
        part(k) == LET n == t.amount * L[k].net
                   IN  (n \div total) * 10000 + ((n % total) * 10000) \div total
    IN  IF j < Len(L) THEN part(j)
        ELSE t.amount * 10000 - Sum([k \in 1..(j-1) |-> part(k)])

\* _get_current_tax_amount of line j: [tax, cum] of every row.
ItemTaxes(L, T, j) ==
    LET f[i \in 0..Len(T)] ==
            IF i = 0 THEN [tax |-> 0, cum |-> L[j].net * 10000]
            ELSE LET t == T[i]
                     tax == CASE t.kind = "Actual" -> Share(t, L, j)
                              [] t.kind = "On Net Total" -> L[j].net * t.rate * 100
                              [] t.kind = "On Item Quantity" -> L[j].qty * t.rate * 10000
                              [] t.row = 0 -> 0
                              [] t.kind = "On Previous Row Amount" -> (f[t.row].tax \div 100) * t.rate
                              [] t.kind = "On Previous Row Total" -> (f[t.row].cum \div 100) * t.rate
                 IN  [tax |-> tax, cum |-> f[i-1].cum + tax]
    IN  f

\* calculate_taxes: the amounts of the rows, a fixed one as it was entered.
Taxed(L, T) ==
    [i \in DOMAIN T |->
        IF T[i].kind = "Actual" THEN T[i]
        ELSE [T[i] EXCEPT !.amount =
                 Nearest(Sum([j \in DOMAIN L |-> ItemTaxes(L, T, j)[i].tax]), 10000)]]

-----------------------------------------------------------------------------
(* Documents *)

\* calculate_totals, once the lines are worked out.
Summed(doc) ==
    Then([doc EXCEPT !.taxes = Taxed(doc.lines, @), !.net = NetTotal(doc.lines)],
         LAMBDA d : [d EXCEPT !.grand = d.net + Sum([i \in DOMAIN d.taxes |-> d.taxes[i].amount])])

\* _calculate.
Calculated(doc) ==
    Then([doc EXCEPT !.lines = [j \in DOMAIN @ |-> Then(Valued(@[j]), LAMBDA l : Exclusive(l, doc.taxes))]], Summed)

\* apply_discount_amount: a rebate on the net total is spread over the lines, one
\* on the grand total is taken off it.
Spread(doc) ==
    LET total == IF doc.net = 0 THEN 1 ELSE doc.net
    IN  [doc EXCEPT !.lines = [j \in DOMAIN @ |->
            [@[j] EXCEPT !.net = @ - Nearest(doc.rebate * @, total)]]]

\* calculate: after a spread everything is calculated again.
WithRebate(doc) ==
    IF doc.lines = <<>> THEN doc
    ELSE IF doc.rebate # 0 /\ doc.onNet THEN Then(Then(Calculated(doc), Spread), Calculated)
    ELSE [Calculated(doc) EXCEPT !.grand = @ - doc.rebate]

OneTime(doc) == SelectSeq(doc.lines, LAMBDA l : l.every = "One-time")

\* Quotation._apply_frequency_split: an offer with recurring lines shows the totals
\* and tax rows of its one-time lines.
HeadlineOnly(doc) ==
    IF doc.kind # "Quotation" \/ Len(OneTime(doc)) = Len(doc.lines) THEN doc
    ELSE IF OneTime(doc) = <<>> THEN [doc EXCEPT !.net = 0, !.grand = 0]
    ELSE Then(Then([doc EXCEPT !.lines = OneTime(doc), !.rebate = 0], WithRebate),
              LAMBDA once : [doc EXCEPT !.taxes = once.taxes, !.net = once.net, !.grand = once.grand])

\* validate, as save and convert_document call it.
Filled(doc) ==
    Then(Then([doc EXCEPT !.lines = [j \in DOMAIN @ |-> Then(Defaulted(@[j]), Ruled)], !.under = enabled],
              WithRebate),
         HeadlineOnly)

NewSheet == [kind |-> "Quotation", lines |-> <<>>, taxes |-> <<>>, rebate |-> 0, onNet |-> FALSE,
             net |-> 0, grand |-> 0, under |-> {}]

TotalsInit ==
    /\ sheet = NewSheet
    /\ offer = NewSheet
    /\ enabled = {}
    /\ changes = 0

-----------------------------------------------------------------------------
(* What a user may make of the document *)

NewLine(g, q, every) ==
    [item |-> g, qty |-> q, every |-> every, rate |-> Unset, printed |-> Unset, percent |-> 0,
     off |-> 0, agreed |-> FALSE, amount |-> 0, net |-> 0]

WithLine ==
    {[sheet EXCEPT !.lines = Append(@, NewLine(g, q, every))] :
        g \in Goods, q \in Quantities,
        every \in IF sheet.kind = "Quotation" THEN {"One-time", "Monthly"} ELSE {"One-time"}}

WithQuantity == {[sheet EXCEPT !.lines[j].qty = q] : j \in DOMAIN sheet.lines, q \in Quantities}

\* A price entered by hand, which the rules may or may not change.
WithPrice == {[sheet EXCEPT !.lines[j].rate = r, !.lines[j].agreed = agreed] :
                 j \in DOMAIN sheet.lines, r \in HandRates, agreed \in BOOLEAN}

WithTaxes == {[sheet EXCEPT !.taxes = T] : T \in TaxSets}

WithDiscount == {[sheet EXCEPT !.rebate = d, !.onNet = n] : d \in Rebates, n \in BOOLEAN}

Edits == (IF Len(sheet.lines) < MaxLines THEN WithLine ELSE {})
         \cup (IF sheet.lines = <<>> THEN {}
               ELSE {sheet} \cup WithQuantity \cup WithPrice \cup WithTaxes \cup WithDiscount)

-----------------------------------------------------------------------------
(* The operations *)

\* update_document: the change, if it is one, and what validate makes of the document.
SaveSheet(doc) ==
    /\ sheet' = Filled(doc)
    /\ offer' = IF doc = sheet THEN offer ELSE NewSheet
    /\ UNCHANGED enabled

\* A pricing rule is switched on or off.
SwitchRule(r) ==
    /\ enabled' = IF r \in enabled THEN enabled \ {r} ELSE enabled \cup {r}
    /\ UNCHANGED <<sheet, offer>>

\* make_sales_order, make_sales_invoice and make_sales_invoice_from_quotation, which
\* skips the order.
NextKinds(kind) ==
    CASE kind = "Quotation" -> {"Sales Order", "Sales Invoice"}
      [] kind = "Sales Order" -> {"Sales Invoice"}
      [] kind = "Sales Invoice" -> {}

\* What a converter copies of the shown document, saved by convert_document.
ConvertSheet(kind) ==
    /\ sheet.lines # <<>>
    /\ LET lines == [j \in DOMAIN sheet.lines |-> [sheet.lines[j] EXCEPT !.every = "One-time"]]
           taxes == [i \in DOMAIN sheet.taxes |-> [sheet.taxes[i] EXCEPT !.row = 0, !.amount = 0]]
       IN  sheet' = Filled([NewSheet EXCEPT !.kind = kind, !.lines = lines, !.taxes = taxes])
    /\ offer' = sheet
    /\ UNCHANGED enabled

TotalsNext ==
    /\ changes < MaxChanges /\ changes' = changes + 1
    /\ \/ \E doc \in Edits : SaveSheet(doc)
       \/ \E r \in PriceRules : SwitchRule(r)
       \/ \E kind \in NextKinds(sheet.kind) : ConvertSheet(kind)

TotalsSpec == TotalsInit /\ [][TotalsNext]_totalsVars

-----------------------------------------------------------------------------
(* Properties *)

\* What the totals of a document count.
Counted(doc) == IF doc.kind = "Quotation" THEN OneTime(doc) ELSE doc.lines

Split(doc) == Len(Counted(doc)) < Len(doc.lines)

\* The totals are those of the lines and rows the document shows: the nets of the
\* counted lines make up the net total, the rows' amounts lead from there to the
\* grand total (less a rebate on it), and when every tax is included in the printed
\* prices, line by line, the total is what the prices say, up to a cent for each line
\* and row.  An offer without any one-time line keeps the tax rows
\* of the recurring ones beside totals of nothing.
TotalsAddUp ==
    Counted(sheet) # <<>> =>
        LET L == Counted(sheet)
            T == sheet.taxes
            rebate == IF Split(sheet) \/ sheet.onNet THEN 0 ELSE sheet.rebate
        IN  /\ sheet.net = NetTotal(L)
            /\ sheet.grand + rebate = sheet.net + Sum([i \in DOMAIN T |-> T[i].amount])
            /\ (\A i \in DOMAIN T : T[i].included) =>
                  AbsOf(sheet.grand + rebate - Sum([j \in DOMAIN L |-> L[j].amount])) <= Len(L) + Len(T)

\* "apply_pricing_rules re-runs on every save": saving a document again under the
\* same rules changes neither a price nor a total, as long as no fixed rate has a
\* band of amounts, which its own price can leave.
SavingAgainChangesNothing ==
    sheet.lines # <<>> /\ sheet.under = enabled /\ (\A r \in enabled : r.kind = "Rate" => r.minAmt = 0) =>
        Filled(sheet) = sheet

\* "will be recalculated": a document made from an offer of one-time lines comes to
\* the same total as the offer, under the same rules.
ConversionKeepsTheTotal ==
    offer.lines # <<>> /\ sheet.under = offer.under /\ offer.rebate = 0
        /\ Counted(offer) = offer.lines => sheet.grand = offer.grand
=============================================================================

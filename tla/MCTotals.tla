------------------------------ MODULE MCTotals ------------------------------
(***************************************************************************)
(* A sheet of two items, in cents: tax tables with freight, an included    *)
(* tax and a tax per piece, each with a row that refers back to another; a *)
(* price list with a quantity break; rules that set and discount a price.  *)
(***************************************************************************)
EXTENDS Totals, TLC

CONSTANTS bolt, nut

Tax(k, r, row, i, a) == [kind |-> k, rate |-> r, row |-> row, included |-> i, amount |-> a]
MCTaxSets == {<<Tax("Actual", 0, 0, FALSE, 150), Tax("On Previous Row Total", 10, 1, FALSE, 0)>>,
              <<Tax("On Net Total", 8, 0, TRUE, 0), Tax("On Previous Row Total", 5, 1, TRUE, 0)>>,
              <<Tax("On Item Quantity", 7, 0, FALSE, 0), Tax("On Previous Row Amount", 50, 1, FALSE, 0)>>}
MCStandardRate == bolt :> 333 @@ nut :> 105
MCListRows == {[item |-> bolt, named |-> FALSE, minQty |-> 0, rate |-> 300],
               [item |-> bolt, named |-> FALSE, minQty |-> 3, rate |-> 299],
               [item |-> bolt, named |-> TRUE, minQty |-> 0, rate |-> 280]}
Rule(i, lo, hi, amt, prio, spec, kind, value, rank) ==
    [item |-> i, minQty |-> lo, maxQty |-> hi, minAmt |-> amt, priority |-> prio,
     specificity |-> spec, kind |-> kind, value |-> value, rank |-> rank]
MCPriceRules == {Rule(bolt, 3, 0, 0, 0, 32, "Rate", 250, 1),
                 Rule(bolt, 0, 0, 600, 0, 2, "Discount Percentage", 7, 2),
                 Rule(nut, 0, 2, 0, 1, 1, "Discount Amount", 5, 3)}

=============================================================================

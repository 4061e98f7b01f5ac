\* A quotation with freight is converted to an order.
SPECIFICATION TotalsSpec
CONSTANTS
    bolt = bolt
    nut = nut
    Goods = {bolt, nut}
    StandardRate <- MCStandardRate
    ListRows <- MCListRows
    PriceRules <- MCPriceRules
    TaxSets <- MCTaxSets
    Quantities = {1, 3}
    HandRates = {0, 111}
    Rebates = {0, 100}
    MaxLines = 2
    MaxChanges = 5
    Unset = Unset
INVARIANT
    ConversionKeepsTheTotal
CHECK_DEADLOCK FALSE

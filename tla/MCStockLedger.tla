--------------------------- MODULE MCStockLedger ---------------------------
(* Bolts in two warehouses and nuts in one, one document of each way of     *)
(* moving stock, and the order that the receipt fulfils.                    *)
EXTENDS StockLedger, TLC

CONSTANTS bolt, nut, boltA, boltB, nutA,
          opening,     \* Stock Entry: 2 bolts at 1, 1 nut at 2
          issue,       \* Stock Entry: 1 nut
          transfer,    \* Stock Entry: 1 bolt to the other warehouse
          ordered,     \* Purchase Order: 2 bolts, 1 nut
          received,    \* Purchase Receipt: 2 bolts of the order at 4
          sentBack,    \* Purchase Receipt: returns 1 of them
          bought,      \* Purchase Invoice: 1 bolt at 3
          handedBack,  \* Purchase Invoice: returns it
          sold,        \* Delivery Note: 1 nut, 1 bolt
          cameBack,    \* Delivery Note: the bolt is returned
          cameAgain    \* Delivery Note: the bolt is returned once more

MCItemOf == nutA :> nut @@ [b \in {boltA, boltB} |-> bolt]
\* The tables in alphabetical order, as their rows are locked.
Place == [r \in Lockable |->
    CASE r = boltA -> 1 [] r = boltB -> 2 [] r = nutA -> 3
      [] r = sold -> 4 [] r = cameBack -> 5 [] r = cameAgain -> 6
      [] r = bolt -> 7 [] r = nut -> 8
      [] r = bought -> 9 [] r = handedBack -> 10
      [] r = ordered -> 11
      [] r = received -> 12 [] r = sentBack -> 13
      [] r = opening -> 14 [] r = issue -> 15 [] r = transfer -> 16]
MCNameRank == [r \in Lockable |-> Cardinality({q \in Lockable : Place[q] <= Place[r]})]

Row(from, to, qty, rate) == [from |-> from, to |-> to, qty |-> qty, rate |-> rate]

MCKindOf == [d \in Documents |->
    CASE d = ordered -> "order"
      [] d \in {opening, issue, transfer} -> "entry"
      [] d \in {received, sentBack} -> "receipt"
      [] d \in {bought, handedBack} -> "purchase"
      [] d \in {sold, cameBack, cameAgain} -> "sale"]

\* The rates of an issue, a transfer and a sale are what the user typed.
MCRowsOf == [d \in Documents |->
    CASE d = opening -> <<Row(None, boltA, 2, 1), Row(None, nutA, 1, 2)>>
      [] d = issue -> <<Row(nutA, None, 1, 9)>>
      [] d = transfer -> <<Row(boltA, boltB, 1, 9)>>
      [] d = ordered -> <<Row(None, boltA, 2, 4), Row(None, nutA, 1, 5)>>
      [] d = received -> <<Row(None, boltA, 2, 4)>>
      [] d = sentBack -> <<Row(boltA, None, 1, 4)>>
      [] d = bought -> <<Row(None, boltA, 1, 3)>>
      [] d = handedBack -> <<Row(boltA, None, 1, 3)>>
      [] d = sold -> <<Row(nutA, None, 1, 9), Row(boltA, None, 1, 9)>>
      [] d \in {cameBack, cameAgain} -> <<Row(None, boltA, 1, 9)>>]

MCOriginal == [d \in Documents |->
    CASE d = sentBack -> received
      [] d = handedBack -> bought
      [] d \in {cameBack, cameAgain} -> sold
      [] OTHER -> None]

MCOrdersOf == [d \in Documents |->
    IF d \in {received, sentBack} THEN {ordered} \cap Documents ELSE {}]

Symmetry == Permutations(Sessions)
=============================================================================

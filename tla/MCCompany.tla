----------------------------- MODULE MCCompany -----------------------------
(***************************************************************************)
(* A small company: for each part the documents, rows and requests between *)
(* which its hazards need to happen, and no more.                          *)
(***************************************************************************)
EXTENDS Company, MCTotals

CONSTANTS
    inv, buy, ret, pos, back, single, new, off, swap, t1, t2, t3, chf, usd,
    so, so2, po, sLine, sLine2, pLine, bin, note, direct, receipt,
    drill1, drill2, pool1, pool2, book1, book2, quote, ada, bob, drill,
    rentBill, mixBill, credit, entry, assets, bank, costs, rent, rounding,
    owed, payable, siteA, siteB, checking, retired, euros,
    old, fresh, r1, r2

\* Every part has the same two requests under way, and tells them apart in nothing.
MCSymmetry == Permutations({r1, r2})

-----------------------------------------------------------------------------
(* Bills: an invoice, its return and a purchase invoice in foreign         *)
(* currencies; a sale part-paid at a till, and its return; two payments,   *)
(* one of them made by reconciliation, a journal entry, a transfer, and    *)
(* three bank transactions.                                                *)

MCTotal == inv :> 3 @@ buy :> 2 @@ ret :> 2 @@ pos :> 3 @@ back :> 2
MCTendered == pos :> 1 @@ [b \in {inv, buy, ret, back} |-> 0]
MCAgainst == ret :> inv @@ back :> pos
Settling(b, n) == b :> n @@ [x \in {inv, buy, ret, pos, back} |-> 0]
MCAlloc == off :> (ret :> 2 @@ buy :> 2 @@ Settling(inv, 2)) @@ single :> (pos :> 1 @@ Settling(inv, 1))
           @@ new :> Settling(inv, 1) @@ swap :> Settling(inv, 0)
MCLedger == t1 :> chf @@ t2 :> chf @@ t3 :> usd
MCAmount == t1 :> 1 @@ t2 :> 2 @@ t3 :> 2
MCMovement == single :> (chf :> 3 @@ usd :> 0) @@ swap :> (chf :> 3 @@ usd :> -2)

Part(a, n) == [account |-> a, amount |-> n]
MCNetParts == inv :> <<Part("goods", 17), Part("service", 9)>> @@ buy :> <<Part("stock", 20)>>
              @@ ret :> <<Part("goods", 17)>> @@ back :> <<Part("goods", 20)>>
              @@ pos :> <<Part("goods", 17), Part("service", 3), Part("goods", 10)>>
MCTaxParts == inv :> {Part("vat", 4)} @@ ret :> {Part("vat", 3)} @@ [b \in {buy, pos, back} |-> {}]
MCOnAccount == new :> 10 @@ single :> 10
MCBankOf == single :> chf @@ new :> usd @@ [b \in {pos, back} |-> chf]
MCSwapOf == swap :> [from |-> usd, to |-> chf, paid |-> 20, received |-> 30]
MCOwnLegs == off :> {[for |-> "own", account |-> chf, base |-> -25, ccy |-> -25]}
MCAccountCurrency == chf :> "CHF" @@ usd :> "USD"
MCCurrency == buy :> "EUR" @@ [d \in {inv, ret, pos, back, single, new} |-> "USD"]
              @@ [d \in {off, swap} |-> "CHF"]
MCDateOf == [d \in {single, new} |-> 3] @@ ret :> 2 @@ [d \in {inv, buy, pos, back, off, swap} |-> 1]
MCGivenRate == ret :> 1050 @@ single :> 1500 @@ [d \in {inv, buy, pos, back, new, off, swap} |-> 0]
Fixing(from, to, date, rate) == [from |-> from, to |-> to, date |-> date, rate |-> rate]
MCExchange == {Fixing("USD", "CHF", 1, 1050), Fixing("USD", "CHF", 2, 1071), Fixing("CHF", "EUR", 1, 800)}

-----------------------------------------------------------------------------
(* Orders: two sales orders and a purchase order, all on one bin.           *)

MCLineOrder == sLine :> so @@ sLine2 :> so2 @@ pLine :> po
MCOrdered == sLine :> 2 @@ sLine2 :> 1 @@ pLine :> 1
MCPairOf == sLine :> bin @@ sLine2 :> bin @@ pLine :> bin
Kinds(n, d, r) == note :> n @@ direct :> d @@ receipt :> r
MCTrades == {[orders |-> {so, po}, keptBack |-> 1, kind |-> Kinds("movement", "direct", "direct")],
             [orders |-> {so, so2}, keptBack |-> 1, kind |-> Kinds("movement", "invoice", "movement")],
             [orders |-> {po}, keptBack |-> 0, kind |-> Kinds("movement", "direct", "movement")],
             [orders |-> {po}, keptBack |-> 0, kind |-> Kinds("movement", "invoice", "invoice")]}
MCRowRank == note :> 1 @@ receipt :> 3 @@ direct :> 4 @@ so :> 11 @@ so2 :> 13 @@ po :> 12 @@ bin :> 22

-----------------------------------------------------------------------------
(* Rental: two machines of one item in two pools, and two bookings.        *)

MCItemOf == pool1 :> drill @@ pool2 :> drill
Wish(s, m, p, from, to, v) ==
    [status |-> s, machine |-> m, pool |-> p, qty |-> 1, from |-> from, to |-> to,
     voucher |-> v, customer |-> ada]
MCWishes == {Wish("Reserved", drill1, AnyPool, 0, 2, NoPaper),
             Wish("Reserved", NoMachine, pool1, 1, 3, quote),
             Wish("Out", drill1, pool1, 2, 3, quote),
             Wish("Returned", drill1, pool1, 0, 2, NoPaper)}
MCRentalRank == book1 :> 1 @@ book2 :> 2 @@ quote :> 4 @@ drill1 :> 5 @@ drill2 :> 6 @@ drill :> 7
MCRefits == {[pool |-> pool1, usable |-> TRUE], [pool |-> pool2, usable |-> FALSE]}

-----------------------------------------------------------------------------
(* Ledger: four vouchers in thousandths, odd enough to round, two budgets. *)

Line(a, c, p, debit, cred) ==
    [account |-> a, center |-> c, party |-> p, debit |-> debit, credit |-> cred]
MCGlLines ==
    rentBill :> <<Line(rent, siteA, NoParty, 60, 0), Line(rent, siteA, NoParty, 15, 0),
                  Line(payable, NoCenter, ada, 0, 75)>>
    @@ mixBill :> <<Line(rent, siteA, ada, 400, 0), Line(rent, siteA, bob, 400, 0),
                    Line(payable, NoCenter, ada, 0, 800)>>
    @@ credit :> <<Line(rent, siteA, NoParty, -300, 0), Line(payable, NoCenter, ada, 0, -300)>>
    @@ entry :> <<Line(rent, siteB, NoParty, 105, 0), Line(bank, NoCenter, NoParty, 0, 115)>>
MCRateOf == rentBill :> 1000 @@ mixBill :> 333 @@ credit :> 1000 @@ entry :> 1000
MCBudgets == {[account |-> rent, center |-> siteA, limit |-> 20, action |-> "Stop"],
              [account |-> rent, center |-> siteB, limit |-> 6, action |-> "Warn"]}
Acc(p, r, g, d) == [parent |-> p, root |-> r, group |-> g, disabled |-> d]
MCChart == assets :> Acc(NoAccount, "Asset", TRUE, FALSE) @@ bank :> Acc(assets, "Asset", FALSE, FALSE)
           @@ costs :> Acc(NoAccount, "Expense", TRUE, FALSE) @@ rent :> Acc(costs, "Expense", FALSE, FALSE)
           @@ rounding :> Acc(costs, "Expense", FALSE, TRUE)
           @@ owed :> Acc(NoAccount, "Liability", TRUE, FALSE) @@ payable :> Acc(owed, "Liability", FALSE, FALSE)
MCDayOf == rentBill :> 1 @@ mixBill :> 2 @@ credit :> 2 @@ entry :> 2

-----------------------------------------------------------------------------
(* Import: the statement of January comes in two exports, and its pending  *)
(* booking again in that of February.  Another account has bookings with   *)
(* the same references, and a statement without dates.                     *)

Booking(b, service, amount, booked) ==
    [booking |-> b, service |-> service, own |-> NoReference, details |-> <<>>,
     amount |-> amount, booked |-> booked, dated |-> TRUE]
Wire(id, amount) == [uetr |-> id, amount |-> amount]
Rent == Booking("rent", "R1", 9, TRUE)
Fee == Booking("fee", NotProvided, -1, TRUE)
Batch == [Booking("batch", NotProvided, 5, TRUE) EXCEPT !.own = "N1", !.details = <<Wire("W1", 2), Wire(NotProvided, 3)>>]
Paper(source, statement, iban, closing, entries) ==
    [source |-> source, statement |-> statement, iban |-> iban, opening |-> 0, closing |-> closing,
     entries |-> entries]
January == Paper("january", "s1", "CH", 12,
    <<Rent, Fee, [Fee EXCEPT !.booking = "charge"], Booking("pending", "R3", 4, FALSE), Batch>>)
Again == Paper("again", "s1", "CH", 12, <<Rent, Fee, [Fee EXCEPT !.booking = "charge"], Batch>>)
February == Paper("february", "s2", "CH", 13, <<Rent, Rent, Booking("pending", "R3", 4, TRUE)>>)
Euro == Paper("euro", "e1", "DE", 8,
    <<Booking("sale", "R1", 6, TRUE),
      [Booking("wire", NoReference, 2, TRUE) EXCEPT !.details = <<Wire("W1", 2)>>]>>)
Undated == Paper("undated", "e2", "DE", 3, <<[Booking("odd", "R9", 3, TRUE) EXCEPT !.dated = FALSE]>>)
MCStatementNodes == {January, Again, February, Euro, Undated}
MCUploads == {<<January>>, <<January, February>>, <<February, Again>>, <<Again, January, Again>>,
              <<Euro>>, <<Euro, Undated>>}
MCIbanOf == checking :> "CH" @@ retired :> "CH" @@ euros :> "DE"

-----------------------------------------------------------------------------
(* Setup: by the form on the generic chart and by the chat on the Swiss    *)
(* one, with a sector whose till has a German name and whose second        *)
(* account the Swiss pack has no place for.                                *)

Account(leaf, within) == [leaf |-> leaf, within |-> within]
MCPrefix == "lambda" :> "LAMB" @@ "lambert" :> "LAMB"
MCVariants == "ch" :> <<"swiss">>
MCPackChart ==
    "generic" :> <<Account("Assets", <<>>), Account("Bank", <<"Assets">>), Account("Sales", <<>>)>>
    @@ "swiss" :> <<Account("Aktiven", <<>>), Account("Umlauf", <<"Aktiven">>),
                    Account("Post", <<"Aktiven", "Umlauf">>)>>
MCAnchors == "generic" :> ("cash" :> "Assets" @@ "tips" :> "Assets") @@ "swiss" :> ("cash" :> "Umlauf")
MCPackCurrency == "generic" :> "USD" @@ "swiss" :> "CHF"
MCPackDefaults == "generic" :> <<[field |-> "bank", leaf |-> "Bank"], [field |-> "income", leaf |-> "Sales"]>>
                  @@ "swiss" :> <<[field |-> "bank", leaf |-> "Post"]>>
MCPackTemplates == "generic" :> <<>> @@ "swiss" :> <<"Normalsatz", "Sondersatz">>
MCPackSalesTax == "generic" :> Empty @@ "swiss" :> "Normalsatz"
MCInLanguage == "generic" :> ("none" :> "none") @@ "swiss" :> ("Till" :> "Kasse")
MCSectors == "shop" :> [accounts |-> <<[anchor |-> "cash", leaf |-> "Till"], [anchor |-> "tips", leaf |-> "Tips"]>>,
                        defaults |-> <<[field |-> "income", leaf |-> "Till"]>>]
Setup(door, firmName, country, sector, confirm) ==
    [door |-> door, firm |-> firmName, country |-> country, variant |-> "", sector |-> sector,
     currency |-> Empty, confirm |-> confirm]
MCWanted == {Setup("form", "lambda", "us", "shop", FALSE), Setup("chat", "lambda", "ch", "shop", TRUE),
             Setup("chat", "lambda", "us", "", FALSE)}

-----------------------------------------------------------------------------
(* Closing and replicas                                                    *)

MCClosingRate == <<12, 9>>
MCKnows == old :> {1, 2} @@ fresh :> {1, 2, 3}

=============================================================================

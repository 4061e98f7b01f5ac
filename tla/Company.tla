------------------------------ MODULE Company ------------------------------
(***************************************************************************)
(* One company's books and the database they are kept in.  Each component  *)
(* below keeps tables of its own, and no step of one reads or writes a     *)
(* table of another; where two components do share state they are composed *)
(* before they come here (bills with bank matches, reports with the ledger *)
(* they read).  Any behaviour of the whole is therefore an interleaving of *)
(* behaviours of the parts, and a property of one part is settled by the   *)
(* behaviours in which only that part moves: `area` picks it at the start. *)
(***************************************************************************)
EXTENDS ControlAccounts, OrderProgress, Reservations, Reports, Subscriptions,
        Revaluation, StatementImport, Totals, Masters, Replicas, CompanySetup

VARIABLE area      \* the part that moves

companyVars == <<area, controlVars, orderVars, rentalVars, glVars, billingVars,
                 closingVars, importVars, totalsVars, masterVars, replicaVars,
                 setupVars>>

Areas == {"bills", "orders", "rental", "ledger", "billing", "closing", "import",
          "totals", "masters", "replicas", "setup"}

CompanyInit ==
    /\ area \in Areas
    /\ ControlInit /\ OrdersInit /\ RentalInit /\ GlInit /\ BillingInit
    /\ ClosingInit /\ ImportInit /\ TotalsInit /\ MastersInit
    /\ ReplicaInit /\ SetupInit
    \* A part that stays as it is need not start in more than one way.
    /\ area # "rental" => \A q \in RentalPapers : papers[q].customer = CHOOSE c \in Customers : TRUE
    /\ area # "orders" => trade = CHOOSE t \in Trades : TRUE

\* The step A of part p, whose state is v; every other part stays as it is.
Moves(p, A, v) == IF area = p THEN A ELSE UNCHANGED v

CompanyNext ==
    /\ UNCHANGED area
    /\ Moves("bills", ControlNext, controlVars)
    /\ Moves("orders", OrdersNext, orderVars)
    /\ Moves("rental", RentalNext, rentalVars)
    /\ Moves("ledger", GlNext, glVars)
    /\ Moves("billing", BillingNext, billingVars)
    /\ Moves("closing", ClosingNext, closingVars)
    /\ Moves("import", ImportNext, importVars)
    /\ Moves("totals", TotalsNext, totalsVars)
    /\ Moves("masters", MastersNext, masterVars)
    /\ Moves("replicas", ReplicaNext, replicaVars)
    /\ Moves("setup", SetupNext, setupVars)

CompanySpec == CompanyInit /\ [][CompanyNext]_companyVars

=============================================================================

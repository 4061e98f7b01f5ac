---------------------------- MODULE CompanySetup ----------------------------
(***************************************************************************)
(* Setting up a company: a localization pack gives the chart of accounts   *)
(* and the default accounts, a sector profile hangs accounts of its own    *)
(* under the pack's anchors, and the result is written row by row.  No     *)
(* transaction spans the rows: each is committed on its own, so a process  *)
(* may die, and another request may write, between any two of them.        *)
(* Charts and lists of templates are sequences, written in their order.    *)
(***************************************************************************)
EXTENDS Integers, FiniteSets, SequencesExt, FiniteSetsExt

CONSTANTS
    Firms,             \* companies
    Prefix,            \* Prefix[c]: the first four letters, which end its accounts' names
    Packs, Generic,    \* localization packs, one of them the fallback
    Variants,          \* Variants[country]: its packs, the default one first
    PackChart,         \* PackChart[k]: accounts [leaf, within], parents first;
                       \* within: the groups it is in, outermost first
    Anchors,           \* Anchors[k][anchor]: an account of the pack's chart
    PackCurrency,
    PackDefaults,      \* PackDefaults[k]: [field, leaf] for the company
    PackTemplates,     \* PackTemplates[k]: its tax templates
    SalesTitles,       \* those of them that are for sales
    PackSalesTax,      \* PackSalesTax[k]: the one that new sales take, or Empty
    InLanguage,        \* InLanguage[k]: the sectors' accounts in the pack's language
    Sectors,           \* Sectors[s]: [accounts, defaults], accounts [anchor, leaf]
    CoreDefaults,      \* the fields that make a company count as configured
    Wanted,            \* what is asked for: [door, firm, country, variant, sector, currency, confirm]
    Founders,          \* requests
    Empty,
    MaxSetups          \* bound

VARIABLES
    firm,              \* firm[c]: Empty, or [currency, defaults, salesTax, center, roundOff]
    chartOf,           \* the accounts there are: [name, parent, of, group]
    mainCenters,       \* cost centers "Main"
    taxTemplates,      \* tax templates: [name, of, rated], rated once its detail is stored
    founder,           \* founder[r]: the request under way
    foundTax,          \* history; foundTax[r]: the sales tax it found the company to have, {} once
                       \* somebody else has set another since
    setups             \* requests begun

setupVars == <<firm, chartOf, mainCenters, taxTemplates, founder, foundTax, setups>>

NoRequest == [at |-> "idle", how |-> Empty, want |-> Empty, tree |-> <<>>, alone |-> FALSE,
              before |-> Empty, back |-> Empty, next |-> 0, toSet |-> <<>>]

-----------------------------------------------------------------------------
(* What is planned *)

\* resolve_pack: the variant, else the country's default, else the fallback.
ResolvedPack(w) ==
    IF w.country \notin DOMAIN Variants THEN Generic
    ELSE IF w.variant \in ToSet(Variants[w.country]) THEN w.variant
    ELSE Head(Variants[w.country])

\* _find_node, and where the accounts below it end.
Lowest(tree, leaf) == Max({i \in DOMAIN tree : tree[i].leaf = leaf \/ leaf \in ToSet(tree[i].within)})
RowOf(tree, leaf) == CHOOSE row \in ToSet(tree) : row.leaf = leaf

\* _localize_name
Localized(pack, leaf) == IF leaf \in DOMAIN InLanguage[pack] THEN InLanguage[pack][leaf] ELSE leaf

\* _attach: under the account that the anchor stands for, unless the pack has no such
\* anchor or that account already has a child of this name.
Attachable(tree, pack, overlay) ==
    /\ overlay.anchor \in DOMAIN Anchors[pack]
    /\ \E i \in DOMAIN tree : tree[i].leaf = Anchors[pack][overlay.anchor]
    /\ ~\E i \in DOMAIN tree :
          /\ tree[i].leaf = Localized(pack, overlay.leaf)
          /\ tree[i].within # <<>> /\ Last(tree[i].within) = Anchors[pack][overlay.anchor]

Attach(tree, pack, overlay) ==
    LET parent == Anchors[pack][overlay.anchor]
        row == [leaf |-> Localized(pack, overlay.leaf),
                within |-> Append(RowOf(tree, parent).within, parent)]
    IN  IF Attachable(tree, pack, overlay) THEN InsertAt(tree, Lowest(tree, parent) + 1, row)
        ELSE tree

OverlayOf(w) == IF w.sector \in DOMAIN Sectors THEN Sectors[w.sector]
                ELSE [accounts |-> <<>>, defaults |-> <<>>]

\* _merge: the chart with the sector's accounts, and the sector's defaults in place
\* of the pack's.
PlannedChart(w) ==
    FoldLeft(LAMBDA tree, overlay : Attach(tree, ResolvedPack(w), overlay),
             PackChart[ResolvedPack(w)], OverlayOf(w).accounts)

\* The sector names its own accounts, those that were attached, in its language.
PlannedDefaults(w) ==
    LET pack == ResolvedPack(w)
        sector == OverlayOf(w)
        attached(leaf) == \E o \in ToSet(sector.accounts) :
                             o.leaf = leaf /\ Attachable(PackChart[pack], pack, o)
        own == [i \in DOMAIN sector.defaults |->
                  [sector.defaults[i] EXCEPT !.leaf = IF attached(@) THEN Localized(pack, @) ELSE @]]
        overridden == {own[i].field : i \in DOMAIN own}
    IN  SelectSeq(PackDefaults[pack], LAMBDA d : d.field \notin overridden) \o own

\* The fields of a company that some plan gives a default.
Fields == UNION {{d.field : d \in ToSet(PlannedDefaults(w))} : w \in Wanted}

\* The currency that was asked for, else the pack's.
PlannedCurrency(w) == IF w.currency = Empty THEN PackCurrency[ResolvedPack(w)] ELSE w.currency

\* An account is a group in a chart when there are accounts below it.
IsGroup(tree, leaf) == \E j \in DOMAIN tree : tree[j].within # <<>> /\ Last(tree[j].within) = leaf

\* What a company may look like.
Named(c, leaf) == <<leaf, Prefix[c]>>
DefaultAccounts == UNION {{Named(w.firm, d.leaf) : d \in ToSet(PlannedDefaults(w))} : w \in Wanted}
SalesTaxes == {Named(c, title) : c \in Firms, title \in SalesTitles}
Centers == {Prefix[c] : c \in Firms}
Configurations ==
    [currency : {PlannedCurrency(w) : w \in Wanted}, defaults : [Fields -> DefaultAccounts \cup {Empty}],
     salesTax : SalesTaxes \cup {Empty}, center : Centers \cup {Empty}, roundOff : Centers \cup {Empty}]

\* A chart is a tree, written from its roots; and a name that is a group in one of the
\* plans is a group in all of them.
ASSUME SetupAssumption ==
    /\ Empty \notin Configurations \cup DefaultAccounts \cup Centers
    /\ \A w \in Wanted :
          LET tree == PlannedChart(w)
          IN  /\ w.firm \in Firms /\ PackSalesTax[ResolvedPack(w)] \in SalesTitles \cup {Empty}
              /\ tree \in Seq(ToSet(tree)) /\ tree # <<>>
              /\ PlannedDefaults(w) \in Seq(ToSet(PlannedDefaults(w)))
              /\ \A i \in DOMAIN tree :
                    tree[i].within # <<>> => \E j \in 1..(i - 1) : tree[j].leaf = Last(tree[i].within)
              /\ \A v \in Wanted, i \in DOMAIN tree :
                    (\E j \in DOMAIN PlannedChart(v) : PlannedChart(v)[j].leaf = tree[i].leaf) =>
                        (IsGroup(PlannedChart(v), tree[i].leaf) <=> IsGroup(tree, tree[i].leaf))

-----------------------------------------------------------------------------
(* What is there *)

AccountThere(name) == \E a \in chartOf : a.name = name
Configured(c) == \E f \in CoreDefaults : firm[c].defaults[f] # Empty

\* _existing_state: configured already, or kept in another currency.
NeedsConfirmation(w) ==
    /\ firm[w.firm] # Empty
    /\ Configured(w.firm) \/ PlannedCurrency(w) # firm[w.firm].currency

SetupInit ==
    /\ firm = [c \in Firms |-> Empty]
    /\ chartOf = {} /\ mainCenters = {} /\ taxTemplates = {}
    /\ founder = [r \in Founders |-> NoRequest]
    /\ foundTax = [r \in Founders |-> {}]
    /\ setups = 0

\* plan_company_setup: what the user is shown before anything is written.
Plan(w) == [currency |-> PlannedCurrency(w), chart |-> PlannedChart(w),
            defaults |-> PlannedDefaults(w), asks |-> NeedsConfirmation(w)]

-----------------------------------------------------------------------------
(* A request *)

Now(r) == founder[r]
Turned(r, request) == founder' = [founder EXCEPT ![r] = request]
Conclude(r, how) == Turned(r, [Now(r) EXCEPT !.at = "answered", !.how = how])
NewFirm(w) == [currency |-> Plan(w).currency, defaults |-> [f \in Fields |-> Empty],
               salesTax |-> Empty, center |-> Empty, roundOff |-> Empty]

SalesTaxOf(c) == IF firm[c] = Empty THEN Empty ELSE firm[c].salesTax

\* company_sales_tax_templates
SalesTemplates(c) ==
    {t.name : t \in {u \in taxTemplates : u.of = c /\ \E title \in SalesTitles : u.name = Named(c, title)}}

\* Someone has set the sales tax of a company: what these requests found is no more.
Overtaken(c, others) ==
    [q \in Founders |-> IF q \in others /\ founder[q].at # "idle" /\ founder[q].want.firm = c
                        THEN {} ELSE foundTax[q]]

\* The sales tax that a setup leaves: its pack's standard rate, where it has one.
SalesTaxAfter(w, found) ==
    IF PackSalesTax[ResolvedPack(w)] = Empty THEN found ELSE Named(w.firm, PackSalesTax[ResolvedPack(w)])

\* A request begins, by the form for new companies or by the chat tool.  History:
\* the defaults it finds, and whether it has the company for itself.
BeginSetup(r, w) ==
    /\ founder[r].at \in {"idle", "answered"} /\ setups < MaxSetups
    /\ LET others == {q \in Founders \ {r} : founder[q].at \notin {"idle", "answered"}}
           found == IF firm[w.firm] = Empty THEN [f \in Fields |-> Empty] ELSE firm[w.firm].defaults
           request == [NoRequest EXCEPT !.at = IF w.door = "form" THEN "new" ELSE "state",
                                        !.want = w, !.tree = Plan(w).chart,
                                        !.alone = (others = {}), !.before = found]
       IN  founder' = [q \in Founders |->
              IF q = r THEN request
              ELSE IF q \in others THEN [founder[q] EXCEPT !.alone = FALSE] ELSE founder[q]]
    /\ foundTax' = [foundTax EXCEPT ![r] = {SalesTaxOf(w.firm)}]
    /\ setups' = setups + 1
    /\ UNCHANGED <<firm, chartOf, mainCenters, taxTemplates>>

\* create_company: refused when the company exists, and otherwise inserts it.
CheckNew(r) ==
    /\ Now(r).at = "new"
    /\ IF firm[Now(r).want.firm] # Empty THEN Conclude(r, "refused")
       ELSE Turned(r, [Now(r) EXCEPT !.at = "insert", !.back = "state"])
    /\ UNCHANGED <<firm, chartOf, mainCenters, taxTemplates, foundTax, setups>>

\* Two requests may both find no company: the primary key stops the second.
InsertFirm(r) ==
    LET w == Now(r).want
    IN  /\ Now(r).at = "insert"
        /\ IF firm[w.firm] # Empty THEN Conclude(r, "failed") /\ UNCHANGED firm
           ELSE /\ Turned(r, [Now(r) EXCEPT !.at = Now(r).back, !.next = 1])
                /\ firm' = [firm EXCEPT ![w.firm] = NewFirm(w)]
        /\ UNCHANGED <<chartOf, mainCenters, taxTemplates, foundTax, setups>>

\* apply_company_setup: a configured company needs a confirmation.
ReadState(r) ==
    LET w == Now(r).want
    IN  /\ Now(r).at = "state"
        /\ IF Plan(w).asks /\ ~w.confirm THEN Conclude(r, "refused")
           ELSE IF firm[w.firm] = Empty THEN Turned(r, [Now(r) EXCEPT !.at = "insert", !.back = "accounts"])
           ELSE Turned(r, [Now(r) EXCEPT !.at = "accounts", !.next = 1])
        /\ UNCHANGED <<firm, chartOf, mainCenters, taxTemplates, foundTax, setups>>

\* Faulty: an account that is there already is passed over with all that is below it.
Onward_Skipped(tree, i, there) ==
    IF ~there THEN i + 1
    ELSE Min({j \in (i + 1)..(Len(tree) + 1) :
                j > Len(tree) \/ tree[i].leaf \notin ToSet(tree[j].within)})

\* create_accounts_from_tree goes on to the children of an account that is there
\* already as well, so that a chart that was begun is completed.
Onward(tree, i, there) == i + 1

NewAccount(w, tree, i) ==
    [name |-> Named(w.firm, tree[i].leaf), of |-> w.firm,
     parent |-> IF tree[i].within = <<>> THEN Empty ELSE Named(w.firm, Last(tree[i].within)),
     group |-> IsGroup(tree, tree[i].leaf)]

\* On with the next account, or with the defaults.
Further(g, on) ==
    IF on > Len(g.tree) THEN [g EXCEPT !.at = "defaults", !.next = 1, !.toSet = <<>>]
    ELSE [g EXCEPT !.at = "accounts", !.next = on]

\* create_accounts_from_tree: looks for the next account ...
LookForAccount(r) ==
    LET g == Now(r)
        there == AccountThere(Named(g.want.firm, g.tree[g.next].leaf))
        on == Onward(g.tree, g.next, TRUE)
    IN  /\ g.at = "accounts"
        /\ Turned(r, IF there THEN Further(g, on) ELSE [g EXCEPT !.at = "account"])
        /\ UNCHANGED <<firm, chartOf, mainCenters, taxTemplates, foundTax, setups>>

\* ... and inserts it; another request may have done so in between.
InsertAccount(r) ==
    LET g == Now(r)
        row == NewAccount(g.want, g.tree, g.next)
        on == Onward(g.tree, g.next, FALSE)
    IN  /\ g.at = "account"
        /\ IF AccountThere(row.name) THEN Conclude(r, "failed") /\ UNCHANGED chartOf
           ELSE chartOf' = chartOf \cup {row} /\ Turned(r, Further(g, on))
        /\ UNCHANGED <<firm, mainCenters, taxTemplates, foundTax, setups>>

\* apply_company_defaults: the fields that are empty and whose account exists ...
ReadDefault(r) ==
    LET g == Now(r)
        planned == Plan(g.want).defaults
        d == planned[g.next]
        fill == /\ firm[g.want.firm].defaults[d.field] = Empty
                /\ AccountThere(Named(g.want.firm, d.leaf))
    IN  /\ g.at = "defaults" /\ g.next <= Len(planned)
        /\ Turned(r, [g EXCEPT !.next = g.next + 1, !.toSet = IF fill THEN Append(@, d) ELSE @])
        /\ UNCHANGED <<firm, chartOf, mainCenters, taxTemplates, foundTax, setups>>

\* ... are set in one statement.
SetDefaults(r) ==
    LET g == Now(r)
        c == g.want.firm
        for(f) == {d \in ToSet(g.toSet) : d.field = f}
    IN  /\ g.at = "defaults" /\ g.next > Len(Plan(g.want).defaults)
        /\ firm' = [firm EXCEPT ![c].defaults =
              [f \in Fields |-> IF for(f) = {} THEN @[f] ELSE Named(c, (CHOOSE d \in for(f) : TRUE).leaf)]]
        /\ Turned(r, [g EXCEPT !.at = "taxes", !.next = 1])
        /\ UNCHANGED <<chartOf, mainCenters, taxTemplates, foundTax, setups>>

\* setup_tax: a template is stored before its rate; one that exists is left alone.
LookForTemplate(r) ==
    LET g == Now(r)
        titles == PackTemplates[ResolvedPack(g.want)]
        there == \E t \in taxTemplates : t.name = Named(g.want.firm, titles[g.next])
    IN  /\ g.at = "taxes"
        /\ IF g.next > Len(titles) THEN Turned(r, [g EXCEPT !.at = "salesTax"])
           ELSE IF there THEN Turned(r, [g EXCEPT !.next = g.next + 1])
           ELSE Turned(r, [g EXCEPT !.at = "template"])
        /\ UNCHANGED <<firm, chartOf, mainCenters, taxTemplates, foundTax, setups>>

InsertTemplate(r) ==
    LET g == Now(r)
        name == Named(g.want.firm, PackTemplates[ResolvedPack(g.want)][g.next])
    IN  /\ g.at = "template"
        /\ IF \E t \in taxTemplates : t.name = name THEN Conclude(r, "failed") /\ UNCHANGED taxTemplates
           ELSE /\ taxTemplates' = taxTemplates \cup {[name |-> name, of |-> g.want.firm, rated |-> FALSE]}
                /\ Turned(r, [g EXCEPT !.at = "rate"])
        /\ UNCHANGED <<firm, chartOf, mainCenters, foundTax, setups>>

InsertRate(r) ==
    LET g == Now(r)
        name == Named(g.want.firm, PackTemplates[ResolvedPack(g.want)][g.next])
    IN  /\ g.at = "rate"
        /\ taxTemplates' = {IF t.name = name THEN [t EXCEPT !.rated = TRUE] ELSE t : t \in taxTemplates}
        /\ Turned(r, [g EXCEPT !.at = "taxes", !.next = g.next + 1])
        /\ UNCHANGED <<firm, chartOf, mainCenters, foundTax, setups>>

\* ch_setup_tax makes its standard rate the company's, also when another was set.
SetSalesTax(r) ==
    LET g == Now(r)
        template == PackSalesTax[ResolvedPack(g.want)]
    IN  /\ g.at = "salesTax"
        /\ firm' = IF template = Empty THEN firm
                   ELSE [firm EXCEPT ![g.want.firm].salesTax = Named(g.want.firm, template)]
        /\ foundTax' = IF template = Empty THEN foundTax ELSE Overtaken(g.want.firm, Founders \ {r})
        /\ Turned(r, [g EXCEPT !.at = "center"])
        /\ UNCHANGED <<chartOf, mainCenters, taxTemplates, setups>>

\* update_master: a user picks one of the company's templates for its sales, or none.
PickSalesTax(c, tax) ==
    /\ firm[c] # Empty
    /\ tax \in SalesTemplates(c) \cup {Empty}
    /\ firm' = [firm EXCEPT ![c].salesTax = tax]
    /\ foundTax' = Overtaken(c, Founders)
    /\ UNCHANGED <<chartOf, mainCenters, taxTemplates, founder, setups>>

\* setup_cost_center
LookForCenter(r) ==
    /\ Now(r).at = "center"
    /\ Turned(r, [Now(r) EXCEPT !.at =
          IF Prefix[Now(r).want.firm] \in mainCenters THEN "centerDefault" ELSE "newCenter"])
    /\ UNCHANGED <<firm, chartOf, mainCenters, taxTemplates, foundTax, setups>>

InsertCenter(r) ==
    LET name == Prefix[Now(r).want.firm]
    IN  /\ Now(r).at = "newCenter"
        /\ IF name \in mainCenters THEN Conclude(r, "failed") /\ UNCHANGED mainCenters
           ELSE mainCenters' = mainCenters \cup {name} /\ Turned(r, [Now(r) EXCEPT !.at = "centerDefault"])
        /\ UNCHANGED <<firm, chartOf, taxTemplates, foundTax, setups>>

\* Every setup that fills an empty field here fills in the same name.
FillCenter(r) ==
    LET c == Now(r).want.firm
    IN  /\ Now(r).at = "centerDefault"
        /\ firm' = [firm EXCEPT ![c].center = IF @ = Empty THEN Prefix[c] ELSE @]
        /\ Turned(r, [Now(r) EXCEPT !.at = "roundOff"])
        /\ UNCHANGED <<chartOf, mainCenters, taxTemplates, foundTax, setups>>

FillRoundOff(r) ==
    LET c == Now(r).want.firm
    IN  /\ Now(r).at = "roundOff"
        /\ firm' = [firm EXCEPT ![c].roundOff = IF @ = Empty THEN Prefix[c] ELSE @]
        /\ Conclude(r, "ok")
        /\ UNCHANGED <<chartOf, mainCenters, taxTemplates, foundTax, setups>>

\* The process dies: what is stored stays.
DieInSetup(r) ==
    /\ founder[r].at \notin {"idle", "answered"}
    /\ founder' = [founder EXCEPT ![r] = NoRequest]
    /\ foundTax' = [foundTax EXCEPT ![r] = {}]
    /\ UNCHANGED <<firm, chartOf, mainCenters, taxTemplates, setups>>

SetupNext ==
    \/ \E r \in Founders, w \in Wanted : BeginSetup(r, w)
    \/ \E c \in Firms, tax \in SalesTaxes \cup {Empty} : PickSalesTax(c, tax)
    \/ \E r \in Founders :
          \/ CheckNew(r) \/ InsertFirm(r) \/ ReadState(r)
          \/ LookForAccount(r) \/ InsertAccount(r)
          \/ ReadDefault(r) \/ SetDefaults(r)
          \/ LookForTemplate(r) \/ InsertTemplate(r) \/ InsertRate(r)
          \/ SetSalesTax(r) \/ LookForCenter(r) \/ InsertCenter(r) \/ FillCenter(r) \/ FillRoundOff(r)
          \/ DieInSetup(r)

SetupSpec == SetupInit /\ [][SetupNext]_setupVars

-----------------------------------------------------------------------------
(* Properties *)

\* A setup that has answered ok, whatever became of the attempts before it and of
\* those beside it, leaves the chart that its plan shows: every account under its
\* group, every default whose account the plan has filled, each with an account that
\* exists.  One that was not
\* disturbed has kept every default account that it found; but not the sales tax: unless its
\* pack has no standard rate, that rate is the company's now, whatever the user had picked.
SetupConverges ==
    \A r \in Founders : founder[r].at = "answered" /\ founder[r].how = "ok" =>
        LET g == founder[r]
            c == g.want.firm
            now == firm[c].defaults
        IN  /\ \A i \in DOMAIN g.tree : AccountThere(Named(c, g.tree[i].leaf))
            /\ \A a \in chartOf : a.parent # Empty =>
                  \E p \in chartOf : p.name = a.parent /\ p.group
            /\ \A d \in ToSet(Plan(g.want).defaults) :
                  (\E i \in DOMAIN g.tree : g.tree[i].leaf = d.leaf) => now[d.field] # Empty
            /\ \A f \in Fields : now[f] # Empty => AccountThere(now[f])
            /\ {firm[c].center, firm[c].roundOff} \subseteq mainCenters
            /\ g.alone => \A f \in Fields : g.before[f] # Empty => now[f] = g.before[f]
            /\ \A tax \in foundTax[r] : firm[c].salesTax = SalesTaxAfter(g.want, tax)
=============================================================================

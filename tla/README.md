# Lambda ERP: a verification project

These TLA+ modules model Lambda ERP where several users, server processes, restarts and
long sequences of legal steps meet: documents that settle each other, bank lines that are
matched to vouchers, goods, orders, rentals, the general ledger and its statements, prices
and totals, chats in which a language model takes turns, accounts and app connections, and
the processes that share one database. TLC checks the models on small instances; TLAPS
proves the central results for every number of users, documents and rows. Paths below are
relative to the repository (`src/`); `PROJECT.json` maps every definition to the lines it
models.

- [1. The system](#1-the-system): inventory, what each part keeps and promises
- [2. The modules](#2-the-modules) and how they correspond to the code
- [3. The runs](#3-the-runs): instances, bounds, what each shows
- [4. Fairness](#4-fairness)
- [5. The proofs](#5-the-proofs)
- [6. What was found](#6-what-was-found)
- [7. What is abstracted or left out](#7-what-is-abstracted-or-left-out)
- [8. What is next](#8-what-is-next)

Reading order: `BillRules`, `Receivables`, `Settlement`, then any of the other components.

## 1. The system

Lambda ERP is a Python server (FastAPI) over one SQL database. Any number of server
processes may serve one PostgreSQL database; a single process may use SQLite. Browser
tabs, REST and MCP callers and the chat agent all end in the same document services.

| Component | State it keeps | Operations | What makes it correct | Modules |
|---|---|---|---|---|
| Document lifecycle (`lambda_erp/model.py`, `api/services.py`) | `docstatus`, `discarded`, `modified` of every document | load, save, submit, cancel, discard | a write starts from the version it loaded; a submit or cancel does all of its work or none | Settlement |
| Transactions (`lambda_erp/database.py`) | one connection per thread | `atomic`, row and advisory locks, commit | nothing of a failed block stays | in each model |
| Receivables and payables (`accounting/*_invoice.py`, `payment_entry.py`, `journal_entry.py`, `settlement.py`, `workflow.py`) | `outstanding_amount` of every bill | submit and cancel of invoices, returns, payments, journal entries | the outstanding amount is the total less what is posted against it; nothing posted refers to something cancelled; the party accounts agree with it | BillRules, Receivables, Settlement, ControlAccounts |
| Bank reconciliation (`accounting/bank_reconciliation.py`) | audit rows, status and reference of each bank transaction | match with a new or an existing voucher, undo, cancel of a matched voucher | one active match per line; a leg is covered once, by lines that add up to it; confirmed money settles posted bills | Matching, BankReconciliation, ReconciledBooks |
| Statement import (`bank_statement_import.py`) | imported files, external ids | import | a booking is imported once however often it is uploaded | StatementImport |
| Chat (`api/chat.py`, `routers/chat_api.py`) | `Chat Session` with claim and lease, `Chat Message` | message, REST call, clear, delete, disconnect | one turn per chat; every question concludes; a dead process does not lock a chat | ChatTurns |
| Agent (`api/chat.py`, `demo_limits.py`) | the running turns, spend log, reservations | model calls, tools, reports, titles, transcriptions | tools run with the rights of the moment; the demo stays within its budgets | AgentLoop |
| Stock ledger (`stock/`) | `Bin`, `Stock Ledger Entry` | submit and cancel of everything that moves goods | bins equal the ledger; cancelling takes back what was posted; the books carry the cost | StockLedger |
| General ledger, budgets (`accounting/general_ledger.py`, `budget.py`) | `GL Entry`, `Budget` | post, merge, round off, reverse | every voucher balances; a Stop budget holds | GeneralLedger |
| Reports (`routers/reports.py`) | none | statements, chart, ledger pages, ageing | they agree with each other | Reports, ReconciledBooks |
| Orders (`workflow.py`, `selling/`, `buying/`) | moved and billed quantities, planned quantities of bins | convert, submit, cancel | progress is what is posted; a line is not fulfilled twice | OrderProgress |
| Rental (`assets/`) | `Asset`, `Reservation` | book, change, release, retire | a machine is in one place at a time; bookings fit the pool | RentalCalendar, Reservations |
| Subscriptions (`accounting/subscription.py`) | current period, status | edit, process, discard | each period is billed once | Subscriptions |
| Revaluation (`accounting/revaluation.py`) | its vouchers | collect, post with the reversal of the next day | one revaluation per day, taken back on the next | Revaluation |
| Prices, taxes, totals (`controllers/`, `selling/quotation.py`) | the document | save, convert | totals follow from the lines; saving again changes nothing | Totals |
| Masters (`master_integrity.py`, `validation.py`, `routers/masters.py`) | master records | create, structural edit, disable, delete | what refers to a record keeps its meaning | Masters |
| Company setup (`accounting/setup/`) | chart, defaults, templates | plan, apply | a setup that says ok has set up what it planned | CompanySetup |
| Accounts (`api/auth.py`, `oauth.py`) | users, invites, identities, flows | sign up, sign in, administer | an administrator remains | Accounts |
| App connections (`api/mcp_oauth.py`) | keys, codes, tokens | approve, exchange, refresh, revoke | a connection is one chain of tokens | AppGrants |
| Naming, migrations (`database.py`, `utils.py`) | series, migration markers | boot, migrate, take a number | no number twice; a migration once | Replicas |
| Lists (`api/services.py`, `time_filters.py`) | cached counts of each process | list, page, count, neighbours | counts are recent; neighbours follow the list | Lists |
| Notes (`api/record_notes.py`, `mentions.py`) | notes, inbox, request tickets | write, edit, delete, mark | the inbox follows the notes | TeamNotes |
| PDF, attachments, hooks, frontend, deployment | none that other parts depend on | render, upload | outside the models | |

How they interact. A submit (`Document.submit`) runs in one transaction: it locks the
document (`_check_write_state`), then every document and item it depends on
(`lock_workflow_references`), validates, runs `on_submit`, which posts to the general
ledger, the stock ledger and the outstanding amounts, refreshes the progress of orders
and saves. A cancel is its mirror image and also calls `reverse_generated_reconciliation`
for a matched voucher. Bank reconciliation creates, submits and cancels payments and
journal entries through the same lifecycle. The chat agent calls the document services
from worker threads between two steps of its turn.

What is hard here, and hard to test:

- *Interleavings of transactions.* PostgreSQL runs at READ COMMITTED: every statement
  sees what is committed when it starts. Only the explicit row locks make a check still
  true when its document is posted; the tests run on one SQLite connection, which
  serialises everything.
- *Reads before a transaction*: documents loaded, bank lines checked, revaluation lines
  collected, references of a master looked up, tokens read.
- *Work without a transaction*: a setup commits row by row, a sign-up statement by statement.
- *Locks in different orders*, which the database breaks by aborting one session.
- *Long sequences*: payment, return, cancel of the payment, cancel of the return; a document
  saved again and again; bookings, machines and vouchers changed in turn.
- *Time*: a turn that outlives its lease, a reservation that expires under its call, a
  cached count.
- *Crashes, retries and lost answers*, of uploads, token requests, subscriptions, setups.
- *Rounding*, of converted and merged lines, shares of a tax or a discount, exchange rates.

`PROJECT.json` lists each of these at the line where it bites, with the properties that
would catch it.

## 2. The modules

```
BillRules ── Receivables ── Settlement           rules → atomic workflows → transactions
                  │             implements Receivables
                  ReconciledBooks ── ControlAccounts ─┐
                    implements Matching               │
Matching ── BankReconciliation                        │
                 implements Matching                  │
RentalCalendar   Reservations ────────────────────────┤
                 implements RentalCalendar            │
GeneralLedger ── Reports ─────────────────────────────┤
OrderProgress, Subscriptions, Revaluation,            ├── Company
StatementImport, Totals, Masters, Replicas,           │
CompanySetup ─────────────────────────────────────────┘
ChatTurns, Accounts, AppGrants, AgentLoop, Lists,     ┐
TeamNotes ────────────────────────────────────────────┴── Services
StockLedger                                      transactions over bins and ledger
```

`X ── Y` means that Y extends X. `Money` holds the rounding of the amounts.
`MC…` modules hold the instances for TLC, `…Proofs` modules the theorems, one for each group of
components: `BooksProofs` (Receivables, Settlement, ReconciledBooks, ControlAccounts, GeneralLedger, Revaluation, Reports), `BankReconciliationProofs` (Matching,
BankReconciliation, StatementImport), `StockLedgerProofs`, `SalesProofs` (Subscriptions, OrderProgress, Reservations), `AssistantProofs`
(ChatTurns, AgentLoop), `AccessProofs` (Accounts, AppGrants) and `DatabaseProofs` (Masters, Replicas, Lists, TeamNotes,
CompanySetup).
`Sums` holds the lemmas about sums and orders that they share.
An operator such as `RefLocks_SettlementsOnly` is a faulty variant of the definition below
it, named for the mistake; it is used by no model, only to show that a property notices
the mistake.

### BillRules, Receivables, Settlement

A *bill* is a sales or purchase invoice or a return (the two sides are mirror images in
the code), a *settlement* a payment or a journal entry with references to bills. The bills of a till
(`TillBills`, POS invoices and their returns) open with what `Tendered` leaves of them (`Opening`), take nothing off
their original and keep their amount when they are cancelled (`Credit`, `ReversedOn`).
`BillRules` holds the state of the books (`status`, `outstanding`, and the history
variable `floored`) with the rules: `Valid` is what `validate()` requires,
`Releasable` what `validate_cancellation()` requires, `PostedOn` and `ReversedOn` what
`on_submit` and `on_cancel` write to the outstanding amount of a bill.

`Receivables` is the abstract specification: each submit, cancel and discard is one step.
`Settlement` is the code's way of doing it. A session is a request thread of any process:

| Step of a session | Code |
|---|---|
| `Load` | `cls.load(name)`, `Document.load`, outside a transaction; checks on the docstatus in memory |
| `TakeOwn` | `_check_write_state`: lock the own row and compare docstatus, discarded and `modified` |
| `TakeRef` | `lock_workflow_references`: one row after the other, sorted |
| `Validate` | `validate()`, `validate_cancellation()` |
| `Post` | `on_submit`, `on_cancel`: read the current outstanding amounts |
| `Commit` | the final save and the commit: writes appear, locks go |
| `Refuse`, `Fail`, `Victim` | a check fails; the process, connection or a statement dies; PostgreSQL aborts one session of a deadlock |

`Dialect` chooses the locking: rows on PostgreSQL, the whole database on SQLite, where
`BEGIN IMMEDIATE` admits one writer. The refinement needs no mapping: Settlement has the
variables of Receivables, and `Serializable == BooksSpec` is checked and proved of it.

### Matching, BankReconciliation

`Matching` has the audit rows (`active`) and the vouchers (`posted`) and one step per
operation: `Create` (match with a voucher made for the purpose), `Link` (a group of bank
lines with one leg of an existing voucher), `Unlink`, `CancelVoucher`.
`BankReconciliation` adds the bank table (`reference`), sessions, row locks and the
unique indexes of `Bank Reconciliation` (an insert that collides with a row another
session is updating waits). Each request is `Request…` (what it reads before its
transaction), `Begin`, `Take` (one lock), `Read` (what it reads and checks inside),
`CommitMatch` or `CommitUndo`, or `Rollback`. Again `Serializable == MatchingSpec`.

### ChatTurns

A handler is one request at work: a chat of one connection or a REST call. The stages of
`job[h].pc` follow `chat_websocket` and `_run_chat_turn`: `claim`, `save` (the question),
`think`, `call` (a tool), `release`; `check` and `purge` for clear and delete. The claim in
the session row (`holder`, `expired`) is the conditional UPDATE of `claim_session_turn`.
Code without an `await` runs alone in its process (`LoopFree`); the REST route that
deletes runs in a worker thread (`OffLoop`). `Disconnect` leaves a turn running as
`detach_turn` does, `Crash` kills every handler of a process, `Lapse` is the clock
reaching `active_turn_until`. The constant `Outlive` says whether a turn may take longer
than its lease.

### StockLedger

A document is a kind and a sequence of rows (from bin, to bin, quantity, rate). Four
kinds are what the stock ledger tells apart: stock entries, purchase receipts, purchase
invoices with `update_stock`, and sales (delivery notes, sales and POS invoices); the fifth are the
orders they fulfil, which move nothing. `Leg` is
the movement a row passes to `make_sl_entries`; `Movement` what a cancel passes instead,
either read back from the ledger or flipped by `reverse_stock_sles`; `RateOf`, `Averages`
and `Overdrawn` are `update_stock_values`; `Booking` is what reaches the stock account.
A session locks its row, then the original of a return and the orders its rows name, sorted by table and
name, then the items in sorted order (`Referenced`, `NextLock`). It posts its movements on a private copy
of the bins: it reads a Bin without a lock (`Load`), writes it in a later step, which locks its row (`Post`), then locks the Bin of each line of its orders
(`Refresh`, the locks of `refresh_planning`; what it computes is in OrderProgress), and commits. The properties compare the
bins, and the stock account, with sums over the entries of all vouchers (`QtyIn`, `CostIn`);
the model keeps no running total beside them.

### ReconciledBooks, ControlAccounts

`ReconciledBooks` puts `Receivables` and `Matching` together: the vouchers of Matching
(`Banked`, `Made`) are the settlements of Receivables, so `PostMatched` is one step of both,
`LinkPosted` and `UnlinkPosted` are steps of Matching, `CancelDocument` runs the cancel hook
`reverse_generated_reconciliation`, and `Bank == INSTANCE Matching WITH …` names the second
component. `Aged` is what `_ar_aging` rebuilds for a bill from the documents as of a date: payments and
returns of a later date (`DateOf`) do not count, and bills of a till, which it does not read, have no row.

`ControlAccounts` adds the lines every submit books (`Book`): a bill in parts at its own
rate, what was paid or refunded at the till, a payment that clears each bill at the rate of the bill
(`_party_ledger_base`) and moves the bank at the rate of the day, transfers between
accounts of different currency, gains and losses, and the exchange rates of a date
(`get_exchange_rate`, direct or inverse, the latest before the date).

### OrderProgress, Reservations

A desk of `OrderProgress` is a request that submits or cancels an order or a voucher:
`RequestPaper` (load), `LockPaper` (own row, then `lock_workflow_references`), `PostPaper`
(checks and `refresh_order_progress`), `PlanBin` (`refresh_planning`, one locked bin at a
time), `CommitPaper`. A bin has a planned quantity per kind of order (`reserved_qty`,
`ordered_qty`), and a request writes only that of its own orders. There is one action per converter (`MakeDeliveryNote` ...
`MakePurchaseReturn`): it proposes what is open, less what the user keeps back. `trade` says
which orders there are and what kind of document each name becomes.

A clerk of `Reservations` saves or discards a booking, a machine or a voucher:
`RequestRental`, `LockRental` (row, machine, item, in the order of the code), `WriteRental`
(the validations on committed data), `CommitRental`. `RentalCalendar` is what all that is
for, with no requests at all: every claim can be met at every moment.
`KeepsCalendarPromise == Calendar!CalendarSpec` states that committed bookings, usable
machines and standing vouchers, mapped by `INSTANCE RentalCalendar WITH`, behave so.

### GeneralLedger, Reports

`Processed` converts, merges, rounds and switches the sides of the lines of a voucher
(`process_gl_map`), `WithRoundOff` adds the line for what does not balance, `WithinBudget` is
the check of an expense line. A till posts in the steps `StartPosting`, `CheckBudget` (one
lock and query each) and `CommitPosting`; `CancelPosting` mirrors the entries.
`Reports` defines the statements over the entries, `TrialBalance`, `NetProfit`,
`BalanceSheet`, `ChartBalance`, `LedgerPage`, with the presentation currency. The loops up the
`parent_account` links are `Ancestors`, a least set; the order of a ledger is `ByDay`, the row at
each place being the one with so many rows before it. `ReportsAssumption` says which charts are meant: roots that are shown,
groups with accounts of their own kind, and vouchers on accounts that are no groups. The code does not refuse a
voucher on a group (the comment says that entries "normally land on leaves", `reports.py:139`), and the trial balance
would leave it out.

### Totals

`Filled` is what one save does to a sheet: list prices (`Defaulted`), pricing rules
(`Ruled`), line discounts (`Discounted`), taxes (`Exclusive` backs included ones out,
`Taxed` distributes the rows), the document discount on net or grand total (`Spread`,
`WithRebate`) and, for an offer with recurring lines, the totals of the one-time part
(`HeadlineOnly`). `Edits` are the changes a user makes between two saves; `ConvertSheet` is the
way from quotation to order to invoice, or past the order.

### Subscriptions, Revaluation, StatementImport

The three operations that a scheduler or a client repeats. Each begins with what it reads
outside its transaction (`LoadPlan`, `Collect`, `PreviewUpload`), then locks or inserts, then
commits; `GiveUp`, `DropRevaluation` and `AbortImport` are failures and lost answers. `Parsed` reads a
statement as `camt.py` does: placeholders are no references, and a statement whose booked
entries do not lead from its opening to its closing balance is warned about. What a file brings into the
books is `AfterFile`; which of the files are still to be read is a set of places in the upload (`Prepared`).

### Masters, Accounts, AppGrants

In `Masters`, `LockMasters` and `AlterMaster` are `_update_master_record` under the exclusive lock,
`AskDelete` and `DeleteMaster` the check before and the work inside the transaction of a
delete, `ValidateLink` and `StoreLink` a document that refers to a master.
In `Accounts` a request is a sequence of statements that commit one by one, `Gate` decides
who may sign up. `Boot` is a start of a process: it seeds the administrator of the environment if there is one,
and a demo container (`LAMBDA_ERP_AUTO_DEMO`) opens the public demo or else sign-up, with or without an
administrator (`main.py:85-98`, `bootstrap.py:133-153`).
In `AppGrants`, `chain[k]` is the sequence of token pairs of a connection; `ReadToken` and
`ClaimToken` are the two halves of a token request (read, then conditional update).

### AgentLoop

A caller is a turn, the generation of a title or a voice recording to transcribe. `Preflight`, `Reserve`,
`CallReturns`, `Record` are `check`, `reserve`, `settle` and `record` around one call; `RefreshPrincipal` and
`RunTool` the boundary of a tool and its work; a report tool calls the model itself. `Transcribe` checks and
calls without a reservation, as the code does for voice (`chat.py:4596-4645`). A call may cost more than
its estimate, up to `Dearest`; a budget is the one of all addresses (`Everyone`) or of one address.

### Replicas, Lists

A process of `Replicas` boots (`StartupLock`, for each missing migration `CommitPart` and `Mark`,
then `Serve`) and then takes numbers (`TakeNumber`, and for a new prefix `ReadFloor`,
`SeedSeries`), or dies at any point. `Splitting` are the migrations that commit on the way.
`Lists` keeps every version of the tables; a reader fetches the rows of a page and counts in
separate statements, with the cache of its process between. `Listing` is the ORDER BY (`InOrder`: each
row at the place of its rank), `Adjacent` the keyset comparison of the neighbours (`Closest`).

### CompanySetup, TeamNotes

`Plan` resolves pack, variant and sector; `LookForAccount`/`InsertAccount` and the steps after them
write it row by row. A request is one record (`Turned` replaces it), with the history fields `alone` and
`before` and the history variable `foundTax` for what it may expect to find unchanged. `PickSalesTax` is a user who sets
the company's standard sales tax at any time; users' edits of its default accounts are left out. In `TeamNotes` every task is a transaction of several statements
that keeps its row locks (`rows`) to its end; `ClaimTicket` is the insert that recognises a
repeated request.

### Company, Services

The components that share no table with each other, side by side: `Company` those of the
books and their database, `Services` those around them. No step of one reads or
writes a variable of another, so each property is decided by the behaviours in which only
its own part moves; `area` or `service` chooses that part in the initial state, which keeps
the state space the sum and not the product of the parts.

## 3. The runs

| Run | Instance | Properties |
|---|---|---|
| `settle_postgres` | 2 sessions, PostgreSQL; an original of 3, a return of 2, a journal entry of 1 against 1; drafts are edited | every behaviour is one of Receivables; no write over a version that was not loaded; every request ends |
| `bank_postgres` | 2 sessions, 2 lines, 3 vouchers, 2 groups | legs covered exactly, a shown match is active, every behaviour is one of Matching |
| `chat_outlive` | 1 process, 2 handlers, turns may outlive their lease | a claim ends by its own turn or with its chat; every question concludes and every claim ends |
| `stock` | 2 sessions, 11 documents of every kind, one an order, 2 items, 3 bins, 4 documents posted | bins equal the ledger, cancels leave nothing, books carry the cost, returns within the original, circles of waiting only through a request that plans orders or returns an ordered receipt |
| `company` | `MCCompany`: 11 parts, two interchangeable requests in each | 19 properties of the parts, below |
| `services` | `MCServices`: 6 parts, two requests in each | 8 properties of the parts, below |
| `books_restored`, `bank_shown`, `chat_lease`, `stock_value`, `lists_exact`, `totals_conversion` | small instances of Receivables, BankReconciliation, ChatTurns, StockLedger, Lists and Totals | one property each that the code does not have; see [6](#6-what-was-found) |

What `company` and `services` show of each part:

| Part | Instance | Properties |
|---|---|---|
| bills | an invoice and its return, a purchase, a part-paid sale of a till and its return, payments and a transfer in three currencies and of two dates, a journal entry, 3 bank lines on 2 accounts | `ConfirmedMoneySettlesBills`, `AgingMatchesOutstanding`, `ControlMatchesOpenItems` |
| orders | one bin for a sales and a purchase order with a note and two direct invoices, for two sales orders of which one is delivered and billed, and for a purchase order with two receipts and a direct invoice or two invoices | `ProgressIsPosted`, `LinesNotOverfulfilled`, `PlanIsOpenDemand` |
| rental | 2 machines of one item, 2 pools, 2 bookings, a voucher, 4 moments | `KeepsCalendarPromise` |
| ledger | 4 vouchers with odd amounts, a Stop and a Warn budget, a disabled account | `EveryVoucherBalances`, `CenterWithinBudget`, `StatementsAgree` |
| billing, closing, import | a plan of up to 3 periods; two accounts and days; 5 statements of 2 accounts with repeated, unnamed, pending, batched and undated bookings | `EachPeriodBilledOnce`, `RevaluedOnceAndTakenBack`, `EachBookingImportedOnce` |
| totals | 2 items, 2 lines, 3 tax tables, 3 rules, 4 changes | `TotalsAddUp`, `SavingAgainChangesNothing` |
| masters, replicas | 2 masters and a referrer; an old and a new revision, 3 migrations | `MastersKeepTheirMeaning`, `NumbersAreFresh`, `MigratedOnceThenServed` |
| setup | 2 attempts at 3 kinds of setup on 2 packs | `SetupConverges` |
| *services:* chats | 2 processes with a handler each, one chat, 2 questions, 1 tool call per turn; no turn outlives its lease | `OneTurnAtATime` |
| accounts, grants | 2 addresses, an invite, a subject, a flow; a key with 3 token pairs | `AdminRemains`, `ConnectionIsOneChain` |
| agent | a demo turn, title and recording, an administrator's turn; calls that cost twice their estimate | `DemoSpendBounded`, `ToolsUseLiveRole` |
| lists | 6 rows with ties and missing values, 2 processes | `CountsAreRecent`, `NeighboursFollowTheList` |
| notes | 2 notes, 2 colleagues, 3 tasks | `InboxFollowsNotes` |

Why these bounds are enough to meet the hard cases:

- *Two requests at a time* in every part is what each of its races needs: one that read,
  and one that writes in between. Where a third could matter (a session waiting for a lock
  whose holder waits), the theorems of section 5 hold for any number.
- *Settlement.* The return after the entry, the entry after the return and the edit of a draft
  that the other session has loaded all occur; the entry locks the two rows in the
  opposite order of the return. `MaxModified` bounds how often a document is saved.
- *Bank reconciliation.* Two lines make up a leg that neither makes up alone, and either of
  them alone the leg of another voucher; two sessions cover each pair of requests.
  `Groups` bounds the number of group ids ever used.
- *Chat.* `MaxTurns` and `MaxCalls` bound the questions and the tool calls. Two turns are enough
  for any two to meet, with a check or a delete between them; the proofs remove the bound.
- *Stock.* `MaxPosted` bounds the documents that leave draft. With four, a receipt, an
  issue, a transfer and a return or a cancel can meet in any order.
- *Amounts* are chosen so that the case happens: a return that meets the floor, rates whose
  products do not come out in cents (1.05, 1.071, 0.333), a voucher with two lines on one budgeted
  account, a discount and tax rows that refer back, a rule that loses its band.
- *Bounds of histories*: `MaxChanges` edits of a sheet, `LastDay` of billing, `MaxForeign` trades and
  `MaxVouchers` revaluations, `MaxTokens` pairs, `MaxNumber` names, `MaxStatements` writes of the lists,
  `MaxSetups`, `MaxNotes` and `MaxTasks`. Each allows one repetition more than a violation by the
  mutants needs.

Deadlock is not checked where the system really stops: when every document is cancelled
or discarded, or the bounded groups, questions and histories are used up. That running
requests do not block each other for good is stated by `EveryRequestEnds`, `NoWaitCycle`
and `EveryTurnConcludes` instead. Requests are interchangeable in `stock`, `company` and
`services`, which use symmetry; none of them checks liveness.

For each property of a passing run, `PROJECT.json` names a plausible bug (a lock not taken,
a key read too early, a filter weakened) with which TLC finds the property violated.

## 4. Fairness

- *Settlement, `FairSpec`*: strong fairness of the steps of each session. PostgreSQL
  serves the waiters of a row in order, so a session that can get a lock again and again
  gets it, and its deadlock detector aborts a session of every circle (`Victim`, part of
  the steps). Nothing is assumed about clients: nobody has to send a request.
- *ChatTurns, `FairSpec`*: strong fairness of the steps of each handler, because the event
  loop serves ready tasks in order, worker threads finish, and calls of the model have a
  timeout; weak fairness of `Lapse`, because the clock reaches every deadline. A crash is never
  required. That the tool loop ends is not assumed: it follows from `MaxCalls`, which
  stands for the limit of iterations of a turn.
- The other specifications are used for safety only and state no fairness.

## 5. The proofs

TLAPS checks each of these for all values of the constants that satisfy the named
assumptions of the modules (`BillAssumption`, `SettlementAssumption`, `MatchingAssumption`,
`BankAssumption`, `ChatTurnsAssumption`, `StockAssumption`, `AccountsAssumption`,
`GrantAssumption`, `GlAssumption`, `OrdersAssumption`, `RentalAssumption`, `ClosingAssumption`, `StatementAssumption`, `NotesAssumption`, `ReportsAssumption`, `ControlAssumption` and those of
Subscriptions, Masters, Replicas, Lists, AgentLoop and CompanySetup: disjoint sets, functions with the right domains, finite
sets of vouchers, bins and lines, an injective sort order of the rows that are locked, ranks from 1 to 3, limits of budgets that are
not negative, because `budget.py` refuses others, rows of a purchase receipt that name no bin to take
from, names and values of listed rows that can be compared, and charts of accounts that are trees, in which a
name is a group in every plan or in none, as in the packs and profiles of the repository).

**Settlement implements Receivables** (`BooksProofs!Implementation`). None of the safety properties
is inductive: that a payment is valid when it commits does not follow from the books, but
from the locks its session holds. The invariant `LockInv` is two-phase locking
spelt out: a session past `_check_write_state` holds its own row and finds it as loaded
(`HoldsOwn`); it holds every referenced row it is not still waiting for (`HoldsRefs`);
once its checks have passed they stay true (`StillAllowed`), and what it read to compute
the new amounts is still current (`StillCurrent`). A commit of another session could
falsify one of these only by writing a row that is held. It follows that a commit is a
step of Receivables and everything else a stutter; this carries the invariant
`NoOrphanAllocation` of Receivables over to any number of sessions (`ConcurrentAllocationsBacked`), and
`FreshWrites` follows from `HoldsOwn`.

**What a bill shows is what is left to pay** (`ConcurrentAmountsExact`). `AmountsInv` compares each stored amount with the sums over
the posted documents: equal unless a return was ever cut off at the floor (`Exact`), never less
(`Enough`), and no invoice is returned beyond its total (`ReturnedPart`). It is inductive only with
`BooksInv`: that nothing posted refers to a draft makes the opening amount exact, and a posted
settlement or return adds one summand (`PostingSums`), its cancel takes the same one off. The refinement
carries it over to any number of sessions.

**Bank, bills and report** (`ConfirmedMoneyStands`, `AgingAgreesWithBills`). A step of ReconciledBooks is a workflow of Receivables
or leaves the books alone (`ReconciledStepsBooks`), so that `AmountsInv` holds here too; with
`MatchedPosted` (a match goes when its voucher is cancelled) what the bank has confirmed stands. The
report's sum and the stored amount are parts of one sum, split by the kind of voucher and by date (`AgingAgrees`).

**The party accounts are the open items** (`ControlAccountsMatch`). Besides `AmountsInv` the induction needs only
`PostedAreBooked`: a posted document has the lines that were booked with it, and nothing else has any. The rest is
arithmetic in three parts. Each document's lines on an account are, to half a cent each, what it weighs there before
rounding (`NearWeight`, one lemma for each kind of document; a journal's are exact, since its rows have to come out in whole
cents). Together the posted documents weigh the unsettled part of every posted bill, at the rate of the bill, less what
payments keep on account: the allocations are added up by settlement in the account and by bill in the open items, which is
`SumBothWays` (`WeighedExact`). And what is open by `AmountsInv`, with what tills left, is that unsettled part, less what was
returned of an original, plus the same amount on its returns (`OpenCovers`), which cancels out by `SumByGroup`, as
a return has the account and the rate of its original (`HandedBackIsZero`). `ControlAssumption` says
what the documents of one company are: a payment has the direction, party and account of the bills it refers to, as
`_validate_references` demands; a return keeps the rate of its original; and nothing else posts to a party account. The
last is a restriction: the code does not keep a journal row without a reference, or an income account that is a party's,
away from it.

**BankReconciliation implements Matching** (`BankImplementation`). Here locks are not
enough, because payments are checked before their transaction. The invariant `BankInv`
says what a request may still rely on: whoever read a voucher as submitted holds its
row; what an undo found stays a superset of its group, because groups never grow and ids
are never reused; a voucher under creation is unknown to everybody else. The unique
indexes do the rest at the commit. Of the abstract operations it is proved
that each line has one match, that a leg is covered by lines that add up to it, and that a
created voucher stays matched; `ConcurrentMatching` carries it over.

**One turn per chat** (`OneTurnPerSession`, `HistoryInOrder`, `DeletedLeavesNothing`), if
no turn outlives its lease. That a claim ends only by its own turn or with its session (`ClaimsAreOwn`) holds either way.
`TurnInv` adds to the property that whoever is in a turn of
an existing chat holds its unexpired claim (`HoldsClaim`). For the order of the messages,
a second invariant (`StillLast`) says that only messages of stateless calls follow those
of the turn at work.

**The bins are the ledger** (`BinsAreTheLedger`, `NoSubmitOverdraws`, `NoCircleOfWaiting`).
`StockInv` says that a posting session holds every item it names, so that the copy it
works on is the committed bin plus what it has moved itself, and that the rows it holds rank
below those it waits for. Given a circle without the two kinds of requests that `OutOfOrder` names, take the
session in it that waits for the row of highest rank: the holder of that row waits for one of higher rank still
(`HigherRowNeeded`). Nobody in it waits for a bin, since whoever holds one without its item is planning
(`PosterWaitsForPlanner`).

**What is posted is what was to be moved** (`CancelsLeaveNothing`, `BooksShowTheCost`, `ReturnsFit`). `PlanInv` follows the movements
of a request: what it has posted to a bin adds up to the movements of its document less those that are left to do,
in quantity, and in value where each movement states its rate; what it books is the cost
it posted. A submitted voucher therefore has the sums of its rows, and a cancel, which moves the opposite
of each, leaves nothing, whatever was posted in between. What was returned is a sum over the
other returns of the same original: its row lock keeps them away between the check and the commit (`ReturnFits`).

**Where account and bins part** (`AccountPartsOnlyThere`). `AccountFollowsBins` is what remains true of the claim that
`StockAccountMatchesBins` refutes ([6](#6-what-was-found)): the value of the bins and the stock account differ by what two kinds of
documents posted to one and not to the other, returns of purchases and cancelled documents that moved at the average.
The value of a bin is a sum over vouchers and the account a sum over bins; that both orders of adding up agree is
`SumBothWays` and `SumByGroup`.

**An administrator remains** (`AnAdminRemains`). `AdminRemains` is not inductive: a sign-up
decides on its role before it inserts the account, and a change is checked before it is
written. `Justified` says what a request under way may rely on: a sign-up that began among
users goes on among users, the first one makes an admin, and an account change that nobody
has outrun leaves another admin or makes one. Accounts and admins only grow, except by
`WriteChange`, and that step outruns every other change under way. A `Boot` that opens the demo before anybody
has an account is the one step that ends with accounts and no administrator, and `unattended` records it.

**A connection is one chain** (`ConnectionsAreChains`). Every token but the last of a chain is
spent (`Narrowing`), so whoever claims an unspent token claims the last one, and the next pair
goes behind it, within the scope the claim was read with (`ClaimInOrder`). A second answer
for a refresh token revokes the key in the same step, a key is never used for a second chain, and
scopes never change, whence the ranks only narrow (`RankNarrows`).

**Every voucher balances** (`VouchersBalance`). `LedgerInv` says of a draft that nothing of it is stored, of a
posted voucher that its entries are live and add up to nothing (`Balanced`), of a cancelled one that
they do so on every account (`Undone`). That what is posted balances is arithmetic: the round-off
line is the negated sum of the entries, whatever conversion, merging and rounding have left. That
what a cancel leaves does so is a pairing: each entry and its mirror (`MirrorBalances`). If the
company has no account to round off to, the property promises nothing, and neither does the code.

**Cost centers keep their budgets** (`CentersKeepBudgets`). The code compares one line at a time with the sum
of the account, and stores all lines of the voucher later. `BudgetInv` therefore speaks of the room a
budget has left (`Room`: its limit and the credits the code counts or loses, less what is charged): while
a till holds the lock of a budget, each line it has checked fits into that room (`TillsChecked`), since
another till could only charge the budget by checking a line of its own under the same lock. When
the voucher is stored its largest line takes what was checked and the rest of its lines are what
nobody has seen (`Unseen`); hence the room and what was posted unseen (`Alone`) are together never
negative (`BudgetsHold`). A cancel gives the room back what the voucher had debited, which is at
least what it removes from the unseen. The attempt to prove an earlier form of `CenterWithinBudget` failed for a good reason: a
credit note of another cost center makes room in the sum of the account, and a budget on an
account that is no expense is never checked. The property now says both.

**Orders** (`ProgressFollowsPostings`, `OrdersAreNotOverfulfilled`, `PlansFollowOrders`). A sum over vouchers is only true until
another voucher commits. `OrderInv` says that every change to the lines of an order is made under the
lock of the order, so that the sums a desk has taken over these lines, its own document included, are
still those of the posted vouchers when it commits (`RowsHeld`, `RowsSaved`); that what its checks found possible
stays possible (`VouchersSound`); and that a bin the desk has planned is under its lock and
planned with exactly what the commit makes true, as orders which share the bin are refreshed one
after the other. The same invariant gives all three theorems.

**Each period is billed once** (`PeriodsAreBilledOnce`). The invoices of a plan are consecutive periods that end
where the plan bills next. A caller that loaded the plan earlier bills under its row lock and
from the row it reads there, so that the chain only grows at its end.

**Reservations implements RentalCalendar** (`CalendarIsImplemented`). What a save checks is true of the committed rows it reads;
that it is still true at its commit follows from the locks. `RentalInvariant` says that a request holds, or has
still to lock, its row, what the new and the stored version of the row name, and the item of every machine it holds
(`Covered`), so that with nothing left to lock no other request can commit a booking, machine or voucher
of the same machine, voucher or pool; what it checked stays valid (`StillValid`, `BesideCommit`). The rows themselves are
`Sound`: each booking stands on its machine and voucher, pinned bookings that meet have machines of
their own, and at no moment does a pool hold more than its machines. A checked booking fits in
(`BookingCommits`), since whatever it meets at one moment is among what it was counted against. A machine may
leave its pool (`MachineCommits`) when only pinned bookings hold others: each of them has a machine of its own
among those that stay (`MachineEach`). Hence a commit is one change of the calendar or
none, and nothing else changes it.

**The statements agree** (`StatementsAlwaysAgree`). Every statement is a sum of the live entries, taken in another
order: by account (`SidesByAccount`), by voucher (`PeriodsBalance`, from `VouchersBalance`), by kind of account
(`KindsBalance`) or by root (`RootsShowTheirKind`). They are one sum because each entry is on a leaf (`StatementsInv`) and
each account is below one root only (`OneWayUp`), of its own kind (`AncestorsAreAlike`). A ledger is its entries, each
once (`LedgerListsAll`): the ranks of an order are as many as its members and no two are the same (`EachHasItsPlace`). What precedes a page and
what is on it are two stretches of the same rows (`PagesGoOn`).

**A revaluation is taken back** (`RevaluationIsTakenBack`). `ClosingInv` adds to the property who may be about to
post: only the holder of the company's lock, and for a day that has no voucher (`PosterHoldsDay`). That
accounts and days keep no amount is arithmetic over the rows of the two vouchers that one commit posts: what
one brings to an account the other takes (`ReversalTakesBack`), and each adds up to nothing by its line
on the exchange account (`VoucherNets`). It rests on `ClosingAssumption`: that account is none of those that are revalued.

**Each booking is imported once** (`BookingsAreImportedOnce`). `ImportInv` says of the committed lines, and of what an open
upload has read, that every line stands for a booked entry of a statement (`Grounded`), that no external id has two
lines (`OneLineEach`), and that each statement read has a line for all of its booked entries (`Complete`), its own or one
of an earlier file. Two lines of one booking then have different ids, so that one was named by its place; and since
in a statement without warnings entries and ids correspond, its lines add up as its entries do. A commit keeps this because
the unique indexes refuse a source or an id that another upload has committed. It rests on `StatementAssumption`, what
a bank sends: a booking comes with the same references in every file, a reference stands for one booking, and so does a place in a
statement for entries without reference; an entry is booked or pending, and comes twice in a
statement only if the balances are wrong. An export under the same statement id that shifts entries without a
reference is outside: the code would take one for the other, and the preview warns of such entries.

**Masters, numbers, migrations and counts** (`MeaningIsKept`, `NumbersStayFresh`, `MigratedOnce`, `CountsStayRecent`). What a request
relies on is named in each invariant: a reader of a master holds it shared and still finds the
structure it validated against, unless the master is deleted; the value of a series is ahead of every
number stored or in use, once it is seeded from the highest of them; only the holder of the startup
lock writes markers; a cached total was true at its stamp or later.

**Neighbours in a list** (`NeighboursInOrder`). Prev and next must walk the list as it is shown, and they do not read it: they ask
for the closest row beyond this one (`Closest`). The ORDER BY is a strict order of the rows (`IsOrder`), so that
the number of rows ahead of each is its place, every place is taken once (`Placed`) and later places
are later rows (`Later`); and the keyset condition, with its four cases for rows without a value and for ties, is the
same order (`KeysetFollowsTheOrder`). The closest row beyond one is then the one at the next place (`WalkIsTheList`).

**Setups converge** (`SetupsConverge`). No transaction spans a setup, and others may die or write between any two
of its steps. `SetupInv` rests on what no step takes back: accounts and cost centers are only added, a field that is
set is never emptied (`OnlyMore`). Hence what a request has brought about stays (`PromiseIsKept`): `Promised` says at each
stage which accounts of its chart exist, which defaults are set or about to be, and where the
cost center is filled in. That groups exist as groups follows from the charts of all plans, since an account may
have been made by another plan (`ChartIsPlanned`). What a request found is kept if it was alone from its beginning
to its end: the only step that replaces a default is one of a request that read it as empty (`ToReplace`). A second
invariant follows the sales tax (`TaxInv`): as the request found it, or from its own step on as its pack has it, until
somebody else sets it.

**Tools run for live roles** (`ToolsRunForLiveRoles`). Whoever is about to run a tool was allowed to when its role was
refreshed at the boundary of that tool, and nothing but a change of the role after it makes that stale.

**The inbox follows the notes** (`MentionsFollowNotes`). A transaction compares the old and the new mentions of a note in
one statement and writes the difference at its commit. `NotesInv` says why that is still the difference
then: a row is locked by one transaction (`OneHolder`), whoever compares holds the row of the note
(`EditGood`), a deletion removes the mentions of no note that it leaves (`DeleteGood`), and an id that is drawn is
unknown to everybody until its transaction ends (`FreshNotes`). A ticket is claimed by one
transaction at a time, so the second finds what the first has saved (`TicketsOnce`).

**The demo stays in its budget** (`DemoStaysInBudget`). Only an admission raises what is spent and due (`SpendFalls`,
`RecordKeeps`). It compares the caps with what is spent and reserved. If nothing is hidden from it, every call that
owes something is reserved, so that each exceeds its reservation by at most `Dearest - Estimate`; otherwise, and
for a transcription, each may owe all of `Dearest` (`DueOfSome`, `AdmissionFits`). `AgentAssumption` says only
that some number bounds what a call costs; nothing in `demo_limits.py` keeps a cost below the estimate, which is
why the bound is above the cap.

**Sums** (`SumRemove`, `SumChange`, `SumParts`, `SumRenamed`, `SumOfSums`, `SumTimes`, `SumNear`, `SumByGroup`, `SumBothWays` …). The induction theorems of the library take an
operator as parameter, which the provers cannot instantiate. `Sums` goes round this: induction
over numbers and over finite sets is proved for a *set* of numbers or sets (`NumberInduction`,
`SetInduction`) from the well-foundedness of `<`, the recursive function behind `SumFunctionOnSet` is shown to exist
and to be unique (`SumsExist`, `SumIsUnique`), and the laws of sums follow. They make the ledger, the budgets
and the orders provable.

Proved but in no run, since a theorem says more than another run would: `NoOrphanAllocation`
(`ConcurrentAllocationsBacked`), `ReturnsBacked`, `CancelledIsZero`, `OutstandingExact`, `NeverUnderstated` and `ReturnsCovered`
(`ConcurrentAmountsExact`), `OneActivePerTransaction`
and the state of created vouchers (`MadeVouchersMatched`), the order of the messages of a
chat (`HistoryInOrder`), `DeletedLeavesNothing`, `NoSubmitOverdraws`, `AccountFollowsBins` and the type invariants.

Only model-checked:

- `TotalsAddUp` and `SavingAgainChangesNothing`: what a save computes are folds over sequences of lines, taxes and
  rules, in an order that matters, which needs induction over the data;
- liveness (`EveryRequestEnds`, `EveryTurnConcludes`), which needs fairness and ENABLED.

## 6. What was found

Six properties that the code or its documents state are violated; each has a run with
the shortest behaviour that shows it.

- `RestoredOnCancel` (`accounting/sales_invoice.py:241`, also in purchase invoices). A bill of 3 is
  paid 2 and a return of 2 is posted: the outstanding amount goes from 1 to 0, not below. Cancelling
  the return adds back 2, so the bill shows 2 where 1 is owed. By `AgingMatchesOutstanding`
  the report, which counts the documents anew, shows less than the bill only where this floor has bitten, a
  journal entry has settled, or a payment or return is of a later date than the report.
- `ActiveMatchIsShown` (`accounting/bank_reconciliation.py:852`). An undo reads its audit row, another
  request undoes the same row and matches the bank line again, and the first undo falls
  back to the row it had read: the line shows as open while its new match is active. It
  happens on SQLite as well, since the read is outside the transaction.
- `OneTurnAtATime` with `Outlive` (`api/chat.py:154`). Nothing renews a claim, and a turn
  may take longer than its 30 minutes.
- `StockAccountMatchesBins` (`stock/stock_ledger.py:256`). The return of a direct-receive
  purchase invoice leaves the bin at the moving average and the books at its purchase price.
- `CountsAreExact` (`api/services.py:1079`). The write generation moves with a statement, not with
  its commit: a list that counts in between keeps the old count for the time to live.
- `ConversionKeepsTheTotal` (`selling/quotation.py:208`). A converted document has the tax rows of its
  offer with amount 0 and without their references, so freight and taxes on a
  previous row come to nothing.

What the properties of passing runs leave room for, each named in the property itself:

- `CenterWithinBudget`: several lines of one voucher pass a Stop budget one by one
  (`budget.py:127`); cancelling a credit note is not checked. The old total is summed over the
  account, whatever the cost center (`budget.py:114`), so that a budget of one site is also
  used up by another, and a credit note of another makes room in it. A budget on an account that is no
  expense is not checked at all (`budget.py:73`).
- `DemoSpendBounded`: the caps are no hard limits. A call may cost more than the estimate it reserves; one that
  is admitted while another has dropped its reservation and not yet recorded its cost passes the cap by that
  cost; and the transcription of a demo visitor's recording is checked, paid and recorded without a reservation
  (`chat.py:4596-4645`), so that any number of them started together are all admitted.
- `AdminRemains`: two overlapping demotions can remove the last administrator (`auth.py:616`). And a container
  booted with the public demo and no `LAMBDA_ERP_ADMIN_*` makes the demo account the first one
  (`bootstrap.py:141-145`): nobody is an administrator then, and `register` makes nobody one any more, until a boot
  seeds one.
- `MastersKeepTheirMeaning`: a delete checks its references before its transaction (`masters.py:735`).
- `SavingAgainChangesNothing`: a rule that sets a rate and has a band of amounts is judged at its own
  price on the next save. And when the rules or the quantity have changed since, a rule applies to the
  price that an earlier one has set.
- `NoWaitCycle`: requests do wait in circles, in two ways, and PostgreSQL's detector aborts one of them (`Fail`). The
  return of an ordered Purchase Receipt locks the Purchase Order before its original, since the tables are sorted by
  name (`workflow.py:28`), while the cancel of the original holds the receipt and goes on to the order. And
  `refresh_planning` locks the bins of all lines of an order, whatever items the request itself has locked
  (`workflow.py:214-221`): two requests that plan orders with bins in common, or one and a posting document, can each
  hold a bin the other needs. No comment of the code promises otherwise.
- `TotalsAddUp`: an offer of recurring lines only shows tax rows beside totals of nothing.
- `ControlMatchesOpenItems`: partial payments leave up to half a cent per rounded line. And a till leaves an
  amount in the receivable account that is outstanding on no bill (`LeftAtTill`): what was paid beyond the
  total, and what a POS return did not refund. Such a return shows 0 (`pos_invoice.py:143`) and
  takes nothing off its original, so a Payment Entry that settles the refund later, as the comment at
  `pos_invoice.py:164` suggests, cannot refer to it. A cancelled POS invoice keeps its outstanding amount.
- `NeighboursFollowTheList`: `adjacent_documents` skips documents without a value in the sorted column.
- `SetupConverges`: promises that default accounts are kept only for a setup that was not disturbed; and
  nothing of templates that a crash left without their rate, which a later attempt skips. The sales tax is not kept:
  "never clobbering a configured company" (`setup/engine.py:258`) does not hold of it, since the Swiss pack makes its
  standard rate the company's whatever the user had picked (`packs/ch.py:245-247`).
- `EachBookingImportedOnce`: bookings the bank does not name come again with every other file.
- `InboxFollowsNotes`: speaks of notes that are shown; mentions of a deleted note can stay behind
  it, and a note saved while its record is deleted comes back with a new record of that name.

## 7. What is abstracted or left out

- Amounts, rates and quantities are whole numbers: units in the settlement and stock models, cents and
  thousandths where rounding matters (ControlAccounts, GeneralLedger, Totals). Rounding is to
  the nearest, a half to even, as `flt` does; the binary error of floats is not modelled.
  StockLedger rounds the moving average a half to either side.
- What a draft refers to is fixed in the settlement models: editing a draft changes its version only. A client that
  omits `modified` overwrites other edits by design; the version check is modelled from
  the version the request loads.
- In BankReconciliation, a created or cancelled voucher is its docstatus; ReconciledBooks adds its
  own submit, one operation at a time.
- ReconciledBooks, ControlAccounts, Totals and Reports have atomic operations. That concurrent ones behave
  so is the subject of Settlement, BankReconciliation and GeneralLedger.
- In OrderProgress the item and bin locks of StockLedger, and amounts and percentages. In StockLedger
  accounts per warehouse, and these row locks: customers, locked for share
  (`validation.py:37`), Stop budgets (`budget.py:98`), the machines of rentals and their items
  (`assets/lifecycle.py:31-39`), and what payments, journal entries and the scheduler lock. `NoWaitCycle` and its
  theorem say nothing of circles through these. The locks of payments are in Settlement. In Subscriptions the calendar: a month is a fixed number of days.
- In ChatTurns and AgentLoop: attachments, the recorded demo replay, message contents, prompts.
- Passwords, cookies, token formats and rate limits of sign-in; hooks, which are registered at
  import; nested savepoints and reconnects of a connection.
- PostgreSQL itself: row locks, advisory locks, unique indexes, the deadlock detector and atomic commits
  are modelled as documented, not from the repository (marked external in the map).

Not modelled at all: PDF output, attachments, the analytics endpoint's free aggregates, the
availability view, the simulation data, the frontend and the deployment hold no rule that spans
steps; the parsing of camt XML, the wire formats of model providers and the handlers of the single chat
tools are conversions that end in modelled services; the 40 migration bodies, the country
packs and opening balances are data.

## 8. What is next

1. The abstract promise of StockLedger, one document at a time, as a refinement.
2. `Accounts` beside `AgentLoop`: one `role` for both.
3. Nested savepoints and the connection per thread, as a refinement of an all-or-nothing block.

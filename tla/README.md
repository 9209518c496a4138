# A TLA+ model of the personal-finance ledger

This directory holds a formal model of the part of the application under `src/` that decides
what is on a user's ledger and what is read off it: how statements are imported, how rows are
entered, edited, deleted and recovered, how they are classified, split and placed in categories,
how interest is accrued, how scheduled payments are settled, how transfers between accounts are
linked and drawn, what balance and what worth an account shows, and who gets in. TLC checks the
modules on small instances. TLAPS proves the properties that matter most for every instance.

- [The system](#the-system)
- [How the code runs, and what the modules share](#how-the-code-runs-and-what-the-modules-share)
- [Modules](#modules): [ImportLedger](#importledger), [InterestAccrual](#interestaccrual),
  [ScheduledPayments](#scheduledpayments), [TransferLinks](#transferlinks),
  [BalanceTruth](#balancetruth), [EventTypes, SplitTruth, Categories](#eventtypes-splittruth-categories),
  [SetupClaim, SignIn](#setupclaim-signin), [FxRates, Valuations, Holdings](#fxrates-valuations-holdings),
  [FlowChart, FlowEdges](#flowchart-flowedges), [Review](#review)
- [Runs](#runs), [bounds](#bounds), [fairness](#fairness), [refinement](#refinement)
- [Proofs](#proofs)
- [Where the code and its documentation disagree](#where-the-code-and-its-documentation-disagree)
- [What is not modelled](#what-is-not-modelled)
- [Plan](#plan)

## The system

A FastAPI server over one SQLite file. There is no queue and no worker process: everything
happens in a request handler, in the start of the server (`lifespan` in `app/main.py`), or in one
thread that a start leaves behind to fill the history of exchange rates. Handlers that are plain
`def` run in a thread pool, so two of them interleave at every statement that does not hold
SQLite's write lock.

| Component | State | Operations | Talks to | Correct if |
|---|---|---|---|---|
| Import (`import_service`, `source_fingerprint`, `split_auto`) | `transactions`, `import_batches`, `deleted_transactions` (read) | `import_transactions` with six layers of duplicate detection; classification and splits after the commit | ledger, log of deleted rows, splits; afterwards schedules and interest | each line of the bank is on the ledger once, or in the log |
| Ledger editing (`routers/transactions.py`) | `transactions`, `deleted_transactions` | create, update, delete, bulk delete, recover | every table that refers to a transaction | a row only leaves into the log, and comes back once |
| Interest (`interest_accrual`) | accrual rows of `transactions` | `accrue_interest`, `resync_account_interest`, the sync of a start | called by create, update, delete, import and the start | the accruals are those of a calculation from nothing |
| Scheduled payments (`scheduled_confirm`, `scheduled_matcher`, `scheduled_dismissal`, `recurring_detector`) | `scheduled_payments`, `scheduled_match_proposals`, `dismissed_scheduled_payments` | confirm an occurrence, match a batch, sweep the ledger, decide a proposal, delete, restore, detect | ledger rows by id; called after every import and by the start | an occurrence is posted once, a row settles one schedule, decisions stand |
| Transfers (`transfer_detector`, `routers/transfers.py`) | `transfer_links`, `transactions.transfer_link_id`, `is_transfer`, `transfer_dismissed` | detect, link, bulk link, unlink, dismiss, scan, toggle, the counterpart of a created or edited row | two ledger rows per link; deletion has to clear both ways | link and rows point at each other and net to zero |
| Chart of flows (`_acyclic_edges`) | none | net and cut edges until the graph of transfers has no cycle | reads links | ends, acyclic, and keeps the net of every account |
| Splits and truth (`split_service`, `split_auto`, `transaction_truth`, `event_classifier`, `document_apply`) | `transaction_splits`, `event_type` | default split, document split, re-split after an edit | ledger rows; every spend report reads the splits | splits add up to their row, spend is the spend there was |
| Categorisation (`categorizer`, `routers/categories.py`) | `categories`, `category_rules`, `category_id` | learn, apply, correct, run by rule, keyword and local model | ledger rows; started after every import | the user's choice stands, the model is asked once |
| Balance truth (`account_service`, `snapshot_service`) | balance fields of `accounts`, snapshots | which source a balance comes from; page, list and history | ledger, imports | the three agree with the institution |
| Rates, prices, valuations, holdings (`fx_service`, `asset_valuation_service`, `price_service`, the `ibkr`, `rsu` and `epa_pension` imports) | `currency_rates`, `asset_valuations`, `price_snapshots`, `position_lots`, `rsu_vests`, `stock_trades` | fetch, type, edit, delete, import and re-import | balance truth and every report | the three readings agree; a re-import adds nothing |
| First run, sessions and sign-in (`setup_claim`, `sessions`, `auth`, `rate_limit`, `webauthn_service`) | `users`, `sessions`, in-memory counters and challenges | claim, create, touch, expire, count, answer | every request | every row gets an owner; a live session is never refused; a lockout ends |
| Duplicate review (`duplicate_detector`, `ollama_duplicate`) | `dismissed_duplicates` | group, preselect, delete, dismiss | ledger | of rows taken for one, one stays |
| Reconciliation groups (`auto_reconciliation`, `reconciliation_invariants`) | groups and their members | suggest, a mortgage statement | read by one report | a row in one group |
| Reports (net worth, attribution, forecast, data quality, tasks) | none | computed on request | everything | |

What makes the behaviour hard:

* **A decision is made on rows read before the write lock is held.** pysqlite begins a
  transaction at the first `INSERT`, `UPDATE` or `DELETE`. A `SELECT` before it holds nothing.
  Recovery, deletion, confirmation, linking, the first run, the lookup of a rate and the interest
  re-check all read first and write later.
* **Ids come back.** The tables are not `AUTOINCREMENT`, so the id of a deleted last row is
  handed out again; whatever remembered the id now means another row.
* **Several layers recognise the same line.** A row of a statement may be a line imported
  before, a line of another export of the same days, a line the user deleted, the arrival of an
  entry made ahead of the bank, or a new transaction that merely looks like one of those.
* **Derived rows.** Accruals, mirror rows of transfers and confirmed occurrences are ordinary
  transactions: an import meets them, the user deletes and recovers them, and the service that
  derived them has to recognise its own.
* **One value, several readers.** The account page, the list and the history of an account each
  compute the balance with code of their own, from rows, statements, marks, valuations and rates
  that arrive in any order.
* **Several commits in one request.** After the import's commit, classification, splits,
  categorisation, matching and the interest re-check run in transactions of their own, and a
  failure of one is logged and passed over. The categorisation waits for a local model without
  holding anything.

## How the code runs, and what the modules share

Every module rests on the same reading of `app/database.py` and of the two libraries below it.

* WAL, `busy_timeout` of 30 s, `foreign_keys=ON`, `SessionLocal(autoflush=False)`.
* One write lock. The first DML statement of a session takes it, commit or rollback gives it
  back. A handler that finds it taken waits; one that gives up after 30 s is one that never
  took its step.
* A read that precedes the first write sees the last committed state and may be stale by the
  time it is used. Hence a handler that reads, then writes, is **two actions**; one that writes
  first and then reads, as the import does by flushing its batch, is one action per step under
  the lock.
* The `UPDATE` of an ORM object writes only the columns that changed since it was loaded. The
  `DELETE` of a row that is gone is a warning, an `UPDATE` of one is `StaleDataError` and the
  request fails as a whole.
* A new row gets the largest id in use plus one (`IsNextId`, `NextId`).
* A stop of the server can come at any point; the open transaction is rolled back, and what a
  request had left to do is forgotten. `Restart` includes what `lifespan` does before the first
  request is served.

Abstractions common to all: descriptions are a few constants and "similar wording" is a given
relation; amounts are small integers; days are natural numbers; one user. Bulk forms repeat the
single-row body per id and are modelled by it.

Several modules look at more than one situation. A variable chosen in `Init` and never changed
says which (`household`, `inst`, `home`, `use`, `kind`): the files and entries there are, how many
requests overlap, what kind of account. One run then covers all the situations, and a property
that needs one of them names it.

## Modules

The comment at the head of each module names the files it models; `PROJECT.json` (`map`) gives
the lines of every definition.

### ImportLedger

One account. `txns` and `tombs` are `transactions` and `deleted_transactions` as the holder of
the lock sees them, `rollback` what the other requests read and what a failure goes back to;
`splits` are the rows that carry a split.

| Action | Code |
|---|---|
| `StartImport`, `LoadExisting` | `import_transactions` to the flush of its batch, and the loading of rows, fingerprints and tombstones |
| `RowUnreadable`, `RowImportedBefore`, `RowSameKey`, `RowSameWording`, `RowRemoved`, `RowExpected`, `RowNew` | the branches of the row loop in their order; each ends in `NextRow` |
| `CommitImport`, `AfterImport`, `AbortImport` | the commit, `classify_batch` with `ensure_splits_after_import`, an exception |
| `Enter` | `transaction_create` and the row of a confirmed occurrence |
| `Reword` | the description of `transaction_update` |
| `ReadForDelete`, `Delete` | `transaction_delete`, `bulk_delete`, `_log_deleted`, `_delete_txn_safe` |
| `ReadForRecover`, `Recover` | `recover_transactions` |
| `Restart` | a stop of the server at any point |

`Content[f]` is a file as the readers deliver it: which line is readable, its day, wording,
amount, running balance and the literal cells (`bytes`) that the fingerprint hashes. Column and
date formats and the sign convention are decided before and folded into it. The fingerprint is a
pair of the cells and the number of equal lines before; SHA-256 is taken to be injective.

`lost` (the fingerprint of a deleted row) and `settled` (files imported to the end) are history
variables: no action reads them.

`DayLedger` is what all this amounts to for somebody who counts: how often each amount of each
day is on the ledger, and how often in the log. `Record` enters what an export states and nobody
knows of, `Remove` and `Restore` move one.

### InterestAccrual

One account with a rate. `month` gives the month each ordinary row is dated in, `accr` the
accrual rows, `closed` how many months have ended. `PostRun` is `accrue_interest`, `Wrong` and
`Cutoff` the walk of `resync_account_interest`, `Doomed` the rows it deletes, `Interest` the
rounding, away from zero at one half. The interest of a month is charged on a balance that
already holds the interest of the months before it. That is why the repair has to begin at the
*first* wrong month and reach to the end.

`Change` and `DeleteAccrual` are the handlers that re-check, `PostQuietly` those that do not
(recovery, confirmation, the mirror of a transfer), `Check`, `Rebuild`, `ReadDone`, `PostAccruals`
the re-check itself, with a read outside the lock wherever the code has one; `ServerStarts` is
`_sync_interest_accruals`. A start month earlier
than the first row charges nothing before that row, so it is left out. `through` is today: what
counts is which months have ended.

### ScheduledPayments

One account. A schedule keeps its due day, the last row that settled it and that row's day;
proposals are keyed by schedule and row, as the unique constraint has it; `dismissed` are the
tombstones of deleted schedules.

`ConfirmRead`, `ConfirmWrite` are `scheduled_confirm`; `MatchRead`, `MatchWrite` are
`match_batch`, which reads, compares and then writes; `Pass`, `Swept` are `backfill_matches`:
up to 24 passes over the rows by date, each settling at most one row per schedule, certain
matches settled, likely ones proposed. `Restart` is `_sync_scheduled_matches`, which commits
only if something was settled. `StatementPlan`, `DetectPage`, `DetectConfirm`, `Create`,
`DeleteSched`, `RestoreDismissed`, `ConfirmProposal`, `RejectProposal`, `Toggle`, `EditDue` are
routes.

Scores are exact in units of 1/880. A row whose amount is off by 15 % or more scores no amount
points, and the remaining evidence (at most 0.50) stays below the lower threshold (0.55), so
only rows of the schedule's amount occur. All months have `MonthLength` days, so that an anchor
day is never clamped. A sweep is one action. `settledBy`, `refused` and `did` are history.

### TransferLinks

Rows of several accounts and the links between them. A link refers to two rows and each row
refers back, so the foreign keys form a cycle and every write has an order in which it can fail.
The module has the shape of SQLAlchemy's unit of work: a handler loads rows (`seen`), leaves
them changed (`saved`), and adds and deletes links and rows; `Written`, `Joined` and `Accepted`
say what the database makes of it later, when other requests may have written in between.
`LinkWork`, `UnlinkWork`, `DismissWork`, `FlagWork`, `DeleteWork`, `TransferWorks` and
`EditWorks` are the handlers; `Commit` and `Fail` finish any of them. Changed rows are written
before links are deleted (SQLAlchemy's order for these mappers; the code also flushes explicitly
where it matters).

`use` is chosen in `Init` and never changes. It tells apart three ways to use the pages, because
the properties hold under different ones: `"orderly"` (requests take turns, and a linked row is
not saved again from the edit form), `"edits"` (requests take turns, any row is edited), `"any"`
(two requests overlap at will, up to `MaxBegun`).

All rows are within the days and of the currency that the code lets pair up; integer amounts make
the tolerance of under one unit an exact opposite. Bulk linking takes the candidates in any
order, which covers the order of confidence. Rows created by the handlers look like payments.

### BalanceTruth

One account of the kind `"bank"` (its export prints a running balance beside each row),
`"plain"` (no such column) or `"card"` (a liability; its export has post dates), and the
institution's own `book`, a sequence of entries in posting order that the program never sees.
`FileRows` is what a file covering some days of the book adds to `rows`; duplicates are
`ImportLedger`'s subject, so an entry is imported once. `acct` and `snaps` are the balance fields
of `accounts` and the table `liability_balance_snapshots`.

| In the module | In the code |
|---|---|
| `closing_row`, `latest_balance_marker`, `MarkedBalance` | `_closing_row`, `_latest_balance_marker`, the first half of `_balance_from_txn_sum` |
| `StatementAnchored`, `anchor_day_rows` | `_balance_hybrid`, `_anchor_day_rows`, `_posted_after` |
| `Single`, `Batch`, `Series` | `get_account_balance_rich` (no `as_of_date`), `get_many_account_balances_rich`, `get_many_account_balances_series` |
| `latest_bal_after`, `hybrid_delta`, `latest_bal_after_at` | the list's and the history's own copies of the marker, of the rows since a statement, and of each day's close |
| `ImportFile`, `UploadStatement` | `confirm_import` in `routers/imports.py`, with what a card statement leaves on the account; a mortgage statement does the same |
| `TypeStatement`, `ClearStatement`, `CloseSettled`, `HandRow` | the account form, `close_account(zero_balance=True)`, `transaction_create` |

The three readings differ where the code differs: which source comes first, whether rows ahead of
their day count, whether a statement of zero stands. A statement is typed or uploaded for a day
that is over, in whatever order. Valuations and currencies are the subject of
[Valuations](#fxrates-valuations-holdings). Deletion of rows, loan principals, staleness and
confidence are left out, and so is `as_of_date` of the single reading, which no route passes.

The properties compare with the book: `Running(n)` is the institution's balance after its n-th
entry, and what the ledger lacks of the older history must not matter. `ReadableDay` is the
condition under which running balances tell the order of a day at all: no balance occurs twice.

### EventTypes, SplitTruth, Categories

Rows after the import: what kind of event each is, how it is allocated, where it is placed.
`EventTypes` has the classifier as operators over the signals of a wording and the class of an
account. `SplitTruth` has the rows with their splits and the handlers that touch them; `Categories`
EXTENDS it with the categories, the rules and the run, and has the specification.

| In the module | In the code |
|---|---|
| `ImportRow`, `ClassifyImported`, `SplitImported`, `ClassificationFails` | the import's commit, `classify_batch`, `ensure_splits_after_import`, each in a transaction of its own, and what a failure leaves |
| `CreateRow`, `EditRow` with `Layouts`, `FormAdds`, `Accepted` | `transaction_create`, `transaction_update` and the splits of the form |
| `SetTransfer`, `DeleteRow`, `RecoverRow` | the toggle, `_delete_txn_safe` with what the log keeps, `recover_transactions` |
| `ApplyDocument`, `Replaced` | `apply_financial_document`: the lines of a payslip or rental statement in place of the splits of the row they pay |
| `Learned`, `LearnedFromModel`, `CorrectRow` | `learn_from_correction`, `_learn_from_llm`, the category handlers of `routers/transactions.py` |
| `StartRun`, `FinishRun`, `RunAfterImport`, `AutoCategorise` | `categorize_batch`: the tiers of rules and keywords, the wait for the model, and what is written when it answers |
| `Suggest`, `category_add`, `category_delete`, `rule_delete` | `suggest_categories` (a preview that counts hits and commits), the routes of categories and rules |

Between `StartRun` and `FinishRun` nothing is held, so the user's requests come between the two; so
they do between the steps after an import. What a run writes when the
answers are in (`FinishRun`) is one step, and one run is under way at a time. `apply_financial_document` has no
caller among the routes; it is modelled as the operation it is. `early` and `answered` are history.

### SetupClaim, SignIn

`SetupClaim` is the first run over a database that may hold rows from before there were users:
`BeginSetup`, `BackUp`, `CountRows`, `AddAdmin`, `ClaimRows`, `FinishSetup` are `setup_claim`
of `routers/setup.py` with `backup_sqlite_db` and `claim_all_rows` in their order, each where another request may come between; `ClaimRows` may fail for
any table, as the code logs and goes on, and `Verified` is the check that follows (taken to work
on a table whose update failed). `RestartSetups` includes `_seed_categories`. The database is a file and
a write-ahead log, `Checkpoint` moves one into the other, and the backup copies the file. `Clears`
allows the owner to delete all categories, which seeds them again at the next start.

`SignIn` EXTENDS it. `OpenPage`, `Gate`, `Route` are a page load: `auth_gate` looks the session up,
and the dependency behind it does so again. `BusyChanges` is a database whose lock somebody else
holds for longer than a touch waits. `Hit` is `RateLimiter.hit`; the password form and both halves
of the passkey ceremony (`AskForChallenge`, `AnswerChallenge`) count against it; `AfterPop` is
`_pop`. `Tick` is time: ages count up to where nothing depends on them any more. `Restart` forgets
what is in memory. `use` tells the first run, the pages and the ceremonies apart. `taken`
and `accepted` are history.

### FxRates, Valuations, Holdings

Three layers, each extending the one before. `FxRates` has the rows of one pair of currencies in
both directions, the upserts of the pages (`fx_add_rate`, `fx_fetch_current`,
`fx_fetch_historical`) and of the thread a start leaves behind (`BootHistory`); each upsert looks up
(`LookUp`) and then stores (`Store`), and the unique constraint decides between two that overlap.
`get_rate`, `latest_rate` and the history's own rate are the three readings.

`Valuations` has the dated valuations of an account, the mark kept on the account, the handlers
that write them and `page_readings`, `list_reading`, `chart_readings`. A date is a day and a moment
within it, midnight being what the user or a statement gives; rows of one date come in any order,
hence the sets.

`Holdings` has the accounts whose valuation comes from a statement. `apply_ibkr_statement` replaces
the lots and adds the trades whose key it has not seen; `ibkr_confirm_twice` is the same statement
confirmed by two requests before either wrote; `import_rsu_grants` replaces the vests of the grants it
lists (`VestsReplaced`), `import_pension_positions` all positions (`LotsReplaced`); `refresh_prices` and `refresh_rsu_price` store quotes.
`WoundBack` is what the history makes of lots and trades. `kind` chooses the account: held abroad,
a property, a broker's whose requests take turns or overlap, restricted stock, a pension.

A feed that fails leaves everything as it is; rounding is left out; dividends are booked by the
same rule as trades and are left out. `inOrder`, `read` and `stated` are history.

### FlowChart, FlowEdges

`FlowChart` is what the docstring of `_acyclic_edges` promises: the dominant direction of each pair
with the difference, edges taken out one by one while there is a cycle, then drawn. `FlowEdges` is
the code: `Collapsed` groups transfers by the *names* of accounts and converts each group,
`TakePair` goes through the dictionary with its set of processed pairs, `CutSmallest` is one turn
of the loop that sorts and pops, `DrawFlow` the page. The order of the dictionary and of edges of
one size is left open.

### Review

The page of duplicates for the rows of one account and amount, from one tab, while files arrive.
`find_duplicate_groups` and `find_near_duplicate_groups` give the groups, `Preselected` the rows
the page ticks beforehand, `shown` what the tab has; `bulk_delete`, `delete_transaction`,
`dismiss_duplicate`, `bulk_dismiss_duplicates` and `undismiss_duplicate` are the routes. The score
of a group is one of the relations in `Measures`, chosen on every visit, since the local model may
or may not answer. `score_group` raises when it does not, although the comment at the head of its
module says it falls back; the page script passes over the error, so the groups are the same.

## Runs

A passing run is exhaustive within its bounds.

| Run | What it asks |
|---|---|
| `ImportOverlap` | A CSV and a PDF of the same days, imported by two requests, with deletions, recoveries and restarts anywhere. `SourceHashUnique`: no line of a file is on the ledger twice. `NoRowLost`: a charge the file states twice is there, or in the log, twice. `BalanceNeverOverwritten`: no import replaces a running balance. `LedgerOfDays`: the two imports, deletions and recoveries implement `DayLedger`. |
| `ImportDistinct` | Exports that state each transaction once, with deletions and recoveries between them; or bank rows that meet rows entered ahead of them. `NoSecondCopy`, `RemovedStaysRemoved`, `ReimportAddsNothing`: whatever was deleted and recovered between imports. `NoExpectationStranded`: no entry is left open beside a new row that it should have become. |
| `Interest` | `AccrualsAgreeAlone`: one request at a time over four months, and after every re-check the accruals are those of a calculation from nothing. `StartRepairs`: with two requests, and rows nobody re-checks, the next start makes right what they leave. `RightMonthsKept`: no accrual before the first wrong month is touched. |
| `Schedules` | One schedule with confirmations, a statement, entries that look odd and proposals, or two schedules that resemble each other. `OneRowPerOccurrence`; `DecisionsStand`: a question answered is not asked again, a schedule the user deleted is not made again from a statement; `NoSharedClaim`: a sweep never settles one with a row another points at; `SweepSettles`: a sweep goes on until another would settle nothing. `TypeOK` holds that no pointer dangles. |
| `Transfers` | All three uses. `PointerIsSide` under any overlap; `NeverRefused` while requests take turns; `TransfersPaired` while, besides, linked rows are left out of the edit form. |
| `Balances` | Three kinds of account, files and statements in any order, each day possibly in several files. `CloseIsRead`: the page, the list and every day of the history read the close of a day and add only what came after it. `AnchorHolds`: a typed statement and the rows since are worth what the book says, today and on every day since. `LatestStatementWins`: uploads in any order. `HistoryMeetsCard`: the history ends where the list starts. |
| `Classify` | Two rows are imported, classified, split, edited, placed, deleted and recovered, with the user's requests between the steps of an import and of a run that waits for the model. `SplitsAddUp`; `SpendIsTrue`: a split counts what the type of its row says, and a purchase and its refund cancel; `AskedOnce`: what the model has answered is covered by a rule; `ModelNeverOverrulesUser`. `TypeOK` holds that a pattern has one rule. |
| `SignIn` | Two overlapping first runs, then page loads with a busy database, then passwords and passkeys. `ClaimIsWhole`: as soon as there is a user every row has an owner and a copy from before exists, whatever failed or was stopped. `AnswerOnce`; `LockoutEnds`, a liveness property: whoever is turned away may try again, even who keeps trying. `TypeOK` holds that no window lets more attempts through than the limit. |
| `Holdings` | The six kinds of account over three days. `WorthAgrees`: page, list and history show one worth once there is one direction of rates within reach and nothing dated ahead. `HoldingsReconstructed`: the history's holdings of a past day are what was held, however statements overlap and in whatever order they were read. `StatementValued`: a statement read again, or by two requests at once, leaves the worth the latest one states. |
| `Reports` | Every ledger of transfers on eight routes, then the page of duplicates while files arrive. `ChartOfFlows`: the loops implement `FlowChart` with its fairness, so the page is answered, with a graph without a cycle. `NetKept`: as long as nothing had to be cut, every name gains in the chart what its accounts gained. `ChainKeepsOne`: deleting what the page selects leaves one row of all it ties together. |
| `SchedLate`, `RepeatedFile` | Runs that TLC is expected to refute: see [below](#where-the-code-and-its-documentation-disagree). |

`CHECK_DEADLOCK FALSE`, wherever a configuration has it: once the bounds are used up and every
request is idle the system really has nothing to do. `SignIn` never gets there, since time passes.

For each property of a passing run the module holds a mistaken variant of a definition, named in
`PROJECT.json` under `mutants` and marked `Mistake` in the module: a dropped guard, a key with
one column too many, a repair of only one month, a read before the flush. Exchanging the
definition for its variant makes TLC refute the property in the same run.

### Bounds

* `MaxId`, `MaxTombs`, `MaxImports`: the files of `ImportOverlap` have five and four lines
  that come to five distinct rows; `MaxId = 5` holds them all, with ids handed out again
  after deletions. Three imports are one each and a repetition. One tombstone suffices to bring
  a deleted row back under another id.
* `Interest`: four months are a first, a wrong, a later right and an open one. Two suffice for
  a race, since both requests have to find the *same* first month. `MaxCopies` is one more than
  the requests can post.
* `Schedules`: three rows carry a schedule over two periods and leave one row that
  looks odd; two schedules are the fewest that compete. `MonthLength = 30`.
* `Transfers`, `MaxTxn = 3`, `MaxLink = 2`, `MaxBegun = 3`: a pair and a mirror row, the link and
  the link that replaces it; three overlapping units of work are a reader, a writer and one that
  meets what both left.
* `Balances`, `LastDay`, `MaxBook`, `MaxHand`: three entries over three days give a day of two
  or three rows in either order and in two files, a statement between them and a row after it;
  amounts of one size let a day come back to where it opened. `Lags = {0, 1}`: a day between the
  purchase and its posting.
* `Classify`: two rows are the fewest that can be a purchase and its refund, or one row and one
  from before; the three wordings are one of which nothing is stripped and one with a reference in
  it, both on a card, and one on a bank account that is a reference and no more. Three requests of the user are one before, one during
  and one after a run. `Offs = {0, 1, 2}`: on either side of the tolerance of a cent.
* `SignIn`: one browser, one page load and one row of the session table, since sessions do not
  influence each other; two tabs, the fewest that take each other's challenge. Limits of 1 and 3
  keep their order; what matters is which is reached first.
* `Holdings`: three days with a lookup that reaches one are a rate within reach and one beyond;
  up to three rates, three marks and four valuations; two grants, one of which the last statement
  no longer lists; two executions of one second, a sale and a later purchase.
* `Reports`: 2916 ledgers over five accounts of four names (two share one, two currencies differ)
  hold cycles of two and three names, pairs that cancel out, and edges of equal size. Four rows
  on three days within one day of each other make chains of overlapping groups; three imports
  are the fewest that tie rows of different files.
* Requests are interchangeable in `ImportOverlap`, `Interest` and `Transfers` (symmetry; no
  liveness is checked there).

### Fairness

Two assumptions, in the runs that check liveness, and none elsewhere.

* `WF_vars(Tick /\ UNCHANGED use)` in `SignIn`: time passes, whatever anybody does. `LockoutEnds`
  needs nothing else; in particular not that whoever is locked out stops trying.
* `WF_flowVars(FlowNext /\ UNCHANGED reviewVars)` in `Reports`: the loops of the flow page are
  plain code in one request, so the request takes its next step as long as there is one.

No handler waits for another one except for the write lock, whose holder always gives it back.
What would be a liveness property of the sweep of schedules ("it ends, having settled what it
can") is bounded by the code itself at 24 passes, and is checked and proved as the invariant
`SweepSettles`.

### Refinement

`ImportLedger` implements `DayLedger` (`DL == INSTANCE DayLedger WITH ...`): `kept` and `removed`
count the committed rows and the log, `recorded` is `settled`. An import that takes many steps,
waits for the lock, and meets another one is a single `Record` at its commit; everything before is a
stutter, and so is everything that is rolled back. `ImportOverlap` checks it,
`ImportImplementsDayLedger` proves it. It says more than `NoRowLost`: nothing is entered twice or
beside what is known either.

`FlowEdges` implements `FlowChart` (`FC == INSTANCE FlowChart WITH ...`). The flows map to
`pair_flow`; the edges map to what the netting *will* give while the dictionary is gone through
(the steps of that loop are stutters), and to `netted` afterwards; each cut is a `Cut`, the page a
`Draw`. `Reports` checks it with the fairness of the chart, `FlowImplementsChart` proves its
safety part for every ledger.

## Proofs

| Theorem | For every ... | Argument |
|---|---|---|
| `ImportLedgerTyped` (`ImportLedgerProofs`): `Spec => []TypeOK` | files, similarity relations, entries, rewordings, requests, bounds | `IInv` |
| `NoSourceLineTwice` (`ImportLedgerProofs`): `Spec => []SourceHashUnique` | the same | `IInv` |
| `NobodyLeftWaiting` (`ImportLedgerProofs`): `Spec => []NoExpectationStranded` | the same | `ExpInv` |
| `GivenBalanceStays` (`ImportLedgerProofs`): `Spec => BalanceNeverOverwritten` if nothing is entered by hand | files, similarity relations, requests, bounds | `BankInv` |
| `OneCopyEach` (`ImportLedgerProofs`): `Spec => []NoSecondCopy` if nothing is entered by hand, one request at a time edits and no file states a key twice | the same | `SteadyInv`, `OnceInv` |
| `RemovedForGood` (`ImportLedgerProofs`): `Spec => []RemovedStaysRemoved` likewise, if no file states an amount of a day twice and lines of one day and amount are worded alike | the same | `OnceInv` |
| `AgainIsNothing` (`ImportLedgerProofs`): `Spec => ReimportAddsNothing` likewise, if lines of one day and amount are worded alike | the same | `PresentInv` |
| `NothingLost` (`ImportLedgerProofs`): `Spec => []NoRowLost` likewise, if files that state an amount of a day state it equally often | the same | `FullInv` |
| `ImportImplementsDayLedger` (`ImportLedgerProofs`): `Spec => LedgerOfDays` likewise, if lines of one day and amount are worded alike | the same | `ExactInv` |
| `AccrualsAreTrue` (`RecurringProofs`): `AccrualSpec => []AccrualsAgreeAlone` | rows, amounts, rates, numbers of months, restarts | `SoloInv` |
| `StartIsARepair`, `EarlierMonthsStay` (`RecurringProofs`): `AccrualSpec => StartRepairs`, `RightMonthsKept` | the same, and numbers of overlapping requests | `AccInv` |
| `SchedulesTyped` (`RecurringProofs`): `Spec => []TypeOK` | plans, ledgers, statements, similarity of wordings, numbers of overlapping requests | `TypesTrue` |
| `ClaimsStayApart` (`RecurringProofs`): `Spec => NoSharedClaim` | the same | `TypesTrue`, `Fair` |
| `DecisionsStandAlways` (`RecurringProofs`): `Spec => DecisionsStand` if statements call what they ask for by one name | the same | `NamesTrue` |
| `OccurrencesOnce` (`RecurringProofs`): `Spec => []OneRowPerOccurrence` if no occurrence is submitted twice at the same time | the same | `OccurrencesTrue` |
| `OneSweepIsEnough` (`RecurringProofs`): `Spec => []SweepSettles` if fewer rows wait for a match than a sweep makes passes | the same | `SettledTrue`, `Backlog` |
| `PointersAreSides`, `LinksAreWhole` (`TransferLinksProofs`): `Spec => []PointerIsSide`, `[]TypeOK` | ledgers, accounts, amounts, numbers of overlapping requests, bounds | `PInv`, `TurnInv` |
| `NothingRefused`, `LinksStayPaired` (`TransferLinksProofs`): `Spec => []NeverRefused`, `[]TransfersPaired` | the same | `TurnInv` |
| `ClosingRowIsLast` (`BalanceTruthProofs`): `closing_row` of a day is the row that posted last | numbers of rows in the day, orders of their ids, amounts and balances | `AllButLastFollowed` |
| `BalanceIsTheBanks`, `PaperWins`, `CurveEndsAtCard` (`BalanceTruthProofs`): `Spec => []CloseIsRead`, `[]LatestStatementWins`, `[]HistoryMeetsCard` | books, files, statements, calendars | `BalInv` |
| `AnchorIsTrue` (`BalanceTruthProofs`): `Spec => []AnchorHolds` if entries post by the next day and no balance is typed with the wrong sign | the same | `BalInv` |
| `OnePatternOneRule`, `AllocatedInFull`, `NeverAskedAgain` (`CategoriesProofs`): `Spec => []TypeOK`, `[]SplitsAddUp`, `[]AskedOnce` | wordings, rules, categories, documents, numbers of requests | `CatInv` |
| `UsersRulesStand` (`CategoriesProofs`): `Spec => ModelNeverOverrulesUser` | the same | `CatInv` |
| `SpendIsOfTheRows` (`CategoriesProofs`): `Spec => []SpendIsTrue` if no document is of a card or takes the id of a row that was deleted while it awaited its type | the same | `SpendInv` |
| `ClaimStaysWhole` (`SignInProofs`): `Spec => []ClaimIsWhole` if the owner does not delete all categories | tables, rows, numbers of overlapping first runs | `SignInInv` |
| `AttemptsStayBounded`, `AnswersCountOnce` (`SignInProofs`): `Spec => []TypeOK`, `[]AnswerOnce` | sessions, page loads, tabs, limits | `SignInInv` |
| `FlowImplementsChart` (`ReportsProofs`): `FlowSpec => FC!Spec` | accounts, names, rates, transfers | `FlowInv` |
| `SummaryIsTrue` (`ReportsProofs`): `FlowSpec => []NetKept` | the same | `KeptInv` |
| `ChainKept` (`ReportsProofs`): `ReviewSpec => ChainKeepsOne` | files, dates, similarity relations, answers of the model, imports, visits, deletions and dismissals | `ReviewInv` |
| `HoldingsTyped`, `PagesAgree` (`ReportsProofs`): `Spec => []TypeOK`, `[]WorthAgrees` | fills, statements, prices, rates, typed values, days, kinds of account | `HoldInv` |
| `HistoryIsTrue`, `StatementsAreWorth` (`ReportsProofs`): `Spec => []HoldingsReconstructed`, `[]StatementValued` | the same | `HoldInv` |

**`IInv`.** `SourceHashUnique` is not inductive: an import that did not know some fingerprint on
the ledger would insert it again, and a rollback could restore a ledger with a repeat. So
`HashInv` adds three facts. `OneWriter`: a request is between its first write and its commit
exactly when it holds the lock. `AllSeen`: while it goes through its rows, the set of
fingerprints it knows includes every fingerprint on the ledger. `UniqueHashes` of the image to
roll back to. `AllSeen` is what the early flush of the batch buys: no other request writes
between `LoadExisting` and the commit. `AtWork` supplies the types of a request's local state
that depend on where it is. `RowInductive` has the branches of the row loop, `ImportInductive`
the rest of an import, `EditorInductive` deletion and recovery (a recovered row has no
fingerprint), `UserInductive` entries and rewordings, `RestartInductive` the stop of the server.

**`ExpInv`.** The import takes its list of expectations when it starts. `Waiting` says what is still
true of one later: it is on the ledger and open, or this import has used it, or given it a balance;
`ByThisImport` says which rows the import made. A row is new only where no expectation that is
neither used nor out of its window was left (`NoneStranded`). Nobody else enters or confirms
anything meanwhile, because the import holds the lock.

**`BankInv`** is for ledgers of the bank's rows only. Every row is that of some line of some
file (`BankTable`, `BankLog`), and while an import is at work it has added to what it loaded, never
changed it but for balances that were missing (`Holds`); the fingerprints it knows are those it
loaded or has read. So each line is passed over or becomes a new row (`BankRow`), and no branch
replaces a balance. Entries are excluded because with them the code does replace one: a bank row
that becomes an expectation twice (`ExpectationTwice`).

**`SteadyInv`.** What the editor read is still so when it writes, which two editors do not keep
(`DoubleRecover`); hence `OneEditor`. Every uncommitted row is of a line this
import has read (`Sourced`). `StepKinds` then sorts all steps into five: nothing added or removed, a
line read, an import committed, a row moved to the log, a row moved back. The three invariants over
it are short. `OnceInv`: rows and log together have no key (or, for `RemovedForGood`, no day and
amount) twice. `PresentInv`: each line read is on the ledger or in the log. `FullInv` counts: an
amount of a day that ledger and log know at all, they know as often as every file states it, and one
they did not know when the import began is entered as often as it is read. The last uses that a
line whose amount was unknown at the start cannot be passed over by any layer (`PassedFor`):
all but the fingerprint look only at what was there before, and a line's fingerprint counts its
equals within the file.

**`ExactInv`** is the other half of `FullInv`: an amount of a day nobody knew of when the import
began is entered *exactly* as often as it is read, and of a known one nothing is entered. With it the
commit of an import is `Record` (`CommitRecords`): until then the ledger that others read has not
changed. `MoveMoves` shows that a deletion and a recovery move one. Since `Record` adds nothing to what
is known, two exports need not agree on how often they state it (no `WholeDays`): the first one read
decides.

The hypotheses about files say what exports the argument is about. `SameCells`: equal cells mean
equal day and amount. `WholeDays`: two exports with an amount of a day have it equally often; an
export that ends within a day loses rows, by design of the key. `StatedOnce` and `OneWording`: no
key is repeated, and descriptions of one day and amount are similar. TLC evaluates
them: `MCImportLedger` asserts them of the instances that `ImportOverlap` and `ImportDistinct` use.

**`SoloInv`.** A month is right by itself if its accrual is what the balance without it calls for.
`SoundAgrees` climbs from month to month: if each is right by itself, all are those of the
reference, which charges month after month from nothing. `PostRunRight` is about the posting, a
recursive function whose existence `PostRunIs` shows: the months from the start are right
afterwards, and those before are as they were, since whether a month is wrong depends on the
accruals up to it only (`WrongLocal`). `NotBeforeTheFirst`: months before the first transaction have no
balance, and nothing bears no interest, so the walk need not visit them. Hence a rebuilding from the
first wrong month makes all months right (`RebuiltSound`), and a check that finds none says that
all are (`FirstWrong`). A start does both in one step, so `StartIsARepair` needs only the types
(`AccInv`); for requests `SoloInv` says that what the one request has read is still so, which two
requests or a row nobody re-checks do not keep (`InterestRace`, and the instances `SoloQuiet`).

**`TypesTrue`, `Fair`.** That no pointer dangles needs no more than the tables themselves; the work
is in what one action does in many rounds. A sweep is a fold of passes and each pass a fold over the
ledger; an import is a fold over a statement, and its matching one over its rows. `FoldStays` (in
`SumProofs`) says of any fold: what every step leaves true, the fold leaves true. With it
`SweepRowKeeps` has only to look at one row, and it carries more than the types: within a pass the
rows that schedules point at are out of play (`OutOfPlay`), so whoever points at a new row is the
only one to point at it. Between passes that is all that remains (`Fair`), and the next pass starts
from the pointers as they are. The same lemma says that a sweep leaves names, sources and answered
questions alone.

**`NamesTrue`.** Where a schedule's name comes from (`NamesStay`): from before, from the user, from
a statement, from the detector's page. Statements ask `is_dismissed` before they build a schedule,
but not before they rename the one they built: hence the hypothesis, which holds as long as
statements ask for "Statement Balance" and never, with nothing owed, for "Minimum Payment". Without
it the property is refuted, see [below](#where-the-code-and-its-documentation-disagree).

**`OccurrencesTrue`.** A row that carries an occurrence is of that occurrence's day, so looking for
it on its day (`find_confirmed`) finds it, and a confirmation on its way is of one that is not
there. Only a confirmation makes a row carry one; an import takes it away (`SlotsKept`). So the one
thing that must not overlap is the confirmation of one occurrence with itself (`NoDoubleSubmit`), and
that one does break it (`SchedConfirmRace`): any other requests may overlap at will.

**`SettledTrue`, `Backlog`.** A sweep stops after a pass that settles nothing, or after 24. Why is it
then done? A pass meets the rows in order with some of them out of play, so that it settled
nothing is not yet that nothing can be settled. `StillSettlesNothing` and `SweptIsStill` close
that gap: a pass that settles nothing has looked at every row with the pointers as they are now, and the
next would look at the same. And why does it stop before the 24th? `Backlog` is the set of pairs of a
schedule and a row worded like it and later than what settled it last. A row that settles a schedule is
in its backlog (`SureIsWaiting`: without a wording alike, the best day and amount do not carry a
score to the threshold), and settling takes it out and puts nothing in (`SettlingUsesUp`, because the
last match only moves forward). So each pass that settles something shortens the backlog
(`PassProgress`), and a backlog of fewer than 24 is worked off within 24 passes
(`BacklogsAreShort`). The hypothesis is needed: a schedule whose ledger is more than 24 periods ahead
of it is still behind afterwards, and the next start goes on.

**`PInv`.** What a request holds in hand was read some time ago. `PInv` says, besides
`PointerIsSide` and the types of rows, that every unit of work is *coherent*: the only pointers
it changes become NULL, or become the new link on exactly the two sides of that link, and for
every link it deletes it loaded that link's rows. A commit of a coherent unit of work that the
database accepts keeps `PointerIsSide` no matter how stale it is (`CommitPoints`): a pointer at
a link about to be deleted makes the database refuse, and that is what the foreign keys are for.
`BegunCoherent` shows that every handler's unit of work is coherent; the remaining lemmas go
through the actions.

**`TurnInv`.** Staleness is what breaks pairing, so the other two properties are about requests
that take turns: then the ledger a request read is the ledger it writes to. `Sound` says of a
request with work in hand that the database accepts that work, since the handlers free every row
that refers to what they delete, and, where linked rows are not saved from the form, that all links
are paired once it is written (`PairedAfter`). `AllPaired` is the pairing on the ledger. The list of
candidates goes stale even so, between one pair of a bulk link and the next; `PairTrue` is what
stays true of it, opposite amounts in two accounts, because no work in hand beside a list deletes a
row or changes an amount (`KeepsAmounts`).

**Sums.** `SumProofs` has what the invariants about money need: that the sum the models write as
a fold over a finite set is the sum, in whatever order the elements are taken (`SumLess`), and so
adds over a union, vanishes over zeros, can be renamed and grouped. The library's induction
theorems take an operator as a parameter, which the provers cannot instantiate. `ByElements` takes
a *set* instead: a family of subsets of a finite set that has a subset as soon as it has that
subset less any one element has all of them.

**`ClosingRowIsLast`.** `Chain` says that the rows of a day, in posting order, continue each
other's balances and that no balance of the day, the opening one included, occurs twice. Then
each row but the last is the first and only one with the balance its successor starts from, and
nothing starts from the last one's. What the run checks for days of up to three rows holds for
any day.

**`BalInv`.** The institution's book is in posting order (`BookInOrder`). Every row a file brought is
the row of an entry of it, and no two of one entry (`RowsFromBook`); of what posted on one day the
ledger has the first entries, whatever days the files cover and in which order (`DaysFromTheFirst`).
The statements on record say what the paper of their day says (`StatementsKept`). `DayIsChain`:
the imported rows of a readable day are a chain, because consecutive balances of the book differ by
their amounts, which is a fact about sums; so `ClosingRowIsLast` applies. `LoopFindsMarker`: the
history goes through the days carrying the last close along, page and list ask for the latest
day that has one. The two agree since the loop passes that day and finds no close after it.
`AnchorIsTrue` cuts the book at the day of the statement: what posted by then is in the statement, what
posted after is among the rows the readings add, and nothing is on both sides. Its two hypotheses are
needed, as two [counterexamples](#where-the-code-and-its-documentation-disagree) show: `BalanceTyped`
without the first, `Lags = {0, 2}` without the second.

**`CatInv`.** `RowsGood`: a row that has splits which are not a document's is allocated in full; and
what the log keeps of a row has no splits (`BinGood`), so a recovered row is sound however the
form's tolerance left it. `EditedIsSound` uses both checks of the form: the wider one of the page is not
enough once splits of a document are kept. `RulesGood`: one rule per pattern. Every operation keeps
the patterns that had a rule (`Keeps`), except the two deletions, which forget the answers they
uncover, so what was answered stays covered (`AnswersCovered`). `AllLearnedIs` is the fold over the
answers of the model written without one: the rules there were, and one for each wording that
had none; it also gives `UsersRulesStand`.

**`SpendInv`.** The type of a row changes once, when the import has committed it and classifies it, and
by then the user may have saved, deleted or recovered it. `ImportAwaits`: a row that awaits its type has
none wherever it is, on the ledger or in the log, and has splits only if the user saved it (`early`);
so splits made for one type are never left beside another (`Follows`). For cancelling refunds what
matters is that nothing an ordinary row of a card can be typed as, and nothing it may have been split
as before, fails to count (`Counted`, with `ClassifiedIsCounted` for the order of the classifier's
tests). Then its spend is what its splits come to (`AllCounted`), and those add up to its amount by
`CatInv`. `DocumentsApart` is what has to be assumed of payslips and rental statements: on a card
their lines would be purchases that do not count; and SQLite hands out the id of a deleted last row
again, so a document applied between an import's commit and its classification can take the id of a
row just deleted and be classified in its place. No route applies documents so far.

**`SignInInv`.** The limiter drops what is too old when it is asked, the history when time passes, so
the two lists differ; `AttemptInv` says that counted from the newest on they agree, where what was
dropped counts as too old. `ClaimInv`: a setup between its first write and its commit has the write
lock (`OneWriter`); once one has passed its backup, or there is a user, a copy from before the first
user exists (`CopyFirst`); what is written so far belongs to nobody, to a user or to whoever writes
(`WorkOwned`). `NoOrphan` holds only if the owner cannot delete all categories, which a start would
seed again without an owner; hence the hypothesis `~ Clears`, which the run makes as well.
`ChallengeInv`: a challenge that is pending has not counted.

**`FlowInv`.** What ties the loop over the dictionary to the chart's edges all at once: the edges so
far are those of the pairs processed, and a pair is processed together with its reverse
(`NettedSoFar`). `NetBothWays`: a pair and its reverse net to the same edge, so it does not matter
which is met first. `AllNet`: all of them together give `Dominant`. After that each turn of the
second loop takes one edge away while there is a cycle, which is `Cut`.

**`KeptInv`.** As long as nothing was cut, the edges of the finished loop are the netted graph of
what flowed between names. The rest is sums over that graph: an edge and its reverse come to the
difference of the two flows, so what a name gains by its edges is what it gains by its flows; and
those, converted before they are grouped, are what its accounts gained (`SumInGroups`).

**`ReviewInv`.** The page in the tab was drawn some imports and deletions ago. `PageTrue` says what
of it is still true: ids are only handed out above those in use, so of the rows a group names each is
either gone or the same row; and the row the group lists first is the first of them by date and id.
Of any set of rows that groups tie together take the first of all: it is first in every group it
is in (`FirstIsSpared`), the page never ticks the first of a group, and so it stays. That it is
still on the ledger is what the invariant is for.

**`HoldInv`.** Nothing the three properties speak of is kept in one table; the invariant says for each
kind of account how its tables go back to the statements, and a run over `Holdings.cfg` agreed with
it before it was proved. `TradesTrue`: while requests take turns a key is booked once as soon as
any statement covers its day, in whatever order they came, and the lots are those of the statement
read last. So the trades after a day that no gap hides are all of them, and taking them off the lots
leaves what was held (`HeldIsInt`, a fact about sums). `DatedTrue`, `AwardsTrue` and `PensionTrue` say why
the latest row is the one of the latest statement: a broker's and an award's rows carry the
statement's date; a pension's carry the moment they are written, so there it is the order of ids.
Of awards, no price kept is newer than the latest statement; a live price ends that, and with it
the claim (`stated`). `MarkTrue`: rows and mark written in the order of dates, the mark is the worth
of the latest row. Two further facts make three readings one: there is one latest row when no two
share a date (`OneLatest`), and with one direction of rates, none ahead and the newest within reach, the
nearest, the newest and the chart's last rate are the same row (`RatesAgree`).

Units may be negative: a statement of a short position has a negative worth, which the code takes
like any other (`nav != 0`), so lots, valuations and marks are integers here.

The assumptions of the theorems are those the modules name, and TLC evaluates each of them on the
runs: types of the constants (`ContentAssumption`, `ThreadAssumption`, `BoundAssumption`,
`EntryAssumption`, `RateAssumption`, `PlanAssumption`, `ValueAssumption`, `HoldingAssumption`,
`WordAssumption`, `LedgerAssumption`, `BalanceAssumption`, `ReviewAssumption`, `WordingAssumption`,
`DocumentAssumption`, `PatternAssumption`, `LimitAssumption`); that the sentinels are no member of
the set they stand beside; that what is 85 % alike is also half alike; that the accounts of a
ledger, the rows with splits, the rows of an account, the executions a broker lists, its holdings
and the requests are finitely many; that values typed or fetched, prices of statements and rates are
positive; that a calendar has a first day; that a limit lets at least one attempt through; that the
period of a plan is not empty. Hypotheses of single theorems are named with them above.

Every invariant of the runs is proved, some under hypotheses that the table names; so are every
action property and the safety part of every refinement. Only model-checked: `LockoutEnds`, and of
`ChartOfFlows` the fairness (that the loops end); both are liveness.

Beyond this prover are liveness, `ENABLED`, and what a fold computes where neither a sum nor what its
steps leave true says it. `PostRun` and the history's loop of `BalanceTruth` are recursive
functions; for them an induction over months or days, written out as one over a set of them
(`Climb`), was enough.

## Where the code and its documentation disagree

Two runs are refuted, and `PROJECT.json` lists the lines under `findings`.

| Run | Refuted | What happens |
|---|---|---|
| `SchedLate` | `NoOccurrenceSkipped` | A bill of the 28th paid on the 1st is advanced from the 1st: the occurrence in between is never expected. |
| `RepeatedFile` | `OnlyNewRowsPlaced` | A file that imports nothing starts a categorisation run over up to 500 old rows, because an empty list of ids is taken for none given. |

The configurations below are kept beside the runs. Each is refuted too, in seconds, by a short
behaviour (`tlc -config X.cfg M`).

| Configuration | Module | Refuted | What happens |
|---|---|---|---|
| `ExpectationTwice` | `MCImportLedger` | `ExpectationUsedOnce` | An expectation takes the balance of one bank row and is then used up by another. |
| `DoubleRecover` | `MCImportLedger` | `NoSecondCopy` | Two recoveries of one deleted row both restore it, under different ids. |
| `InterestRace` | `MCInterestAccrual` | `AccrualsAgree` | Two handlers find the same first month missing and both post it. `StartRepairs` shows how long that lasts. |
| `InterestLatch` | `MCInterestAccrual` | `StartedStaysCurrent` | Once all accruals have been rebuilt away, the account no longer counts as accruing. |
| `SchedConfirmRace` | `MCScheduledPayments` | `OneRowPerOccurrence` | Two submits of one occurrence. |
| `SchedStart` | `MCScheduledPayments` | `UncertainVisible` | A start that finds only uncertain matches rolls its proposals back. |
| `SchedDetect` | `MCScheduledPayments` | `DetectedStaysGone` | A suggestion shown before a deletion and ticked after it. |
| `TransferResave` | `MCTransferLinks` | `MirrorIsMissing` | Saving a linked transfer again posts its other side a second time. |
| `BalanceTyped` | `MCBalanceTruth` | `AnchoredBalanceTrue` | The form asks for a negative closing balance on a card; every reading takes it for the amount owed. |
| `BalancePage` | `MCBalanceTruth` | `PageAgreesWithList` | A statement on an account whose rows carry running balances: the page reads the statement, the list and the history the rows. |
| `BalanceSettled` | `MCBalanceTruth` | `SettledReadsZero` | An account with uploaded statements, closed as settled, still shows the last of them. |
| `CorrectionLoses` | `MCCategories` | `CorrectionWins` | A correction is stored under a pattern the model's rule covers with more hits; the next row of the wording goes where the model put it. |

Further properties of the modules are refuted without a configuration of their own. Put the
property in the place of those of the named configuration.

| Property | Where | What happens |
|---|---|---|
| `UserChoiceKept` | `Classify.cfg` | The user places a row while the model is asked about it; the run writes over it. |
| `CategoryDeletable`, `Recoverable` | `Classify.cfg` | Deleting a category clears rows and rules, not splits, and the database refuses while one refers to it; nor does it clear the log, and a row logged with the category cannot be recovered. |
| `SplitCategoryFollows`, `TransferIsNoSpend` | `Classify.cfg` | Placing a row, or flagging it as a transfer, leaves its split as it was. |
| `VisitorStaysSignedIn` | `SignIn.cfg`, as a `PROPERTY` | The idle deadline of a session moves with every visit, the age of the cookie does not. |
| `OneAdmin`, `BackupComplete`, `TableIsCleared` | `SignIn.cfg` | Two overlapping setups of different names; a copy of the file alone while rows are in the log; a session nobody sends again is never removed. |
| `MarkFollowsLatest`, `PageConvertsOnce`, `ToThePenny` | `Holdings.cfg` | The latest row is asked for before the edit is flushed; a valuation is converted from its own currency and then from the account's; a pension's valuation takes a price that a later statement left. |
| `HoldingsReconstructed` with `kind \in Brokers` | `Holdings.cfg` | A first statement confirmed by two requests books every trade twice. |
| `CutsOnCycle` | `Reports.cfg`, as a `PROPERTY` | The smallest edge of the whole graph goes, whether it is on a cycle or not. |
| `NeverAllOfAGroup`, `HiddenCanBeUndone` | `Reports.cfg` | Groups overlap, so all rows of one are ticked through others; a dismissal of two rows of neighbouring days is listed for undoing only where two rows share the day. |
| `BulkDismissHides` | `Reports.cfg`, as a `PROPERTY` | What is stored are the days of the ticked rows; a group of neighbouring days is hidden by the day of its first row, which is never ticked. |
| `SameDaySurfaces` | `Reports.cfg` with `Files <- FilesTimed`, `Clocks = {0, 1}` | Two files, one with times of day: neither kind of group has the pair. |
| `SumIsTheBook` | `Balances.cfg` with `Kinds = {"plain"}`, `Values <- SomeValue` | Rows that come to zero bring back the value the account was created with. |
| `AccrualsAgree` | `Interest.cfg` with `Instances <- SoloQuiet`, without its `SYMMETRY` | A recovered row changes the balance and nobody re-checks. |
| `SettlesOnce` | `Schedules.cfg` with `Statements <- NoStatements`, `Entries <- LeaseEntries`, `Homes <- HomeReuse` | A row that settled one schedule is free again once that schedule has moved on. |
| `DecisionsStand` | `SchedDetect.cfg` with `Names`, `Looks = {"rent", "lease"}`, and a home with no names, files or days, nothing found, and both names stated | A statement's schedule is deleted; a later statement builds one under its other name, and the next one renames that to the name the user deleted. |
| `MatchAdvances` | `SchedDetect.cfg` with `Names = {"first"}`, `Looks = {"first"}`, `Statements <- EarlyStatement`, `Homes <- HomeEarly` | A bill of the 1st paid on the 28th is advanced to where it was. |
| `AnchorHolds` | `Balances.cfg` with `Lags = {0, 2}` | An entry made the day before a statement and posted the day after it is on neither side. |

Hazards that only such a refuted property covers are not in the list of `PROJECT.json`, which holds
those that a run of the project decides.

Smaller things met on the way: `suggest_categories`, a GET that its page calls a preview, counts
hits and commits them; `README.md:232` says that the event type of a row can be edited, and the
form has no such field; `_background_refresh_property_value` has no caller.

## What is not modelled

* Reading of files (CSV dialects, PDF text, vision models, documents), column and date format
  detection: heuristics over contents, without state. Their result is `Content`, or what
  statements say in `Holdings`.
* What a network feed or a language model answers, which is a constant or a free choice.
* Stateless validators (redirects, upload types, tenant filters): one expression each.
* Reports over the tables (net worth, attribution, forecast, Monte Carlo, data quality, tasks):
  computed on request, they change nothing.
* Reconciliation groups: they come from one API route that no page calls and from mortgage
  statements, and only the counters of the data-quality report read them.
* Enrolment of a passkey, API tokens, change of the password.
* Loan metadata and payment decompositions of statements.
* Forms and templates, except hidden or preselected fields where a handler's behaviour depends on
  them.
* Migrations and seeds, except the categories a start seeds.

## Plan

Done: `ImportLedger`, `InterestAccrual`, `ScheduledPayments`, `TransferLinks`, `BalanceTruth`,
`FlowEdges`, `SplitTruth` and `Categories`, `SetupClaim` and `SignIn`, `FxRates`, `Valuations` and
`Holdings`, `Review`. Left, in order of importance to the ledger:

1. Loan accounts: the principal of statements, accruals and decompositions as one reading.
2. Reconciliation: two suggestions at once over the same rows, and a mortgage statement beside
   them; a row in one group.
3. Pure algorithms against reference definitions: forecast recurrence, attribution, date
   arithmetic with clamped months.
4. An abstract specification of transfers: a *matching* of rows that `TransferLinks` implements
   while requests take turns.

Theorems worth proving next: the matching of item 4, step by step; `ImportImplementsDayLedger` with
entries made ahead of the bank, which a file may absorb.

# PriceOptima in TLA+

PriceOptima is a sales-quotation service: managers build requests (заявки) line
by line from a product catalogue, print commercial offers (КП) from them, have
lines approved, and feeds and imports keep the catalogue's prices current. The
server is Express with Prisma on PostgreSQL, one Node process; the client is a
React application whose stores talk to it over HTTP. Paths below are relative to
the repository root; `server/...` is the server, `src/...` the client, `shared/...`
code both use.

This directory models the parts of it whose correctness depends on the order in
which several actors' steps happen, checks them with TLC on small instances and
proves every safety property that holds, and that the request server implements an
abstract ledger, with TLAPS for all values of the constants (one property, of typed prices, as
far as the arithmetic of the code carries it, see section 12).

## 1. Inventory

| Component | State it keeps | Operations | Hard behaviour | What makes it correct |
|---|---|---|---|---|
| **Edit lock** `server/modules/requests/locks.service.ts` | one `RequestLock` row per request: tab, expiry | acquire, heartbeat, release, force (admin), releaseUserLocks, assertLockHolder | several statements per handler, no transaction; the expiry passes between two of them; a call that started before a blocking or a takeover ends after it | a live lock is lost only to those entitled to end it; writes come from the holder |
| **Request document** `requests.service.ts` | `Request` row with version, status, header, lines, stored sums | saveRequestDocument, changeStatus; create, copy, list, read | optimistic version + row lock + edit lock in one transaction, while lock calls do not wait for it; sums computed from KPs | no lost update; nothing lands in a closed request; stored sums describe the rows |
| **KP versions** `kp.service.ts`, `shared/requests/document.ts` | `KpDocument` rows; `kpCount`, `lastKpFinal` copies on the request | createKp, deleteKp | numbering after deletions; the chosen or implied base of approvals changes under saves | numbers unique; copies current; the base of approvals is not deleted |
| **Attachments** `attachments.service.ts` | `RequestAttachment` rows, `filesCount`, files on disk | addAttachment, removeAttachment | disk and database are two resources; limit and permission checked before the upload | a row always has its file; counter equals rows; the limit |
| **Request tab** `src/stores/requestDocStore.ts` | the document being edited, last saved copy, lock state, timers, undo history | load, unload, edit, autosave, heartbeat, refresh, setStatus, reopen, undo, page hide | timers and answers of overlapping requests interleave at every `await`; answers are lost or late | an edit the user saw accepted is not silently dropped; the tab does not edit without a lock |
| **Price updates** `server/modules/price-updates` | Product rows, PriceHistory, records of runs; in memory: suppliers being updated, the queue of runs | update from a feed's link, import of a file; archiving of the long missing at night | the plan is computed before the transaction that writes it, in minutes during which managers edit cards; one run per supplier, one applied at a time; a restart forgets both | a card edited meanwhile is not overwritten; history follows prices; nothing is archived too early; no failed run blocks the next |
| **Feed connectors** `server/modules/price-updates/connectors` | — | fetch and parse | external formats | pure conversion |
| **Scheduled jobs** `server/jobs` | in memory: timers, the queue of feed runs, retries; the journal of runs | daily feed run, retries, catch-up on start, NBU rates, retention | retries and queue lost on restart; clock changes; a user's update holds the supplier | no day without a try of every feed; nothing fails for ever |
| **Product images** `server/modules/images` | image rows, files, the main flag, the product's copy of the main address | upload, photo by address, feed import, make main, order, remove | two transactions choose the main photo; file and row are two resources | at most one main photo; rows have their files and files their rows |
| **Catalogue products** `server/modules/products` | product cards, SKU counters | create, update, price change | next SKU, version check | no lost update; unique SKU |
| **Users and roles** `server/modules/users` | role, isActive, sessions | setUserRole, blockUser, unblockUser | count of other admins outside the update | an administrator is left |
| **Access** `server/modules/access`, `auth` | invites, reset links, sessions; in memory: counters of failed logins | one-time links, login, resolveSession, password | a link used twice at once, or used and revoked; logins that are verified at the same time; sessions that slide | a link is used once; guessing is slowed down; a session in use stays |
| **Reference sheets** `server/modules/reference`, `src/pages/reference` | sheet with version; client draft | updateReferenceSheet; draft autosave | two pages edit one sheet; edits during a save, a conflict, a closing; a query cache under the drafts | no colleague's edit is overwritten, no draft is forgotten |
| **Currency rates** `server/modules/rates` | rate rows | add, import | — | newest rate wins |
| **Directories** clients, own companies, suppliers, settings, units | cards, some versioned; marks of which one is the default | CRUD | what is written was decided by what was read before the transaction | one default; words and numbers stay unique; lists that were not sent stay |
| **Pricing** `shared/pricing`, the tabs of the editor | what a request says of prices; KPs and their rows | pure functions of a document; cells and buttons that change it; forming, approving and deleting KPs | several roundings on the way to and back from a cell; the same sums computed in several ways; approvals at the prices of an older KP | what was typed is shown; sums agree; a KP is complete; what was approved keeps its price |
| **Open tabs, interface settings** `src/stores/tabsStore.ts`, `uiPrefsSync.ts` | tab list, preferences | open, close, sync | tab limit | limit kept; the newest settings win |
| **Audit log** `server/modules/audit` | append-only rows | append | — | — |
| **Pages, HTTP plumbing, backups** | — | rendering, I/O, shell scripts | — | not modelled |

**How they interact.** A request tab calls the four request services over HTTP;
these share the `Request` row (taken `FOR UPDATE` by every transaction that
writes it) and the `RequestLock` row (read by transactions, written by
autocommit statements that do not wait for them). Blocking a user, in the users
service, deletes sessions and then calls into the lock service. Status changes
delete the lock in the document's transaction. Price updates, the products
service and the nightly job share the `Product` and `PriceHistory` rows. Products are
read by the client when a line is added; requests copy prices and do not
reference them, so the catalogue and the requests do not interact further.

Nine groups are modelled, each in a specification of its own:

| Specification | Section | Question |
|---|---|---|
| `RequestServer` | 2 | what the server guarantees a request, whatever the tabs do; it implements `RequestLedger` |
| `RequestTab` | 3 | what one tab does with answers that are late, lost or refused |
| `RequestContent` | 4 | what becomes of the document itself: edits, undo, differences, copies |
| `PriceUpdates` | 5 | what becomes of cards that feeds, managers and the night write |
| `DailyJobs` | 6 | whether what is due every day is done, through restarts and clock changes |
| `Accounts` | 7 | logins, sessions, one-time links, roles and blocks across each other |
| `Records` | 8 | directories and photos that several people edit |
| `ReferenceSheet` | 9 | drafts of a shared sheet |
| `Quotes` | 10 | the money of a request, from the cells of offers to the final KP |

The specifications meet where the components do. `RequestTab` takes what
`RequestServer` establishes as given: a call to the server is one step there, but a write is two, its checks
and its commit, since the lock can be lost in between. `RequestContent` takes from `RequestTab` when a save
is accepted, and opens up what an edit and a difference are, which `RequestTab` keeps abstract.
`DailyJobs` knows of an update only how it ends; what it does to the catalogue is in
`PriceUpdates`, and its photos are in `Records`. Blocking a user drops sessions in `Accounts`
and edit locks in `RequestServer`.

Words used throughout: a **call** is an HTTP request the server is working on. A **ghost** is a
variable (or field) that no action's guard reads; it remembers something a property needs.
A **mutant** is a definition that `PROJECT.json` pairs with a property and with the
definition it replaces: the slip in the code that the property would notice.

## 2. The request server

### Modules

| Module | Models | Source |
|---|---|---|
| `RequestState` | variables, the types of rows and calls, taking and leaving the row lock | `server/prisma/schema.prisma`, `requests.service.ts`, `auth/middleware.ts` |
| `LockCalls` | acquire, heartbeat, release, force; blocking a user | `locks.service.ts`, `users.service.ts` |
| `DocumentCalls` | saving the document, changing the status | `requests.service.ts`, `shared/status`, `shared/pricing` |
| `KpCalls` | forming and deleting a KP | `kp.service.ts` |
| `FileCalls` | adding and removing an attachment | `attachments.service.ts` |
| `RequestServer` | composition, clock, restarts, specification, properties | all of them, `server/index.ts` |
| `MCRequestServer` | the instance TLC runs | |
| `RequestLedger` | abstract specification: a document under a version and a numbered series of offers, one complete step at a time | `requests.service.ts`, `kp.service.ts` |
| `RequestProofs` | type correctness, the safety of document, KPs, attachments and lock, and that `RequestServer` implements `RequestLedger`, proved | |

`RequestServer` EXTENDS `LockCalls`, `KpCalls` (which EXTENDS `DocumentCalls`) and
`FileCalls`, all of which EXTEND `RequestState`.

### State and actions against the code

The model follows **one request**: no handler touches two. A *tab* is a pair
(user, `X-Session-Id`): the lock row stores both and every comparison uses both.
A *call* is an HTTP request being served; `pc` says where its handler is, `op`
what was asked, `view` what its transaction has read. A call that has been answered,
or refused by a guard of the code, is `"idle"` again, whatever the error code.

* **Steps.** The connection pool runs handlers concurrently under READ COMMITTED
  (Prisma's default; the code sets no isolation level). A statement outside a
  transaction is one step. A transaction that begins with
  `SELECT ... FOR UPDATE` is three: take the row and read it (`LockRow`), check
  the lock row and the rest (`...Assert` / `...Refuse`), write and commit. What
  the row protects cannot change between them; the `RequestLock` row can, since
  nothing locks it. That is why the check and the commit are separate.
* **What waits for the row.** `FOR UPDATE`, updates of the `Request` row
  (attachments) and *inserts* of a lock row (their foreign key takes
  `KEY SHARE`). Updates and deletes of a lock row do not wait, and so a takeover
  by upsert over an existing row happens in the middle of a save.
* **Clock.** A handler computes `now` once; the call carries it as `op.at`.
  `Tick` may happen at any point.
* **Restart** is the death of the process: every open transaction rolls back and
  every call in progress is lost, rows and files stay. Files written before
  their row are left behind; no property forbids that and the code has no sweep.
* **Data.** Header, lines and recipients of a document are reduced to what KP
  rules look at: the chosen base (`approval`) and whether any line is approved.
  The stored approved total is represented by the KP whose prices it was computed
  from (`sumBase`). `lastKpFinal` of a request without KPs (`null`) and of one whose
  last is ordinary (`false`) are one value.
* **Inputs.** A save may come from any tab with any version the request has had
  and any approval state. The chosen base it writes may be a KP deleted since,
  because the patch is not checked against the KPs
  (`requests.service.ts:447`); `approvalBaseKp` then falls back.
* `blockUser` is called by an administrator on another user. Its
  `assertAdminLeft` always passes then, since the caller remains; the race
  between two administrators is in section 7.
* `journal` is a ghost: one entry `[base, tab]` per accepted version-bumping write.
* `MaxWrites` bounds saves, status changes and KPs together (`WritesLeft`).

**The abstract specification.** `RequestLedger` has an open or closed document with a version,
and offers that are numbered in series; a write, a turn of the status, a new offer and
a withdrawal are one step each. The mapping (end of `RequestServer.tla`): `open` is whether the status is
editable, `contents` whether anything is approved, `offers` the version numbers of the KPs,
`agreed` the number of the KP in `sumBase`. So transactions of several steps, stored
columns and the row lock disappear, and `LedgerKept == Ledger!Spec` says that what is left
moves by complete steps only.

### Runs

Every instance has two tabs of two users and two calls in progress at once; each run
lets the tabs make the kinds of call its question is about. Two calls are the
smallest number with a race, and every hazard listed is a race of one call with another, with
the clock, or with a restart. `MaxVersion`, `MaxKps`, `MaxWrites`, `MaxUploads` bound
how many writes, KPs and uploads a behaviour has. Calls and tabs are interchangeable, so
safety runs use symmetry; the run with a liveness property does not.

| Run | Kinds of call and bounds | Shows |
|---|---|---|
| `locks` | acquire, heartbeat, release, force, block, save, status; one tab is an administrator's; `Ttl` = 1 and `MaxTime` = 1 let a lock be live and expire | `LiveLockKept`: a live lock passes to another tab only by force, and disappears only by its own tab, a status change, or the blocking of its user; `TypeOK` |
| `document` | acquire, save, status, KP create and delete; three versions, so that a call can be two behind; three KPs, so that one can go from the middle and a new one come; three writes in all | `LinearHistory` (no lost update), `KpVersionsUnique`, `KpSummaryCurrent`, `ApprovedSumCurrent`, `ApprovalBaseKept`, `ClosedFrozen`, and `LedgerKept`: the refinement |
| `files` | acquire, status, file add and remove; a limit of 1 | `FilesCountCurrent` (the counter, and at most the limit plus one per other simultaneous upload: 2 files, and 3 uploads so that the bound could be passed), `FilesStored`, `EveryCallAnswered` under `FairSpec` |

`CHECK_DEADLOCK` stays on where a new call can always start.

**Fairness.** `FairSpec` has strong fairness on the steps of each call and none
on the start of calls, on the clock or on restarts. A handler never waits for
anything but the `Request` row; PostgreSQL queues the waiters of a row and
serves them in turn, so a waiter for whom the row is free again and again
eventually gets it, which weak fairness would not give.

## 3. The request tab

### Modules

| Module | Models | Source (`src/stores/requestDocStore.ts` unless noted) |
|---|---|---|
| `TabState` | the store, its closure variables, activities that wait | state, `INITIAL_DATA`, `readOnlyOf` |
| `TabServer` | the server towards one tab, other tabs, the network | the request services, as section 2 found them (it implements `RequestLedger` too) |
| `TabSaving` | edit, undo, the save queue, status changes | `edit`, `commit`, `undo`, `runSave`, `onSaveError`, `flush`, `setStatus` |
| `TabLife` | load, unload, lock, heartbeat, watch, refresh, hiding the page | `load`, `doUnload`, `retryLock`, `forceLock`, `reopen`, `refresh`, `watch`, `onPageHide`; `RequestEditorPage.tsx` |
| `RequestTab` | composition, fairness, properties | |
| `TabProofs` | that what the tab takes for saved is stored, and that the server of this model keeps `RequestLedger`, proved | |

### State and actions against the code

* **Steps.** JavaScript runs from one `await` to the next undisturbed, so that is
  one step. Every function of the store that waits for an answer is an
  *activity* in a slot of `calls`: asked, answered, or (`"wait"`) waiting for a
  save under way. `Serve` is the server handling the request, and separate from the
  step that receives the answer, so answers overtake each other. A save or a change of status first takes
  the request's row and passes its checks (`Check`), then commits (`Reply`). No other write is checked and no lock row inserted
  in between (`RowTaken`), but the lock row that is there can be taken over or deleted: the write is stored all the
  same, except that a save which finds no lock row to renew fails (`NOT_FOUND`, line 487 of `requests.service.ts`). Functions that await the
  same save go on before any timer, click or other answer (`Waiting`), since their
  continuations are already queued.
* **The document** is a set of edits: positive numbers are this tab's, negative ones
  come from others. An edit adds one; undo and redo restore earlier sets. A patch is
  the difference between what was saved last and what is shown. Where the store
  compares object identity, which immer keeps while nothing changes, the model compares
  contents; the two differ only after an undo back to equal contents, where
  the code sends a patch without changes. All editing operations of the page are `Edit` here; section 4 has each of them.
* **Request ids.** One request; opening another one is closing this one, so
  `requestId` is `null` exactly when `loadState` is `"idle"`.
* **`tab.seen`** is `meta.updatedAt`, a version here. KP and attachment changes, which change
  `updatedAt` and not the version, are not modelled in the tab.
* **Timers.** `saveTimer`, `heartbeat` and `watching` are flags: when set, the timer may
  go off at any moment. A flush by a KP, a copy or the end of the session is an early `SaveTimer`.
* **The network** may lose a request before the server has it or its answer
  after (`Fail`): to the tab both are the same error, as is a transaction that was rolled back.
* **Expiry.** An expired lock row remains the tab's until somebody's acquire deletes it (`OtherSweeps`).
* **Left out:** toasts and the text of the banner, and the undo limit (never reached here).

### Runs

Two slots are two requests of the tab in flight at once. Three acts are
enough to edit, leave and come back; each hazard listed needs at most two acts
of the user and one of somebody else around one late answer.

| Run | Acts, others', losses | Shows |
|---|---|---|
| `tab_edit` | 3 of edit, undo, status, reopen, retry, force, page, hide; 1; 1 | `SaveStoresShown`: an accepted save leaves on the server exactly what the tab showed when it was sent; `SavedWasStored`: what the store takes for saved is the server's document of the version it names, and so is what is shown and not marked unsaved |
| `tab_live` | 2 of retry, status, reopen, force; 2; 1 | `LockLossNoticed`, `ViewerCatchesUp` under `FairSpec` |
| `tab_reread_reports` | 2 of edit, status | refuted |

`CHECK_DEADLOCK FALSE`: a page that has been left and has no acts left really stops.
The ghost `kept` is set when the browser brings a hidden page back: the answer of the save sent by
`onPageHide` then clears `dirty` whatever has been edited since (lines 688–693), and `SavedWasStored`
says nothing of such a page. The ghost `mixed` is set when `setStatus` puts the version after the
change over a document that was read again meanwhile as of another one (lines 1294–1306, see section 11): from then on
neither property says anything of the tab.

**Fairness.** Timers have strong fairness (a timer may find no free slot, and
comes again), the server, answers and continuations weak fairness. Lost messages are
bounded by `MaxFails`, that is, the network works in the end. The user and the other
tabs owe nothing.

### What a comment says and a run refutes

`tab_reread_reports` (`RereadReportsLoss`, line 1292): `setStatus` saves and
then waits for the server while the document is still editable. What is
edited meanwhile can no longer be saved when the request has become closed, and
the next `watch` calls `refresh`, which replaces the document
without `captureLostChanges`, although line 423 says that what was not saved is
remembered before a re-reading.

## 4. The content of a request document

### Modules

| Module | Models | Source |
|---|---|---|
| `DocumentPatch` | the document, the difference between two of them, what the server makes of a difference, what a copy takes over; what a sound document is | `src/stores/requestDocDiff.ts`, `shared/requests/document.ts`, `shared/requests/copy.ts`, `writeParts` |
| `DocumentEdits` | every edit of the page as a function from a document to a document | `src/stores/requestDocStore.ts`, `shared/pricing/multiplicity.ts`, `offer-factory.ts` |
| `RequestContent` | one tab, the rows, and what happens to them: edits, undo and redo, answers of the catalogue, saves, copies; properties | `requestDocStore.ts`, `requests.service.ts` |
| `MCRecords` | the instance TLC runs, with the areas of sections 8 and 10 | |
| `ContentProofs` | the properties of `RequestContent`, proved, and those of section 10 | |

### State and actions against the code

* **A document** is a header, lines, blocks (one per supplier) and offers (a product for
  a line from a block). Lines, blocks and offers are functions from ids to
  records; the order of the arrays is in `pos`, which the code renumbers after every change
  of the order. `rest` stands for fields that only their own edits change: names,
  markups, approvals, rates, prices. `autoRound` is the setting as the tab loaded it.
* **An edit** is `commit` of what a recipe makes of the document (`Edit`); a recipe
  that changes nothing commits nothing. Undo and redo move between whole documents, as in the code.
  Of the edits that take many lines at once only those whose effect on several lines matters
  do so here (removal, choosing all, pasted article numbers).
* **Questions to the catalogue** (`Ask`) are answered while the document goes on changing
  (`CatalogueAnswers`): `applySkuTargets`, `setOfferBySku` and `createProductAndOffer` come
  back with the ids of a line and a block that may be gone, or come back by undo.
* **A save** (`Send`, `Serve`, `Saved`) carries the difference to `lastSaved`. The server
  applies it to its rows by rules of its own (`Applied`: deletions cascade, of two offers
  for a pair the last stays, selections of absent blocks are cleared) and writes the difference that
  makes to the rows (`Written`). Whether it is accepted is a flag here, `current`: the tab's
  version is that of the rows. A lost answer makes it false, as does a save of somebody else.
* **A copy** reads header and lines, blocks, and offers with statements of their own
  (`CopyReads`): `loadRequest` includes the parts outside a transaction. A tab that loads
  a request reads in the same way, but with the version of its first statement, so that a save
  from a torn reading is refused; there the reading is one step (`Reread`).
* **Ghosts**: `hand`, the quantity of an offer was typed in; `switched`, the setting has changed.

### Properties

| Property | Says |
|---|---|
| `StoredAsSent` | after an accepted save the rows are exactly the document that was sent; and while nobody else writes, `lastSaved` is what the rows are. The difference, the server's cascades, their order and the two diffs in a row must agree for this with each other and with every edit |
| `DocumentsSound` | of every document shown, stored, or kept for undo: offers belong to lines and blocks that are there, one to a pair; no supplier has two blocks; a line's choice is a block with an offer for it that is not excluded; positions are 1, 2, ... And of a copy, whenever its parts were read: offers and choices refer to what the copy has |
| `QtyFollowsLine` | an offer whose quantity nobody typed has the line's quantity, rounded up to what is sold at once: the code decides by the value alone whether a quantity followed (`applyLinePatchesDraft`) |

`QtyFollowsLine` says nothing after the rounding was switched on or off in the settings: quantities
that had been rounded then count as typed in. Nor does it of an offer whose quantity was typed in,
even if it equals the rounded one and so follows the line from then on.

The instance has two first documents (two lines and a block; one line and two blocks with a
rounded offer), two suppliers with a product each, one sold in pairs, two edits and one thing more:
an undo (redo is free), a question, a loss, another's save, a reload or a copy. Two edits
around one late answer, or before and after an undo, are what the hazards need.

## 5. Price updates

### Modules

| Module | Models | Source |
|---|---|---|
| `CatalogState` | cards, history, runs, calls | `server/prisma/schema.prisma`, module variables of `priceUpdates.service.ts` |
| `PriceRuns` | what a list does to the cards it was compared with; a run: start, download, queue, plan, transaction | `plan.ts`, `priceUpdates.rules.ts`, `priceUpdates.service.ts` |
| `PriceUpdates` | calls of managers, the night's archiving; midnight, restarts, composition, properties | `products.service.ts`, `archiveLongMissing` |
| `PriceProofs` | the properties of `PriceUpdates`, proved | |

### State and actions against the code

* A **card** is a product under its code; one `price` stands for purchase
  price, retail price and currency. `Others` are imported cards of every supplier to which
  nothing happens: they make lists short or long enough for the guard against
  marking half of a catalogue missing (`Rejected`). `origin`, `archived`, `auto` (`autoArchivedAt`) and `missing`
  (`missingSince`, a day) are the columns that decide what becomes of a card.
* A **run** is refused when its supplier is in `running`; then it downloads
  (`Fetched`), waits in `importQueue`, reads the cards and computes its plan
  (`Compute`), and writes it (`Write`) or not (`PlanDropped`: rejected, only
  asked for, or rolled back). `Write` is one step although it is many
  statements: the rows the plan updates are locked before their versions are compared
  (`editedSincePlan`), and what other actors do between its statements to other rows could
  as well have been done before it. What the plan does by id alone, without asking a version
  (adoption, marking and clearing of `missingSince`), lands on the row as it is by then.
* A **manager's call** reads the card in one step and writes it in a later
  one, since the code reads outside the transaction. A change of the card comes with the version
  its user has seen, or with none, which the server does not check (`cardVersion.ts:17`; the
  pages of this repository always send one). Creating a card
  and the bulk changes that only raise the version are one step.
* **Night.** `archiveLongMissing` is two statements. `NextDay` waits for the night's
  work, and no call and no run lasts over two midnights. A run that started before
  midnight and is written after it keeps its day.
* **Restart** forgets `running`, the queue, runs and calls; a night's work that was
  interrupted, or due while the process was down, is not made up for, as nothing runs it on start.
* **Ghosts**: `entered`, the cards whose price was typed in since the plan under way was computed; `listed` and
  `returned`, the last day on which a card was in a list, or was brought back by a manager.
* **Left out:** descriptions, photos, stock, the report and the journal of runs
  with its count of failures, the guard against mass changes of prices (it only
  rejects), codes that are linked to other cards, and how lists are parsed.

### Run

`prices`: a hybrid supplier (prices from files, everything else from its feed) with one card, a
manual one whose updates contend for the queue, two runs, two calls of a manager, one
at a time, archiving after more than one day missing, three nights. One card
suffices, since no rule relates two cards but the guard, for which `Others` stand. Two
runs are enough for a second list to undo, find or contend with the first, and two calls to edit a
card and bring it back; three nights, for a card to go missing, be tolerated on the last day, be archived on the next,
and return.
`CHECK_DEADLOCK FALSE`: on the last day, with the runs used up, nothing is left to do.

| Property | Says |
|---|---|
| `NoneLockedOut` | the in-memory set and queue describe the runs under way: no failure leaves a supplier or the queue blocked |
| `ManualPriceKept` | a price entered while a plan was being computed or waited outlives that plan |
| `HistoryOfImports` | when a run changes a price or adds to the history, the newest row has the price of the card |
| `LongMissingOnly` | the night archives only what has not been in a list for longer than the limit, nor was returned by a manager within it: an update that goes on over midnight marks cards as missing since the day it began, and so may take a day from a card returned in between |

## 6. Daily jobs

| Module | Models | Source |
|---|---|---|
| `FeedRuns` | clock, process, daily timers; the queue of price list updates, retries, catch-up | `server/jobs/schedule.ts`, `jobs/index.ts`, `jobs/priceFeeds.ts`, the end of a run in `priceUpdates.service.ts` |
| `DailyJobs` | rates of the National Bank, manual rates of today; composition, fairness, properties | `server/jobs/nbuRates.ts`, `rates.service.ts` |
| `JobProofs` | `TriedDaily`, proved | |

* **Time** goes by the hour. `hour` is the clock of the day: a `Tick` may leave it where it is or
  move it by two, which is a night the clocks change. Timers and ages of runs count real
  hours, as `setTimeout` and timestamps do; `HoursUntil` plans by the clock, as `msUntilDaily` does.
  Whatever is due is done before the hour passes (`Settled`); runs may take longer.
* **In memory**: timers, the queue, retries, the locks of suppliers; `Stop` loses them. In the
  database: the journal of runs, as the age of the newest run by link (`ran`) and whether it
  succeeded (`fresh`). A run's row carries the moment it started.
* **Catch-up** (`CatchUpFeeds`) looks at the suppliers one after another and may fail halfway.
* **A run is over within the hour** (`RunAssumption`): downloading has five minutes (`priceUpdates.fetch.ts:10`), writing
  five more (`priceUpdates.service.ts:59`), and a run makes one of each. It may go on while an hour passes.
* A user's update holds the supplier: the schedule's run is refused and tried again later
  (`RefuseRun`). A refused run leaves no row in the journal.
* Ghost `excused`: a supplier whose last turn left no trace in the journal or could not be read.
* The jobs share nothing but the clock and the process; a behaviour is about one of them (`job`).

**Run** `jobs`: two suppliers due at the same hour, days of three hours, one retry, three
failures, restarts, clock changes or calls of users. `TriedDaily`: while the process is up and has
done what its timers told it, the newest run of every supplier is at most a day old, or
one is waiting. `UpdatedAgain`: once failures stop, every price list is updated again and
again, and the rates of a day are there again and again. Three hours are the shortest day on which an
hour before, at and after the due one differ; three events make a failure, a restart before the
retry, and a clock change.

**Fairness.** Weak, on the clock, the restart of the container, the timers, and the answers of
downloads and queries, which have time limits. Failures are bounded by `MaxEvents`: they end some day.

## 7. Accounts

| Module | Models | Source |
|---|---|---|
| `AccountState` | rows, links, sessions, counters, calls | `schema.prisma`, `access.rules.ts` |
| `SessionCalls` | login with its limiter, sessions that slide, logout | `server/modules/auth` |
| `AccessCalls` | invitations, reset links, registration, reset, revocation | `server/modules/access` |
| `Accounts` | roles, blocking, unblocking, one's own password; composition, time, restarts, properties | `users.service.ts` |
| `AccountProofs` | the properties of `Accounts`, proved | |

A call is the steps of its statements, a transaction is one step. Time is relative: sessions, links and
windows carry what is left of them, calls how late they are (`late`: how long ago their
handler took `now`), so that time has no bound. Passwords and tokens are abstract:
whether the password is right is a choice. `Restart` forgets the counters and the calls.
Ghosts: `idle` of a session (time since a call was let through with it), `from` of a user (the invitation),
`crossed` (which of the races below has happened).

**Run** `accounts`: three accounts of which one is an administrator at first, two links, one session,
two calls at a time and four in all; a limit of one failure in a window of 2, sessions
of 4, links of 2, calls up to 1 late. Two calls have every race; four let an account be
made, used and blocked.

| Property | Says |
|---|---|
| `LinksWorkOnce` | an invitation makes at most one account and is used then, however many open it and whatever is revoked meanwhile; of the reset links of an account one can be used, unless two were made across each other |
| `AdminLeft` | an active administrator is left, unless two demotions counted each other's (`crossed`) |
| `FailuresBounded` | failed logins in a window overshoot the limit by at most one per login under way |
| `UsedSessionKept` | a session that was used within its time to live less a renewal step does not end by itself |

## 8. Directories and photos

| Module | Models | Source |
|---|---|---|
| `RecordState` | rows, calls of two steps | `schema.prisma` |
| `DirectoryCalls` | settings with the request counter, own companies, units, a client with counterparties | `settings`, `own-companies`, `units`, `clients` |
| `ImageCalls` | the photos of a product: rows, main mark, address, files | `images.service.ts`, `images.rules.ts` |
| `Records` | composition, restarts, properties | |
| `RecordProofs` | the properties of `Records`, proved | |

All of these read first and write in a transaction later. A call is these two steps (three where
a file follows), the transaction is one. The areas share no state, so a behaviour keeps to one of
them (`area`). Many of the races cannot be excluded by the code, and then the property says what holds
without them: a call is `stale` when something was written since it read, and the ghost
`crossed` remembers that a stale call has written. `restarted` excuses files left behind by a
restart, which nothing sweeps.

**Run** `records`: two calls at a time and four in all (three for clients and photos, which also
pass with four in a run of their own), two of each record, three photos.
Four calls are two that set up a state and two that race over it. The run includes the documents of
section 4 and the money of section 10, whose instances are further areas (`MCRecords`).

| Property | Says |
|---|---|
| `NextNumberFree` | the number the next request gets is free, whatever administrators set and requests used |
| `DirectoriesSound` | as soon as there are own companies one active one is the default; a word leads to one unit, as code or synonym |
| `ListsKept` | at most one counterparty offered for choice is the default; a save that passes no lists leaves them as they were although it writes them |
| `ImageFilesKept` | every photo's file is there, and no uploaded file is left without a row, whatever fails in between |
| `OneMainImage` | at most one main photo, the product shows its address, and a main mark is not lost while photos remain |

## 9. A reference sheet

| Module | Models | Source |
|---|---|---|
| `ReferenceSheet` | the row, the pages' cache, drafts, saves and reloads; properties | `reference.service.ts`, `useSheetDraft.ts`, `ReferencePage.tsx` |
| `SheetProofs` | that a save keeps what was stored, proved | |

A sheet is saved as a whole with the version its user has seen. Its content is the set of changes
that have gone into it. A page has one editor at a time; leaving the sheet closes it and coming
back opens another over the same cache. Ghosts: `patched`, the text was put in the cache by a
closed editor; `made`, the changes so far; `owed`, the changes typed into an editor that have neither
been stored since nor been given up by their user.

**Run** `sheet`: two pages, one of them with two editors in turn, three changes, one
lost or refused message, six acts in all (an editor opened, a change made or a message lost): enough for a
save, a conflict, a closing, a return and a save of what was left behind. Seven acts are all that these
editors, changes and faults can do; checked once, with 2.4 million states, they violate neither property.

`StoredEditsKept`: a save takes nothing away that was stored before, drafts left out that began
with a text a closed editor left behind (see below). `DraftsSettle`: time and again nothing is owed, except by
an editor that shows its user a conflict or a refusal and waits for an answer. No draft is left out, and being told once
excuses nothing typed later. Changes are finitely many and each is owed once, so `[]<>`
says of all of them together that each leaves `owed` or comes to wait for its user. Given up is
what the user leaves with the sheet, and what the page asks to be made again after a colleague's change
(`ReferencePage.tsx:84`), edits made while that change is being loaded among it. Whether a change, once stored, stays in the row is the question of `StoredEditsKept` and of
the refuted `EditsOfOthersKept`, not of `DraftsSettle`.

`CHECK_DEADLOCK FALSE`: when all editors are closed nothing is left to do.

**Fairness.** One weak fairness over everything that happens without the user: timers, the
server, answers. Nothing is asked of the order.

**Refuted** (`sheet_overwrite`, `EditsOfOthersKept`, `useSheetDraft.ts:167`): an editor that is closed
with unsaved text puts the text into the cache under whatever version the cache has by
then. If that is a colleague's newer version, read while the editor was dirty, the closing save is
refused silently, and the next editor saves the old text over the colleague's with the
new version; `reference.service.ts:1` says that versions keep this from happening.

## 10. The money of a request

| Module | Models | Source |
|---|---|---|
| `OfferPrices` | roundings, a price into a cell and back, quantities sold in multiples; the figures of offers, the choice of a line, totals of suppliers, ways to buy | `shared/pricing/money.ts`, `vat.ts`, `offer.ts`, `refresh.ts`, `multiplicity.ts`, `comparison.ts`, `blocks.ts`, `scenarios.ts` |
| `SalePrices` | sale prices by method, rows and totals of a KP, what may go into one, earnings | `markup.ts`, `kp-totals.ts`, `kp-snapshot.ts`, `supplier-profit.ts` |
| `Quotes` | the request as it is edited: cells, choices, rules, approvals; KPs formed, made final and deleted | the tabs of `src/pages/request-editor`, `requestDocStore.ts`, `shared/requests/kp.ts`, `kp.service.ts` |
| `ContentProofs` | all four properties, proved (section 12) | |

**Numbers.** The code computes in doubles, and rounds after taking the noise off (15 significant
digits, a decimal shift). So an amount here is a whole number of kopecks, a quantity of
thousandths, and what lies between roundings an exact fraction of kopecks. Where a comparison of doubles
can go either way (`offerCellInput.ts:71`, a change of just half a kopeck) the model
allows both. `roundHalfUp` takes a half away from zero, and `RoundDiv` does so for negative amounts too: a discount stays
below 100 percent where the page and the server check it, but a markup of 500 percent becomes a discount of as much for as long as the
tab has it unsaved when the method is changed.

**State.** `quote` is what one request says of prices, as the record of lines, blocks and offers that the code has;
`kps` the rows of its KPs. An action is what one cell or button does, as far as the store. Saving is not a
step: forming a KP first saves what the tab has (`KpTab.tsx:223`, `ApprovalTab.tsx:94`), and the
server computes everything again from the stored rows. What happens when a save or a lock is in the way is in sections 2 to 4.
A KP keeps the kind of prices it was formed with; the request's can be changed. Automatic
rounding of quantities is on, as it is by default.

**Run** `records`, area `quotes`: two first quotes. One has two lines and two suppliers, of whom one
is priced in a currency and sells in threes, and one offer has no price. The other is an
entrepreneur's, in whole hryvnias, with an offer that is out of stock and one without a rate, and two KPs of different
kinds of prices of which the older is the base. Every pair of edits follows, with a KP formed before, between or after
them. Prices are of some ten kopecks, where a rounding matters as with large ones; typed prices and quantities include zero,
and a supplier may add 10 percent or give a rebate of 30.
Two edits and a KP are what the hazards need: an edit that changes figures, one that is made from them, and the KP of the result.
A longer exploration with three edits and fewer inputs found nothing more.

| Property | Says |
|---|---|
| `FiguresAgree` | what the suppliers come to makes up what is bought; what each earns makes up what is earned, and that is the KP's total above the cost; the supplier marked cheapest asks on no line for more than a rival |
| `PricesShown` | a price typed into a cell is what the cell then shows, through VAT, rate, the supplier's markup and three roundings |
| `KpsComplete` | a KP has every picked line, at a price above zero, and none without a quantity (but see `kp-snapshot.ts:222` below) |
| `ApprovedSumStands` | what was approved keeps its sum under every edit of prices and every deletion of a KP, and the final KP comes to it |

## 11. What TLC showed while exploring

Further interleavings, each found with a property that is not kept as a run, or which a
property above excepts.

The request server and the tab. The first three lose no edit, since a save checks the
lock and the version for itself.

* `locks.service.ts:44`: between finding that the lock row is ours and renewing
  it, an administrator may take it; the update is keyed by request alone, and the
  former holder is answered *acquired*.
* `requests.service.ts:444`: `locks.service.ts:88` says that changes are accepted only from
  the tab that has the lock. The lock row is read without locking it, so a takeover
  between the check and the commit lets the former holder's save in; it also renews the new
  holder's lock. Harmless for the document, as `NoUpdateLost` says: the new holder's
  save, based on the version before, is refused as a conflict; and for the former holder's tab, as `SavesStoreShown` and
  `SavedIsStored` say, though it may have learnt of the loss and read the old version before the save is stored.
* `users.service.ts:59`: an acquire that was in flight creates a lock for a user whose
  locks have just been dropped; it stays until it expires.
* `attachments.service.ts:71`: permission to edit is checked before the upload is
  written and not again (line 81); a file lands in a request that was closed meanwhile.
* `requestDocStore.ts:420`: a save answered after the lock was lost leaves the document
  marked unsaved with no timer that would save it.
* `requestDocStore.ts:526`: a `refresh` left over from a refused heartbeat, answered
  after `reopen`, shows the request closed again, as it was.
* `requestDocStore.ts:558`: a page left and reopened while its unload waits for the save
  finds the store emptied after its own load, and nothing loads again.
* `requestDocStore.ts:576`: a load that was overtaken by a newer one of the same tab
  releases the lock, which the newer one has acquired for the same tab.
* `requestDocStore.ts:651`: `retryLock` answered after the holder has closed the request
  leaves the tab with the lock of a closed request.
* `requestDocStore.ts:1294`: an administrator takes the lock, edits, and changes the status. A reading that taking the lock
  began is answered while the change of status is on its way, with the document as it was before the save; then
  the answer puts the version after the change over that older document. If the request is reopened and the reading after
  that is lost, the next save is a difference to the older document under the newest version: it is accepted, and what
  it leaves on the server is not what the tab shows. (Five acts; found on the way to `SavesStoreShown`, whose invariant it broke.)
* `requestDocStore.ts:842`: `setOfferBySku` answers that the offer was set although line or
  block was gone by then and nothing was placed.
* A tab that loads a request while it is being saved may read old and new parts together;
  it shows them until the next reading, but a save from them is refused.

The catalogue.

* `priceUpdates.service.ts:694`: a card that was archived automatically, returned by
  hand and archived by hand before the next night still has `autoArchivedAt`; the
  next list brings it back, although `schema.prisma:435` means that mark for automatic archiving only.
* `products.service.ts:579`: whether a manual price is a change is decided against the price
  read before the transaction; after an update in between, the price goes back without a row of
  history, and the newest row is not the card's price.
* `images.service.ts`: photo calls do not raise the product's version, so an update's
  `editedSincePlan` does not notice photos added since its plan; of two first uploads both
  count no photo before them, and two calls that make different photos the main one (line 226) can both
  leave their mark; the photo files a KP copies are never deleted.

The daily jobs.

* In the autumn night when clocks go back a daily timer fires an hour early and then once more.
* The chain of runs that catches up after a start and the daily one can overlap; the lock of the
  supplier keeps them apart.
* Retries lost in a restart are not caught up: a failed run counts as a run.
* `TriedDaily` rests on the time limits of a run. If an update by a user went on for two hours and longer than the retries of the
  schedule's run it refused, its row in the journal would be older than a day before the next turn.
* A manual rate of today that is older than the bank's makes every start ask the bank again.

Accounts and directories.

* `users.service.ts:112`: two administrators who demote each other at the same time each
  count the other, and none is left.
* `access.service.ts:40`: two reset links made across each other for one account both work.
* A login that was verified before its user was blocked creates its session after the
  sessions were dropped. It is of no use until the user is unblocked; then it works.
* `settings.service.ts:22`: a save of the settings that read an older request counter puts it
  back. `Request.number` is unique and the increment rolls back with the failed creation, so no request
  can be created until an administrator raises the counter.
* `clients`: a save without lists can move the default mark to a counterparty hidden meanwhile;
  `ownCompanies`: making one company the default does not raise the version of the one that lost the mark;
  `units`: that synonyms are free is read outside the update.

The reference sheet.

* `useSheetDraft.ts:154`: closing while a save is in flight never sends what was typed after it.
* A closing save that is lost leaves the next editor showing text as saved that is stored nowhere.
* After a lost answer the retry conflicts with the editor's own save.

The money of a request.

* `offerCellInput.ts:71`: line 3 says that a cell shows just what was typed. A price with VAT whose price
  without VAT is within half a kopeck of the rounded one shown is taken for no change, silently: at 41 kopecks
  without VAT, shown with VAT as 50 because the exact price is 41.4, typing 49 is ignored.
* `kp-snapshot.ts:222`: before a KP is formed the quantity of the *line* must be above zero (line 204), but a row gets
  the quantity of the *offer*, which can be typed as zero: a row for nothing goes to the client.
* `ApprovalTab.tsx:151`: whether the final KP is out of date is decided by lines and quantities alone (line 30). After another
  base has been chosen a final KP at the prices of the old one is shown as current.
* `refresh.ts:83`: line 79 says that the cell will show what was typed. For a supplier's markup of −100 percent, which neither its input
  (`BlockHeader.tsx:242`) nor the server (`requests.schemas.ts:137`) refuses, the price is divided by zero. The model
  leaves this one value out (`SupplierMarkup`); all above it are in.
* `multiplicity.ts:10`: an offer that is not to be rounded is still taken as sold whole, so that a quantity of 1.5 typed for
  it becomes 2.

## 12. What is proved

`tlapm` checks the theorems below for every value of the constants: any sets of tabs, users, calls, cards and
records, any limits and bounds. Each specification has its own, from the named assumptions of its state module.

| Module | Theorem | Statement | From |
|---|---|---|---|
| `RequestProofs` | `TypeCorrect` | `Spec => []TypeOK` | `RequestState`: four assumptions |
| | `NoUpdateLost` | `Spec => []LinearHistory` | |
| | `KpVersionsNeverRepeat` | `Spec => []KpVersionsUnique` | |
| | `KpSummaryIsCurrent` | `Spec => []KpSummaryCurrent` | |
| | `ApprovedSumIsCurrent` | `Spec => []ApprovedSumCurrent` | |
| | `ClosedStaysFrozen` | `Spec => ClosedFrozen` | |
| | `ApprovalBaseSurvives` | `Spec => ApprovalBaseKept` | |
| | `FilesAreStored` | `Spec => []FilesStored` | |
| | `FilesCountIsCurrent` | `Spec => []FilesCountCurrent` | |
| | `LiveLocksAreKept` | `Spec => LiveLockKept` | |
| | `ServerImplementsLedger` | `Spec => LedgerKept` | |
| `TabProofs` | `SavedIsStored` | `Spec => []SavedWasStored` | `TabState`: its assumption |
| | `SavesStoreShown` | `Spec => SaveStoresShown` | |
| | `TabServerKeepsLedger` | `Spec => Ledger!Spec` | |
| `ContentProofs` | `RowsAreTheDocumentSent` | `ContentSpec => []StoredAsSent` | `DocumentPatch`: two assumptions, `RequestContent`: two |
| | `DocumentsStaySound` | `ContentSpec => []DocumentsSound` | |
| | `QuantitiesFollow` | `ContentSpec => []QtyFollowsLine` | |
| | `DifferenceGivesDocument` | what is written of the difference from `s` to `d`, applied to `s`, is `d` | |
| | `KpsAreComplete` | `QuotesSpec => KpsComplete` | `OfferPrices`: `PricesAssumption`, `Quotes`: `QuotesAssumption` |
| | `ApprovedPricesStand` | `QuotesSpec => ApprovedSumStands` | |
| | `FiguresAlwaysAgree` | `QuotesSpec => []FiguresAgree` | |
| | `TypedPricesAreShown` | `QuotesSpec /\ []RatesInReach => PricesShown` | |
| `AccountProofs` | `AccountsTyped` | `Spec => []TypeInv` | `AccountState`: two assumptions |
| | `LinksWorkOnlyOnce` | `Spec => []LinksWorkOnce` | |
| | `AnAdminIsLeft` | `Spec => []AdminLeft` | |
| | `FailuresAreBounded` | `Spec => []FailuresBounded` | |
| | `UsedSessionsAreKept` | `Spec => UsedSessionKept` | |
| `PriceProofs` | `CatalogTyped` | `Spec => []TypeInv` | `CatalogState`: `CatalogAssumption` |
| | `SuppliersAreNotLockedOut` | `Spec => []NoneLockedOut` | |
| | `ManualPricesAreKept` | `Spec => ManualPriceKept` | |
| | `HistoryIsOfImports` | `Spec => HistoryOfImports` | |
| | `NothingIsArchivedEarly` | `Spec => LongMissingOnly` | |
| `RecordProofs` | `NumbersAreFree` | `Spec => []NextNumberFree` | `RecordState`: three assumptions |
| | `DirectoriesAreSound` | `Spec => []DirectoriesSound` | |
| | `ListsAreKept` | `Spec => ListsKept` | |
| | `ImageFilesAreKept` | `Spec => []ImageFilesKept` | |
| | `OneImageIsMain` | `Spec => OneMainImage` | |
| `SheetProofs` | `StoredEditsAreKept` | `Spec => StoredEditsKept` | `ReferenceSheet`: `SheetAssumption` |
| `JobProofs` | `EachIsTriedDaily` | `Spec => []TriedDaily` | `FeedRuns`: two assumptions |

What the assumptions ask is that sets of ids do not contain the values that stand for none, that calls are finitely
many (their number bounds what may overshoot a limit), that limits and times are natural numbers, for the jobs that a run is over within the hour, and in
`RecordState` that a list of photo addresses is not empty, since `plan.ts:517` and `plan.ts:523` write photos only when there are addresses.
`FirstAssumption` asks of the documents a run begins with that they are sound, and that a quantity found that is not
its line's counts as typed in. `QuotesAssumption` asks that the first quotes have the types of the code's
records, that what is typed into cells is not negative, as the inputs have it, that rates are above zero, and that a supplier's markup,
which may be negative, is above −100 percent; `PricesAssumption` that a request has finitely many lines and blocks, since it sums over them.

`TypedPricesAreShown` has a hypothesis about the states of the run, `RatesInReach`: no block with a rate has one that, with the supplier's markup and
VAT on it, takes a unit of its currency beyond a bound, 8233 hryvnias at a VAT of 20 percent. The code checks
no such bound and a rate can be typed, so it is not an assumption on the constants. It is there because beyond it the property is false: the price in the
list is kept to a ten-thousandth of a kopeck, and what is lost there is then seen in the cell. Real rates are some forty hryvnias; all those the run `records` types are
in reach.

None of the properties is inductive. They fail where a step relies on what was read or checked in an
earlier one; every strengthening says what of that is still true.

**The document.** At a commit all depends on what the transaction read. `TxInv`: at the points between taking
the row and ending, a call is the one in `rowTx` and its `view` equals the stored row and KPs; it holds because
every other action that changes either waits for `rowTx = NoCall`. `CheckedInv`: a
call about to commit passed its checks on that view. Together, what was checked
is true of the stored state when the write happens. `DocInv` adds the document's own
facts (version counts journal entries; KP numbers, columns and total agree) and is inductive.
`TypeCorrect` needs `KpsBounded`, the KP rows are finitely many, with ids below
`nextKp` and versions at least 1 and at most their id: without it the
largest version, defined by `CHOOSE`, need not exist.

**Attachments and the lock.** `FileIdsInv`: uploads and removals in progress have ids of their own, and a file to be
inserted is on disk. `FileCountInv`: rows and uploads that were let in together pass the limit
by at most one less than there are calls. The lock needs two invariants. `AskedInv`: no call knows of a later time than that
at which it began, and only administrators have come to force. And a call between
finding the lock row and writing it finds one that is its own, free or expired by its own clock, or is an administrator's.

**The refinement** uses the same invariant and that a KP's id identifies it. Each commit is one
step of the ledger: a save is a write, a change of status a turn, `createKp` a new offer whose number
is one above the largest, `deleteKp` a withdrawal (a stutter if the KP is already gone).
What needs an argument is that the stored total then belongs to the KP the ledger
says: the base of approvals as a KP comes or goes. Every other action leaves what the ledger sees unchanged.

**The tab.** `RowKept`: a write that was checked is the only one, and the version it names is still the server's, though the
lock may not be the tab's any more. `TabInv` says of every version that is named somewhere which document the server had then: the tab's own is
`lastSaved`; a save on its way is cut from the one it names, and its answer names the one it became; what was read
is one the server has had; a change of status has changed nothing else. Then a patch is applied to exactly what it was
cut from, since the server accepts it under that version only, and the result is what the tab showed. Answers
in whatever order bring older versions, never a version with another's document, but for `Mixes`.

The server of this model is a short form of the one in section 2, without its transactions and the steps of other tabs' calls. That
it does nothing to a document that the abstract specification of that one does not allow is `TabServerKeepsLedger`: it implements
`RequestLedger` as `RequestServer` does, with no offers in it. `StatusKept` is what the commits need for it besides `RowKept`: a save that was
checked still finds the request open, a change of status still finds the status it changes, since nothing else that turns
the status is let in meanwhile. The lock is no part of the ledger, so who may write is compared by reading only. No run lists this
refinement; TLC has confirmed it, and `StatusKept`, on the instance of `MCTabEdit.cfg` with two acts of this tab and two of others.

**The content.** One lemma for each edit says that it makes a sound document of a sound one and keeps every
automatic quantity with its line; what is new has ids that nothing has had, since they are numbered with the edits.
`DifferenceGivesDocument` is about two sound documents that are not otherwise related: what the server makes of a
difference, its cascades included, is the document the difference was taken to, with every position and
choice. `ContentInv` then needs little of the order of events: whatever is kept for undo, asked of the
catalogue or read so far is sound (`DocsInv`, `LookupInv`), and while the tab's version is current, what is on its
way is the difference to `lastSaved`, which is what is stored (`NetInv`). Of a copy, `CopyInv` says that each part
was that of a sound document, which is all that copying needs, since it drops what refers to nothing.

**The money.** `QuotesInv` is the types of a quote and of its KPs, and that a base that was chosen is one of the ordinary KPs there are. Types
are not for granted here: that a figure is a natural number, or a price an integer, rests on every division on the way, so the
proof begins with fractions in their lowest terms. Euclid's recursion has a value (`GcdExists`, by well-founded recursion), which
divides both numbers (`GcdDivides`, by the smallest counterexample), so `Fraction` is exact (`FractionIs`).
`KpsAreComplete` then needs that the check of a KP and the KP itself look at different prices: the check at the one without VAT, a KP
perhaps at the one with it. `VatKeepsPrice` and `VatMakesNoPrice` say that VAT and the rounding after it take no price of
a kopeck or more to nothing, and make none of nothing, in either direction. `ApprovedPricesStand` has one step for each kind of action: an
edit of prices touches neither approvals nor KPs; a new KP is not the base if one was chosen; and a deletion leaves the base as it was
(`DeletionKeepsSum`) unless nothing is approved, also when the base is the latest KP by default.

`FiguresAlwaysAgree` is about sums over lines and over suppliers, which are folds, and what a fold comes to on every finite set is an
induction over data. The way round it: a table of the sums of all subsets that satisfies the equation of a sum (`Adds`)
exists, since a smallest subset without one would have one from the table of what is left without an element (`AddsExists`); the fold is such a table,
and two tables differ on no smallest subset (`SumIsAdds`). From `Adds` follow a sum by groups (`SumByGroup`),
of differences (`SumOfDifference`), and that a term is at most the sum. Then each supplier's lines are
disjoint from another's and together those bought (`BoughtMakesUp`, `SuppliersMakeUpProfit`); the profit on the rows is the KP's total above the cost
since both are taken over the same lines (`SoldRows`); and the cheapest supplier is one on each line, since the
extra cost, a sum of terms not negative that comes to nothing, has no term above nothing (`CheapestIsCheapest`).

`TypedPricesAreShown` bounds what the roundings lose. `Ratio` says which fraction a figure is, `RoundNear` and
`RoundTo` that a rounding to a grid moves it by half a step at most. The price without VAT is kept to a hundredth of a kopeck (`NormalizedNear`), the
price in the list to a ten-thousandth; going back, the second error is multiplied by rate and markup, and both by VAT. While
the whole is less than half a kopeck the last rounding returns what was typed (`Spread`, `CellShowsTyped`), and that
is what `InReach` says.

**The sheet.** `SheetInv` holds whatever a page keeps - cache, draft, a save on its way, a reading - against the row: it is not
of a later version, and if it is of the same version it has all that is in the row, unless a closed editor
left its text there. A save that was stored becomes the draft's version only while the draft has all that was sent
(`GoodEditor`), and a reading replaces a draft only in a conflict, when no save is on its way.

**Accounts.** `ResetInv`: who is about to make a reset link has found none that is free, and is alone.
`AdminInv`: as long as nothing has crossed, what a demotion counted is still so, as no other is under
way. `FailuresInv` counts the logins under way with the failures there are. `UseInv`: of a session
that has been used within half of its time to live, half is left, less the time since.

**Prices.** `NoneLockedOut` is inductive with the types. For the rest, `SnapInv` says what a plan still knows of a card: the
version has not gone back since, it has gone up where a price was entered, and while it is the same the price is. Archiving
needs `DaysInv` as well: whatever day a card is missing since, no list had it after that, and
a manager brought it back at the latest on the day after; a run or a call goes on over one midnight at most.

**Directories.** What a call that is not stale has read is still so (`SettingsInv`, `CompanyInv`, `UnitInv`): settings are those
it read, the decision about the mark is still the one it would make, the synonyms are still free. A call becomes stale with
the first write after its reading, and if a stale call writes, `crossed` holds. `ClientInv` needs no such excuse: a list read as
of a version has the counterparties that are active as long as the client has that version.

**Photos.** `FilesInv`: names of files are used once; a file being uploaded is nobody else's; a
photo that was read to be removed has the same file still or is gone, and no photo has a file that is about to be removed;
a KP stores a file only for a photo of a feed. `HeldInv`: every uploaded file has a photo or a call that
holds it. `MainInv`: unless something has crossed, one photo is marked at most, the product shows it, the mark of a
photo to be removed is as it was read, and a price update that attaches photos still finds none. That the first photo in the order
of the code exists, so that one can be promoted, is a lemma of its own (`FirstPhoto`).

**The daily jobs.** `TriedInv` counts the age of a supplier's newest run and the hours to its next turn together: they are a day and an hour at
most, unless the supplier waits or is excused. Time leaves that sum as it is, whatever the clock of the day does, since both are counted in
hours that have passed. A turn puts the supplier in the queue; whatever takes it from there writes a run, which is of this
hour or the last, or plans a retry or excuses it. While the process starts, its timers are those just planned, so that what the
catch-up finds by the clock (`lastScheduledAt`) is what the timers have left (`MemoryInv`).

**Only model-checked:** `EveryCallAnswered`, `LockLossNoticed`, `ViewerCatchesUp`, `UpdatedAgain` and `DraftsSettle`, since
liveness under fairness is out of the prover's reach; and `RereadReportsLoss` and `EditsOfOthersKept`, which are false.

## 13. Plan

1. **An abstract specification** `EditLease`: at most one holder, who loses the lease only by
   the rules of `LiveLockKept`; refined by `RequestServer`, and assumed by `RequestTab`.
2. **Open tabs and interface settings**: the bounded list of tabs; saves of settings that
   overtake each other.
3. **Suppliers**: where prices come from and in which order, and what an update makes of a change of it.
4. **Retention and the event log**: what the nightly deletions may take; events that are merged.
5. **The effective rate** of a currency on a day against a reference definition.

## 14. Not modelled, and why

Rendering, HTTP plumbing, parsing of supplier files and the audit log have no
state whose order of change matters. Of pricing, the warnings, percentages, profits with VAT, minimum orders and ages of prices are left
out: each is a figure of its own that nothing else is computed from. Backups are shell scripts around `pg_dump`. The database is assumed
to do what PostgreSQL documents for READ COMMITTED, and a commit to be durable.
Pages are most of the source, by lines: forms, tables and dialogs that
read the stores and call the operations modelled here. Suppliers' settings, open tabs and interface
settings are in the plan; `PROJECT.json` says of each component what is covered.

# Verification of fin-hub

fin-hub keeps the books of a chain of stores: bank rows are imported or entered,
expenses arrive as DingTalk approvals, revenue is recorded by day and channel, both
are matched with bank rows, and at the end of a month the ledger of a store is
closed. This directory holds TLA+ models of the parts of the back end
(`apps/api/app`) in which an order of steps can corrupt the books, and of the two
clients (`apps/admin-web`, `apps/shareholder-miniapp`) whose pages fire those steps and
show what came of them, with the TLC runs that check them and the TLAPS proofs about them. Sections: the system, the models, the
runs, the proofs, the findings, what is missing and what comes next.

Abbreviations of files: `matching` = `modules/matching/router.py`, `unpaid` =
`modules/bank/unpaid.py`, `bank` = `modules/bank/router.py`, `ledgers` =
`modules/ledgers/router.py`, `revenue` = `modules/revenue/router.py`, `dingtalk` =
`modules/dingtalk/router.py`, `runtime` = `modules/dingtalk/sync_runtime.py`.

## 1. The system

### The back end

The API is a FastAPI program with synchronous handlers: each request runs in a
thread of its own with one SQLAlchemy session (`core/database.py`, autoflush off,
nothing expires on commit) over PostgreSQL at READ COMMITTED. Three consequences
shape every model:

* a session keeps the rows it has loaded; what a handler read before it waited for a
  lock is what it decides on afterwards, unless it refreshes;
* an update writes the columns that differ from the loaded copy, with absolute values;
* components do not send messages: they meet in rows, and in two locks. `mutation_lock`
  (an advisory lock of the transaction, `pg_advisory_xact_lock`) serialises the expense handlers
  from the point where they take it to their commit; the *execution lease* (a session-level advisory lock)
  admits one DingTalk synchronization.

| Component | State | Operations | Hard part | What makes it correct |
|---|---|---|---|---|
| Expense matching (`matching`) | `expense_bank_matches`, `matched_amount` of bank rows, `payment_status` of expenses | create a candidate, confirm, reject, change, release, suggest | derived amounts are recomputed by hand in each handler; rows read before the lock | derived values equal the confirmed matches; money is used once |
| Unpaid registration settlement (`unpaid`) | `bank_payment_settlements`, their links | link, unlink, complete; protection of reserved rows in every other handler | completed settlements move credit; every other handler of bank rows can touch them | settlements keep their shape; reserved payments stay free; completed ones are read only |
| Bank rows (`bank`) | `bank_transactions` | create, change, delete, batch delete; import and its roll back | checks before the lock; archived instead of deleted | rows under a settlement or a match survive |
| Ledger closing (`ledgers`) | `ledgers.status` | close after a check, reopen | the check trusts derived values | a closed ledger is backed by matches |
| Revenue matching (`matching`, `revenue`) | `revenue_bank_matches` and their listed records, `revenue_records` | candidate, batch, confirm, reject, release; create, change, delete a record | no lock; ranges of days; reuse of rejected rows | credit equals confirmed matches; no record is used twice |
| DingTalk jobs (`runtime`, `dingtalk`, `main.py`) | `sync_jobs`, the lease | start (four ways), cancel, fail, recover, die | threads and processes that disappear; status written from stale copies | one job runs, one thread pulls, every job ends |
| Automatic run (`dingtalk` 3882-4596) | watermark, resume state, retries | window, pull, advance | partial pulls | no approval is skipped |
| Accruals (`accruals.py`, `accrual_accounting.py`, `accrual_editing.py`) | accruals, coverage links | create, cover, correct, release | coverage is split over entries | the parts add up |
| Approval status and notices (`approvals/status.py`, `approval_notices.py`) | processing status, notices | recompute, raise, handle | derived from rows of others | status follows the rows |
| Accounting plans (`matching/accounting.py`) | allocation of an approval to periods | replace, version | optimistic versions | parts add up, no lost edit |
| Pre-opening (`modules/preopening`) | matches of bank rows with approvals of the pre-opening scope, closed or not | confirm, release, close | shares bank rows | a row is used once, an approval never beyond its total, closed books stay |
| Dividends, direct posting | their own rows | opening balances; derived rows | share `mutation_lock` and bank rows | no row serves two scopes |
| Reports, accounts, master data, attachments | - | reading, CRUD | - | - |

How they interact: matching, settlement and bank handlers read and write the same
bank rows; `protect_payment_bank` is called by each of them and is the only guard
between settlement and the rest. Closing reads what the others derived. Synchronization
creates the approvals and expenses that matching uses. `PROJECT.json` lists the
hazards of the modelled and the planned parts at the line where they bite.

### The clients

The admin client is a Next.js program; each page is a React component with its state in
hooks and refs, mounted alone in the layout (`ProLayout.tsx`). JavaScript runs a handler up to
its next `await` without interruption; everything that happens between an `await` and its
continuation is another event: a click, an effect, a timer, another answer. All pages
call the API through `apiClient` (`packages/shared-api-client`), which answers a GET again for
five seconds unless something was saved since. The mini program for shareholders is
built the same way with fewer pages.

| Component | State | Operations | Hard part | What makes it correct |
|---|---|---|---|---|
| Lists, reports, drawers (all pages) | rows, spinner, request counter | load, reload, filter, save | answers overtake each other; each page guards itself differently | the newest question wins; no spinner is left |
| Forms and row buttons (all pages) | fields, busy flag, open dialog | submit, close, retry | a second press, a lost answer, a save in two calls | saved once; nothing entered is lost |
| Reconciliation page (`finance/reconciliation`) | store, selected bank row, candidates and their cache, dialog, accounting plan | switch store, select, preload, confirm in three calls, edit, release | late answers of another store or of another dialog; half a confirmation | the plan shown and saved is that of the approval; no other user's plan is overwritten unseen |
| Pre-opening page | workspace, selection, dialog | select, confirm, release, close | two presses, lost answers, books closed meanwhile | used once |
| Bank page (`bank`) | list, three forms, two questions | enter, batch, import, edit, delete | the busy flag is shared with the loads of the list | no duplicate without a question |
| Synchronization page (`dingtalk`) | jobs, approval list, tab | start, poll, reload | polls are not numbered; the GET cache | the end of a job is seen; progress ends |
| Revenue page (`revenue`) | selected channel, grid, editing | choose, edit, save row by row | the grid follows a late answer | the grid is of the selected channel |
| Layout and tabs | open pages, user | navigate, close, log in and out | effects over a list shared by windows | the row fits the user and the page |

The pages meet the back end in the handlers they call; those handlers are in the page's
module as far as the page depends on them (what is refused, what a lost answer has done).

## 2. The models

Four modules model the back end on its own, the others the clients with the handlers
their pages call.

### Reconciliation: expenses, settlements, bank rows, ledger

One store and one ledger period; every expense is of the operating scope.

| State | Code |
|---|---|
| `bankState`, `bankAmount`, `paymentStatus`, `matchedAmount` | `BankTransaction`: absent, active, archived or deleted; `amount`; `payment_status`; `matched_amount` |
| `match`, `expenseStatus` | `ExpenseBankMatch` rows; `ExpenseItem.payment_status` |
| `settlement`, `link` | `BankPaymentSettlement.status` by source row; the source a payment's `BankPaymentSettlementLink` leads to |
| `ledger` | `Ledger.status` |
| `request` | what each request in progress has read before it took the lock |

A handler that takes `mutation_lock` first is one action (`AddLinks`, `RemoveLink`,
`Complete`, `UpdateBankTransaction`, `UnmatchReconciliationRecord`,
`AutoSuggestMatches`, `CloseLedger`). A handler that reads first is two: `LoadMatch`,
`LoadBank`, `LoadBatch` or `LoadLedger` keeps the copy in `request[r]`, and the action
named after the handler is the rest of it, which uses the copy where the code uses the
loaded row and the present state where the code queries again. Between the two, other
requests may do anything, and `Abort` ends a request by a refusal or an exception.
`ReopenLedger` takes no lock. Recomputation (`refresh_bank_matched_amount`,
`refresh_expense_payment_status`) is part of the handler's action.

Abstracted: amounts are small integers; dates, stores, categories, audit rows and
accrual coverage are left out. With them goes the look at the ledger in `apply_plan`,
which may refuse a confirmation while no other match of the approval is confirmed: the
model confirms there too, so it does more than the code. Of the many pairs `auto_suggest_matches` may prefer by date
any maximal choice is allowed. `Spec` lets requests overlap; `SpecSerial` is the same
handlers with requests one after another.

### RevenueMatching: revenue matches, records, ledger

`record`, `match` (with the listed records in `match[m].records`), `matchedAmount`, `ledger`,
`request`. Confirm, reject and release take no lock, so each of their reads is a step
(`LoadMatch`, `LoadMatchedBank`) and the write (`ConfirmRevenueMatch`, ...) uses the
copies. `CreateRevenueMatchCandidate` reads its bank row before the lock.
`CreateRevenueMatchBatch` locks the bank row first and is one action, with its reuse of a
rejected row of the same range. Record handlers keep the unique day and channel. All
channels are of the kind that must be matched, no record is posted directly from
a bank row, and net amounts do not change: the property that would need a change,
the exactness of credit, is about the amounts of the matches.
`released` is a history variable: the matches released since the ledger was closed, which
releasing allows, since it does not look at the ledger.

### SyncJobs: life of a synchronization job

`status` and `kind` of each `sync_jobs` row, `committed` (rows other sessions can see),
`worker` (where the thread of the job is), `lease`, `old` (created more than five minutes
ago), and the two copies another session may hold: `canceling` and `recovering`.
Starting differs by entrance: a queued job is committed before its thread begins
(`StartQueued`); an inline or store job stays uncommitted until its first approval is
saved (`StartInRequest`); the automatic run takes the lease before it inserts
(`LeaseForAuto`, `StartAuto`, `AutoRefused`). The unique index on running jobs is
`SlotFree`: it also waits for uncommitted rows. A thread takes the lease
(`TakeLease`), saves approvals, checks for cancellation, finishes, reports or fails; it may
die anywhere (`Die`), which frees the lease, rolls back an uncommitted row and leaves
a committed one running. The lease belongs to a connection of its own, idle until the pull
ends: `LoseLease` is the database ending that connection while the thread goes on (it is `broken`, and
the unlock at its end fails). Reading a status and writing the next one are separate
actions where the code holds a copy in between. What is pulled is left to `AutoSync`.

### AutoSync: what the automatic run pulls

`SyncJobs` admits one run at a time; `AutoSync` is about what a sequence of such runs stores.
`watermark` and `resume` are `approval_watermark_at` and `approval_resume_state`, `run` the window
and cursors of the run under way, `next` and `retries` its schedule; `created`, `enabled` and `owed`
are the world: when an approval was submitted, which templates are enabled, and the
approvals whose template has been enabled since DingTalk listed them. A cursor is the set of
approvals the listing has gone past.

| Action | Code |
|---|---|
| `EarlyFailure`, `OpenWindow`, `WindowRefused` | `execute_auto_sync` up to `run_approval_sync`: departments and templates, the window from the watermark or from the resume state, and its refusals |
| `PullTemplate`, `FlowMissing`, `AllListed` | `run_approval_sync`: the pages of one template up to the limit, a flow DingTalk does not know, and the commit of what is left |
| `Advance`, `Finish` | the watermark or the resume state is committed, then the report and the schedule |
| `Fail` | the `except` branch: window without cursors, unless the job has committed some |
| `Stop`, `Recover` | the process dies; the recovery schedules a run at once |
| `Tick`, `Appear`, `Toggle` | time passes, DingTalk lists an approval (up to `Delay` after its submission), an administrator enables or disables a template |

The pages of one template are one step, since templates follow one another and each approval is
committed by itself: `Fail` and `Stop` leave any part of the approvals of the next
template stored. Taken from DingTalk on trust: a page with a next cursor is not empty, an
approval is not deleted between list and detail (the code counts those and goes on), and `Delay` is at
most the overlap, which is why the overlap exists. Manual jobs only store more.

### Browser: what pages have in common

`ui` is the state of the hooks and refs of the mounted page, `net` the calls it has made and not
finished with (with the variables their continuations captured), `db` the rows of the API the page
works on. An action is a handler up to its first `await`, or what follows an `await` once the call
has settled. `Resolve`, `Reject` and `Lose` are the ends of a call: a save whose answer is
lost may have been done.

### ListPages, Views: everything that shows one answer

74 lists, reports, drawers and cards are the same machine and differ in what they do about
answers that overtake each other. `Views` names for each the words that apply (`guarded`: the
answer is used only if its request is the newest; `gated`: the spinner stops under the same condition;
`captures`: a save reloads under the question it began with; `locked`: nothing loads or saves
while loading; `dismissed`: the view can be closed, which makes its requests out of date and
leaves its spinner alone, until a load opens it again; the full list heads `ListPages`), and the map gives the load function, effect or
save handler each word was read from. `sel` counts the changes of the question, `wrote` the saves of the page,
so that `Asked == sel + wrote` is what an answer must know.

`LatestAnswer` is the abstract specification: an answer replaces what is shown only if it
knows everything asked. `ListPages` implements it with `asked <- Asked`, `shown <- ui.shown`
and `ordered <- InOrder(ui.view)`: `InOrder` says, from the words alone, which views keep their
answers in order: 41 of the 74 (a view that is `locked` and `dismissed` only if
it is `guarded` too, since closing it lets a second load begin). The others may show an overtaken answer, which the abstract
specification calls `Late` (or have nothing that could overtake, as a page that loads once). A
view that loses its counter, its lock or its captured question changes sides, and the run then
finds the overtaken answer.

### FormPages, Forms: everything that saves

87 forms and row buttons are one machine in the same way. The words say what holds a second
press back and what follows the save: `late` (validation is awaited before the flag is
raised), `background` (a load of the page clears the flag), `second` (files or a confirmation
follow the save), `closable`, `enter`, and so on. `db` counts how often each filling was saved.

### ReconciliationPage, PreopeningPage, BankPage, JobPolling, RevenueEntry, PageTabs

One page each, with its own state and the handlers of the API it calls:

| Module | `ui` | `db` | Actions of the API |
|---|---|---|---|
| `ReconciliationPage` | `store`, `list`, `tx`, `cands`, `cand`, `cache`, `dlg`, `saving` | match rows, version of each plan | `ServeCreate`, `ServeConfirm`, `ServeEdit`, `ServeUnmatch`; `OtherPlan` is another user |
| `PreopeningPage` | the workspace as last loaded, `bank`, `appr`, `dlg`, `saving` | rows, `matched_amount`, closed | `ServeConfirm`, `ServeUnmatch`, `ServeClose` |
| `BankPage` | `form`, `edit`, `busy`, `ref`, the two questions, `file`, `preview` | rows of each key, by whether the user was asked | `CheckCreate`, `CommitCreate` (no lock between), `ServeUpdate`, `ServeDelete` |
| `JobPolling` | jobs and list as last shown, `tab`, `cache` | jobs, version of the approvals | `ServeStart`, `ServeRead`, `EndJob` |
| `RevenueEntry` | `channel`, `rows`, `of`, `editing`, `dirty` | amount by channel and day | `SaveRow` |
| `PageTabs` | `at`, `go`, `tabs`, `user`, `cached` | the stored list, the rights | `DoneMe`; `Elsewhere` is another window or an administrator |

`ServeEdit` does not move a match to another expense, which the API allows: the rows of the page's
dialog are those of the record's own approval, and its form has no field for the expense. The
move, with the amounts it changes, is `UpdateReconciliationRecord` of `Reconciliation`. A created row
takes the place of its pair's rejected one, since `expense_bank_matches` has a unique constraint
on the pair.

`AdminWeb` composes them as the layout does: `ui.page` says which page is mounted, and that
page's actions are the enabled ones; `MCAdminWeb` gives its constants their values for TLC.

Assumed in these modules: leaving a page with unsaved changes is part of the click that leaves
it; a form is submitted by its button, and by Enter only where a field asks for it itself; a link
leads to another address; on the bank page the API has answered a call, or dropped it, when
the user tries again, and no other user enters the same row between the check of the API and its
commit (there the API takes no lock: two users can enter one row twice without being asked); store and period of the revenue page and the filters of the approval
list stay fixed; `resumeApprovalSync` and `cancelSyncJob` are called by no control and left out.

## 3. The runs

Bounds are the constants of the `.cfg` files; nothing else bounds a run.

| Run | Question | Bounds |
|---|---|---|
| `settlement` | Do settlements keep their shape and their rows whatever two requests overlap? `TypeOK`, `ReservedNotMatched`, `SettlementsAreStars`, `SettlementRowsPinned`, `MoneyUsedOnce` | 3 bank rows (a registration and two payments, or a chain of three), 1 expense, 2 matches (one on the registration, one on a payment), 2 requests with a copy each |
| `bookkeeping` | Are the derived amounts and statuses exact after any sequence of requests? `PaymentsCredited`, `MatchedAmountExact`, `ExpenseStatusExact`, `ClosedBooksBacked`, `CompletedReadOnly` | 3 bank rows of amount 1 or 2 (two payments may add up to the registration or miss it), 2 expenses of 2 payable in parts, 2 matches (of one bank row, of one expense, or of a source and a payment), requests one at a time |
| `revenue` | Does credit follow the matches, do batches take free records, and is everything decided and covered while a ledger is closed? `TypeOK`, `CreditExact`, `ClosedNothingPending`, `BatchTakesFreeRecords` | 2 bank rows of 2, 2 channels, 2 days, 2 records, amounts 1 and 2 (a row may be used in part, up, or beyond), requests one at a time. 3 matches, since closing needs one confirmed on each bank row and the third may be the candidate left over; the constraint `Small` lets the third exist only beside one record and matches of 2, and leaves two matches unrestricted |
| `sync` | Does one thread pull (but for lost leases), are live pulls left alone, and does everything end? `TypeOK`, `PullsUnderLease`, `LivePullsNotRecovered`, `JobsEnd`, `LeaseReturned` | 2 jobs of any kind, the recovery, deaths, lost leases and cancel requests anywhere |
| `auto_sync` | Does the watermark ever pass an approval, is every approval stored in the end, and do retries end? `WatermarkCovers`, `PulledInTheEnd`, `RetriesEnd` | 2 approvals of one template with room for one of them in a run, so that the limit leaves a cursor; a template beside it; times 0 to 2, the first window reaching back 2 and later ones 1 before the watermark: three windows with a late listing at the edge of each; 1 retry (3 in the code) |
| `views` | What does each view show when its answers overtake each other? `SpinnerStops`, `ShowsLatestAnswer` (the refinement), `AnswersInTheEnd` | all 74 views one by one, 3 calls out, 4 actions of the user |
| `web` | Do the pages save once, show their own and end? `TypeOK`, `SavedOnce`, `InputKept`, `PlanIsOwn`, `NoBlindOverwrite`, `UsedOnce`, `DuplicatesAsked`, `EndReloads`, `ProgressEnds`, `GridIsOwn`, `TabsFit` | all 87 forms, and the six pages; 2 calls out; 5 actions of the user, and per page: reconciliation 6 with 2 stores, a bank row in each, 2 expenses and 2 changes of a plan; pre-opening 8 with 2 bank rows of 2 and an approval of 3, so that both cannot be paid; bank 5 with 2 keys; jobs 3 with 1 job; revenue 4 with 3 channels (one still to be added) and a day; tabs 3 with 4 pages (two of one route), room for 2 and two sets of rights |
| `reject_race`, `released_credit`, `revenue_lost_update`, `revenue_listed_twice`, `sync_cancel` | The findings of section 5: each shows a statement of the documentation refuted | as small as the counterexample allows |

Why these bounds: a settlement property speaks of at most a source, a payment and a
match on each; a bookkeeping property of one row and the matches on it, with a second
expense to move to; a job property of two jobs and the recovery. Two copies held at once
let every pair of handlers race. A page property is about two answers that overtake each other, or
a press, its lost answer and the retry: two calls out and the shortest way of clicks to the dialog and back
twice; the limits of each page are set so that this way fits. `Room` makes the user wait while
`MaxCalls` are out, `MaxClicks` ends the user's part; both are in the guards of the user's actions only.

Why two specifications: the settlement invariants hold in `Spec`, with overlap. The exact
amounts hold in `SpecSerial` only: `reject_race` and `revenue_lost_update` are the
overlaps that break them. The tests of the repository drive the handlers serially,
and so the serial runs say what the handlers compute, the violation runs what their
locking does not protect.

Deadlock is not checked in `views` and `web`: the user may stop, and then nothing is left to do.

Fairness in `ListPages` is `WF(DoneLoad)` and `WF(DoneSave)`: the browser gives up on a request that is
never answered. `AnswersInTheEnd` needs no more, since the user's clicks are bounded and never forced.

Fairness in `AdminWeb` is for `ProgressEnds` (no job is shown as running for ever): `WF(Ends)`, jobs end
(`SyncJobs.JobsEnd`) and calls about them settle; `WF(Expire)`, five seconds pass; `WF(Timer)`, the interval of the
page fires while a job is shown as running; `SF(ServeRead("poll"))` and `SF(PollAnswered)`, not every
poll fails. Without the expiry the cache would answer every poll with the old list.

Fairness in `SyncJobs`:

* `WF(Work(j))`: a live thread goes on. Its calls to DingTalk have time-outs and the lease is tried,
  never waited for (`pg_try_advisory_lock`). Saving a further approval is not in
  `Work`, so a thread cannot pull for ever: pages and templates are limited.
* `WF(Age(j))`: time passes.
* `WF(RecoverRead)`, `SF(RecoverWrite)`: in production `dingtalk_auto_sync_loop` (`main.py`) calls the
  recovery every minute, also after exceptions, and it does not die each time.
* Starting, cancelling, errors and deaths are never forced.

Fairness in `AutoSync` is `WF(Goes)`: the loop of the application starts a run when none is under way,
and a run goes on. Failures, crashes, time, listings and switches are never forced; `PulledInTheEnd` is
claimed of behaviours in which failures and crashes come to an end, and says nothing of the
others. `RetriesEnd` is claimed of all of them.

`JobsEnd` therefore says nothing of a deployment with `APP_ENV` other than production,
where the loop is not started.

## 4. The proofs

`ReconciliationProofs` proves about `Spec`, for any sets of rows, expenses, matches and
overlapping requests, and any amounts (from `AmountsAssumption`: amounts are positive
naturals, and `NullAssumption`: the absent link is no row):

* `TypeCorrect`: `TypeOK`, including that a match a request has loaded still exists and is
  still of the same bank row;
* `ReservedPaymentsUnmatched`, `SettlementShape`, `SettlementRowsStay`, `PaymentPaysOnce`,
  `PaymentsStayCredited`: the five settlement invariants;
* `CompletedIsReadOnly`: an action property.

The inductive invariant is `IInv == TypeOK /\ Settled`, where `Settled` is the conjunction
of the five. None of them is inductive alone. That a payment stays free of matches
needs `SettlementRowsPinned`, since a settlement's payments must be live and paid
for `AddLinks` and `Complete` to have checked them; `PaymentsCredited` needs
`MoneyUsedOnce`, because a recomputation of a payment's own row would erase the credit if
the payment had a match; and all need `SettlementsAreStars`, so that a row written as a source
is never one that is read as a payment. `TypeOK` carries the fact that makes stale
copies harmless: no handler moves a match to another bank row, so a decision on the
copy's bank row is a decision on the right one.

It proves about `SpecSerial`, from `TableAssumption` (the match table is finite) besides:
`MatchedAmountsAreExact`, `ExpenseStatusesAreExact` and `ClosedBooksAreBacked`, the three properties about
amounts. Their inductive invariant is `Books`: `IInv` again, `Money` (the three properties, and that rows
of the match table and of the bank have amounts above zero), `Alone` (one request is in progress) and `Fresh`
(what it has loaded is still so). They need each other: an expense is covered while the ledger is
closed (`ClosedBooksBacked`) because its status was exact when it closed. A confirmation, which does not look
at the ledger, leaves a closed ledger's bank rows used up, because it adds to an exact amount: a payment
credited for a settlement could lose its credit to the recomputation, but `ClosedUse` shows that such a payment
may not be matched then, for its archived registration would be unmatched. That amounts are above zero is what
makes the registration count. `Fresh` fails under `Spec`, and `reject_race` shows what follows.

There is one lemma per group of actions for types, one per group for `Money`, and one per kind of step for
`Settled`: a step of matching on a row that `MatchingAllowed` admits (`AllowedIsFree`
says what this guard gives), a release, suggestions, bank edits, and the three settlement handlers.

`ListPagesProofs` proves about `ListPages`, for any set of views and any profiles and without a bound on
clicks or calls:

* `Types`: `TypeOK`, that no call is about a question or a request yet to come;
* `Spinner`: `SpinnerStops` (of an open view), if no view is both `locked` and `bare` (such a view would never
  lower its flag; no view of `Views` is);
* `Refines`: `Spec` implies `ShowsLatestAnswer`, the refinement of `LatestAnswer`.

The invariant (`IInv`, by `Invariance`) says what an answer on its way knows: never more than has been
asked, and all of it if a view of `InOrder` would accept it. For a guarded view that is true of the
newest request only (`NewestPresent`), and only because a save that captured its question cannot have
been overtaken by another question (`SavesPresent`); for a locked view that cannot be closed
it is true because there is one call (`OneCall`).

`SyncJobsProofs` proves about `SyncJobs`, for any set of jobs (`HoldersAssumption`: nobody and the
recovery are no jobs): `Types`, `OnePulls` (`PullsUnderLease`) and
`RecoversTheDead` (`LivePullsNotRecovered`). The invariant is `TypeOK` and `HoldersHold`: whoever pulls, or is about to insert the row of the automatic run,
holds the lease. The second half of `HoldersHold` is what makes it inductive: `StartAuto`
begins to pull without looking at the lease again. That the recovery ends no job that
pulls follows, because it writes only while it holds the lease itself. Both leave out threads
whose lease the database took away (`broken`); `LoseLease` is the only step that makes one.

`AutoSyncProofs` proves about `AutoSync`, for any approvals, templates, windows, limits and times
(`TimesAssumption`: naturals, the delay of listings within overlap and window): `Types`, and
`NothingIsSkipped` (`WatermarkCovers`). The invariant `Reaches` says of every approval
still missing that it is within reach three times over: of the next window that starts afresh
(`FreshReaches`), of the resume state (`ResumeReaches`: its template is among the cursors and the
cursor has not passed it) and of the run under way (`RunReaches`: the same of the cursors still to do or
those already left). `WatermarkCovers` is `FreshReaches` read at the watermark; it is preserved by
`Advance` because `RunReaches` leaves nothing missing when no cursor is left, and by `Fail` because a state
without cursors is none, so that only `FreshReaches` matters then.

`AdminWebProofs` proves about `AdminWeb`, the composition of the pages, every invariant and action property that the
run `web` checks: `Types` (`TypeOK`), `SavesOnce` (`SavedOnce`), `KeepsInput` (`InputKept`), `PlansAreOwn`
(`PlanIsOwn`), `NoPlanOverwritten` (`NoBlindOverwrite`), `OpeningUsedOnce` (`UsedOnce`), `DuplicatesAreAsked`
(`DuplicatesAsked`), `EndsReload` (`EndReloads`), `GridsAreOwn` (`GridIsOwn`) and `TabsAlwaysFit`
(`TabsFit`). They hold for any forms and profiles, stores, bank rows, approvals, jobs, channels, routes and
rights, and for any of the bounds, so also without them. Assumed of the constants is what the code or the meaning of the
constant gives:

| Assumption | Why |
|---|---|
| `BoundsAssumption`, `PlansAssumption` | the bounds are naturals; there are finitely many expenses |
| `StoresAssumption` | a bank row belongs to a store; the page is opened with a store or without |
| `TotalsAssumption` | the total of an approval is a natural |
| `KeysAssumption`, `FormsAssumption`, `PagesAssumption` | `None` is no key, form or page; the client has the page `/` |
| `JobsAssumption` | finitely many jobs |
| `ChannelsAssumption`, `DaysAssumption` | the channels the page begins with are channels; days are numbered |
| `TabsAssumption` | there is room for a tab (`MAX_OPEN_PAGE_TABS` is 6) |

Each page has an inductive invariant of its own; those of the three pages that match money are
in `FinancePagesProofs`, the others in `AdminWebProofs`:

* Forms, `FormsInv`: a form that holds back presses has at most one call out, and is busy while it is
  (`OneCall`); what the open form holds is new, on its way, or known to have failed (`FormNew`,
  `HeldOnce`); a dialog that is locked while it saves keeps its filling (`FillingStays`).
* Reconciliation, `MatchingInv`: a part about the page (a plan on its way belongs to the dialog that is open or is
  ignored; the candidate under a dialog is the dialog's or none; calls carry the plan of their own
  item) and one about the rows (every row carries its own item's plan). `MatchingTypes` has the types, among them that a plan is
  changed at most `MaxPlan` times, for which the versions are added up over the expenses.
* Pre-opening, `OpeningInv`: `UsedOnce` itself, with types. The matched amount of a bank row is the sum over its
  confirmed matches, and since `UsedOnce` leaves it one of them, confirming adds to zero and undoing leaves zero.
* Bank, `BankInv`: of the submissions of the form for one row one is at work (`OneWorks`), since the ref is
  taken before the first call and given back after the summary. Therefore nothing is added to the rows nobody was
  asked about between the check of the API and its commit (`ChecksHold`), although the API takes no lock.
* Synchronization, `JobsInv`: what a call, the cache or the page tells is not newer than what the API knows, and a list
  asked for since the end of a job was seen is answered with what is there by then (`ListOk`).
* Revenue, `RevenueInv`: the newest load is about the channel selected or just saved (`LoadsOwn`), and while the grid is of
  another one that load is on its way or has failed (`GridKept`).
* Tabs, `LayoutOk`: the row is a list without repetition that fits its limit, the user may see all of it (`OnlySeen`), and
  a page without a tab is being left (`Leaves`). It rests on lemmas about lists that lose, gain or move a
  tab (`Removed`, `TabAdded`, `Inserted`), and on what validation leaves of a stored list (`AllowedIs`,
  `AllowedFits`). That filter is a recursive function; what it computes is argued by the shortest list on which
  it would go wrong (`LeastNat`), since an induction cannot be cited.

The invariant of the client, `WebInv`, is their disjunction: a page keeps its own name, so a step of
the client is a step of the page whose invariant holds (`PageOfInv`, `WebStep`).

`RevenueMatchingProofs` proves about `SpecSerial` of `RevenueMatching`, for any bank rows, channels, days,
records, matches and amounts (`DaysAssumption`: there is a day; `TablesAssumption`: the tables are finite):
`TypesHold` (`TypeOK`), `CreditIsExact` (`CreditExact`: the matched amount of a bank row is the sum of its
confirmed matches), `ClosedStaysDecided` (`ClosedNothingPending`: while the ledger
is closed nothing waits for a decision, and each record is covered by a confirmed match or one released since) and `TakesFreeRecords`
(`BatchTakesFreeRecords`). Besides types (`Shaped`) the invariant says that the records matches list exist
(`Listed`), that one request is in progress (`Alone`) and that its copies of a match and of a
matched amount are what the tables hold (`Fresh`).
Without it none holds: a second confirmation writes the sum of an old amount, a confirmation of a copy confirms a match rejected meanwhile, whose
records a batch may have taken, or a candidate of a closed ledger. That the range a batch searches contains
the days of its records rests on `Least` and `Greatest`, the existence of a first and a last day, which is proved from
the library's well-foundedness of inclusion.

`Sums` is what these proofs know of sums. The models add amounts up with `MapThenSumSet` of the community modules,
a fold, whose value the prover can only unfold one element at a time; and the usual way to more, induction over
finite sets, takes an operator as a parameter. `Sums` argues by a smallest counterexample instead: `Smallest`
picks, from a set of subsets of a finite set, one that contains no other, which the library's
well-foundedness of inclusion gives. From it follow that the
fold is a function of the set whatever order `CHOOSE` takes (`AddsOnce`, `AddsExists`), and then what
the models need: `AmountsEmpty`, `AmountsAgree` (only the amounts of the rows count), `AmountsNat`, `AmountsSplit`
and `AmountsGrow` (a row more), and `AmountsOver` (the same rows counted by another key). `FinancePagesProofs` uses
the same facts of the amounts of pre-opening matches and of the versions of plans.

Every invariant and action property of the passing runs is stated by one of these theorems, and so is the
refinement. Only model-checked are the liveness properties (`JobsEnd`, `LeaseReturned`, `PulledInTheEnd`,
`RetriesEnd`, `AnswersInTheEnd`, `ProgressEnds`), which the prover cannot do, and that the
violations of section 5 happen.

## 5. Findings

| Run | Said | Done |
|---|---|---|
| `reject_race` | "已确认匹配不能拒绝" (`docs/features/api-first-implementation-notes.md:221`) | `reject_match` decides on a copy read before the lock: a match confirmed in between is rejected, and its amounts stay counted |
| `released_credit` | matched amount is accumulated from the confirmed records (`docs/features/admin-first-implementation-notes.md:188`) | releasing the match of a settled registration leaves the credit on its payments |
| `revenue_lost_update` | the same, for revenue (`:188`, `:191`) | two overlapping confirmations write absolute amounts from one old value |
| `revenue_listed_twice` | a linked record may not be reconciled again (`docs/features/store-ledger-workspace-design.md:132`) | listed records are searched only between the dates of the new match, which need not contain theirs |
| `sync_cancel` | after a cancellation the status is `canceled` (`docs/integrations/dingtalk/staged-sync-design.md:116`) | the thread writes `succeeded` after its last check; automatic and store jobs handle the cancellation as an error and write `failed` |

Met while modelling the automatic run, and refuted by no run of its own: "达到分页上限或任务失败时，把窗口和各模板 cursor
写入 `approval_resume_state`" (`docs/integrations/dingtalk/sync-logic-review-2026-09-26.md:26`, and in other words
`approval-sync-strategy.md:39`). A run that fails writes its window with the cursors of its job, which are
empty until `run_approval_sync` has ended, and a state without cursors is none: the next
run starts afresh from the watermark and lists again what had been listed. `WatermarkCovers`
and `PulledInTheEnd` show that nothing is lost by it but work.

Met while modelling and refuted by no run of its own as well:

* "封账后业务写入接口应拒绝" (`docs/features/api-first-implementation-notes.md:76`). `unmatch_revenue_match` never looks at the
  ledger: it releases a confirmed match of a closed one (`released` in `RevenueMatching`; `ClosedNothingPending`
  says that nothing else uncovers a record). `confirm_match` looks at it for an approval without another
  confirmed match only (`ConfirmMatch`), and `ClosedBooksBacked` shows what stays true all the same.
* "仍受数据库执行锁保护，避免把正在执行的任务判为中断" (`docs/2026-10-08-dingtalk-sync-store-and-state-fix.md:10`). Nothing checks the
  connection of the lock while a thread pulls: when the database ends it, the recovery ends a job that
  is executed, and a second one may pull beside it (`LoseLease`; the exception `broken` in `PullsUnderLease` and
  `LivePullsNotRecovered`). `JobsEnd` and `LeaseReturned` hold with it.

Met while modelling the clients; these are not contradictions of a document or are outside of what a run
compares, and are listed for whoever maintains the code (files under `apps/admin-web/app`):

* An import takes the file chosen now, the preview on the screen may be of the one before it
  (`bank/page.tsx`; `ChooseFile` and `DonePreview` in `BankPage`).
* A view closed while it loads keeps its loading flag where closing raises the request counter without
  lowering the flag: the two dialogs of `DividendOpeningSettings.tsx` (whose buttons then return at once), both loads of
  `UnpaidPaymentSettlement.tsx`, the coverage fields of the reconciliation page (`AccrualCoverageFields.tsx`), the candidates of the pre-opening page, the instances
  of `dingtalk/page.tsx`, and `report/index.tsx` of the mini program. These views are `dismissed`, and
  `SpinnerStops` is claimed of open views: the next load that is not overtaken lowers the flag.
* The audit log numbers no requests and its refresh button is never disabled, so that an overtaken answer may
  stay (`AuditLogs`, a view outside `InOrder`).
* A save of the dividends page or the store workspace shows its own answer unguarded (`bare`), so that the
  rows of a store left meanwhile appear under the next.
* The page says that it refreshes every three seconds (`dingtalk/page.tsx`, "页面每 3 秒自动刷新进度"); the list it
  reloads when a job ends may come from the GET cache. `EndReloads` excepts that case (`hit`).
* Only the first 500 candidates are searched for the pair to confirm in `matching-v2`.
* Messages about rows that failed are cleared by the reload that follows (revenue page, approvals page).
* Expense attachments that failed to load count as loaded and empty.
* `clearReferenceDataCache` has no caller: stores and categories may be a minute old after a save.
* The only tab of `/` may be closed, which leaves the page without a tab (an exception in `TabsFit`). Addresses
  outside the navigation tree, and the links of the start page without a `store_id`, lose their tab once
  the user is known.

## 6. Not modelled, and why

Planned (section 7): accruals, accounting plans, approval
status and notices, dividends, direct posting, the roll back of an import, the order of
locks. Left out for good: parsing of approval forms (data conversion), the DingTalk
client (known only by its outcomes), reports (they only read), permissions and master
data (one guarded assignment each), attachments, audit; of the clients the layout,
export, the rules of validation, the pasting and parsing of rows, messages, and the
reference-data cache.
The accrual, category and plan side effects inside the matching handlers are missing
from `Reconciliation` until those modules exist.

## 7. Plan

In this order; each module with its runs, then proofs.

1. `Accruals`: entries, coverage links, release on unmatching. Property: parts add up to the
   accrual after any sequence; then its composition with the matching actions.
2. `PaymentUse`: an abstract specification in which an amount of money is free, reserved or spent,
   and the refinement by `Reconciliation` (mapping: a payment is spent by its own confirmed
   matches or by those of its completed source), checked by TLC and proved from `IInv`.
3. `LockOrder`: rows and `mutation_lock` as resources. `create_revenue_match_batch` locks its bank row
   before `mutation_lock`, `update_bank_transaction` after it; synchronization holds approval rows that
   pre-opening and accrual handlers take after the lock.
4. Roll back of imports; approval notices; accounting plans of periods; dividends.

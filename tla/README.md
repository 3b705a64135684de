# A TLA+ model of Bazuna

Bazuna is a classified-ads service: a Django web application and an aiogram
Telegram bot share one PostgreSQL database, a media directory and a Redis
cache; a scheduler process runs the retention commands and the daily digest.
There is no message broker: all coordination goes through row locks, guarded
UPDATEs, unique and CHECK constraints, advisory locks, `transaction.on_commit`,
and in the bot through the order in which awaits resume. That is what is
modelled here.

## Inventory

| Component | State | Operations | Hard behaviour | Correct when |
|---|---|---|---|---|
| Ad row (`ads/models.py`) | status, six timestamps, owner | `transition_to` | long chains of transitions | CHECK constraints never trip; no clock of an earlier stay survives |
| Submission and moderation (`submission.py`, `lifecycle.py`, `auto_moderation.py`, `moderation_log.py`) | ads, seller row lock | submit, reactivate, archive, delete, approve, reject | publications of one seller race; savepoints swallow errors; lock order | `max_ads_per_user` is never exceeded; failed, rejected and deleted ads do not come back |
| Retention sweeps (`core/management/commands`) | ads by status and age | archive_sweep, delete_sweep, purge_*, sweep_drafts | select and delete are two statements | rows stay valid whatever moves in between |
| Moderation admin (`admin_actions.py`, `api_bulk.py`, `review.py`) | ads, users, audit log, priority | approve, reject, flag, delete, ban, one ad or many | bulk transactions over ads and sellers in different orders; stale pages | audit, bans and counts agree; a rejection stands |
| Admin change form (`ads/admin.py`) | one ad | save | writes what it loaded | a form that undoes a decision is the only thing that does |
| Prices (`price_normalizer.py`, `recompute_normalized_prices.py`) | rate, cached rate, normalized prices | edit, set a rate, recompute | cache cleared inside the transaction | a normalized price is of the price it stands beside |
| Drafts and bot dialog (`handlers/ad_create`, `orm.py`, `copy_service.py`) | FSM step and dictionary, the draft | post, copy, answer, photo, confirm, cancel | updates of one seller handled at once | at most one draft; photos numbered; a dialog ends |
| Updates of the bot (`main.py`, `middlewares`, `retry.py`, contact, support, alerts, language) | dedup keys, windows, tickets, settings | poll, gate, budget, handle, replay | at-least-once delivery, a replay of one call, a crash after the ack | no row twice, nothing forgotten, rates bounded |
| Consent and accounts (`users/services`) | flags of a user, consent records | accept, decline, withdraw, ban, delete, erase | requests decide on the instance they loaded | a decline blocks, a withdrawal is final and leaves its evidence |
| Login tokens (`login_token.py`, `handlers/login.py`, `views/consent.py`) | login_tokens rows | issue, claim, consume, clean up | polls race, page views overlap, withdrawals delete | one session per token, right user, right browser |
| Media store (`media/`) | AdImage rows, staged and permanent files | upload, promote, unlink, sweep | the database and the file system commit separately | every loss of a referenced file is one of a known list; no orphan stays |
| Search alerts (`search/`) | saved searches, notifications, pool | match, collect, send, mark | two senders, lost answers, shutdown | every copy is accounted for; what is asked for arrives |
| Scheduler (`core/utils/scheduler.py`) | last day in memory and in a row, stop flag | cycle, dispatch, record | stops and kills between commands, midnight | a recorded day ran in full and is not run again |
| Caches (`swr_cache.py`, `search/services/cache.py`, `core/utils/cache.py`) | entries, versions, locks | get, recompute, bump | stale writers, lost locks, bumps before the commit | staleness is bounded; a key is never starved |
| Others | | | | see "Not modelled" |

Every component is listed in `PROJECT.json` with its status and the reason;
the hazards are listed there at their lines, each with the properties that
would catch it or the reason why none does.

### How the components interact

- The **bot**, the **web process** and the **commands** the scheduler starts
  are three kinds of process on one database. A request is one transaction, or
  a few autocommitted statements; its gate (may this account act?) is read
  before the transaction begins.
- **Ads and users** share row locks: a publication locks the ad and then its
  seller, a withdrawal the seller and then the ads, a bulk approval the ads by
  key and then their sellers in the ads' order.
- **The database and the disk** are tied only by order: files are moved or
  deleted after the commit that makes them wanted or unwanted.
- **The bot's dialog** (FSM data in Redis) remembers an ad id and photo keys
  across handlers, so it can be stale against both, and every update of a
  person is a task of its own.
- **Signals** (`post_save`, `pre_delete`) turn row changes into file cleanups,
  immediate alerts, priorities and cache bumps.

## Modules

| Module | What it is | Code |
|---|---|---|
| `AdRow` | one row: statuses, `TransitionTo`, the CHECK constraints | `ads/models.py` |
| `AdLifecycle` | the ads table and the transactions on it | `submission.py`, `lifecycle.py`, `auto_moderation.py`, `moderation_log.py`, `deletion.py`, the retention commands, drafts |
| `PublicBoard` | abstract: what buyers see; `AdLifecycle` implements it | - |
| `LoginTokens` | issuing, claiming and consuming a login token | `login_token.py`, `handlers/login.py`, `views/consent.py`, `cleanup_login_tokens.py` |
| `LoginTicket` | abstract: a ticket that admits once; `LoginTokens` implements it | - |
| `PhotoShelf` | abstract: photos that are shown, kept, or on record as at risk; `MediaStore` implements it | - |
| `MediaStore` | photo rows and files | `media/`, `submission.py`, `images.py`, `copy_service.py`, the bot's dialog |
| `AccountGate` | the predicates on the flags of an account, the bot's gate | `account_state.py`, `middlewares/permissions.py`, `contact.py` |
| `ConsentAccount` | accounts, their records, and the requests that save them (EXTENDS `AccountGate`) | `deletion.py`, `views/consent.py`, `users/admin.py`, `consent_record.py`, `consent_hard_delete.py`, the ledger's retention |
| `AlertMatching` | which ads a search asks for, in SQL and in Python | `alert_query.py`, `immediate_alerts.py` |
| `AlertDelivery` | immediate alerts and digests (EXTENDS `AlertMatching`) | `immediate_alerts.py`, `send_alerts.py`, `notification_delivery.py`, `saved_searches.py` |
| `Scheduler` | cycles and the daily set | `scheduler.py`, `scheduler_daily_state.py`, `rollup_daily_metrics.py` |
| `StaleCache` | one key of each kind of cache | `swr_cache.py`, `search/services/cache.py`, `search/signals.py`, `core/utils/cache.py` and their readers |
| `AdDialog` | the dialog in which an ad is described | `handlers/ad_create/*`, `services/ad_data/*`, `ad_copy.py` |
| `BotUpdates` | an update from the poll to the end of its handler | `main.py`, `middlewares/*`, `retry.py`, `rate_limit.py`, `core/utils/cache.py`, the handlers of contacts, support, alerts and language |
| `ModerationDesk` | requests of moderators, sellers, the change form and the prices on the same ads (EXTENDS `AdRow`) | `admin_actions.py`, `api_bulk.py`, `review.py`, `ads/admin.py`, `edit_flow.py`, `price_normalizer.py`, `recompute_normalized_prices.py`, `moderation/signals.py` |
| `*Properties` | the properties of a component and, where it is stated, the invariant they follow from | - |
| `AdLifecycleProofs`, `LoginTokensProofs`, `AdDialogProofs`, `BotUpdatesProofs`, `ModerationDeskProofs` | theorems about one component | - |
| `StoresProofs` | theorems about `MediaStore` and `StaleCache` | - |
| `ServicesProofs` | theorems about `AlertDelivery`, `Scheduler` and `ConsentAccount` | - |
| `SumFacts` | lemmas on sums over finite sets, which the community modules define recursively | - |
| `MC*` | constants and symmetry for TLC | - |

A component's module holds state and actions only; a few definitions in it are
marked *Mutant*: variants of an action with a plausible bug, used to make sure
that every property can fail.

### AdLifecycle

`row` is the committed table; a `Session` is one open transaction. The steps of
a session are the statements of the code:

| Request | Steps |
|---|---|
| submit, reactivate | `PassGate` (account read, no lock) → `LockAd` or `Refuse` (`select_for_update`) → `Moderate` (content checks and the first count) → `LockOwner` → `Recount` (`set_published`) → `Commit` |
| approve, publish from the admin site | `OpenReview` → the same without the gate |
| withdraw | `BeginWithdraw` → `EraseProfile` (locks the user row) → `ListAds` (no lock) → `DeleteNext`, once per ad → `CommitWithdrawal` |
| retention commands | `SelectOverdue` → `Reap` (`DELETE ... WHERE id IN`) |
| a new draft, a copy, a cancelled draft | `SelectDraft` → `CreateDraft` or `Reap` |
| an edit of a published ad, a touched draft | `RestartClock`, `TouchDraft` |
| archive, delete, reject, send to review | one step each: lock, transition, commit |

A wait ends with the lock, with `LockTimeout` (10 s on every connection) or with
the deadlock detector. `LockTimeoutInPublish` is the one place where the error
does not reach the request: `auto_moderate` catches it. `Crash` rolls back. An
insert of a draft waits for the session that is about to delete the seller's
other one (the unique index).

What an open transaction has written is kept in its session (`verdict`,
`done`) and applied by its commit step, so every other session sees the
committed table, as READ COMMITTED has it.

Abstractions: the content checks are a nondeterministic verdict; a timestamp is
set or not set, and `overdue[a]` says that the retention of the current status
has run out; photos, prices and titles are left out. The batches of
`archive_sweep` are modelled ad by ad; the transaction around several of its
ads, which holds its locks longer, is not.

### LoginTokens

A `Request` is a handler between two statements. `issue_token` is two
autocommitted statements (`Supersede`, `Create`); `handle_login_orm` one
transaction decided by one guarded UPDATE (`Start`, `Claim`, `ClaimNothing`);
`login_status` a read, a guarded UPDATE, a lookup and `auth_login` (`Poll`,
`Consume` or `LoseRace`, `LookUp`, `OpenSession`). `EraseTokens` and
`CommitWithdrawal` are the part of a withdrawal that concerns tokens; `Locked`
makes statements wait for the rows it is about to delete. A poll that is
refused writes nothing and is no step. `Cleanup` may delete a consumed row at
any time; the code waits a day, so the model allows more.

### MediaStore

A photo is one file here: the code keeps an original and three thumbnails under
keys that are created, promoted and deleted together. There is one seller with
one dialog, and keys are numbered in the order of upload; a key is used again
only when nothing remembers it. Thumbnails, the digest of a
photo (`Twin`: the keys with equal content) and the position are abstracted;
a copy's row is taken to have its source's digest.

| Code | Actions |
|---|---|
| `save_photo` and the FSM update | `Upload` |
| `process_preview` and `submit_ad` | `Plan` (touch, then `plan_staging_promotion`), `CommitSubmit` / `CommitRefused` / `PhotoUnavailable`, then `ReplaceDraft` after a refusal (its handler ends there, see `AdDialog`), then after the commit `ReclaimDuplicate`, `Promote` or `PromoteFails`, one file each, and `Finish` |
| `copy_ad` | `ReadSource`, `CommitCopy` |
| `cmd_cancel` and `delete_draft` | `CancelRead`, `Discard`, `GetDraft`, `DeleteDraft`, `Query`/`Unlink` of the signal, `Purge` of the loop after it |
| row deletions (sweeps, moderators, withdrawals) | `DeleteAd`, `RemoveImage`, `WithdrawAds`, then `Query` and `Unlink` or `UnlinkFails` |
| `sweep_orphaned_media` | `Snapshot`, `Walk`, `SweepDelete`, `ReclaimStale`, `EndSweep` |

`status` keeps only what the store depends on: no row, a draft, an ad that may
enter review again (`open`), one that may not (`closed`); `Move` is any
transition between the last two. `Age` is two hours without a touch; it is
disabled for the files a handler holds, which is the assumption that no handler
takes two hours. `ReclaimStale` reads the age and deletes in one step: the two
calls are adjacent in the code. `exposed` is a history variable: the keys that
were put at risk in one of the ways listed under *What is not true*; it is set
by the action that takes the risk and read by no action.

### ConsentAccount

An account is the set of its flags (`AccountGate.Flag`). A request loads the
account (`Load...`), later saves the columns it names (`GiveConsent`,
`Decline`, `Withdraw`, `SaveCity`, `PullLever`), and then inserts its record
(`RecordChoice`, ...): three steps between which everybody else runs. Only
`SaveForm`, the admin's change form, writes the whole instance back. `row`
numbers the rows a person had: `HardDelete` and `StaffDelete` end one,
`Register` begins the next, and a request that still holds the old instance
writes into nothing or inserts the old row again, as Django does.

### AlertMatching and AlertDelivery

A pair of a search and an ad is an attempt when its row is there and a receipt
when `delivered_at` is set. The hook of the commit records (`RecordNotification`,
in autocommit) and then hands a batch to the pool (`Dispatch`, shed when
`inFlight` is at the cap); a batch sends and writes receipts pair by pair. A
digest collects under the advisory lock, persists, sends user by user and then
marks. `copies` and `unseen` are histories: the messages a user got, and those
of them whose fate nobody knows any more.

### Scheduler

`RunHourly` and `RunDaily` are one subprocess each, with exit code 0 or not;
`Skip` is a command declined for a stop. Time passes in half days, before and
from 08:00 on, at any moment. `RunDaily` contains what one command does to data
the scheduler's promise is about: `rollup_daily_metrics`, with the day of its
own clock.

### StaleCache

A key is of one of four kinds: `search` and `menu` (versioned, locked; a loser
computes or gets an empty answer), `names` (versioned, no lock), `setting` (no
version, deleted on save). What is cached is the set of changes it reflects. A
change is inline (bumped inside its transaction, as `search/signals.py` does)
or deferred (bumped by `on_commit`, as account changes are). `Bump` on a
missing counter is two steps (`incr` fails, then `set`).

### AdDialog

One seller, two tasks. A task reads the state, dispatches by it, and then goes
through the awaits of its handler, each one action: read the dictionary, ask
the database, write the dictionary, set the state, answer. The ORM work of a
handler is one action (the bot has one thread for it). `shown` are the keyboards the chat
still has: an old button is an answer nobody asked for, of which `MaxExtra` are
sent.

A submission that comes to no verdict commits a fresh draft and then calls
`state.update`, which `FSMContext` does not have. `Replace` ends the handler
there: the dialog keeps the dead ad, and the seller gets no answer. What is left
to him is /cancel (or /post). `silent` is the history of the ads whose
confirmation ended without an answer in this or in another regular way (a violated constraint, a
dictionary without an ad); the model's seller gives up on such an ad (`Asked`).

### BotUpdates

`sent`, `given` and `acked` are the cursors of the poll; a crash hands out again what
was not acknowledged. A task is the list of steps it has left: deduplication,
gate, and the steps of its handler (`PostSteps`, ...). Calls to Telegram may
fail for the moment or for good, or time out after they were accepted; the errors handler
replays the call and the rest of the steps is lost. A rate-limit window is a
counter with a lifetime.

`calendar` holds the month twice, in UTC and in `TIME_ZONE`, which is ahead:
`MonthTurns` turns the local one first. `SupportTicket.save` takes the month of
the reference from the one and counts by the other, so a ticket is the month and
the number of its reference, the local month it was made in, and whether it is
the person's. `listed` are the channels that have a recipient, the same for a
whole behaviour; `Notify` passes over one that has none, and over a failure, but
not over an error of the cache the recipients are read from, which cuts the handler.

### ModerationDesk

Sessions again, but with several ads in one transaction and for the requests
that `AdLifecycle` leaves out: what a session has locked is in its `work`. A
request is a record (who, by which way, which deed, on which ads). `Lock`,
`Judge`, `LockOwner`, `Publish`, ... are the statements; `Waits` says who waits
for whom and `GiveUp` ends a wait by timeout. `Peek` and `SaveForm` are the two
ends of the change form. `Scores` is the priority signal. `Sweeping` is the
advisory lock that keeps two recomputations apart. `Starts` gives the ads, the
requests and the scores a behaviour begins with; `DeskStarts` says what the
theorems need of it: the rows are such as the program leaves, and each surface
offers the deeds it has. `byHand`, `overwritten`, `lapsed` and `repriced` are histories:
which ads a form wrote to, or wrote over, whether a rate that was no more has
entered the cache, and the latest rate a recomputation has used for an ad.

## Runs

Twelve runs, thirty-nine properties, each a complete search; what they check holds.

| Run | Instance | What it shows |
|---|---|---|
| `ad_safety` | 1 seller, 2 ads, 2 sessions, cap 1 | `RowsOK`, `QuotaKept`, `WithdrawnHidden`, the inductive invariant `IInv` (single draft, locks, what a session knows), `NobodyWaitsForEver`, `HistoryKept` (the final states, and the clock that the status runs by) and the refinement `ImplementsBoard` |
| `login_safety` | 2 browsers, 2 users, 2 tokens, 2 handlers | `OneSession`, `UnclaimedBounded`, `BurnedByItsBrowser`, `WithdrawnStays`, the inductive invariant `LInv` and the refinement `ImplementsTicket` |
| `media_safety` | 2 ads, 1 photo, 2 handlers and the sweep | `EveryLossIsKnown` and the refinement `ImplementsShelf` |
| `media_orphans` | 1 ad, 2 photos of equal content, 1 handler and the sweep | `OrphansGo` |
| `consent` | 2 staff members on each other's accounts, 3 requests, 2 lives each | `DeclineBlocksPublishing`, `EvidenceOfWithdrawal`, `OnlyTheFormRestores`, `ErasureHappens`, and the inductive `CInv` |
| `alerts` | 2 ads, 2 searches of 2 users, one batch, 2 digests, 1 failure or edit | `EveryCopyAccounted`, `MatchersAgree`, `AlertInv` (the pool's counter, the lock, what is recorded) |
| `alerts_live` | the same with one digest | `AlertsArrive` |
| `scheduler` | 3 days, 1 hourly and 3 daily commands, 2 faults | `SInv`, `RecordedDaysRolledUp`, `OnlyTheBlindRepeat`, `DailyHappens` |
| `cache` | one key of each kind, 2 requests, an inline and a deferred change, 1 fault | single flight and the inductive invariant (`CacheInv`), `BoundedStaleness`, `AccountChangesRetire`, `AnswersComeBack` |
| `dialog` | 1 seller, 2 updates at once, 1 unasked, 2 faults, 2 photos | `DialogInv` (numbered photos, one draft, sound submissions; inductive), `DialogEnds` |
| `bot` | 2 updates of one topic at once, 1 fault, 1 change of the account, 1 turn of the month, 1 ticket of another user, a desk with both channels, one or none | `BotInv` (nine guarantees), `BotAnswers` |
| `desk` | 3 ads of 2 sellers, 2 or 3 requests of every kind, cap 1 | `DeskInv` (bans and the numbers told to moderators, audit, checked text, rejections, prices, the cap), `DeskEnds` |

Why these bounds suffice for what they show:

- *ads*: two publications and one free place are the smallest race for the cap,
  and a withdrawal races any of them; two ads are needed for the wait of an
  insert on another session's draft.
- *login*: a race needs two handlers on one token, a swap two browsers or users.
- *media*: a shared photo needs two ads; a condemned file one handler that
  frees it and one that commits a row for it. With one key `media_safety`
  meets no duplicates: `media_orphans` does, and the proof covers any number.
- *consent*: an overtaken instance needs two requests, a request that relies on
  an overtaken one a third. Two lives make a request meet the row after its own.
- *alerts*: an alert and a digest are the two senders; two digests overlap only
  after the lock is free, and the second needs nothing from a third. `car` and
  `boat` differ in price and language, so that the matchers can disagree.
- *scheduler*: the rollup of a day needs the day before, and a repeated set one
  more; two faults let a marker be lost and then not read.
- *cache*: `Ttl`, `StaleTtl`, `LockTtl` and `MaxRun` are all one tick, so that every
  order of the expiries is met. `MaxActors` bounds who is busy at a time.
- *dialog*: every race is of two updates. `MaxExtra = 1` is one stale button or
  command. Two faults let a draft be swept and its replacement fail.
- *bot*: one fault; a row written a third time, or a desk with two channels told
  by neither, would need two and does not occur. A clash of references needs two
  tickets, a late one the first half of a turn of the month.
- *desk*: a bulk action needs two ads of one seller and one of another; three
  requests meet only where prices or bans are concerned. With a cap of one, two
  ads that come back meet one free place.

`ad_*`, `login_*` and the others that switch the deadlock check off have
instances whose ids, faults or requests are used up; a system with nobody left
to act is in order there. The media runs keep it on.

## Fairness

| Specification | Assumed | Why |
|---|---|---|
| `MediaSpec` | WF of `Snapshot`, `EndSweep`; SF of `Walk` and `SweepDelete` | the scheduler runs the sweep every hour; one may die before the walk, an unlink may fail, but not for ever |
| `ConsentSpec` | WF of the erasure of each account | `consent_hard_delete` is a daily command, and revocations grow old |
| `AlertDelivery!FairSpec` | WF of the hook, of each slot and of each digest | the event loop runs what it holds; the digest is a daily command |
| `FairSchedulerSpec` | WF of `Step` | `restart: unless-stopped`, `SCHEDULER_COMMAND_TIMEOUT`, a bounded wait between cycles |
| `StaleCache!FairSpec` | WF of the clock and of serving each request | a request is served or its worker dies; nobody has to ask |
| `AdDialog!FairSpec` | WF of each task; WF of the seller's answers | the event loop; `DialogEnds` is about a seller who goes on answering, and who sends /cancel when his confirmation has no answer: the bot does not bring him further by itself |
| `BotUpdates!FairSpec` | WF of the poll and the tasks | the event loop does not rest; the container restarts |
| `ModerationDesk!FairSpec` | WF of the sessions together | PostgreSQL runs the statements it is given, `lock_timeout` ends waits |

Nothing that begins a request, lets time pass (but in `StaleCache`), fails or
kills a process is fair. Of `AdLifecycle` nothing is assumed: its promise that no
request hangs is the invariant `NobodyWaitsForEver`. In every reachable state
whoever has begun may go on or waits for a lock that times out, and the lock's
holder has a transaction open. The conditions under which a session goes on are
written out (`MayGoOn`, `MayTimeOut`), as `ENABLED` is beyond the prover.

## Proofs

`tlapm` checks the theorems for every value of the constants under the named
assumptions: ads, handlers, batches and digests are finitely many, each ad, search
and account has what the constants say it has, caps are positive numbers, keys
and days are numbers, and `None` is none of the ids. Each proof has the same
plan: an inductive invariant that TLC has checked first, a lemma per action with
frame lemmas for what an action leaves alone, and the properties from it.

**AdLifecycleProofs.** `IInv` strengthens the table properties by what
each open transaction knows: a request that decides holds its ad's lock and
its ad is in a status it accepts (`DecidesUnderLock`); from the recount to the
commit it holds the seller's lock, and the room it counted is still there
(`RoomIsReserved`); a withdrawal in its loop has deleted, still has to delete,
or need not delete every ad of its seller (`MissesNoAd`,
`KeepsWhatItWrote`). Without the first the matrix could refuse a commit, without
the second `QuotaKept` is not inductive, without the third `WithdrawnHidden` is
not. `Bystander` states once what a step leaves to the other sessions.
`HistoryHolds`, `NobodyIsStuck` and `BoardImplemented` follow from `IInv` and
the same lemmas. A request that can neither go on nor time out would be at a
step whose guards and waits leave a gap: there is none, and what is locked is
locked by a transaction that is open. In the refinement a publication is `PutUp`, a
withdrawal `Leave`, everything else `TakeDown` or a stutter; `BoardKeepsItsWord`
is what the board is worth, the quota and nothing shown of those who have left. These theorems are about the requests
that change a status through `transition_to`. The stale save of the admin's
change form is not one of them: `ModerationDesk` has it.

**LoginTokensProofs.** `LInv`: the columns of a row are filled in in order and
are write-once, so what a handler has read of its token stays true; the handler
that consumed a token is the only one and no session of that token exists yet.
From it `OneSession`, the bound, the two action properties and the refinement
of `LoginTicket`, in which a consumed token with no handler in flight is a torn
ticket. `TicketIsGoodForOne` is what a ticket is worth: one admission, of the user
who vouched for it, to the browser that holds it.

**StoresProofs**, the media. `MInv`: a shown photo that is not exposed is neither gone
nor condemned (no handler and no sweep is about to free it); a staged one that
is not exposed either has a handler to move it, or no row and no copy under
way; what a submission holds is not stale. `EveryLossIsKnown` follows. So does
`ShelfImplemented`: a photo is kept while its bytes are staged or in permanent storage.
`BytesMove` says of every step that it uploads a photo, takes the bytes of one
and leaves the rows alone, or keeps all bytes and all that is on record; in the
second case `MInv` after the step says that nobody missed them, in the third that
what the ads show now is kept or on record. `ShelfKeeps` is what the shelf is
worth: on it no photo is missing that is not on record.

**ServicesProofs**, consent. `CInv`: what a request has loaded of the life it
loaded differs from the row only by changes the row has a record of; a
withdrawal and its erasure leave their evidence. The gates of the web and of the
bot are shown to agree on every set of flags (`GatesAgree`, `PostGatesAgree`).

**ServicesProofs**, the scheduler. `SInv`: a recorded day has run every command of the daily
set, the process remembers the last recorded day or an earlier one, and a
rollup that found its day unfinished is not the one a record relies on. Then a
set is repeated only by a process that could not read or write the marker.

**ServicesProofs**, alerts. `MatchersAgreeHolds` needs no invariant: the SQL
conditions and the Python predicate are shown to be one condition, for every
tree of categories and every filter. `AlertInv` keeps the pool's counter equal
to the slots in use, a message in one place, and a user who got his digest out
of the users still to be sent one; with it every step keeps the account
`EveryCopyAccounted`: a send adds a copy and an unwritten receipt (or one nobody
will tell of), a receipt or a logged duplicate takes its place, a crash or a kill moves what
was unwritten to what nobody will tell of.

**StoresProofs**, the caches. `CacheInd`: the counter and the first bumps under way are no
more than the changes that have bumped; a worker whose lock has not run out is
alone at its key; an entry lacks only what was committed since it was computed,
and a request only what was committed since it began or found its entry; there is
nothing yet under a version still to come, unless two first bumps met. From it
single flight, `BoundedStaleness` and `AccountChangesRetire`, for any set of
changes and any lifetimes.

**AdDialogProofs.** `DialogInv` is inductive: a task holds a numbered list it may add
one photo to; while no two updates have overlapped, the task under way is the only
one and the dialog is at the step it was dispatched for (`InTurn`). So a price
is asked for only when there is a description, and a photo is of the ad the
dialog began with. `DialogInv` is the sound dialog (`DialogSound`) and the range
of `silent`, which are proved apart.

**ModerationDeskProofs.** `DeskIInv` (in `ModerationDeskProperties`) adds to `DeskInv` what a row
may be committed as (`Fine`) and what each open request knows (`Knows`, one
conjunct per subject). The ads it has locked are written as they may be
committed, so a commit keeps `Fine` whatever was committed beside it
(`KnowsItsRows`); the text of the ad it counts for has been judged, so nothing unfit
goes public. The accounts an UPDATE has banned but not committed are locked by
it, and each has its audit row already (`KnowsItsBans`): without that, two
overlapping bulk bans could each count one account, and `BansAddUp` is not
inductive. A rejection that is noted has its ad locked (`KnowsItsNotes`), so that
nobody makes it twice (`OneRejection`). While no rate has lapsed, the rate a
recomputation holds is at least as new as any it used before, and an edit's as
any used on the ads it has locked (`KnowsItsRate`); this needs the advisory lock
of the command (`OneSweep`): of two recomputations at once the one with the older
rate could write last. `KnowsItsForm` says what a stale form can bring back. The cap
(`CapKept`) is proved over `DeskIInv` by an induction of its own, `RoomInv`: an
ad that will be public when its request commits is noted, its seller is locked
by that request, and all that will be public then fits (`KeepsTheRoom`); no
other commit can add to it in between, for it would hold the seller's lock
itself. `DeskStarts` asks that nobody begins above the cap. `DeskIsSafe` is
for any ads, accounts, staff, requests and faults.

`NoRequestGoesRound` is the part of `DeskEnds` that needs no fairness. `Effort`
weighs the ads a request has still to lock and to decide, the accounts it has
still to visit and the step it is at; every step, a timeout or a failure
included, makes the effort of one request less and leaves that of the others
(`EveryStepCounts`). So the steps of all requests together are at most as many
as the effort they begin with, whatever they do to each other: nothing is
retried without end.

**BotUpdatesProofs.** `BotIInv` has four parts. For each update (`OneUpdate`): a fault is
behind each thing that went wrong, two behind two (`Blamed`); unless a key was lost,
the key tells of everything that has been handled and may be delivered again
(`Keyed`); what is done and told depends on the step the task is at (`Effect`,
`Heard`, `DeskHears`), which is one of the rests of its handler (`Rest`). For each topic of which nothing
went wrong: updates take turns (`InTurn`), which makes a setting that of the last
update (`Shown`) and a ticket the answer to a prompt (`Prompted`). For each
month (`Numbered`): while none of its tickets was deleted and none came late, the
numbers given under its name are among those its count has reached, so the next
is free; that is why a clash has one of the two causes. For each
window (`WindowKnown`): what was admitted since it opened is at most its count,
what was admitted before it opened and is not older than a period is less than
the limit; the rate bound, twice the limit, is not inductive without this split
at the opening. `BotIsSafe` is for any number of updates, tasks at once, replays and faults,
and any limit and period.

**SumFacts.** The reported bans and the admitted requests are sums over finite sets,
which the community modules define by recursion. `SumIsUnits` shows such a sum
to be the cardinality of a set with one pair for each unit of each summand, and
the library has theorems on finite sets and cardinalities; what a step adds to a
sum, or moves within it, follows from them.

Left to TLC: liveness under fairness (`OrphansGo`, `ErasureHappens`,
`AlertsArrive`, `DailyHappens`, `AnswersComeBack`, `DialogEnds`, `BotAnswers`,
`DeskEnds`), which is out of the prover's reach. Every other property of a run is stated by a theorem.
`MInv` is not a property of a run: `ImplementsShelf` and `EveryLossIsKnown`, which are,
follow from it, and the theorem `MediaInvariance` is about it.

## What is not true

What the models had to say of the code that its documents do not, with the place
of either. No run is made to fail for these: the models do what the code does,
and the properties are what remains true.

Ads:

- A lock timeout on the seller's row inside `set_published` is caught by
  `auto_moderate`'s `except Exception` (`auto_moderation.py:170`) and fails the
  ad for good; `submission.py:206` says a lock timeout is no outcome. For the
  same reason a bulk approval whose comment promises that a timeout commits
  nothing may commit a failed ad.
- `queryset.delete()` of a retention command (`delete_sweep.py:63`) selects, then
  deletes by id. An archived ad that is reactivated in between is deleted while
  it is published.
- The change form saves every column it loaded (`ads/admin.py:340`), so an ad
  deleted or rejected meanwhile is back, although `ads/models.py:56` calls these
  states terminal. A mixture of old and new columns can fail a CHECK constraint.
- A bulk ban overtaken by another ban keeps its audit rows, though its docstring
  excludes the row of a ban that did not happen; a bulk approval locks sellers
  in the order of the ads and can deadlock with a bulk ban.
- The change form stores a price without its normalized price. A rate is
  dropped from the cache before it is committed, so the old one may
  be cached again for five minutes and used by a recomputation.
- The priority of a queued ad is computed once: an edit keeps the old score.

Photos. `EveryLossIsKnown` says that a photo that is shown loses its bytes only
in the following ways, each of which `exposed` records and none of which can be
left out (without it the property fails):

- `/copy` and then `/cancel` deletes the files of the ad that was copied: the
  signal spares shared keys (`signals.py:46`), `delete_draft` frees them again
  without looking (`orm.py:167`);
- the orphan sweep reads the rows, then the disk: a photo committed and promoted
  in between is an orphan to it (`sweep_orphaned_media.py:91` claims the
  opposite);
- a copy commits a row for a key that somebody is about to free;
- a refused submission commits rows and moves nothing;
- a handler dies or `os.replace` fails between the commit and the move;
- `/cancel` deletes the staged files of a dialog whose `confirm` is under way or
  has just committed;
- a duplicate's file is reclaimed although the dialog, carried over to another
  draft by /post, has been confirmed again with it.

Accounts and logins:

- Two overlapping page views of one browser supersede first and insert second,
  and leave two live tokens; `login_token.py` speaks of at most one.
  `UnclaimedBounded` is what holds: never more live unclaimed tokens of a
  browser than handlers.
- `give_consent` decides on an instance loaded before a withdrawal and the admin
  form saves such an instance whole; `deletion.py` calls a withdrawal terminal
  and `users/admin.py` the consent columns inert. `OnlyTheFormRestores` is what holds.

Alerts, scheduler, caches:

- A crash between a send and its receipt, or an answer lost on the way, makes a
  second copy; `EveryCopyAccounted` counts them. An unnamed error of Telegram
  ends the digest's loop, which `send_alerts.py`'s exit policy does not mention.
- A failed write of the day's marker lets a restarted scheduler run the day again.
- After a failed version bump the cache does not "refresh on next read" but when
  its entries expire; a loser of `swr`'s lock does not compute directly where
  its reader returns an empty menu or list.

Bot:

- An answer is sent before the state is cleared and an album is handled photo by
  photo, each reading and writing the whole list: photos of an album get lost.
- `/cancel` and `/post` are taken as text in the category and city steps, `/copy`,
  `/alerts` and `/language` in all text steps. `/copy` sets the purpose step
  without its keyboard; `/post` keeps the answers of an unfinished dialog.
- A copied ad cannot be confirmed: the copy has `AdImage` rows at the positions
  the dialog numbers its photos with, and `uq_ad_images_ad_position` refuses
  them (`copy_service.py:130`). A status that cannot be submitted
  commits its changed fields and images unmoderated.
- "A replaced ad_id makes the next confirm target a live row" (`submit.py:219`, and
  `test_ad_create_submit_outcome.py:84`, where `state` is a mock) is not so. The
  handler calls `state.update` (`submit.py:230`, `:233`), which aiogram's `FSMContext`
  has not, and dies after the fresh draft is committed: the dialog keeps the
  dead ad and its photos, every further confirm goes unanswered, and each commits
  another draft. `DialogEnds` is what holds: /cancel ends such a dialog.
- The state filters are bare enum members and are modelled as the filters they
  are meant to be (`Routed`). This is the one place where the model follows
  the intention.
- The replay of a failed call is the call alone: the rest of its handler is lost. A
  timeout may repeat a message. The "sliding" windows are fixed,
  and the support window counts prompts, not messages.
- A ticket's number is a count plus one and is used again once a withdrawal has
  deleted tickets; and "Second ticket in the same month gets sequence 002"
  (`test_support_models.py:134`) fails in the last hour or two of a month in UTC:
  the reference is of that month (`core/models.py:212`), but `created_at__month` is
  evaluated in `TIME_ZONE` (`base.py:172`), where the next has begun, so that a
  ticket just made is not counted. The second one violates the unique constraint,
  its handler is cut, and its text is lost. `ReferencesKnown` says that there is no
  third way.
- `get_support_contacts` reads the cache outside its `try` (`core/services/support.py:35`):
  an error of the cache cuts the handler after the ticket is written
  (`handlers/support.py:176`). With no recipient configured the ticket is
  acknowledged and nobody is told, without any fault. `DeskIsTold` counts both.
- `LanguageMiddleware` looks for `from_user` on the `Update`, which has none, so
  that it always falls back to the default language.

## Not modelled

| Part | Why |
|---|---|
| Favorites, the page of saved searches, preferences | one statement each on rows of their owner; what alerts see of searches is in `AlertDelivery` |
| Analytics and trust, but for `rollup_daily_metrics` | append-only events and sums; nothing acts on them |
| Fetching rates, decimal arithmetic of prices | an HTTP call and rounding; what depends on the order of rate, cache and price is in `ModerationDesk` |
| Categories, locations, lookups, seed data | static data and generators; what alerts need of the tree is a constant |
| Translation | a call of a service, stored beside the text |
| Web pages, templates, theme, middleware | reading and layout; the writes behind them are in the modules above |
| Deployment, backup, CI | no program state |
| The add page of the admin site | it saves an ad with the status as typed, outside quota and moderation |
| A batch of `archive_sweep` as one transaction, its page bookkeeping | its ads are archived one by one in the model |
| The byte budget of `staging/`, content checks of a photo, the report mode of the orphan sweep | they refuse or report and change no row |
| Rate limits of the login pages, hashing of ids | they refuse before anything is written |
| The 24 hours of a deduplication key | an update is not delivered again after a day |

## Plan

| Step | Modules | Abstract specification, main properties | State |
|---|---|---|---|
| 1 | `AdRow`, `AdLifecycle` | `PublicBoard`; cap, withdrawal, final states | done, proved |
| 2 | `LoginTokens` | `LoginTicket`; one session per token | done, proved |
| 3 | `MediaStore` | `PhotoShelf`; losses are known, orphans go | done, safety proved |
| 4 | `AccountGate`, `ConsentAccount` | a decline blocks, evidence stays, erasure happens | done, safety proved |
| 5 | `AlertMatching`, `AlertDelivery` | every copy accounted for, matchers agree, alerts arrive | done, safety proved |
| 6 | `Scheduler` | a recorded day ran in full and is not repeated | done, safety proved |
| 7 | `StaleCache` | single flight, bounded staleness | done, safety proved |
| 8 | `AdDialog`, `BotUpdates` | a dialog ends; no row twice, nothing forgotten | done, safety proved |
| 9 | `ModerationDesk` | bans, audit, prices, rejections, the cap under bulk transactions and stale pages | done, safety proved |

What is left: `AdLifecycle` with a batch of `archive_sweep` as one transaction;
measures like `Effort` for the other components.

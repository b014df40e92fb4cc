# WAY: a TLA+ model of the backend

The repository is a Django monolith (`src/backend`): wallets and credits, payments,
paid AI skills, identity, an event bus, an audit trail, and a front end with an offline
queue. These modules model the parts that hold state and are reached by several threads
at once; TLC checks them on small instances and TLAPS proves the central theorems for
every instance. `PROJECT.json` holds the machine-readable index: components, runs, the
mutant of each property, the lines each definition translates, findings, hazards, theorems.

Reading order: `CreditBook`, `Credits`, `Payments`, `Executions`; `EventBus`,
`AuditChain`; `Identity`; `StaleRegister`, `ReadThrough`, `CachedViews`; `RateLimit`,
`Client`; `Sessions`, `Providers`, `Reverts`, `Marketplace`; then the `MC*` modules with
the `.cfg` files, and the `*Proofs` modules.

    tlc -config credits_book.cfg MCCredits     # a run
    tlapm CreditsProofs.tla                    # the proofs of a module

## 1. Inventory

| component (backend/…) | state it keeps | operations | correct when | module |
|---|---|---|---|---|
| credit transactions, wallets (`way_finance`) | `Wallet`, `CreditReserve`, `CreditLedger` rows | `mint_credits`, `burn_credits`, `transfer_credits`, freeze, unfreeze, PATCH of a wallet, `audit_reserve` | no overdraft, nothing lost or made, the ledger replays, a freeze is immediate, no call hangs | `Credits`, `CreditBook` |
| payments (`way_finance`) | `Payment` rows | `create_payment`, `process_webhook` with `_check_fraud`, `process_pending`, PATCH | a payment moves credits once for each delivery, what is completed and backed is booked, fraud freezes and nothing else does | `Payments` |
| skill execution (`way_skills`) | `SkillExecution`, `Skill.usage_count`, result cache | `queue_execution`, `execute_skill`, `select_provider`, `update_skill_stats` | charged exactly when served, failures refund, counts not made up, every request ends | `Executions` |
| provider health (`way_skills`) | `Provider` rows | `sync_providers`, `update_provider_health`, fail-over event, PATCH | the status is that of the success rate | `Providers` |
| marketplace (`way_skills`, `way_user`) | rating and lifecycle of a `Skill`, its reviews | `add_review`, review API, approve, suspend, PATCH | the rating is that of the reviews | `Marketplace` |
| audit trail (`way_infra`) | `AuditLog` rows in hash chains | `log`, `verify_chain` | what was logged one at a time verifies, what raced does not | `AuditChain` |
| event bus (`way_infra`) | `EventLog` rows | `publish`, `process_events`, deletion | at-least-once handling, five tries and then no more | `EventBus` |
| identity (`way_identity`) | `User` counters, `Device`, `RefreshToken`, `Permission` rows, tokens in clients' hands | login, PATCH of the user, wallet login, refresh, logout, device approval and revocation, cleanups, grant, revoke, check | the limit locks, a revoked device fades out, a revoked grant is gone | `Identity` |
| runtime sessions (`way_core`) | `RuntimeSession` rows | start, complete, kill, sandbox check, cleanup, PATCH, DELETE | status and columns agree; one ending, unless an ended session is started or a completed one killed | `Sessions` |
| cached views (`way_finance`, `way_core`, `way_ops`, `way_user`) | cache entries | read-through with a time to live; writes that delete or set keys, by signal or by hand | bounded staleness; exact when writes have ended | `ReadThrough`, `CachedViews` |
| administrators' actions (`way_ops`) | `AdminAction` rows, the freeze or suspension they are about | `log_action`, `revert_action`, PATCH | reverted means lifted, if there was anything to lift | `Reverts` |
| rate limit (`way_infra/middleware.py`) | a counter in the cache | one get and one set per request | refused for cause only | `RateLimit` |
| API client, offline queue (`way_user/frontend`) | calls of mutations, queue in IndexedDB | interceptors, 429 retry, `queueRequest`, `processQueue` | nothing queued vanishes; nothing is accepted twice without cause | `Client` |
| billing reports, storage, backup, telemetry, analytics, screens, consumers, settings | – | – | – | not modelled, §6 |

**How they interact.** A view calls a service in its own request thread. `process_webhook`
calls `mint_credits`, `burn_credits` and `freeze_wallet`; `execute_skill` calls
`check_permission`, `burn_credits` and, for a refund, `mint_credits`; `revert_action` calls
`unfreeze_wallet`; every service publishes events by inserting a row; `process_events` turns
rows into notifications and cache deletions; signals and services delete cache keys that
screens fill again. The browser reaches all of this through the rate limiter. Threads share
nothing but the database and the cache.

**What is hard here.** Only the three credit functions and `execute_skill` are
transactions. Everything else is a sequence of autocommitted statements working on objects
read earlier: overlapping webhooks, expiry, logins, revocations, kills, reviews, audit rows
and event runs all overwrite each other's columns. The locks that exist are row locks, taken
in argument order. The cache takes no part in transactions. A worker may die between any two
statements, providers redeliver webhooks, a browser's runs of its queue overlap, and nothing
in `settings.py` starts the periodic tasks (`CELERY_BEAT_SCHEDULE = {}`). The 40 places
where this bites are the `hazards` of `PROJECT.json`, each with the properties that watch it
or the reason why none does.

## 2. The database and the cache, as all modules assume them

* PostgreSQL at READ COMMITTED, as the deployment guide has it
  (`docs/GUIDE_DEPLOIEMENT.md:56`). A plain SELECT sees the last committed rows and waits
  for nothing; `select_for_update` and UPDATE wait for the row lock; locks are released at
  the end of the transaction; a cycle of waits is broken by aborting one of its members.
  Writes inside `@transaction.atomic` appear at the commit. `ATOMIC_REQUESTS` is not set,
  so that outside of it each statement commits on its own.
* The cache is shared by all workers, as the commented production settings and the
  reports have it (Redis). With the `LocMemCache` that `settings.py` has now, that is one
  process; a second process would have a cache of its own and miss more often.
* A step of a model is one statement another thread can observe or has to wait for.
  Statements between two of those are merged into the step before or after them.
* Where lifetimes matter (`Identity`, `ReadThrough`, `Client`), time is a tick and a handler
  that is under way at one tick has ended by the next: a request is short against a token,
  a time to live or a rate window. The guards of the `Tick` actions say so.
* Amounts are whole cents. `calculate_cost` rounds to six decimals while the columns of
  wallets and ledgers hold two; what the rounding does to fractions of a cent is outside
  of these models (`way_skills/services.py:222`, `way_finance/models.py:79`).

## 3. Modules

**CreditBook** – the abstract specification: each credit operation is one indivisible
step on balances, frozen flags and ledgers. It says what `way_finance` promises.

**Credits** – the same operations as the code runs them. Each call is a process:
`LockFirst`, `LockSecond` are the `select_for_update`s, `ReadReserve` the *unlocked* read
of the reserve, `SaveReserve` the UPDATE that locks it, `Commit…` the end of the
transaction, with the wallet rows, reserve and ledger row it publishes. `Reject` is the
ValueError, `DeadlockVictim` PostgreSQL's choice in a cycle of waits, `Crash` a dying
worker. `SetFrozen` is the save of one column, `PatchRead`/`PatchWrite` the generic PATCH,
which writes the whole row back. `seen` is what a call holds in its Python objects;
`WaitsFor` says whose lock the next statement of a call needs. The
module instantiates `CreditBook` with the refinement mapping (balance and frozen columns,
ledger) as `ImplementsBook`. `issued` and `retired` are history.

**Payments** – `process_webhook` as its separate SELECTs and saves: `Receive`,
`CheckAmount`, `CheckVelocity`, `CheckDuplicate` (the three queries of `_check_fraud`),
`RejectFraud`/`FreezeWallet` or `Accept`/`Decline`, then `Settle` (the commit of the mint or
burn), `SettleNothing` (a direction that is neither) or `FailToSettle`, and last `Answer` or
`FailToAnswer`, since the event is published, and may fail, after the commit. The
object read at the start (`obj`) is what is saved at the end. Around it: creation, time
(`Ageing`), `ExpirePending`, PATCH, crashes at every step. Amounts may be negative and
directions any text, as the serializers let them (`way_finance/serializers.py:31,39`): a
negative deposit takes credits unchecked, so that nothing is said of balances here, while
`Credits` is checked for amounts that are not negative. `Settle` uses the actions of
`CreditBook`: it is built on the abstract book, and `Credits` shows that the book is
implemented.

**Executions** – `execute_skill` as one transaction per request. `Start` reads the skill
(and its count), `Hit`/`Miss` is the first look into the cache, `LateHit`/`NoProvider`/
`Price` is `select_provider`, which looks again, `Insolvent`/`Solvent` the check on an
unlocked wallet, `Overdrawn`/`LockWallet`/`Charge` is `burn_credits`, `Cache` the result
becoming visible before the commit, `Count` the UPDATE of the skill row and its lock,
`Complete` the commit. `CacheFails` (before the count), `CountFails` (the signal of
`skill.save`, after it), `Refund`, `RefundFails` are the `except` branch, which
commits the failure, and with it a count that was already made; `ChargeFails` is a
cache error at the end of `burn_credits`, `Die` a dying worker or an uncaught cache error.
The row locks are not variables: they follow from the stage of each call. Other spending,
providers going up and down, expiring cache entries and `update_skill_stats` are the
environment. A retry (`ExecutionViewSet.retry`) queues a *new* execution, so it is just
another member of `Executions`.

**EventBus** – `process_events` runs that overlap on copies: `Fetch` evaluates the query,
`HandleWell`/`HandleBadly` the handler, `SaveProcessed`, `SaveRetry` the two saves,
`SaveMisses` and `AbandonBatch` what happens when the row has been deleted.

**AuditChain** – `log` as `ReadLast`, `Stamp`, `Insert` with the placeholder, `Seal`, and
`Die` in between; `VerifyChain` is `verify_chain` over `Chain(S)`, the rows of a set in the
order of `created_at` (`Ordered`). A call stands for the columns that are hashed (type, id,
action, `created_at`): user, address, states before and after, reason and severity enter no
hash, and nothing is said of them. A hash is the sequence of calls it stands for, i.e. free
of collisions. All workers share one clock. `beside` is history: the calls of its type that
were under way when a call read the last row.

**Identity** – one account. Passwords: `ReadUser`, `Lock`, `CountWrong`, `ResetAttempts` are
the statements of `login`; the count is the one that was read, plus one; `ReadProfile` and
`SaveProfile` are the generic PATCH of the user, which writes count and lock back as read.
Devices (rows named by the login that inserted them, found by fingerprint):
`RegisterDevice`, `SetTrust`, `IssueTokens` after a login, `ReadToken`/`IssueAccess` a
refresh, `Distrust`/`RevokeTokens` the two statements of a revocation, `PatchRead`/
`PatchWrite` the generic PATCH, `Delete` with `SET_NULL` for deletion and
`cleanup_inactive_devices`, `CleanupSessions` the task. `Bearers` are the tokens a client may
present, refresh tokens too, since `JWTAuthentication` (`Accepts`) looks at neither the type
of a token nor its row. Of the levels of trust only `untrusted` is told apart, by the code too.
Grants: `Regrant`, `FindNoGrant`, `InsertGrant` are `update_or_create` with and without a
row, over a unique constraint that lets null targets through; `Revoke`; `CheckPermission`.
`wrong`, `streak`, `raced`, `cut`, `standing`, `doubled` are history: what really happened,
to compare the rows with.

**StaleRegister** – the abstract specification of a cache: rows change, and whoever asks is
shown, for each row, a version that was the current one at most `Lag` ago.

**ReadThrough** – how the code goes about it, for any views, rows and writes. `Serve` and
`Miss` are the lookup, `Query` one query (versions of rows are counted by the commits in
`ended`), `InnerHit`, `InnerMiss`, `HandOver` a view made from other cached views, in the
thread pool of the dashboard or not, `Answer` stores and returns, `Raise` is a computation
that ends in an exception. A writer goes through `Start`, `Read`, `DeleteBefore`, `Commit`,
`DeleteAfter`, `Set`, as far as its kind of write does them, and may `Die` in between. It
implements `StaleRegister`: `BoundedStaleness`.

**CachedViews** – the table of the program's cached views (rows, inner views, seconds to
live) and of its writes (which keys, before or after the commit, set or deleted). It is
data, used by `MCReadThrough`.

**RateLimit** – the middleware's counter: `Get`, `Pass` (the set), `Refuse`, time.
**Client** EXTENDS it: the browser on top of the limiter. `SendOnline`, `BeginQueueing`,
`QueueRequest` are the request interceptor, `Throttled`, `SendAgain` the 429 branch of the
response interceptor, `Reject` the one repetition by the query library; `GoOnline` starts
`ProcessQueue`, which takes a snapshot; `Fetch`, `FetchGet`, `FetchPass`, `FetchFails` and
`FetchRefused` work on one entry after the other, `FetchOk` is the server's OK and
`RemoveQueuedRequest` the awaited removal after it. `RemovalFails` is a removal that raises,
so that the `catch` puts an accepted entry back, `CatchFails` a `catch` that raises itself and
ends the run; `Reload` ends mutations and runs at any point, not the queue. `kept` is
history: entries whose run was cut off between the OK and the removal.

**Sessions, Providers, Reverts, Marketplace** – one row each, written by handlers that read
it into an object and save columns, or all of it (`PatchReads`/`PatchSaves`), later. A `job`
is what a worker is about to save. In `Sessions`, `overlaid` is history: an ended session was
started again, or a completed one killed. In `Reverts`, the wallet or skill may be gone
(`there`), and then a revert lifts nothing and marks the action all the same.
**MCPlatform** puts them together for TLC, with the audit trail.

**MC\*** – constants and restricted initial states (named `MCInit`). **\*Proofs** –
theorems. **SumLemmas** – what the proofs about balances need of sums over finite sets
(`SumFunctionOnSet`, recursive in the community modules): any element can be taken out
first, and changing one summand changes the sum by as much. Its inductions are over *sets*
of numbers (`Counting`, `RemovingElements`), by the well-foundedness of `<`, because the
library's induction theorems take an operator as a parameter. Definitions commented "Mutant"
are plausible bugs; no specification uses them. `PROJECT.json` pairs each property with the
one that breaks it.

## 4. Runs

| run | instance | what it shows |
|---|---|---|
| `credits_book` | 3 wallets, 3 calls of all kinds but PATCH, distinct wallets per transfer | the row locks implement `CreditBook`, ledgers replay to the wallet row, no credit is lost or made, calls stuck behind one another contain a cycle of transfers that the database breaks, and every call is answered |
| `credits_all_ops` | 2 wallets, 3 calls of all kinds, PATCH and self-transfers too | what holds even so: no overdraft, the reserve never overstates, a frozen wallet never transfers |
| `payments` | 1 wallet, 3 payments, 3 requests, 1 crash, failing events | see below |
| `executions` | 3 requests, 2 wallets, 1 input, costs 1 and 2, 1 fault | charged exactly when served; balances explained by the ledger; hits were paid for by somebody; only executions that completed, or failed after the count, are counted; every request ends |
| `event_bus` | 2 overlapping runs, 2 events, limit 2, deletions, 1 crash | processed means handled; given up only after as many real failures; each turn leaves its mark |
| `identity` | 4 requests, devices, 1 target, limit 2, 3 ticks, 1 crash | a lock and the count are backed by wrong passwords, and without overlap the limit locks; access tokens that descend from a revoked device are out after one access lifetime; checks agree with the grants that were committed |
| `caches` | 2 requests and a thread, 2 writers, 6 views in 5 families, 1 death | nothing shown is older than the lag of its view; balances and configuration are exact once writes have ended |
| `client` | 1 write, 2 runs at a time, 3 online events, 1 reload, 1 failing write, limit 2 | requests are refused for cause, entries leave the queue for cause and are accepted twice only if runs overlapped or one was cut off after its OK, and no throttled write waits for ever |
| `platform` | 2 workers on each of four rows; 4 calls of the audit log, 2 types, 1 crash | status and ending of a session agree, status follows rate, down stays down, reverted means lifted, an undisturbed rating is right; chains that did not race verify, and those that did do not |
| `payments_replay` ✗ | 1 payment, its webhook twice | the deposit is credited twice |
| `executions_hit` ✗ | as `executions` | "No provider available" although there are providers and a result |
| `executions_fee` ✗ | as `executions` | a cache hit pays nothing, although the pricing has a fee for it |

✗ marks the runs that TLC must refute; the `findings` quote the line of the repository
each one contradicts.

`payments` explores two kinds of initial states: all three requests about one payment
(three deliveries of a deposit, or two and an edit of a payment of any kind; any answer,
expiry at any age), and one delivery for each of three payments of a wallet, whose fraud
checks see each other. It checks that each True answer has a
settlement of its own and each settlement a successful delivery that got past the commit, that
a payment delivered once is booked once if it is a completed deposit that the reserve backs
and not at all otherwise, that a fraud failure freezes the wallet, and that a
frozen wallet has a failed payment with *all four* signs (three of them score 75 of the 80
that must be exceeded).

**Bounds, and why they suffice.** Each property is about a conflict of few parties. Three
calls make cycles of waits of two and three; a row that is overwritten needs a reader, a
writer and a witness. Amounts 1 and 2 around a balance of 1 make both outcomes of every
check; `Backing` lies between the amounts so that mints are refused and accepted (for
`executions`: a refund of 1 succeeds, one of 2 does not). `payments` has deposits of 1, 2
and -1, a withdrawal, and a payment in neither direction. Payment ages are 0, 1, 2 because
the code compares with 30 minutes and an hour. `VelocityLimit` and `AnomalyFactor` are
parameters of the model, 10 and 5 in the code and 1 in the run, so that three payments can
exceed them; `RetryLimit` is 5 in the code and 2 in the run. "addressed" events may succeed
or fail, so they subsume the kinds that can do only one; a "local" one stands beside them.
In `executions` two requests share a wallet and the third has another, so that both the
wallet lock and the reserve lock are waited for; one input makes every request able to hit
every other's result. At most one crash or fault per behaviour; the theorems about
Executions, Credits and Payments have no such bound.

`identity` starts in three kinds of states, since passwords, devices and grants share
nothing but the lock: four logins without a device or PATCHes of the user (two wrong ones
lock, a third overlaps, a right one resets, a PATCH writes back what it has read); logins,
tokens and a revocation, of a device that is unknown, trusted or idle and may get another
fingerprint by PATCH, with every other kind of request at most once; and four grants or
revocations for one target and for all targets. An access token lives one tick, a refresh
token and a lock two, and three ticks let each expire after the last request. In `caches` a
behaviour stays in one family of views that share a row, because different rows and keys do
not meet; a tick is a minute, times to live are cut off at two of them, writes are made in
the first tick and the clock runs to five, beyond every lag; the user's dashboard stands for
its six variants, which differ only in the rows no write here touches. One commit before
each write suffices for a version to be too old. `client` has one mutation, which two failed
calls put into the queue twice, and two runs, so that they can overlap. `MaxRetries` is 3 in
the code and 2 in the run, whose three online events let an entry fail three times, once
more than it is retried; the theorems about the queue hold for every number. One reload and
one failing write are enough to cut a run off between the OK and the removal, in each of the
ways there are. `platform` has two workers per row, for a stale save needs one reader and
one writer; reviews are 1 or 5 stars; two ticks make a session overrun its timeout and
become stale. Its audit trail has four calls of two types, so that three may race and the
fourth be of the other type, or two of each.

**Symmetry** is used only in runs without liveness, over calls, wallets, workers and the
payments that the initial states do not tell apart. Two runs break a symmetry by hand
instead: in `client`, which has a liveness property, a run of the queue takes the first free
name, and in `platform` the calls of `log` start in the order of their numbers. `caches`
also leaves `shown` out of the fingerprint (`VIEW`): nothing reads it, and each answer is
checked at its step. **Deadlock** is checked except where the system stops for good reason:
in the `payments*` runs and `event_bus` all requests have been answered or all events have
been worked off, in `identity`, `caches` and `platform` the bounded clock has also stopped,
and in `client` the online events are used up. The Credits and AuditChain modules stutter
explicitly at rest; Executions always has its environment, so there the liveness property
finds what waits for ever.

**Fairness.** `Credits`, `Executions`: weak fairness of each call, since a thread runs on,
PostgreSQL grants a free lock to a waiter and detects deadlocks after `deadlock_timeout`. No
crash is fair, nor is anything a client decides. `EventBus`: weak fairness of a run under
way; none of *starting* one, because the beat schedule is empty, so that no property claims
that an event is ever picked up. `Client`: weak fairness of the clock, of each mutation and
of each run: timers fire and a promise is settled in the end, by the answer or by the
client's timeout of 30 s (`way_user/frontend/src/services/index.ts:15`; the `fetch` of the
queue has the browser's). The user owes no call and the network no online event. All other
modules have safety properties only and no fairness.

## 5. Proofs

| module | theorem | for which constants |
|---|---|---|
| `CreditsProofs` | `TypeCorrect`, `Locking` | all |
| | `Solvency` (no overdraft), `ReserveSound` | `NaturalAmounts` |
| | `FreezeIsImmediate`, `NoCallHangs` | all |
| | `LedgerAlwaysReplays`, `RowLocksImplementBook`, `Conservation` | `NoPatch`, `DistinctRoutes` |
| `PaymentsProofs` | `TypeCorrect`, `SettlementsAreDelivered`, `FraudIsFrozen`, `FreezesAreExplained`, `BackedDepositsAreBooked` | all |
| `ExecutionsProofs` | `TypeCorrect`, `UsageSound`, `HitsPaid`, `ChargedExactlyOnce`, `WalletsAddUp` | all |
| `ReadThroughProofs` | `CachesImplementRegister` | all |
| | `GuardedViewsAreExact` | `GuardsAreKept` |
| `ClientProofs` | `ClientTypes`, `RefusalsAreDue`, `QueueKeepsItsEntries`, `EntriesAcceptedOnce` | all |
| `PlatformProofs` | `SessionsEndCoherently`, `StatusComesFromRate`, `DownUntilPatched`, `RevertsAreTold`, `RatingFollowsReviews` | all |
| | `DeliveredAtLeastOnce`, `GivenUpForItsFailures` (event bus) | all |
| | `UnracedChainsVerify`, `RacesNeverPass` (audit trail) | all |
| `IdentityProofs` | `TypeCorrect`, `LockoutIsBacked`, `RevokedDevicesFadeOut`, `GrantsAreKept` | all |

"All" means all that satisfy the ASSUME of the module, which TLC evaluates in its runs, as it
does `GuardsAreKept` for the views and writes of `caches`. Every invariant, action property
and refinement that a passing run checks is stated by one of these theorems.

*Credits.* The properties are not inductive: that a commit may write `seen` needs that
`seen` still is the committed row. `LockInv` says so: a call past its SELECT FOR UPDATE
holds the lock of its rows, no other call writes them meanwhile except `SetFrozen` and the
PATCH, which wait for the lock, and the checks that passed still pass. `Locking` proves
`TypeOK /\ LockInv` inductive; `Solvency`, the ledger invariant (each ledger replays and its
tip is the wallet row) and the refinement each follow from it action by action: a commit is
one step of `CreditBook`, everything else a stutter. `Conservation` adds the sums: a mint or
burn changes one balance by its amount, a transfer two by opposite amounts, and everything
else none, so that `TotalBalance` moves with `issued` and `retired`. `NoCallHangs` is the
safety part of `EveryCallAnswered`. `HolderInv`: a locked row is one its holder takes and,
being under way, will give back; who holds the reserve is about to commit and waits for
nobody. A `Stuck` set of calls therefore consists of calls that wait for each other; those
that are waited for are transfers between their two wallets, finitely many because each
holds one; and in a smallest nonempty set of them in which everybody waits for a member,
everybody is waited for by a member (who is not could be left out), so that it consists of
cycles. The conditions are the code's weaknesses made explicit: a negative amount is a debit
nobody checks (`NaturalAmounts`: the transfer view validates it, the services do not); the
PATCH overwrites balances (`way_finance/serializers.py:13`: read-only fields are still saved
with the row); a transfer to oneself makes credits (`way_finance/services.py:174-176`),
since the second save overwrites the first.

*Payments.* `Base` has the types, what never changes of a payment, and which stages a
request of which kind can be in; each property adds an inductive part of its own.
`SettledInv` counts: the calls past their commit that have not been cut off are at most the
settlements, and these at most all that got past it. Fraud (`Handled`, `Covered`): a payment
that was rejected has its wallet frozen, or a request that will freeze it is between
`RejectFraud` and `FreezeWallet`. Freezes (`Marked`): while nothing is delivered twice or
edited, a call that is about to freeze has marked a payment that has all four signs, and the
mark stays. Status (`Stand`): a single delivery, the status and the book are at one of a few
stages together, of which expiry can reach only the ones that have not been completed; what
is completed is booked if the reserve backs it, and only then.

*Executions.* Types need `Funded`: a call that holds its wallet can pay from the balance it
read. `UsageSound` needs that every count that is or *may be saved*, in a call or in
`update_skill_stats`, is at most the number of rows that completed or failed after the count
(`Counted`), and that a running call is not among them; these only grow. `HitsPaid` needs
that, as long as nothing failed, every cached result has an execution that has paid or is
past its charge, which only a fault can undo. `AccountInv` is about money: what a call has
been charged follows from its stage and its row (`ChargeInv`); a call that holds its wallet
holds it alone and has read the balance the row still has (`HeldInv`), so that what it
writes at its commit is a decrease by its cost; and every wallet stays balanced, since one
summand of its sum changes by as much.

*EventBus.* A stale copy may bring the count of a row down, never up: no row and no copy of
any run holds more failures than the event has had, and a copy that says processed belongs
to an event that was handled.

*ReadThrough.* One predicate, `Sound(content, time)`, says that all versions in a content
were current at `time` or later. The invariant attaches a time to everything that holds
versions: an entry (when it expires, less its time to live and the lag that remains), what a
computation or thread has read (when it began, less the lag of the inner views), what a
writer holds. A tick ages them alike, because none under way spans two; an answer is then a
`Reply` of `StaleRegister`, a commit its `Commit`, a tick its `Tick`, the rest `Other`.
`GuardedViewsAreExact` needs more: whom nothing disturbs has read what is current, for no one
writes meanwhile (`Undisturbed`, `Alone`); between a delete and the commit after it nothing
quiet is stored (`Cleared`); and an entry that is not current has a writer that is about to
drop or set its key, or that died (`Exact`). Its condition, `GuardsAreKept`, is the discipline
the code has for the two guarded views of the run and for no other that is written there.

*Client.* `LimiterInv`: the counter, and what each sender has got of it, is at most the
streak of requests that passed within a window of each other. `Shape` says where entries and
snapshots come from, `Counted` that the retries an entry or snapshot holds are failures that
happened, `Settling` that an entry which was accepted, not overlapped and never cut off from
its removal is either in no queue or snapshot, which is what a failed try would need to bring
it back, or in the hands of the one run that is about to remove it (`Gone`, `InHand`).

*Platform.* One row invariant per component: what the row satisfies, every object read from
it satisfies too, so that it survives being saved back, in whole or in parts. For ratings, a
worker that overlapped no other holds the sum of the reviews there are. Each theorem is
about the specification of its component, for any workers, users and actions; `platform`
puts them side by side. The module also holds the proofs of the event bus and the audit
trail.

*Audit trail.* `AuditInv`: stamps differ and a sealed row holds the digest of its link; and
of a type whose calls have not overlapped, at most one call is in flight, no row was
abandoned, the call in flight links to the newest sealed row, and every sealed row to the
newest one before it (`RowsKept`, `FlightsKept` say what a step of another call leaves
alone). `InOrder` proves that a finite set of rows with different stamps has an order, which
`Chain` then is, and the links say that `verify_chain` accepts it. `RacesNeverPass` starts at
the other end: along a chain that verifies, the digest of the n-th row is its first n rows
(`VerifiedDigests`), so that each row has been linked to all the rows before it. A hash only
names sealed rows, and a call only links to what is in the table (`TraceInv`): a row that was
under way when another one was linked is therefore in no link of that one, nor can it have
that one in its own (`Strangers`), so that neither can come first.

*Identity.* `Requesting` has the types of a request and that one under way began in this
tick or the one before. `PasswordInv`: the count of the account, the counts that logins
hold, and the lock are backed by wrong passwords, PATCHes of the user included
(`LockBacked`); and while no login overlapped another or a PATCH, the count is the streak of
wrong answers and a PATCH under way holds what is in the row (`Unraced`). `TrustInv`: what
descends from a revoked device has a revoked token (`Fading`); the access tokens that a
refresh under way may still issue were asked for before the revocation, so that they expire
in time; the refresh token, as a Bearer, expires by itself. `GrantInv`: what no longer
stands is revoked in *every* row there is of it, and until two first grants have overlapped
what stands has one row that says so.

*Model-checked only.* Liveness: `EveryCallAnswered`, `EveryRequestEnds`, `EveryTurnCounts`
and `ThrottledIsSettled` need fairness, hence ENABLED, which is out of the prover's reach;
the first has its safety part in `NoCallHangs`. What the tables of `CachedViews` give to the
constants of `ReadThrough` is evaluated, not proved.

## 6. Not modelled

Components with status `not_modelled` in `PROJECT.json` carry their reason: billing reports,
storage, backup, telemetry and analytics are aggregations or thin wrappers without state that
two threads share; consumers fan messages out; screens and settings hold view state and
configuration. Within the modelled ones:
* `Wallet.reserved` is 0 throughout: no code writes it. `CreditReserve.total_reserve` is
  a constant: nothing increases it, and its counters are not compared with it
  (`way_finance/services.py:91-93` compares the single amount).
* The best-effort Redis publish of an event, and its row being inserted: `Credits` and
  `Executions` leave the insertion out; it can only fail with the database.
* PATCH of a payment changes `credits_amount` only (amount, provider and direction could be
  edited too); that of an execution and an event is left out.
* `Payments`: currencies, and the signature of a webhook; a wallet frozen by an administrator,
  unfrozen by a request or by a stale PATCH of the wallet. `FreezeIsExplained` and
  `FraudFreezes` are about the freezes of the webhook alone; `SetFrozen` and the PATCH are in
  `Credits`.
* In `Executions`: one skill and one provider; a request whose user has no wallet (it fails
  as "Payment error"); the row of `CacheMetadata`, locked only for statistics by calls that
  hold nothing another one waits for; `cleanup_stale_executions`, which looks for rows in
  status running, and that status is never visible, so that an execution whose worker died
  (`pc = "dead"`) stays queued.
* `Identity`: registration, change of password, the second factor, groups, `is_active`, the
  nonce of a wallet login, the generic PATCH of a permission, what an administrator saves in
  the admin pages, and the deletion of a user.
* `AuditChain`: the clocks of several workers, which may disagree and order rows differently;
  columns that no hash covers.
* `ReadThrough`: what of a row a view shows; the DELETE of a wallet, which is not in the table
  of writes; a write that fails before its commit and has
  deleted keys already, which is an eviction (`Evict`).
* `Client`: cached GETs, the refresh of a token after a 401 and the token store; that the
  queued URL lacks the client's base URL, so that a replay goes to another path.
* `Sessions`: a session whose status or exit code was edited by PATCH is not followed any
  further in the run. `Providers`: latency and the history of errors. `Reverts`: DELETE of
  an action. `Marketplace`: creation and installs, which are single writes.

**Met while modelling and not turned into a run.**
* Payments: nothing resumes the freeze when a worker dies between rejecting a payment and
  freezing its wallet, or the mint when it dies after saving "completed". `create_payment`
  computes `credits_amount` for deposits only (`way_finance/services.py:243`), so that a
  confirmed withdrawal is completed and burns nothing, while
  `docs/RAPPORT_ARCHITECTURE.md:72` has withdrawals burn credits. `payment_success` is
  published without the `user_id` its handler needs (`way_finance/services.py:280`), so that
  the event fails five times. An event that cannot be stored after the commit gives the
  provider an error for a payment that was credited. A negative deposit debits its wallet
  below zero, since `mint_credits` compares the amount with the reserve only.
* Executions: a cache hit is charged nothing (run `executions_fee`; the fee of
  `calculate_cost`, `way_skills/services.py:188-189`, the rule type of
  `way_skills/models.py:160` and `docs/RAPPORT_OPTIMISATIONS.md:105` expect a price). An
  execution that fails after `skill.save`, because the cache fails in the signal of the
  skill (`way_skills/signals.py:7-10`), is refunded but stays counted.
* Credits: two mints that overlap on the reserve lose one of its updates
  (`way_finance/services.py:104`), and `audit_reserve` (`way_finance/tasks.py:36-48`), which
  compares its counters with the sum of the balances, then reports a discrepancy that no
  wallet has.
* Audit: overlapping `log` calls of one type break its chain for good. `verify_chain()`
  without a type goes through rows of all types as if they were one chain, and rejects every
  log of two types (`way_infra/services.py:257`; the monitoring screen calls it so,
  `way_user/services/monitoring_service.py:77`). `AuditViewSet.verify`
  (`way_infra/views.py:56`) raises an AttributeError after it has verified the chain.
* Identity: two overlapping first grants without a target make two rows, and each later one
  raises MultipleObjectsReturned. A refresh token is accepted as a Bearer, and a revoked one
  as well until it expires (`way_identity/auth.py:40-73`), although the revocation of a
  device says "Revoke all tokens for this device" (`way_identity/views.py:192`). A PATCH of
  the user that overlaps wrong logins erases their count, or the lock. Tokens of a deleted
  device stay live; a PATCH of a device that was deleted meanwhile inserts it anew; a
  refreshed access token names no device, so that the device is not looked at any more; the
  count of wrong passwords stays at the limit when a lock expires, and the next wrong one
  locks again.
* Caches: `aggregate(total=…)["total__sum"]` raises a KeyError in the credits and monitoring
  screens (`way_user/services/credits_service.py:45-47`, `monitoring_service.py:59`), which
  therefore never fill their entries. Reading one notification, and
  `cleanup_stale_registry`, leave the cached count and status as they were until they
  expire.
* Rate limit: each request that passes starts the window again, so that a steady client well
  below the limit per minute is refused in the end; the counter is by address, because users
  are authenticated after the middleware has run; and overlapping requests pass the limit.
* Client: an entry queued while a run is under way, or before the page was loaded, waits for
  the next online event. An entry that the server has accepted is sent again when the page
  is reloaded, or the removal fails, before it is out of the queue. `retry: 1` makes an
  offline mutation queue its request twice.
* Platform: killing does not look at the status, so that the sandbox check kills a completed
  session, which keeps its exit code, as one that is started again keeps its end; a revert
  of what is gone is marked as a revert; a provider that is down is never measured again;
  reverting an old freeze a second time lifts a later one; reverting other kinds of actions
  marks them and does nothing; the review API leaves the rating as it was; no service calls
  `log_action`.

## 7. Plan

Done: the credit core, payments, event bus, audit trail, executions; the caches and their
register; identity; rate limit and offline queue; sessions, provider health, administrators'
actions, ratings; the proofs of §5.

Worth doing next, in this order:
1. That `execute_skill` implements an abstract book of paid executions, as `Credits` does
   `CreditBook`: `HeldInv` and `AccountInv` are what its proof would rest on.
2. The refresh of tokens by the front end composed with `Identity`: several requests that
   get a 401 at once, one refresh token, and the store that is shared by tabs.
3. Provider health as the environment of `Executions`: `online` refined by `Providers`.

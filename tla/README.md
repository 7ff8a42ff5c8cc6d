# Verification of better-new-api

better-new-api is a gateway in front of many model providers. It authenticates a
client's API token, reserves quota, forwards the request to a channel, settles the
real price, and runs background work on several nodes that share a database (and,
optionally, Redis). This directory holds TLA+ models of the parts whose correctness
depends on the order of concurrent steps and on failures, TLC configurations that
check them on small instances, and TLAPS proofs of their invariants for all
instances. `PROJECT.json` links every definition to the lines it models.

## Inventory

| component | state | operations | what is hard | what makes it correct |
|---|---|---|---|---|
| billing session (`service/billing_session.go`, `funding_source.go`, `billing.go`) | one session per request; four balances, restricted packages, the API token's quota | cascade, pre-consume, Reserve, Settle, Refund | requests of one user interleave between any two database operations; every operation may fail; asynchronous refund with retries | a request pays its price once, or nothing |
| system tasks (`model/system_task.go`, `service/system_task.go`) | tables `system_tasks`, `system_task_locks`; a loop and handlers per node | sweep, schedule, enqueue, claim, renew, finish, release | leases against clocks, crashes between statements, stale reads | one active task per type, run once, always recovered |
| quota reservation and caches (`model/quota_reserve.go`, `utils.go`, `token_cache.go`) | quota in Redis, in the database, in the batch store | reserve, delta, hydrate, flush | hydration races deltas that are not flushed; crash loses a batch | no deduction lost or counted twice |
| user authentication cache (`model/user_auth_cache.go`, `user_cache.go`, updates in `user.go`) | the user's row; in Redis the hash, a pending fence, a committed version floor | read, fill, bump, commit, publish, tombstone, refresh the group | a snapshot read before a ban is written after it; crash between commit and publication; keys that expire | a revoked state is never served again, a rolled-back change heals |
| subscriptions (`model/subscription.go`) | orders, subscriptions, pre-consume records | activate, expire, reset, pre-consume, refund | reset while reservations are open | used never above total, one record per request |
| user sessions (`model/user_session.go`, `service/auth_session.go`, `controller/auth_session.go`) | the row of `user_sessions` with current and previous refresh hash and two versions; its copy in Redis | create, validate, refresh, log out, revoke, carry over a security change, clean up | concurrent rotation, reuse, cache filled after a revocation, lost tombstones | a revoked session is never revived, an honest tab is no thief |
| web authentication client (`web/src/lib/auth-session.ts`, `auth-session-sync.ts`, `http-client.ts`, `stores/auth-store.ts`, `features/auth/api.ts`, `routes/__root.tsx`) | cookie jar, lock and channel of the browser; session, epoch and refresh of each tab | refresh, retry, sign in, sign out, tell the other tabs | late and lost answers, tabs that race, missed events | a signed-out tab stays out, tabs agree, no self-inflicted lockout |
| playground chat (`web/src/features/playground/hooks`) | generation, stream, round, buffered text, last message | send, stop, new chat; chunks, tool rounds, retries, flush timer | everything awaited comes back after a stop or a second send | no leaked stream, no foreign text, every generation ends |
| asynchronous tasks (`service/task_polling.go`, `task_billing.go`, `model/task.go`, `relay/relay_task.go`) | task rows with status and quota | submit, poll, time out, settle, refund, fetch | overlapping passes and the sweep race, writes of stale copies, crash before the refund | refunded once, by the winner of the status change |
| top-ups, redemption (`model/topup.go`, `redemption.go`) | orders, codes, packages | create, complete, redeem, expire | repeated and reordered callbacks | credited once |
| channel selection, relay retries (`service/channel_select.go`, `model/channel_cache.go`, `controller/relay.go`) | cached abilities, used channels | select, retry, disable | cache rebuilt while requests run | each channel tried at most as configured |
| BYOG hub (`service/byog/`) | connected workers, jobs | register, assign, lose | a worker lost during a job | a job ends once |
| rate limits (`common/limiter`, `middleware/`) | buckets, windows | allow | concurrent decrements | never above the limit |
| prices and billing expressions (`pkg/billingexpr`, `service/tiered_settle.go`, `text_quota.go`) | none | arithmetic | overflow, rounding | clamped, monotone |
| adapters, realtime relay, authorization rules, web, desktop, bots | none of interest here | conversion, I/O, presentation | - | - |

How they interact: a relay request calls the billing session before it is sent
(`PreConsumeBilling`), possibly while it is prepared (`Reserve`), and once at its end
(`SettleBilling`, or `Refund` from a deferred function). The session calls the quota
functions of `model/`, which keep caches. System tasks run the pollers, the log
cleanup and the channel tests; their nodes share only the database. A polling pass runs
under a system task's lease, and may outlive it. A user session is read by every request
of the web interface, together with the user's cached authentication state; the browser
holds its refresh token in a cookie that all tabs share.

## Modules

### BillingSession

Several requests of one user, all with one API token (the *key*), run concurrently.

- `bal`, `pkg`, `key`, `subUsed` are the shared rows: the three balances of `users`
  (wallet, requests, tokens), the remaining amount of the restricted packages that
  allow the model, `tokens.remain_quota`, and `amount_used` of the subscription.
- `sess[r]` is the `BillingSession` object with its `FundingSource`, plus `pc`, the
  place in the running method. Field names follow the Go struct.
- `paid[r]` and `keyPaid[r]` are history: what request `r` has booked so far. No guard
  reads them; they are what the properties compare with.

`Begin` and `Probe` are `NewBillingSession` and its `try...` functions.
`checkTrust` (the balance read of `shouldTrust`, whose failure only makes the session
untrusted), `preConsumeToken`, `preConsumeFunding`, `readCurr`, `fundCurr`, `rollbackToken` are
`preConsume`. `Reserve`, `reserveToken`, `rollbackFundingReserve` are `Reserve`.
`Settle`, `settleToken`, `settlePackage` are `Settle`. `Refund`, `refundFunding`,
`refundRecord`, `refundExtra`, `refundToken` are `Refund` and its goroutine. The
session's mutex makes the methods of one session exclusive, so a session has one `pc`;
steps of different sessions interleave freely. Every step that touches the database
may fail (`Fault`). An error that the code only logs sets `lossy`, and the accounting
properties do not speak of such a session: the code has given up on it.

Abstractions. `TryReserveUserQuota` and `TryReserveTokenQuota` are one atomic check and
deduction; the cache and the batch store behind them are a component of their own.
The two reads of a `try...` function are one step. The user has one subscription, whose
period does not end during the run, and all packages are restricted ones. Prices, messages, notifications and logs are left out.

### SystemTask

One task type (types share only the loop). `status`, `activeKey`, `lockedBy` are
columns of `system_tasks`; `locks` are the rows of `system_task_locks`. `pc`, `task`,
`seen` are the locals of each runner's loop, `handler` its dispatched goroutines,
`client` the API calls. One step is one database statement.

Time: a row has `expired` (its `locked_until` is over) and `before`, the runners whose
`now` variable, read earlier, is later than its `locked_until`. So a sweep or a claim
compares with the `now` it really has, and a lease written after that `now` was read
has not expired for it. `locked_until` counts from the moment the row is written. A
heartbeat that succeeds changes nothing (`lapse` simply does not happen). A restarted
node has a new runner id, so it is another member of `Runners`. `PromptClaims` says
that a claim takes less than the 60 s lease.

### UserAuthCache

One user. `db` is the row of `users`: `auth_version`, the group, and whether it is
live, soft-deleted or gone; `holder` is the transaction that has locked or written it.
`hash`, `fence`, `committed` are the three Redis keys `user:`, `auth:user:fence:` and
`auth:user:version:`. `pc`, `snap`, `cur`, `tries` are the locals of each call. Every
Redis command or script and every SQL statement is one step.

- Readers run `GetUserCache`: `GetUserCache` and `cacheGetUserBase` are the read of the
  hash and of the floors, then `GetUserById`, `checkFloor`, `populateUserCache`.
- A restrictive change runs `IncrementUserAuthVersionWithTx` (`lockUser`, `setFence`,
  `updateVersion`), the rest of its transaction (`commit` or `rollback`), and publishes
  as its kind does: `publish` re-reads the row (`BumpUserAuthVersion`), `update` writes
  what the transaction read back (`Update`, `Edit`), `delete` and `hardDelete` write a
  tombstone and drop the hash.
- A profile update keeps the version (`editProfile`, `saveProfile`, then the write). A
  group refresh follows a change by a subscription (`setGroup`) and runs
  `RefreshUserGroupCache` (`writeGroup`, `verifyGroup`).

An error of a Redis script leaves it executed or not: the reply may be what is lost.
`RowLock` is FALSE for SQLite, where `lockForUpdate` locks nothing. There is no clock.
`hash.before` says that the hash's TTL began before the fence's, and such a hash expires
first, because `userAuthFenceTTLSeconds` exceeds `userCacheTTLSeconds`. `late` records that
a fence has expired over a call that still relies on it; `published`, `since` and
`pubSince` record what was published and committed when a reader began. No guard reads
this history.

Abstractions. `auth_version` stands for the status, role and factors stored with it; the
group is apart, since it changes at one version too. Sessions, which a change revokes
after its publication, and the quota field of the hash belong to other components.

### TokenFamily and UserSession

`TokenFamily` is the abstract contract of a login session: numbered refresh tokens, one
of them current, each superseded once, nothing after the end. `UserSession` is one
session of the code: `row` (`user_sessions`), `authVersion` (the user's version) and
`published` (the Redis servers that know it), `cache` (the session's entry in each
Redis), and for each request `pc` and `call`, its locals. A step is one statement,
transaction or Redis script; time is a clock of seconds, and a request keeps comparing
with the time it read (`now`).

- validation: `CacheRead`, `RowRead`, `DenyWrite`, `Fill`, `Filled`, `Confirm`
  (`GetUserSessionCached`, `writeUserSessionCache`, `confirmUserSessionActiveSnapshot`),
  then `Check` (`ValidateLoginSession`);
- refresh: the same read, `UserCheck`, then `RotateRead` and `RotateCAS`
  (`RotateUserSessionRefresh`), which also finds reuse;
- revocation: `RevokeRead`, `DenyFence`, `RevokeRow`, `Tombstone` (`RevokeUserSession`);
- a security change that keeps the session: `Bump`, `Advance`; `Cleanup` deletes rows.

The next secret is derived from the presented one, so a token is its number (`gen`).
`UserSession` implements `TokenFamily` with `live <- row.status = "active"` and
`gen <- row.gen`. `issued`, `rotated`, `over`, `sealed` are history.

### BrowserAuth

The tabs of one browser and the server they talk to. `cookie` and `lock` are the
browser's; `store`, `job`, `api`, `out`, `login`, `inbox` are each tab's: the session in
memory, the refresh in flight, a request of the page, a logout, a login, the events not
yet received. `session` and `grace` are the server, with the verdicts of `UserSession`'s
`RotateUserSessionRefresh`. A token is its session and its age (current, previous,
older), since only these are told apart. A refresh waits for the lock (`StartRefresh`),
is handled (`HandleRefresh`), and its answer sets the cookie and is applied if the epoch
is the same (`RefreshAnswered`); it may be lost before or after it is handled
(`RefreshFails`). The rest follows the functions of the same names. `EndedElsewhere` is
another device ending the session. A refresh whose page has gone away is still handled
by the server (`HandleOrphan`).

### Playground

One conversation, with the refs of the two hooks as variables. A *try* is one request;
text is the set of the tries it came from, so that foreign text can be told. `Send`,
`Stop`, `NewChat`, `Unmount` are the user; `GotHeaders`, `Chunk`, `ToolCallDelta`,
`StreamComplete`, `StreamFails`, `StreamCloses`, `Response`, `FetchFails`, `ToolsDone`,
`FlushTimer` are what comes back. `StreamCloses` is the end that the code does not notice:
`getStreamReadyStateError` reports a closed connection only if its status is not 200, and
an `error` event of a closed source is ignored, so a response of status 200 that ends
without `[DONE]` calls neither `onComplete` nor `onError` (the sse.js library itself is not
in the repository; its events are taken from how the hook uses them). A callback is one step, since JavaScript does not interrupt it; where
React may run a state updater later, both orders are allowed.

### TaskPolling

`row` is the `tasks` table (status, quota) and `source` the billing source stored with a
task. `paid`, `key`, `used` are what that source, the key and the statistics have booked,
and `wallet` what the wallet was charged or given for a task that a pool of requests or
tokens has paid. `pass` are the polling passes with their copies of the rows, `fetch` the
fetches by clients, `up` the provider. A pass sweeps (`SweepTask`), lists, and for each
task asks the provider and writes by compare-and-set (`FetchTask`, `Write`), or fails it
in bulk (`BulkFail`) when its channel is gone or, with a fault, could not be read. The
winner of a write corrects the payment in four steps: `AdjustFunding`, `AdjustToken`,
and then `AdjustUsed` and `UpdateQuota`, in this order in a refund and in the other in a
recalculation. Each but the statistics may fail, and a crash may come between any two.
Passes overlap freely, because a pass that lost its lease looks at its context only
between tasks.

`Charges` is what a submission takes from its source: the price from a wallet or a
subscription, one from the requests pool, and from the tokens pool the price or what is
left. `taskAdjustFunding` corrects a subscription (`Known`) or else the wallet, whatever has
paid; `Booked` is the account it corrects.

The settlement of a submission is assumed to succeed here; its error is logged only, and
`BillingSession` is about it. The price is the one that was reserved: no adaptor overrides
`AdjustBillingOnSubmit`, and a retry in a group with another ratio is left out. The
statistics of user and channel, which are adjusted one after the other, are one account.
A wallet and a subscription behave alike; a refusal by a subscription counts as a fault.
An update that changes nothing and that MySQL therefore reports as no row is not
modelled.

### MC modules

Model values and the functions a `.cfg` cannot write.

## Runs

| run | instance | checks |
|---|---|---|
| `billing` | an ordinary and a playground request with forced pre-consumption, amounts 0 and 2, all sources, trust possible, one database error | `SettledExactly`, `FailedPaysNothing`, `NeverOverRefunded`, `NeverOverdrawn`, `PreConsumeNeverOverdraws`, `EveryRequestEnds` |
| `billing_sub_refund` | one request, one error | `SubscriptionRefundIdempotent` is violated |
| `systask` | two runners, one API client, two tasks, one crash, one error | `OneActive`, `RunsOnce`, `RunningRecoverable`, `TerminalStable`, `LeaseNotStolen`, `EveryTaskEnds` |
| `systask_stuck` | two runners, claims may outlast the lease | `EveryTaskEnds` is violated |
| `user_auth` | two readers, two changes of any kind, no row lock, one error and one crash; 6.6 million states | `FloorIsCommitted`, `NoStaleAfterPublish`, `NoStaleAfterCommit` |
| `user_auth_heals` | one change (update or deletion), one profile update, two group refreshes, two groups, one error | `GroupRepaired`, `AccessHeals` |
| `session` | a refresh, a second call that refreshes, logs out or changes security settings (perhaps with a foreign token), a validation on either of two Redis servers, one fault; 1.4 million states | `TypeOK`, `RevokedStaysOut`, `RevokedWithinTTL`, `TheftIsLate`, `FamilySpec` (the refinement of `TokenFamily`) |
| `browser` | two tabs, two sessions, one tab signs in, the other signs out and makes requests, one fault; 2.1 million states | `TypeOK`, `SignedOutStaysOut`, `NoFalseTheft`, `NoSelfLockout` |
| `browser_ends` | the same without requests and faults | `EndedLeavesTabs`, `TabsConverge` |
| `playground` | three generations, seven requests, both modes, one tool round, streams that may close silently | `TypeOK`, `NoLeakedStream`, `OwnText`, `NoEndlessSpinner`, `BusyUnlessQuiet`, `GenerationEnds` |
| `taskpoll` | one task of each kind in turn, paid from the wallet or the requests pool, two passes, one fetch, one crash, one error, costs at and above the price; 0.9 million states | `TypeOK`, `NeverRefundedTwice`, `OwedIsMarked`, `AccountsAgree`, `EndIsFinal`, `EveryTaskEnds` |
| `taskpoll_refund` | paid from wallet or subscription, without crash and error | `FailedIsRefunded` is violated |

Further configurations are kept for their counterexamples, one property each:
`BillingTokensEstimate` (`PreConsumedIsActual`), `BillingTrustedRefund`
(`RefundReturnsEverything`), `SystemTaskLiveLease` (`LiveLeaseNotExpired`),
`UserSessionPreserved` (`CurrentPreserved`), `BrowserLogout` (`LogoutEnds`),
`PlaygroundBusy` (`BusyWhileWorking`), `PlaygroundRound` (`RoundIsOfOneRequest`),
`TaskPollingPools` (`RefundReachesSource`). Two more pass: `MCSystemTaskLegacy`
(`OneRunning`, `RunningRecoverable`), and `MCTaskPollingSources`, the safety properties of
`taskpoll` for all four sources and costs below the price too, with symmetric passes (1.4
million states).

Bounds. Two requests are what it takes for one to spend what another has read; the
balances are chosen so that each source is accepted by one request and refused to the
next, and the trust limits so that a request may be on either side of them. One error
reaches every error path, each on its own; the proofs cover any number. For tasks, two
runners race and one may crash while the other recovers; the second task shows that
the first no longer blocks its type. The last state of the billing runs has every
request ended, and the last state of the cache runs every call, so these set
`CHECK_DEADLOCK FALSE`; the task runs check for deadlock. For the cache, one reader is the
delayed fill and the other the observer, and two changes race for one version; the
weaker instance, without the row lock, is the one that is run. `user_auth_heals` has no
crash: a call that ends by an error before or after the script has run leaves the same
state as one whose process dies there.

For the new modules: a token is reused by a
second call and observed by a third, on its own or on another Redis; the TTL, the grace
period and the life of the session are as short as they can be and still differ in
order, so that each ends before, between and after the steps of a call. Two tabs are
what it takes to race for one cookie, and two sessions to mix them up. Three
generations let something of the first come back during the third; seven requests are
enough for every tool round, retry and forced answer of them. Tasks share nothing but
the pass that handles them, so one task meets all the races, with two passes (the first
of which has lost its lease) and one fetch. The model tells two groups of sources apart,
those that a correction reaches and the pools, and `taskpoll` has one of each. The billing and task instances are small
because the proofs hold for every instance.

`MCSystemTaskLegacy` has no crashes and no errors: `ClaimSystemTask` takes a lock row over
and fails the task it belonged to in two statements, and a crash or an error in between
leaves that task running without a row. It needs two tasks of one type, so only rows
without an `active_key` meet it.

### Fairness

`BillingSession`: a method that is running takes its next step (weak fairness), and the
relay loop, which tries a bounded number of channels and then returns, ends by Settle or
Refund (strong fairness, since a Reserve may come between). `SystemTask`: the loop runs
on a ticker; the sweep happens every 30 s although single passes skip it (strong
fairness on the sweep); handlers return; a lease that nobody renews ends. A crashed
runner owes nothing: its steps are not enabled. `UserAuthCache`: a call that has begun is
scheduled until it returns, a call need not begin, and a key with a TTL expires.
`BrowserAuth`: requests are handled and answered, events arrive, access tokens expire, a
tab that is used goes on making requests (the administrator's heartbeat every 15 s, or
navigation), and the lock is granted in turn (strong fairness). `Playground`: headers,
streams, answers and tools end in some way, silently perhaps, and timers fire; the user
need not do anything. `TaskPolling`: the scheduler starts a pass while a task is unfinished, a pass
goes on, and time passes; `EveryTaskEnds` needs `TaskTimeoutMinutes` above 0, its default,
since 0 turns the sweep off. `UserSession` states no liveness and no fairness.

### What the violated properties show

The three runs:

- The subscription refund commits before its record is saved; the retry refunds twice.
- A claim that outlasts its lease leaves a task running for ever.
- A fetch by a client writes a failure into the task's row that nobody refunds.

The further configurations:

- `TokensFunding.PreConsume` may take another amount than the session counts
  (`service/funding_source.go:202`, against `service/billing_session.go:29`), so a settled
  request pays the difference as well.
- A trusted request on the requests source that fails keeps its request taken
  (`service/billing_session.go:147`, against line 91).
- A sweep may fail a task that another runner has taken over under a live lease
  (`model/system_task.go:366`, against `service/system_task.go:306`).
- A refresh that read the user before a security change and the session after it (or the
  reverse) revokes the session that the change was to preserve
  (`service/auth_session.go:233`, against the comment at line 162).
- A logout whose cookie belongs to another session, or to none, answers success and
  leaves the session in memory live on the server (`controller/auth_session.go:84`,
  against `docs/authentication.md:60`).
- A plain round of the playground that fails and is retried ends the busy state although
  the retry is running (`use-chat-handler.ts:728`), and a retry after a broken stream keeps
  the text of the failed model (line 328).
- A task that the requests or the tokens pool has paid is corrected on the wallet
  (`service/task_billing.go:95`, against line 176, "退还资金来源（钱包或订阅）", and the comment
  at `model/task.go:108`). When it fails, without any error, the wallet is credited its
  price and the pool gets nothing back. `AccountsAgree` says what becomes of both.

`SettledExactly` and `NeverOverRefunded` leave out sessions of the tokens source
whose estimate differs
(`Accountable`); all others are in. `NoEndlessSpinner` and `GenerationEnds` except a stream
that closed silently: the message then keeps streaming with nothing at work, and what
remains is that the chat is shown as busy, so that Stop is on offer and completes it.
`EndIsFinal` excepts the bulk update, which compares nothing: of a lost channel, or of one
that an error kept from being read. `NoSelfLockout` excepts a login that is answered while
another exchange is under way: a refusal of the old token then clears the new cookie
(`controller/auth_session.go:17`).

## Proofs

`BillingSession_proofs` proves, for any set of requests, amounts, priorities, limits and
number of errors, `TypeOK`, `SettledExactly`, `FailedPaysNothing`, `NeverOverRefunded`,
`NeverOverdrawn` and the action property `PreConsumeNeverOverdraws`. None is inductive:
what a request has paid at its end follows from what each method has already booked at
each of its points. `BooksBalance` says so, one conjunct per phase (opening, reserving, serving and topping up, settling, refunding,
ended), relating `paid` and `keyPaid` to `preConsumedQuota`, `tokenConsumed`,
`extraReserved` and `consumed`. A step changes one session; the lemma `StepPreserves`
reduces each action to that session, and one lemma per action does the arithmetic.

`SystemTask_proofs` proves, for any runners, clients, tasks, crashes and errors, and for
claims of any length, `TypeOK`, `OneActive`, `RunsOnce`, `TerminalStable` and
`LeaseNotStolen`. The invariant has four parts: the task table (a task that is not
running yet was never dispatched; rows of an earlier version never lack), the lock table
(one row, and a lease that has not expired is not over for any `now` read earlier), the
loops, and the rest. A further part, `Safe`, shows `RunningRecoverable` and `OneRunning`
under `Recovers`: claims take less than a lease (`PromptClaims`), and either no rows of an
earlier version exist or nothing crashes and fails; both are needed, as `SystemTaskStuck`
and the remark on `MCSystemTaskLegacy` show. `ClaimOf`: a runner that writes its claim has
the lock row, under a lease that is over for nobody, and its task is not running.
`ClockOf`: a row that is over for a runner is the one it met when it read its `now`, so
the task it claims is still pending, and after a sweep's mark the row's task is not
running. `DispatchOf`: a runner claims no task it has dispatched, and gives a lease back
only after the end. So whoever deletes or replaces a row leaves no running task behind.

`UserAuthCache_proofs` proves, for any readers, changes, updates, refreshes, groups,
errors and crashes, with and without the row lock, `TypeOK`, `FloorIsCommitted`,
`NoStaleAfterPublish`, `NoStaleAfterCommit` and `GroupRepaired`. The invariant has these parts. `Versions`:
the hash and what was published are at most the permanent floor, and that and every
snapshot at most the row. `Transactions`: a change about to commit holds the row, at the
version it read, so no version is committed twice. `Reads`: a reader past the database
read holds a row it read after it began. `Fences`, while `~late`: a floor covers the
version of the row, or nothing older is cached or in use; a floor covers the next version
of every open transaction; a hash below the fence expires before it. So a commit finds
its fence in place, and the fence goes only when nothing it refused is left.
`GroupRepaired` follows from `Watched`: while a refresh has left another group in the hash
than the row has, some call has failed, or is still to write the hash, or will find the
difference in its verification. Its proof needs a call to have one role, which
`ProcsAssumption` says.

`TaskPolling_proofs` proves, for any tasks, sources, passes, fetches, prices, errors and crashes,
`TypeOK`, `NeverRefundedTwice`, `OwedIsMarked`, `AccountsAgree` and the action property
`EndIsFinal`. The invariant adds two parts to the types. `Copied`: a pass or a fetch that
works on a task holds a copy of a row that exists. `Books`: before its end a task is
charged its price on every account and nobody corrects it; at its end at most one pass
does, the one whose compare-and-set won, and `Corrected` says how far it has come; the
quota on the row is the price or what is booked. `Apart`: the wallet is touched for a
pool's task only, and the pool itself never again. Errors and crashes only weaken
what is claimed of the task they hit (`Smooth`). The lemma `BookFrame` disposes of the
tasks that a step does not touch, and `GoOnKeeps` and `EndKeeps` reduce a correction to
its own task.

`UserSession_proofs` proves, for any requests, Redis servers, faults and ticks, `TypeOK`,
the action properties `RevokedStaysOut`, `RevokedWithinTTL` and `TheftIsLate`, and
`FamilySpec`: the session implements `TokenFamily`. The invariant says of a request
(`StageAt`) that past its read of the session it arrived before TTL after the end, and
that the deadline of a write is at most TTL after the end (after now, while the session
lives); of an entry of Redis (`EntryOK`) that an active one does not outlive that
deadline, and that where the tombstone was left an entry that denies covers all the time
in which a reader of the active row may still write; of the row (`RowOK`) that the window
of the previous token ends at least Grace after the arrival of the request that
superseded it. One lemma, `Stepping`, reduces a step to the request that takes it.

`BrowserAuth_proofs` proves, for any tabs, sessions, tokens and bounds, `TypeOK` and
`SignedOutStaysOut`, and, for a browser with `navigator.locks` (`Locks`, a hypothesis of
the two theorems: without the lock two tabs send the same token), `NoFalseTheft` and the
action property `NoSelfLockout`. `Existing` and `Unknown`: a session that anything in the
browser tells of has been created, and the one in a login's answer is known to nobody
else. `Left` and `Restores`: a session that a page has left is over, and no refresh that
still counts delivers it. `Young`: while nothing was lost, every token in use is the
current one, except in the cookie while an answer is on its way. `LoyalJar`: while nothing
was lost or crossed and nobody has signed out of the live session of the last login, the
cookie is its, and every refresh and logout is about it. The attempt to prove
`NoSelfLockout` showed that the history `unended` was too small: a tab that lost its
session to an event and repeats its logout asks for the cookie's session, and the server
may keep that session while the answer clears the cookie. Two sessions are too few to
reach it. `LogoutOf` now names the session that such a logout is about.

`Playground_proofs` proves, for any models, rounds and user actions, `TypeOK`,
`NoLeakedStream`, `OwnText`, `NoEndlessSpinner` and `BusyUnlessQuiet`. `Numbered`: a try
that was not made has no activity, and none is of a later generation. `OneLive`: one try
is live, and the stream controller or the abort controller is its. `OneStream`: the
controller's source is the one open stream, of the current generation. `Waiting`: text
waits for the flush of that stream only, so that a late timer has nothing of an abandoned
one. `Shown`: the message is of the generation that works, and waits for it, or for the
stream that closed silently, which is still the controller's source.

The proofs assume only the named `ASSUME`s of the modules, which TLC evaluates in every
run, and the hypotheses `Recovers` and `Locks` where stated. Each inductive invariant was
checked with TLC before it was proved. Only model-checked: the liveness properties, since
fairness and `ENABLED` are outside the prover's reach (`EveryRequestEnds`, the two
`EveryTaskEnds`, `AccessHeals`, `EndedLeavesTabs`, `TabsConverge`, `GenerationEnds`). Every
invariant and action property that a run checks is proved.

## Plan

1. `BillingSession` and its proofs: done. To come: an abstract ledger (a request is
   open, paid or free) that the session refines.
2. `SystemTask` and its proofs: done. To come: an abstract single-holder lease that it
   refines.
3. `UserAuthCache` and its proofs: done. To come: the other fields of the hash, and
   updates that write a complete user read earlier.
4. `QuotaReserve`: Redis, database and batch store; refines the atomic reservation that
   `BillingSession` uses.
5. `TaskPolling`: done, with proofs. To come: the Midjourney poller.
6. `UserSession` with its refinement of `TokenFamily`, `BrowserAuth`, `Playground`: done,
   with proofs. To come: revoking all sessions of a user.
7. `Subscription`: reset and expiry against open pre-consume records.
8. `TopUp`: callbacks repeated and reordered.
9. `ChannelSelect`, BYOG hub and rate limits, as far as TLC reaches.

## Not modelled

Adapters and format conversion, the realtime relay, authorization rules, the desktop
interface and the bots: data transformation, presentation or pure I/O, with no
state that survives a request. The web interface apart from its authentication client
and the playground: some 236,000 lines of TypeScript, nearly all of them components
(forms, tables, dialogs, editors, translations, generated routes) that show server state
and send one request per action. They have no concurrent protocol of their own; what
they share, the session, the refresh and the retry, is `BrowserAuth`. A model of the
rest would restate its rendering.

Within the modelled parts: `revokeUserSessions`, which re-reads the rows under a lock, and
the limit on sessions; `getFreshAuthHeaders`, `applyAuthRotation` and the answer
`AUTH_REFRESH_RACE` of the web client; a request that is retried under another session's
token after a sign-in in another tab (`http-client.ts:109`) is a step of `BrowserAuth`, but
no document says what it should do, and no property is stated. In `TaskPolling`: an
insert that fails after the charge is logged only (`controller/relay.go:869`); the limit of
the listing query, by which old tasks may starve newer ones (`model/task.go:315`). Prices and billing expressions: pure arithmetic, a price
is a member of `Quotas`. Violation fees (`ChargeViolationFeeIfNeeded`) and the billing of
requests without a session (`PostConsumeQuota`) are separate unconditional deductions.

# TLA+ verification of tweetly

tweetly lets people, an LLM agent and API clients act on X through a Postgres job
queue and browser automation. This directory holds TLA+ models of its concurrent core,
the TLC configurations that check them on small instances, and TLAPS proofs for all
instances. Paths below are relative to `src/`; `PROJECT.json` maps every definition to
the lines it models, lists the hazards of the code, and says which property covers each.

## The system

| component | state | operations | talks to |
|---|---|---|---|
| Action queue (`backend/src/action-engine`, `persistence/repositories/action-*`) | one table per action type, a row per action: status, attempts, `scheduled_at`, `locked_until`, `locked_by`; per process a set of dispatches in flight | enqueue, claimBatch, markRunning / Succeeded / Failed, cancel, replay, archive | breaker, session health, executors |
| Circuit breaker (`circuit-breaker.service.ts`, `control-state.repository.ts`) | `control_state` rows: paused, consecutiveFailures, pauseUntil | isPaused, recordSuccess, recordFailure, clear | read and written by every dispatch |
| Accounts and session health (`accounts`) | account status, cookies, auth failure counter | recordSessionSuccess / Failure, deleteAccount | dispatch, login worker, panel |
| Login jobs (`x-automation/login`) | `account_login_jobs`: status, lock, encrypted credentials; one job per process, its abort signal, its heartbeat | create, claimNext, extendLock, mark*, cancel, reset of stale rows | accounts, browser |
| Extractions (`extractions`) | jobs with cursor, row count, an output file | create, claimNext, updateProgress, mark*, cancel | cursor-paged reads of X |
| Cursor-paged reads (`x-automation/x-direct`) | the cursor a caller echoes, the scroll position of a call | paginate | browser, X |
| Monitoring (`monitoring`) | monitors, last seen tweet, an advisory lock that elects the poller | poll, deliver webhook; create, rotate, disable, delete | X, tenants' webhooks |
| Agent (`agent`, `content-memory`, `ai-copilot`) | configs, drafts, remembered texts, an advisory lock | scheduled tick, manual trigger, approve, edit, reject, publish | action queue, LLM |
| Auth, OAuth (`auth`, `oauth`) | magic links, API keys, codes in Redis or in the memory of a process | consume, authorize, exchange, revoke | REST, MCP |
| Settings (`settings`) | rows, a 60 s cache and a mail transporter per instance | get, set, updateSecrets, updateSettings | everywhere |
| MCP (`mcp`) | sessions in memory, their owner in Redis | route, create, close | all facades |
| X browser and executors (`x-automation`) | profile directories, contexts | launch, release, execute | X |
| Public / admin API, observability, persistence, config, frontend | none of their own that decides anything | | |

Components interact through Postgres rows only; there is no broker. Several backend
processes may run against one database, each with timers of its own, and inside one
process every `await` is a point where other dispatches and requests run.

**What is hard.** A dispatch is a chain of six to ten awaited statements, none in a
transaction with the next; rows are written by id, minutes after they were read;
claims have leases, but not every lease leads to a recovery; the breaker is a
read-modify-write over two statements; shutdown drains what is in flight *now*; X acts
on a request whose confirmation may never arrive.

**What makes each part correct.**

- *Queue*: one executor at a time per action; retries never undo an attempt or revive a
  finished action; X receives an action no more often than attempts are charged; nothing
  waits that no claim can select.
- *Breaker*: opens exactly after the threshold of consecutive failures, closes by itself,
  stops what it is meant to stop, and hears of every failure once.
- *Login jobs*: one login at a time per job, recovered when its worker dies; the password
  erased with the job; the outcome in the row is true; a cancellation is final.
- *Extractions*: one worker per job; a succeeded row tells the truth about its file; what
  X shows is copied in order, and not twice.
- *Monitoring*: one poller; a tweet is announced once; a live monitor catches up.
- *Agent*: a draft says what became of it; a text is posted once; the daily target holds.
- *Auth, OAuth*: a link or code buys one key; reconnecting never disconnects; the capped
  store refuses only when it must.
- *Settings*: no cache serves what was overwritten a minute ago; a process sees its own
  writes.
- *Browsers*: none outlives its user, and none the process.

## Modules

| module | models | proofs |
|---|---|---|
| `ActionQueue` | rows, `ClaimWorker` processes, `dispatch()`, operators, crashes, shutdown | `ActionEngineProofs` |
| `ActionLifecycle` | abstract: what one action may go through, whoever runs it | refined by `ActionQueue` |
| `CircuitBreaker` | the breaker's calls, statement by statement | `ActionEngineProofs` |
| `XAccounts` | the accounts, which the two share | |
| `ActionEngine` | extends both: composed, with session health, account deletion, administrators, logins | `ActionEngineProofs` |
| `LoginJobs` | login rows, `LoginWorker` processes, heartbeat, cancellation, recovery | `LoginJobsProofs` |
| `ReadPage` | `paginate()` over a surface that X reorders | |
| `ExtractionJobs` | extends it: rows, files, `ExtractionWorker` processes | `ExtractionJobsProofs` |
| `LeaderLock` | the advisory lock on pooled sessions, for both tasks below | |
| `MonitorPoller` | extends it: monitors, `poll()`, webhooks, users | |
| `AgentScheduler` | extends it: `tick()`, `processConfig()`, `triggerManually()` | |
| `BackgroundTasks` | both composed over one lock | `BackgroundTasksProofs` |
| `AgentDrafts` | requests on drafts, `publish()`, the content memory, the keys of posts | `AgentDraftsProofs` |
| `Credentials` | magic links, OAuth codes, API keys | `CredentialsProofs` |
| `SettingsCache` | rows, caches, mail transporters, the two writers | `SettingsCacheProofs` |
| `BrowserPool` | browser contexts from launch to release, shutdown | |
| `LoginFlow` | `login.run`, form by form, and `runWithRetries`; refines `LoginJobs` | |
| `Browsers` | the two side by side | `BrowsersProofs` |
| `MC*` | instances for TLC | |

One SQL statement or transaction is one atomic step. What a process does between two
awaits and is visible to nobody is part of the step before or after it. A lease or a
deadline is *none*, *held/future* or *expired/past*, and time may pass at any moment.
A definition whose comment calls it a mutant is a plausible mistake in the code; no
specification uses it, and `PROJECT.json` says which property notices it.

**ActionQueue.** `row[a]` is the row of an action (an action is its idempotency key, so
`Enqueue` of a present row is `ON CONFLICT DO NOTHING`). `disp[s]` is one `dispatch()`
call; its `phase` names the await it is in, and `attempts` is the copy that
`persistOutcome` computes from (`claim-worker.service.ts:139`). `proc[w]` is a process:
up, draining with the snapshot it waits for, or down. `tick()` starts dispatches without
awaiting them, so the slots of a process are many; the response of `claimBatch` is a
phase of its own (`tick`), because shutdown looks at `inflight` before it arrives.
Operators: `CancelAction`, `ReplayAction`, `ArchiveDead`, `CancelPendingByAccount`, with
the WHERE clauses of `action-admin.repository.ts`. The ghost `sends` counts what X has
received since the action was enqueued or replayed; `SendToX` is a step of the executor,
so a failure after it is the confirmation that timed out. The error class of a failure is
open: the classifier reads error texts. `rate_limit` and `transient` behave alike here
(their backoffs differ in length only). Whether the breaker says "paused" is open here
and fixed in `ActionEngine`.

**CircuitBreaker.** `recordFailure` = `LoadSnapshot`, then `UpsertFailure`;
`recordSuccess` and `clear` = `UpsertReset`, then `DeletePauseKeys`; `isPaused` is one
load. `AbortCalls` cuts calls short between statements. The ghost `seen` counts failures
as they commit.

**ActionEngine** conjoins steps: `AskBreaker` is `Gate` with the breaker's answer,
`ReportSuccess` / `ReportFailure` write the row and start a breaker call, `RecordSession`
waits for it and writes the session; `DeleteAccount` is one transaction over queue,
breaker and account; a crash cuts the breaker calls of its process. A dispatch that was
under way when the account was deleted goes on, as in the code.

**LoginJobs.** `proc[w].phase` is the await the worker is in; `run` is which of the three
`login.run` calls of `runWithRetries` it makes; `aborted` is its AbortController and
`awaited` whether `drainInflight` saw it. `QueryRejects` follows the two catches of
`tick()`: the first writes `markFailure 'unknown'`, the second swallows. The heartbeat
keeps a lock alive: `LockExpires` under a working process is a *stall* and is counted,
without a worker it just happens. What `findActiveCooldown` answers is left open, both at
creation and before a retry. `cancelForUser`'s SELECT decides nothing its conditional
UPDATE does not test again, so the two are one step.

**ReadPage, ExtractionJobs.** `call[r]` holds the local variables of `paginate()`; one
`Scroll` is one iteration of its loop, `EndRead` the answer, whose cursor the worker
echoes; `Collect` is the loop over the candidates of an iteration, `Skips` what it passes
over. What the page renders is external: `Window` items of `timeline` from the scroll
depth on, or the last ones. `TimelineChanges` moves an item to the top, drops one or puts a
new one there, between any two renders.
`proc[w].phase` is the await of the worker; `write` appends an item at a time, so a failure
leaves part of a page in the file, and the row is written page by page. Only one catch
takes a rejected await: the one of `process()` inside the loop, the one of `tick()`
otherwise; the latter writes 0 rows. `locked_until` is left out: `claimNext` tests it on
queued rows, which never have one.

**LeaderLock, MonitorPoller, AgentScheduler, BackgroundTasks.** `held[p][s]` counts how
often session `s` of process `p` has taken the lock; `TakeLock` and `GiveBack` run on *any*
session of the pool, since `dataSource.query` does. A session that is closed takes its
locks along. `poller[p]` keeps the row as `findEnabled` read it; `SaveExisting` writes the
entity a user's request read earlier, and inserts it anew when it is gone. Tweets are
numbered as they are posted; "new" means *another URL than the row had*, as in the code. A
cycle checks one monitor, because monitors share nothing; that loses the cycle's length
only. `findEnabled` that rejects is a `Crash`: `setInterval(() => this.poll())` leaves the
promise unhandled. In `AgentScheduler`, `run[p]` is `tick()` in a process and
`run["manual"]` a `triggerManually()`; the count of a run is fixed when it reads the day's
drafts and used when the LLM has answered. A deployment enables either task by an
environment variable; their lock keys differ, so `BackgroundTasks` runs one at a time.

**AgentDrafts.** `request[r]` carries the entity the request has read. `save()` is TypeORM's
(external): `Save` reads the row and keeps the `columns` in which the entity differs,
`Update` writes these, so that the columns of overlapping requests may mix, as an approval
and an edit do. `Load` and `Save` may see different rows. The ghost `fresh` holds the
requests whose draft is still as they read it, but for other approvals, and `torn` the
drafts that one which was not fresh has written. Similarity is equality of texts among the
`MaxRecent` youngest, hours are the buckets of the idempotency key, and `posts` is the set
of these keys; what becomes of a post is `ActionQueue`. `publish()` takes the same three
steps without a draft.

**Credentials.** Codes live in `store["redis"]` or in `store[p]`, decided once by `redis`.
`Token` takes the code out before it looks at it, as `consume` does; `ReplaceKey` and
`InsertKey` are two statements, the second under the unique index of active keys. A magic
link is one conditional UPDATE. The ghost `excused` holds the clients that lost their key
to a revocation or a fault.

**SettingsCache.** Time is told by ages up to `TTL`: an entry is as old as the call of
`get()` that made it, whose query may take long. `update[p]` goes name by name; `set()`
drops its name after each upsert, `updateSettings` the whole cache after the last. The mail
transporter of a process is the sequence of values it was made from. The ghost `raced`
holds what an overlapping read or a failed update has left stale.

**BrowserPool.** A context is *open*, *closing* (told to end) or *closed*; Chromium may die
or never end. `active` is the service's set, `user[u]` a caller between `launch()` and the
end of `release()`. patchright is external: a second `close()` of a context returns at
once, so `awaited`, what `onModuleDestroy` waits for, is what was active *and* open when it
looked; a user who comes to `release()` after it does not wait (`WorkEndsLate`), nor does it
wait for a close that a `release()` had begun. The ghosts name the two ways a browser is
given up: an inject or `newPage` that rejects inside `launch()`, and a close that outlasts
its timeout.

**LoginFlow.** `flow` is where the login is. A step that begins with `checkCancel` is first
not `probed`; what follows its probe is one action per outcome. `site` is X, which answers a
submitted form (`due` times, since `submitUsernameStep` may submit one form three times)
with any page, form or refusal, logs in whom it likes, or stays silent (the selector of the
username field also finds the field of a challenge, so that one is typed into like it, in
`UsernameField`); a session that an earlier login left in the profile is there from the
start. `errors` is the onboarding log, cut at the beginning of the username step, as
`lastSince` does. The ghosts of `seen` hold the refusals X has uttered since then, and what
it was given after the job was asked to stop. To `LoginJobs` all this is the phase *login*:
`Queue` maps a login to the row and the process it belongs to, and each step to
`LoginReturns`, `CancelForUser`, `Stop`, or to nothing.

**Browsers.** `XLoginService` and `XBrowserService` share no state, so `part` says which one
is looked at.

## Runs

| run | instance | shows |
|---|---|---|
| `ActionQueueSafety` | 1 action, 2 processes, 2 slots, 3 attempts, 2 faults, 1 stop, 2 replays; 0.9 M states | `SingleHolder`, `HolderAgreesWithRow`, `NothingHidesWaitingRow`, `SendsWithinAttempts`, `HistoryStands`, and the refinement `ImplementsLifecycle` |
| `BreakerConcurrent` | 3 calls, threshold 3, 5 failures, 1 abort, 1 deletion; 62 k | a pause stands for at least `Threshold` failures; a closed breaker at rest has no deadline left |
| `EngineSafety` | 2 actions, 2 slots, an administrator, 1 fault, 1 stop, 1 deletion; 1.12 M | the types of queue and breaker; every charged attempt reaches the breaker exactly once, unless cut short; an open breaker lets through one action each of the dispatches that were past `isPaused`, and no other |
| `EngineLiveness` | 2 actions, 1 slot, threshold 2, reauths; 0.21 M | every action settles, and with it every claim; the breaker is exact |
| `LoginQueue` | 1 job, 2 workers, 2 faults, 1 stall, 1 stop; 0.15 M | `SecretIffOpen`, `JobIsHeldByOne`, `LoginsBounded`, `OutcomeIsTrue`, `EveryJobEnds` |
| `Extractions` | 4 items and a new one, pages of 2, a window of 3, 1 change, 2 workers, 1 fault, 1 stop; 49 k | `FileIsFaithful`, `NoRepeatWithinCap`, `StableSurfaceIsCopied`, and that a job ends unless its worker was lost |
| `BackgroundTasks` | 2 processes with 2 sessions each, 1 monitor, 2 tweets, 2 troubles; target 2, batch 3, 1 trigger, 1 midnight; 0.6 M | `OneLeaderPerTask`, `DeliveriesAccounted`, `TargetIsKept`, `PolledTweetIsSeen` |
| `AgentDrafts` | 1 draft, 2 texts, 2 requests at once and 4 in all, 3 hours, 1 fault; 2.2 M | `DraftsTellTheTruth`, `PostsAreFew` |
| `Credentials` | 2 processes, 2 clients, 3 codes, 1 link, a cap of 1, 2 faults; 0.15 M | `ProofBuysOneKey`, `ConnectedStaysConnected`, `FullOnlyOfLiveCodes` |
| `SettingsCache` | 2 processes, 2 secrets, 1 setting, 1 reader, 2 updates, 1 reject; 2.5 M | `ServedIsRecent`, `OwnWritesShow` |
| `Browsers` | 2 users, 3 contexts, 2 faults, a shutdown; a login of up to 3 runs, 2 answers due, 1 request to stop, 1 reject; 0.50 M | `NoBrowserIsLeft`, `ShutdownLeavesNone`; `StopIsHeeded`, `ResultIsTrue`, `NoBrowserIsForgotten`, `EveryLoginEnds`, and the refinement `ImplementsQueueStep` |
| `ActionQueueCrash` | 1 action, 1 fault | *violated*: a crash leaves a row claimed or running for ever: `claimBatch` selects pending and failed only, so the lease is never used to recover |

**Bounds and why they suffice.** The hazards are races for *one* row, *one* breaker, *one*
job, *one* lock, *one* draft, *one* name; two contenders (three for the breaker, whose reset
and increment each take two statements) are what such a race takes, and one more row only
adds interleavings that do not touch. One action is enough in `ActionQueueSafety` because
rows interact only through free slots; where actions share an account's breaker there are
two, and in `EngineSafety` two slots: one dispatch opens the breaker while the other is past
`isPaused`, or before it. Three attempts reach first, middle and last; two replays repeat a
whole life after a reset. `Extractions` reads two pages of a surface that ends exactly where
the second does, through a window smaller than the surface, so that a call must scroll, a
second call find its place again, and a third one resume at the very end; a new item makes
it half a page more. `SeenCap` 3 is less than two pages, so that the cap matters, and the
window is no larger (see *Proofs*). In `BackgroundTasks` a target below the batch lets `min`
matter, two sessions are what an unlock can miss, a lock depth of 2 lets the lock pile up
once. `Credentials` has a cap of one code, so that the store is full at once. A `TTL` of one
tick distinguishes fresh from overdue, and a query may take longer. Three contexts let a
user come back. Two answers due let a form that was submitted twice be answered twice, the
second time in a later step; one reason is both text and response, so that either may tell
it and neither need; the numbers of runs, attempts and passes are the code's own. Faults:
one at any point, two where recovery itself can be interrupted. `MaxFailures` 9 in the
engine runs is never reached. Symmetry is declared only where no liveness is checked.
Deadlock checking is off where a bounded system really stops: all work done, faults used up.

**Fairness.** `EngineFairSpec`: weak fairness of every step of a dispatch (Node runs settled
promises, statements return; what waits in Playwright has a timeout, and the calls named
below that have none are assumed to settle here too), of `Restart` (a supervisor), of time
passing; strong fairness of claiming an action, because `claimBatch` takes rows in
`scheduled_at` order and a claim is disabled whenever slots are taken; weak fairness of each
breaker call and of pauses running out. `ActionsSettle` then needs no assumption that pauses
end: the breaker ends them. It is stated for one dispatch at a time and without faults; with
them it fails (`ActionQueueCrash` and below). `LoginJobs!FairSpec` and
`ExtractionJobs!FairSpec`: weak fairness of the work of a live process, its timer, its
restart, and, for logins, of unattended locks lapsing. `EveryJobEnds` holds of logins *with*
faults, because `claimNext` there selects lapsed rows; of extractions only without them.
`TasksFairSpec`: weak fairness of the awaits of a poll, of restarts and of the pool closing
idle sessions; strong fairness of a process taking the lock, whose timer asks for ever while
the lock is free only time and again, and on a session that may take it. `BrowsersFairSpec`:
weak fairness of the steps of a login taken together. Navigations, looks for a field, clicks
and presses in a field have a timeout of Playwright's; keyboard presses, `isVisible`,
`title`, `addInitScript`, `newPage`, `cookies`, the query of a probe and `context.close()`
in the `finally` have none, and are assumed to settle. `EveryLoginEnds` asks nothing of X.
No fairness for users, faults, stalls, X, or the owner of a handle.

## On record: where code and words part

`ActionQueueCrash` is the disagreement with a run and a finding of its own. These were
found with the same models, and TLC refutes the named definitions:

| definition | says | how the code breaks it | to see it |
|---|---|---|---|
| `ActionQueue!DrainLeavesNoClaim` | `polling-worker.base.ts:40-43`, "wait for in-flight work to settle" | a shutdown while `claimBatch` is in flight drains an empty set; the rows stay claimed | `ActionQueueCrash.cfg` with `MaxFaults = 0`, `MaxStops = 1`, INVARIANT |
| `CircuitBreaker!NoIncrementLost` | `control-state.repository.ts:96-99`, never reintroduce the pattern that "lost increments" | two `recordFailure` calls load the same counter (`circuit-breaker.service.ts:60`) | `BreakerConcurrent.cfg`, INVARIANT |
| `CircuitBreaker!PauseHasDeadline` | `control-state.repository.ts:74-77`, "either all-applied or all-rolled-back" | `recordSuccess`'s delete (`:56`) takes the deadline of a pause opened after its upsert: the account is paused until somebody clears it | `BreakerConcurrent.cfg`, INVARIANT |
| `ActionEngine!AccountPauseHolds` | `README.md:372`, an account is "auto-`paused`. Queued actions are held" | nothing in the engine reads `accounts.status`; once the breaker's hour is over, its actions run | `EngineSafety.cfg` with `AuthThreshold = 1`, PROPERTY |
| `AgentDrafts!ApprovedHasItsText` | `agent-draft.service.ts:157-159`, "Cannot edit draft with status" other than pending | `edit` reads the status, and `save` writes the text later: of an approval and an edit that overlap, the row keeps *approved* and the edit's text, while the other text is posted | `AgentDrafts.cfg`, INVARIANT |
| `BrowserPool!ReleaseIsSeenThrough` | `x-browser.service.ts:71-76`, keep a context in `active` so that the shutdown does not lose "visibility of a still-running close" | the `close()` of `:109` returns at once for a context that `release()` is closing (as patchright's client does), so the shutdown does not wait for it | `Browsers.cfg`, INVARIANT |
| `LoginFlow!ChallengeIsAnswered` | `x-login-flow.runner.ts:76-79`, after the username X may show an "unusual login" challenge, to be answered with the email | `didLeaveUsernameStep` (`login-page.utils.ts:164-172`) knows a password field and a captcha only; a challenge counts as a username that did not advance, and the login ends as `home_not_reached` | `Browsers.cfg`, INVARIANT |
| `LoginJobs!CancelledIsFinal` | `login-jobs.repository.ts:261`, "Terminal cancelled state" | `markSuccess` and `markFailure` are `WHERE id` only | `LoginQueue.cfg` with `Spec`, PROPERTY |

And without a property, from reading: `docs/12-queue-alarms.md:11` reads `failed` as "retry
exhausted" although `markFailed` writes `failed` for every retry and `dead` when none is
left. `action-state-machine.ts:4-12`, which nothing consults, allows transitions no UPDATE
makes and lacks some that UPDATEs make. `account-settings.handler.ts:9-10` speaks of "a single
batch so partial writes can't sneak through", but upserts key by key: when one rejects, the
former ones stay, and stay unseen in this process until their cache entries age (what
`raced` excuses). `x-browser.service.ts:71-76` keeps a context in `active` "until close
definitively settles", but the `finally` after the timeout deletes it: a close that hangs is
lost to the shutdown (`ghost.lost`). Likewise a context whose cookies could not be injected
was never in `active`. Other instances keep their mail transporter after `updateSecrets`
until they restart, which no source excludes.

## Proofs

TLAPS checks the following for every number of actions, processes, slots, attempts,
sessions, clients, users, faults, under the named ASSUMEs of the modules (bounds are natural
numbers, markers are not members, maps have their domains).

- **`ActionEngineProofs`, the queue.** `SingleHolder` is not inductive: a second claim is
  excluded only because the row of a holder is claimed or running, which holds only because no
  other dispatch writes it, which is `SingleHolder`. `IInv` conjoins the six safety invariants
  with `DispatchHasAction` and `SendBudget` (who has sent already; without it
  `SendsWithinAttempts` does not survive a retry). Each action of `Next` preserves each part
  (lemmas by kind of step); `HistoryStands` follows from `IInv` (`WrittenStands`, of
  `SuccessIsFinal` and `NoRollBack`). `LifecycleImplemented` is the refinement of
  `ActionLifecycle`: which of its states an action is in depends on the row and on the
  dispatch that holds it, and the rows one step touches are each shown to move or to stutter.
- **`ActionEngineProofs`, the engine.** `EngineIsQueue` and `EngineIsBreaker`: every step of
  the composed engine is a step of `ActionQueue` or leaves it alone, and likewise of
  `CircuitBreaker`; hence `EngineExclusion`, `EngineSends`, `EnginePauses` and, of a breaker
  whose calls come one at a time, `EngineExact`. `EngineBurst`: a dispatch about to send into
  an open breaker was past `isPaused` when it opened, and one that has sent after
  the breaker opened has to ask again, and is refused; the strengthening says which phases lie
  between. `EngineFailures` keeps a balance for each account (`FailuresHeard`): the failures
  recorded and under way are no more than the attempts charged, and as many unless a call was
  cut short; each step charges, counts, loses or leaves both sides alone.
- **`ActionEngineProofs`, the breaker.** Of the breaker by itself (`BreakerSpec`), whoever
  calls it. `PauseIsEarned`: increments are lost but never invented, for any number of
  concurrent and aborted calls; the strengthening is that no call carries a snapshot larger
  than what was recorded. `PauseKeysGo`: a deadline without a pause belongs to a call that has
  yet to delete it, or was cut short before it did. `ExactInSequence`: under `OneAtATime` and
  `NotDeleted` the counter is the streak, statement by statement. Run `EngineLiveness` has one
  slot and no administrator, and so satisfies both throughout.
- **`LoginJobsProofs`.** `Exclusion` and `SecretsErased`: a held, running row is not
  claimable, only its holder ends it, and only one process holds it, unless a heartbeat
  failed; the three facts are inductive together with "a process has a job exactly while it
  is not idle". `LoginsAreBounded` counts with the logins done those still to come of
  whoever has the job or may claim it; a fault, stall or stop buys one more claim.
  `OutcomeTold` needs that only a worker that has stored the cookies comes to `markSuccess`,
  and that nothing but a fault, stall or stop keeps it from there.
- **`ExtractionJobsProofs`.** Of a job in progress part is in a process's memory, so `IInv`
  says, for each await the process may be in, what row, file, total, page and cursor have to
  do with each other (`Fetching`, `Writing`, `Written`); only the one that claimed the job is at
  work on it, and a queued job has an empty file. `FilesAreFaithful` is then read off.
  `RepeatsAreFarApart` needs that the cursor's keys are the last of the file *with the page in
  memory*, and that a page has none of them and none twice. That the loop over a page keeps what
  each of its iterations keeps would be an induction; here there is no least iteration that
  does not (`LeastNumber`). `StableIsCopied`: while nothing changes, file, page and what the
  call has collected are the beginning of the surface, and the render that comes next starts no
  later than where they end and no more than a window before (`InPlace`). It assumes that the
  surface has no item twice and that `Window <= SeenCap`, and the second is needed: with a
  window of 4 and a cap of 3 TLC finds a file that has an item twice, since a call that comes
  back takes from the render what the cursor has forgotten. In the code the cap is 50
  (`SEEN_LIST_CAP`, `pagination.util.ts:27`) and the window is what X keeps in its DOM, so the
  theorem is about an X that renders no more than 50 items at a time.
- **`BackgroundTasksProofs`.** One session has the lock, and the processes that lead without
  it are no more than the locks lost: `LockInv`, hence `OneLeader`. `TargetHolds` rests on
  it: the drafts *plus* what the run that has the lock may still add stay within the
  target and the batches of triggers and lost locks already *spent* (`TargetInv`).
  `DeliveriesCounted` too: the deliveries of a tweet *plus* the one its monitor and the
  poller with the lock still owe, and those that pollers without it may add, stay within
  what was paid for, by monitors created, locks lost and tweets put back (`Accounted`);
  `LateInv` bounds what a monitor that is off still hears by who is busy with it.
- **`AgentDraftsProofs`.** That a row or an entity names only posts there are holds always
  (`AllTruthful`). More is true of a draft that is not torn (`AllSound`): a fresh edit finds
  at its UPDATE the row it has read, still pending, and what its SELECT found to differ is
  what differs (`EditSound`); a fresh approval finds the text it has posted and writes
  status and action together, unless another approval has done so (`ApproveSound`). A torn
  draft stays torn. A posted draft that nobody works on is approved because whoever posted
  it is still to say so (`Promised`). `FewPosts`: before a text is remembered, who has
  posted it is still to remember it or has failed; from then on, who is still to post it had
  looked before (`Few`).
- **`CredentialsProofs`.** A proof is in a store, in one request or in one key, never in
  two of them, which is what makes `ProofBuysOneKey` inductive; `ConnectedStaysConnected`
  needs that a request in *insert* stands for the key it has revoked. `OnlyLiveCodesRefuse`:
  a refusal follows a sweep in the same step, which leaves live codes only.
- **`SettingsCacheProofs`.** `CacheIsRecent`: the age of an entry is never less than the time
  since its value was the row's, and neither is a reader's, from the moment its query runs.
  `OwnWrites` (`OwnInv`): of a name this process was the last to write, what its cache, its
  transporter and its readers have is the row's, unless the update has yet to drop it or a
  reader has raced with it.
- **`BrowsersProofs`.** Every living browser is a user's, awaited, given up, or kept; once
  the service is closing, what is neither awaited nor closed was late or lost or is being
  released (`SomebodyCloses`), and a context that is closing has somebody who began it
  (`ClosesAreAwaited`). Of a login,
  `StopIsHeeded` is inductive only with *what was given late was given by the step that has
  just ended* (`LateIsLast`): from there on no form is reached but through a probe, and a
  probe stops the login unless its query is rejected. `ResultIsTrue` needs that every reason
  the login could still give has been shown (`ReasonsAreShown`: the page's, the log's),
  whoever shows what next. `QueueStepImplemented` is the refinement of steps, action by
  action; `EachIsAlone` carries all of it to the composition.

The type invariants `TypeOK` and `FlowTypeOK` of the modules above are proved as parts of
their inductive invariants, and so no run repeats them; `EngineTypeOK` is proved
(`EngineTyped`) and checked by a run. What is counted by a cardinality is assumed finite where
the code has finitely many (slots, workers, processes, requests).

Model-checked only: liveness (out of the prover's reach, as ENABLED is), which includes
`EveryLoginEnds`. Every invariant and every action property of a run has its theorem; the
five properties without one are temporal with fairness. No module with a theorem uses
RECURSIVE operators.

## Not modelled

- Most of the repository's lines: the frontend (no state of its own beyond what the API
  returns), the scripts and migrations (run once, by hand or at deployment), DTOs, entities,
  modules and controllers (declarations and validation), the facades and MCP tool handlers
  (each a call of an operation modelled here), text generation and scoring, the DOM code
  that drives X. They hold no concurrent state and make no decision that another step
  could find changed; that is why the map covers a small share of the implementation.
- Backoff lengths, jitter, scheduling order beyond fairness; payloads, URLs, error texts.
- Row locks inside one transaction, and the deadlock two upserts with opposite key order
  can run into (its effect, a call cut short, is `AbortCalls`).
- Changes of an agent's configuration (`AgentConfigService.update`): the daily target is
  constant in `AgentScheduler`.
- Uniqueness and isolation anomalies of Postgres itself; Redis, Chromium, the connection
  pool and X are external, modelled from how the code uses them.
- The login cooldown ladder (arithmetic over old rows; its answer is open), which error
  texts count as transient (open as well), cookies' contents, the probe of pasted cookies
  (`cookie-health-check.service.ts`, a single request with one retry, without state);
  accounts deleted under a login.
- The MCP session router, which only chooses an error message; rate limits and metrics.
- Profile directories, `clearStaleLocks` and the cleanup of old directories: two browsers on
  one profile are Chromium's, and what a removed directory does to one as well.

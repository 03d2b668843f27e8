# schwab_cli: models, checks and proofs

TLA+ models of `schwab_cli`, a command line client for the Schwab brokerage with a
daemon of its own (`schwab server run`). The program's interesting logic is concurrent:
the daemon owns the OAuth tokens, runs scheduled jobs in worker processes, keeps one
streaming connection for many readers, and places orders behind a policy; a second
process, the CLI, edits the same files. Paths below are relative to `src/schwab_cli/`
unless they start with `src/`.

## 1. Inventory

For each component: the state it keeps, its operations, what it talks to, what is hard
about it, and what it means for it to be correct.

### 1.1 Job scheduler core (`server/jobs/scheduler.py`, `runtime.py`, `schedule.py`)
- State, in memory: `_configs`, `_states` (per job `next_run_at`, `pid`, `started_at`, `last_status`),
  `_handles` (live worker processes), `_deadlines`, `_timed_out`, `_retries_left`; two events, `stop` and `wake`, and the
  flag `reload_requested`.
- Operations: `tick` = ingest reports, `reap`, `enforce_timeouts`, `fire_due`, save;
  `reload` (staged files into the running set); `next_wakeup`; the loop around them.
- Interactions: a signal handler sets the flag and the event; `renew` asks the token owner;
  workers are processes; the CLI edits the staged files and sends SIGHUP.
- Hard: workers exit between any two steps; runs that outlast their next occurrence; a reload that changes, disables or removes
  a job that is running; a SIGHUP that lands between `wait` and `clear`; an exception in the middle of a tick.
- Correct: never more than the cap alive; no occurrence run twice; none skipped while the job is idle;
  the per-worker maps describe the same workers; a timeout flag never marks a later run; an enabled job has a next
  run; retries are bounded; a requested reload is applied; an overdue worker ends; a due job with room starts.

### 1.2 The jobs daemon around it (`server/jobs/state.py`, `runner.py`, `config.py`, `commands/server.py`, `commands/jobs.py`)
- State on disk: `state.json` (run history, pids, next runs, last reload), staged and promoted job files, marker files
  of manual runs.
- Operations: start (`reconcile_orphans`), `promote`, `save_state`, `drain_reports`, shutdown (join, terminate children); the CLI's
  `run`, `reload`, `enable`, `disable`, `list`.
- Hard: crash between any two writes; a restart that finds a pid of an earlier life; the CLI judging from
  `updated_at` whether its reload was applied; a marker ingested after newer state.
- Correct: run history survives a reload and a crash; one worker per job also across restarts; a report is applied once and never over
  newer state; the CLI reports the reload it asked for.

### 1.3 Token owner (`server/token_manager.py`, `session.py`, `commands/auth.py`, `auth_flows.py`, `oauth.py`, `auth_delegate.py`)
- State: `session.json`; in the daemon the recovery and wake events, the single flight (`_xch_inflight`, `_xch_result`), the
  lapse latch, the manual block, the attempted checkpoints and the token they belong to.
- Operations: `access_step`, `force_exchange`, `refresh_step`, `_run_recovery`, `session.load` and `save`; the CLI's `auth`.
- Hard: two threads and another process write one file through one temporary name; followers of a flight that
  fails, raises or is overtaken; a verdict on one token applied to another; attempts counted for a token that was replaced.
- Correct: one flight at a time, ended also by a leader that raises; the refresh token's expiry is true in every
  copy; a forced exchange never returns something older; every checkpoint gets its attempt; a recovery ends with a login.

### 1.4 Schwab HTTP client (`api/client.py`, `service/auth.py`)
- State: the session in memory. Operations: `_request_with_retry` (at most 4 attempts; after a request may have been sent, only GETs are repeated),
  `_authed_request` (one refresh on a 401, then `SessionExpired`).
- Hard: retry of a request that was already executed. Correct: a POST is executed at most once per call.

### 1.5 Orders (`order_pipeline/`, `server/orders_write.py`, `order_ticket.py`, `audit.py`, `commands/order.py`)
- State: the pipeline's context, the idempotency store, the audit log, the daily counters.
- Operations: preview, policy evaluation, gates, override, confirmation, placing, replace, cancel.
- Hard: a retried request while the first is still placing; a client that times out; a failure after the order was sent.
- Correct: no order without every gate; a call places at most one order, and a retry of an answered one none; what the caller is told after
  an uncertain answer is true; the counters lose no record.

### 1.6 Order policy (`order_policy/`)
- State: the profile (rules) and the counters file. Operations: `evaluate` (deny rules, allow rules whose
  conditions fail, allow rules, the default), `record_place`; `record_override` and `record_replace` have no caller.
- Hard: rules that match together; counters read before and written after an order; the day's roll-over.
- Hard, too: sixty-six fields from seven sources, of which only those a profile needs are fetched; a field that cannot be evaluated; a template whose answers were left blank.
- Correct: no deny rule is overridden by an allow rule; daily caps hold for sequential orders; what was not fetched decides nothing; a policy does what its questions said.

### 1.7 Streaming (`mcp_server/subscription.py`, `streamer_bridge.py`, `api/streamer.py`, `server/stream_ws.py`)
- State: reference counts per symbol, bounded queues per reader, the one upstream connection, the linger timer.
- Hard: add and remove while connecting; reconnecting after a token rotation; a reader task that dies.
- Correct: upstream subscriptions equal the union of the readers' ones; counts never leak; idle connections close.

### 1.8 Dataset synchronisation and stores (`dataset/`, `storage/`, `screener/`)
- State: SQLite tables per dataset, `last_run.json`, the audit log. Operations: the daily run (token check, parallel
  children with timeouts, a retry of those that failed on auth), the updaters' windows, upserts.
- Hard: children that outlive their timeout, a token renewed while they run, a crash between upserts, windows at the edge of a day.
- Correct: every account day is fetched before it counts as fetched; re-running is idempotent; every child ends up with one status.

### 1.9 Caches (`api/transactions_cache.py`, `storage/transactions_history.py`)
- State: transactions and the watermark of what was fetched. Correct: a query answered from the cache equals the query answered by Schwab for
  days that cannot change any more.

### 1.10 Pure algorithms (`analytics/`, `order_ticket.py`, `output/orders.py`, `commands/strategy.py`)
- No state. Tier transitions, trading days, adjustments for splits; names of option positions, their extremes at expiry, and their tickets;
  what a typed ticket or the flags of an order stand for, the detection of closing legs, the panel's figures.
- Hard: three parts of the program write or read one ticket grammar, each with its own idea of the order of the strikes, the price's unit and the side; figures computed from the flags and not from the legs that are sent.
- Correct: a stated loss is never exceeded and a missing one is real; a printed ticket stands for the order it was printed for; an unlimited loss is always warned of.

### 1.11 Access from outside (`webauth/`, `server/rest.py`, `mcp_server/app.py`, `notify/`)
- State: the provider files and the key cache of the verifier, the poller's offset. Handlers call the components above.
- Hard: two gates (address, then token) over four surfaces whose rules differ; provider files that are broken, disabled or claim the same issuer.
- Correct: nobody without a token but the loopback interface; a token is vouched for by exactly one file; the control plane is never reached from another machine; a scope is granted by a token or a file.

### 1.12 Login (`auth_flows.py`, `auth_handlers.py`, `auth_callback_server.py`)
- State: the bound loopback port and its serving thread, the captured answer, the race's queue and event, the browser driver and its watchdog.
- Operations: bind, give out the URL, start the driver, race the callback against the prompt, terminate the driver, release the port.
- Hard: an answer that arrives at the deadline; redirects of another login on the same port; two threads that close one server; a watchdog that fires during the teardown.
- Correct: what the browser was told is what the login returns; every unattended login ends and leaves the port free; an answer belongs to the login that returns it.

### 1.13 Left aside
Rendering (`output/`), argument parsing (`cli.py`), floating-point analytics, backup, certificates, launchd files: pure I/O or
arithmetic without state.

## 2. Plan

| order | module | composes / abstracts | status |
|---|---|---|---|
| 1 | `JobScheduler` + `JobSchedulerProofs` | the scheduler's thread, SIGHUP, workers, clock | done, invariants proved |
| 2 | `TokenManager` + `TokenManagerProofs` | tracks, flights, file, CLI | done, safety proved; shutdown of the two tracks left |
| 3 | `JobsDaemon` + `JobsDaemonProofs` | crash, restart, `state.json`, markers, promotion of edited files | done, safety proved; two daemons at once left |
| 4 | `OrderPolicy` | the decision as operators, against what a profile promises | done, proved (`OrderPlacementProofs`) |
| 5 | `OrderPlacement` over `OrderRegister`, `OrderPlacementProofs` | pipeline, idempotency cache, the client's retries, rollback, counters, replace and cancel; implements an at-most-once register | done, invariants and refinement proved |
| 6 | `StreamerBridge` over `SubscriptionManager`, `StreamerBridgeProofs` | the one upstream connection and the tables that say who needs it | done, invariants proved; readers' queues left |
| 7 | `SyncScheduler` over `VolatilityUpdate`, `SyncSchedulerProofs` | the daily run and its children, timeouts, the auth retry; the run that samples volatility and its transactions | done, safety proved; the other groups of the dataset left |
| 8 | `TransactionCache` + `AccountProofs` | rows, coverage, and the processes that fill them | done, safety proved |
| 9 | `LoginRace` + `AccessProofs` | one authorization code: the callback server, the prompt, the browser driver, several logins on one port | done, proved |
| 10 | `WebAccess` + `AccessProofs` | who reaches which handler, and as whom | done, proved; the shared key cache as state left |
| 11 | `StrategyShapes` + `AccountProofs` | option positions: names, payoff and its extremes, tickets, warnings | done, proved |
| 12 | `OrderTicket` + `AccountProofs`, over `StrategyShapes` | from a ticket or flags to the order's legs, the panel and back | done, proved; stop orders left |
| 13 | `PolicyFields`, `ProfileTemplates` + `AccountProofs` | what the conditions of a policy read and what is fetched for them; the policies `profile new` writes | done, proved; operators on strings left |
| 14 | `TelegramPoll`, the screener's stores | small protocols | left |

Abstract specifications: an at-most-once order register (`OrderRegister`, implemented by `OrderPlacement`). Worth stating next: a job runner in which each occurrence is
started at most once, and a session register written by whole logins (which `TokenManager` does not implement, see section 14).

Theorems worth proving next: that `JobScheduler` and `StreamerBridge` implement registers of their own, as `OrderPlacement` does.

## 3. `JobScheduler`

### State and actions
| model | code |
|---|---|
| `configs`, `deadlines`, `timed_out`, `retries_left`, `next_run_at`, `started_at` | the dictionaries of `JobScheduler` and the fields of `JobState` |
| `handles` | `_handles`; the value is the worker process: live, or what its exit code means |
| `reload_event`, `wake`, `wakeup` | the two events of `_start_jobs`, and when the current wait ends |
| `pc`, `tnow`, `todo` | where the thread is, the `now` it read, the jobs `fire_due` has still to visit |
| `staged` | the job files a user edits; `Invalid` is a file that does not parse, `None` one that is gone |
| `Reap`, `EnforceTimeouts`, `TerminateRaises`, `FireDue`, `Spawn`, `SpawnFails`, `FireEnds` | one tick, split where other processes can step in |
| `Reload`, `ReloadRaises`, `NoReload`, `Sleep`, `WaitReturns`, `WakeClear` | `run_scheduler_loop` and the `_wait` of `_start_jobs` |
| `WorkerExits`, `TerminatedWorkerExits`, `EditStaged`, `Sighup`, `Advance` | worker, user, signal handler, clock |

The operators `Status`, `AuthRetry`, `OutcomeNextRun`, `OutcomeRetriesLeft` are `_handle_outcome`; `ReloadedConfig` and `ReloadedNextRun`
are `promote` and `_reload_one`. Cron arithmetic (croniter) is the constant table `CronFires`, assumed only to give a later time. The fixed
order of the configs is any order. Ingestion of marker files and saving touch the disk only, and belong to `JobsDaemon`.
`lastStart`, `anchor`, `retrying`, `streak` and `lost` are history variables: what was started last, since when the job has been waiting, whether a retry is
pending, how many retries in a row, whether the reload that took the last SIGHUP raised.

### Runs
| run | bounds | shows |
|---|---|---|
| `sched_safety` | two jobs, one slot, three configs, one edit, four time units | agreement of the four per-worker maps, no double run and none skipped, fresh timeout flags |
| `sched_live` | one job, two configs, one edit, four units | no interleaving loses a signalled reload (one that raises is lost, section 14), an overdue worker ends although `terminate` may raise, a due job with room starts |

Two jobs are enough for competition for the slot and for one job's exception to disturb the other; one slot makes the cap bind. Periods 2 and 3
with timeouts 1 to 3 let a run be shorter or longer than its period; the three configs differ in schedule, timeout, retries and `enabled`, and an edit can also break or
remove the file. Four units hold an occurrence, its run, a retry and a reload between them. `SYMMETRY` is used for safety only. The theorems below remove the bounds.

### Fairness
The scheduler's thread runs (weak fairness of its step), the clock advances, and a worker that was sent SIGTERM ends. The last is an assumption about the workers:
nothing in the code sends SIGKILL. A worker that was not signalled may run for ever, users may never edit. At `MaxTime` the clock stops and
waits return, because only the model's clock stops there.

### Proofs (`JobSchedulerProofs`)
For all sets of jobs, configs, crons, caps and bounds: `TypeCorrect`, `CapHolds`, `BookkeepingHolds`, `TimeoutsAreFresh`, `OccurrenceRunsOnce`, `OccurrenceNotSkipped`,
`StaysScheduled`, `FiresOnlyDue`, `RetriesBounded`. The invariants are not inductive alone. `OccurrenceRunsOnce` needs to know, while a worker runs, that
`started_at` is the time of its last start (reaping reschedules from it), that this is not in the future, and that what `fire_due` has collected is idle and due;
`OccurrenceNotSkipped` needs in addition that the anchor of a job is its last start or its last rescheduling, and that a pending
retry is never earlier than the run that failed. Their conjunction is the inductive invariant `IInv`; there is one step per action, and
`IInv => ` each property. Assumptions: those of the module on its constants (`CronFires` gives a later time, the first after its argument).
Liveness is model-checked only.

## 4. `TokenManager`

### State and actions
| model | code |
|---|---|
| `session`, `tmp`, `fd` | `session.json`, `session.json.tmp`, and which file a writer's open descriptor now is |
| `inflight`, `xch_result` | `_xch_inflight` (who leads) and `_xch_result` |
| `recovery`, `refresh_wake` | the two `threading.Event`s |
| `lapse_notified`, `manual_block`, `critical_for`, `cp_attempted`, `cp_token_key` | the latches of the same names |
| `pc`, `s`, `fresh`, `out`, `tnow` | each thread's position and the locals it carries over a step |
| `minted`, `born`, `revoked` | Schwab: the refresh tokens issued, when, and those killed |
| `Load` ... `Report`, `AccessTransient` | `access_step` and `force_exchange` |
| `Enter`, `Publish`, `FollowerWoken`, `FollowerTimesOut` | `_exchange_single_flight`, one action per hold of `_xch_lock` |
| `SaveOpen`, `SaveWrite`, `SaveReplace`, `SaveLosesFile`, `SaveRaises` | `session.save`, one action per system call |
| `RefreshStep`, `RecoveryStarts`, `ManualBlock`, `FullAuth`, `FullAuthFails`, `BackoffEnds`, `Settle` ... | `refresh_loop`, `refresh_step`, `_run_recovery`, `_after_full_auth_success` |
| `CliStarts`, `CliFallsThrough`, `CliGivesUp` | `schwab auth` in another process |

An access token is represented by its expiry, refresh tokens by the order in which Schwab issued them. `Torn` stands for every content that `session.load` rejects (an
empty or half-written file). The backoff is any delay up to a cap, so every jitter and attempt count is covered. `tried` is a history variable: which
checkpoints were attempted for which token.

### Runs
| run | bounds | shows |
|---|---|---|
| `token_flights` | access track and one caller, no unattended login, one refresh token that may be revoked, two units | `SingleFlight`; `ForcedNotOlder` |
| `token_live` | both tracks, three refresh tokens, one unit | `RecoveryEnds`, `AccessRenewed`, although saves raise |
| `token_checkpoints` | both tracks (the access token outlives the run) and one run of the CLI, lifetime 3 with one checkpoint, two units | `ExpiryTruthful`, `CheckpointAttempted` |

Two exchangers make a leader and a follower, and the same two take turns for the overlap of a late follower with a later flight. Lifetimes of 2 with a
start on a used-up token make exchanges happen at once; two units let one token lapse. Three writers of the file at once (both tracks and the CLI, all saving)
were explored as well while the model was written; the state space is too large for a run of this project, and the theorems below hold for any number of writers.
`ForcedNotOlder` is claimed as long as no other process has written the file.

### Fairness
Tracks, callers that are in a call, and a save the CLI has begun keep running; the clock advances. Schwab does not answer with transient failures for ever, and the
unattended login, attempted again and again, succeeds at some time (strong fairness of the verdict and of `FullAuth`): the retry loops promise nothing otherwise. That a login ends at all is part of this assumption; a client that connects to the
callback server and says nothing breaks it (section 10, and `EndsBehindSilence` in section 14). Nothing is assumed
of users. A track that died (`TracksSurvive`, section 14) or the bound on issued tokens (`Stuck`) ends the obligation.

### Proofs (`TokenManagerProofs`)
For every set of callers, all lifetimes, pacing constants and bounds: `TypeCorrect`, `FlightsAreSingle` (`SingleFlight`), `ExpiryIsTruthful`
(`ExpiryTruthful`) and `ForcedIsNotOlder`. The inductive invariant `IInv` has three parts for the first three. `TInv` adds to the types what the code relies on when it reads a local: a call past its load
holds a session, a save holds the session it writes, a published success holds a session, a failed renewal outside a recovery knows the session it was for
(`LocalsPresent`). Without it an expiry or a nap need not be a number. `SingleFlight` is inductive on top of it: only `Enter` and `Publish` move an exchanger into or
out of the flight. `CopiesTruthful` extends `ExpiryTruthful` to every place a session can be copied from: the two files, the locals
and the published result. A save step only moves copies (`CopiesMoved`), a refresh grant keeps token and expiry, and a full auth numbers its
token anew, so that no older copy can speak of it. Interleaved saves may tear the file or bring back an older login (section 14), but they never forge an expiry.

`ForcedIsNotOlder` (`ForcedNotOlder`) needs two more parts. `Young`: no copy of a session, anywhere, has an access token that would outlive one issued now. That needs an assumption on the start: the token the daemon starts on was
issued by then (`StartExps` up to `AccessLife`, in `ConstantsAssumption`). `CliCounted`: until the CLI is run, the leader of a flight holds the youngest session of its login from the exchange to the publication (`LeaderNewest`); so
what it publishes is no older than the session of anybody who waits (`WokenNewest`), however late the waiter takes it and however many flights have followed. `SingleFlight` is what keeps the leader's session the youngest: nobody
else exchanges meanwhile, and a login of the refresh track is another login. The CLI exchanges on its own: that is why nothing is claimed once it runs. The run has no login of the daemon; the theorem allows any number.
The liveness properties are model-checked only.

## 5. `OrderPolicy`, `OrderPlacement`, `OrderRegister`

### State and actions
| model | code |
|---|---|
| `Phase`, `Approved`, `Satisfied`, `Holds`, `Predicate` | `decision.evaluate` and the walk of `conditions.py` |
| `profile`, `counters`, `lock` | the profile file, `order_counters.json` (its date and daily total), who is inside `_locked` |
| `idem` | `_IdempotencyCache._store`, in the daemon's memory |
| `call[c]` | the locals of one invocation: its place in the rule pipeline, what it loaded, its retries, its rollback, its answer |
| `wire`, `book` | a POST, PUT or DELETE on its way, and Schwab's orders by the call that sent them; `of` is the call whose order it is or replaces |
| `StartRest`, `StartCli` | `_place_sync` up to the gateway; `run_place` up to the pipeline |
| `StartAmend`, `StartRestCancel` | `run_replace` and `run_cancel` up to the prompt; `_cancel_sync` |
| `LoadProfile`, `Judge`, `Confirm` | the rules: profile; preview, evaluation, dry run and the two gates; override ceremony and prompt |
| `ConnectFails`, `Send`, `Answered`, `Unauthorized`, `Refused`, `Uncertain` | `_request_with_retry`, `_authed_request`, `place_order`, the cases of `_safe_place` |
| `Verify`, `CancelMatch`, `RollbackEnds` | the rest of `_safe_place` |
| `LockAndLoad`, `Save`, `CountFails`, `Reply` | `record_place` and the answer |
| `Accept`, `Fill`, `Withdraw`, `EditProfile`, `Restart`, `KillCli`, `Tick` | Schwab, the user, process deaths, the clock |

Two fields stand for all: `daily_order_count` comes from a file other calls write, `bp_required` from a preview that may be missing. An order is its
shape, that is what `_orders_match` compares. One account, one profile name. GETs are not retried in the model: they answer or fail. `Verify` may
leave out any match of another call, which covers the listing's five-minute window. Validation, account resolution and the panel change no state.
`recorded`, `answered` and `hist` are history variables: records made, successes given, and for each call what the profile file held since it started and
whether it was permitted at some moment since.

`order replace` changes the price of an order and goes around the pipeline (`commands/order.py:1796` "V1: price-only override"): no profile, no preview, no counting. What
it enters keeps the permission of what it replaces. When the answer of a PUT or DELETE is lost the call reports an error and looks no
further; nothing is said of such a report. The request may still reach Schwab after its caller gave up or was killed: the order it is about
stays in the call's `targets`. Schwab is assumed to replace in one step, and only an order that is working.

### Runs
| run | bounds | shows |
|---|---|---|
| `order_placement` | a REST request and a second one or a command line in any mode, which may also replace or cancel an order, one key, one shape, two profiles; two connects, one midnight, one edit, restart or kill | `TypeOK`, `PolicyHeld`, `RetryReplayed`, `CountsAllRecords`, `RollbackReportTrue`; `AtMostOneOrder` (it implements `OrderRegister`); `CallsEnd` |
| `key_places_once` | the same two calls, no clock, no events | the disagreement of section 14 |

Two calls of one shape and one key are what the cache, the rollback, the lock and the daily limit can confuse. Two connects instead of four distinguish a first
failure from the last. One profile limits orders by the counter, the other denies by a negated condition and depends on the preview. One midnight separates two dates of
the counters file and is also the cache's time to live. One event suffices to restart the daemon between a success and its retry, to kill a process that
holds the lock, or to change the profile between its two reads.

`PolicyHeld` says what the code can keep, no more: the profile and the counters are read once, and the order leaves later. It demands a
moment since the call began at which a profile then in the file permitted the order under the orders *recorded* that day. Concurrent calls may exceed a
daily limit. `RetryReplayed` is claimed for a retry that starts after the original was answered; for one that starts earlier the run `key_places_once` shows the
opposite. `RollbackReportTrue` excepts an order the broker takes after the listing: nothing the program reads could show it.

### Fairness
Each call keeps running (weak fairness of its own steps): requests time out after 30 seconds, the lock is held for one read and one write, retries are counted, and an error ends a
step as well as a success. Prompts are left out: a user may never answer. Nothing is assumed of Schwab: `Accept` is unfair.

### Proofs (`OrderPlacementProofs`)
`DecisionIsPermits`: for every profile, order and environment the four phases, run in order, approve exactly what `Permits` says. `PolicyHeld` rests on it: the model judges
with the phases, the history with `Permits`. `LostSourceOnlyRejects`: losing data sources never turns a rejection into an approval if allow policies have no `not` and
deny policies only negated predicates. The hypotheses cannot be dropped: see section 14 on `not`.

For any finite set of calls, any keys, shapes, profiles and bounds: `PlacementTyped`, `PolicyKept` (`PolicyHeld`), `RetriesReplayed` (`RetryReplayed`), `RecordsCounted`
(`CountsAllRecords`) and `RollbackTold` (`RollbackReportTrue`). The inductive invariant `IInv` has, beside types, one part per argument, all of them needed together:

- `OneOrder`: a request is on its way only while no order of its call is in the book, and nothing is on its way while the call still judges, asks or connects. Hence one order per
  call, although a POST may be sent twice and taken long after the call has ended;
- `Judged` and `Covered`: while a call decides, what it holds of the profile file is something the file held since it began, and every chance there was is in its history; past the gates, on the wire and in the book
  there is only what had such a chance or was overridden. `DecisionIsPermits` turns the verdict of the phases into that chance;
- `NoRetry` and `CacheInv`: the idempotency cache names orders in the book under their key, and has an entry at least as young for each success of the day given by this daemon;
- `Counted` and `CountersInv`: whoever holds the lock has read what the file still holds, and the file's date is never in the future, so that adding one keeps the file equal to the number of records of its day,
  also over midnight;
- `RolledBack`: what works of a call's own during its rollback is yet to be cancelled, or its cancel has failed, or it was taken after the listing.

A step of one call leaves the parts of the others alone; lemmas for the kinds of steps (`QuietStep`, `EndStep`, `RequestStep`, `CountStep`, `MarksStep`, `KillStep`, `WorldStep`) say so once, and each action is one of these kinds.

`PlacementIsRegister` is the refinement: `Spec => AtMostOneOrder`, with `Fate` and the answers as the register's state. Under `IInv` each step of `OrderPlacement` is `Enter`, `Replace`, `Close`, `Succeed` or `Refuse` of
`OrderRegister`, or changes none of its variables. Assumptions: those on the constants; that `None` differs from the calls, the cache entries and the notes (`CallsAssumption`) says no more than
that Python's None is none of them.

## 6. `JobsDaemon`

### State and actions
| model | code |
|---|---|
| `staged`, `current`, `stateFile`, `markers`, `pidfile` | `jobs/<id>.json`, `jobs/.current/<id>.json`, `jobs/.current/state.json`, the marker files, `server.pid` |
| `configs`, `memory` | `JobScheduler._configs` and `_states` of the living daemon |
| `pc`, `todo`, `target`, `taken`, `invalid` | where `_start_jobs` or the loop is, and its locals |
| `main`, `stopping`, `hup`, `doomed` | the main thread, its two events, and what `terminate_children` has signalled |
| `worker[i][j]` | the process that the i-th daemon spawned for job `j` |
| `Start`, `SaveOrphans`, `SaveStart`, `WritePidfile` | `_start_jobs` with `reconcile_orphans` |
| `Unload`, `Reject`, `Keep`, `BeginCopy`, `Copy`, `CopyRaises`, `UnlinkState`, `Load` | `promote` id by id with `_promote_one` and `_atomic_write`, then `load_jobs` and `reload` |
| `LoopTop` ... `WaitEnds` | one turn of `run_scheduler_loop`, split at its file operations |
| `Sigterm`, `Join`, `Terminate`, `StopEnds` | `_handle_signal`, `_stop_jobs`, `terminate_children` |
| `StopRaises`, `TickAbandoned` | `killpg` raises: for a worker that has exited and is not reaped, or that a thread which was not joined reaps under the loop |
| `Crash`, `WorkerExits`, `ManualRun`, `Edit`, `Sighup` | a kill, workers, `schwab jobs run`, the user or `enable`/`disable`, `jobs reload`. `ManualRun` may rewrite a marker at any moment, also between its read and its unlink |

`JobScheduler` is the scheduling inside one life of the daemon; here any subset of the idle, enabled jobs may be due in a tick, so every schedule,
cap and retry is covered. A run's outcome is "ran", "manual" or "interrupted". `saved` (jobs a state file has shown a run of), `ended` (how the last daemon
went) and `owed` (whether a job's last manual run is recorded, pending, or was overtaken by the unlink of the marker before it) are history variables.

### Run `jobs_daemon`
One job, an enabled and a disabled version of its file, a file that does not parse; two starts of the daemon, one edit. Two starts let a worker and a state file
outlive their daemon and meet the next; the properties speak of one job at a time, and jobs interact only through the loop's order, which is free. Types;
`NoPhantomRunning`; `JoinedStopClean`; `HistorySurvives`; `LastGoodKept`; and, under fairness, `ManualRunsRecorded`: the last manual run is in the
job's state while the daemon serves, unless its marker was written between the read and the unlink of an older one. The exception is real, and so is that of
`JoinedStopClean` for a stop in which a signal raises: without them the properties are refuted (`EveryManualRunRecorded`, `StopAlwaysClean`, section 14). The run may stop (`CHECK_DEADLOCK FALSE`): a daemon
that went down for the last time is not started again.

Fairness: the thread's steps (weak). Its file operations and signals return; signals, users and workers owe nothing.

### Proofs (`JobsDaemonProofs`)
For any jobs, contents, numbers of starts and edits: `DaemonTyped`, `NoPhantoms` (`NoPhantomRunning`), `StopsClean` (`JoinedStopClean`), `HistoryIsKept` (`HistorySurvives`) and the action property
`BadEditsAreHarmless` (`LastGoodKept`). The inductive invariant `IInv` has four parts beside the types. `Control` says where the process and its threads are together, and that a start that has not come has no worker (`StartIsFresh`: hence
the new daemon takes over no run). `Books`: `_states` names exactly the workers spawned and not reaped; the file, once it has been written in this life, names no other daemon's; between save and check it
equals memory. `Stops`: a daemon that starts has no worker, and after `join` saw the thread end all handles are among those signalled, since only the thread adds any; a late join gives no such thing, and neither does an exception on the way. `History`: memory
and file never show a job without a run again, and without a file nothing is owed after the process went down. There is one lemma for each part, with a step for each action. `ManualRunsRecorded` is model-checked only.

## 7. `SubscriptionManager`, `StreamerBridge`

### State and actions
| model | code |
|---|---|
| `refcount`, `routing`, `subs`, `add`, `remove` | the three tables of `SubscriptionManager`, its `add`, and `remove`/`drop_session` with `_decrement_keys` |
| `lock`, `step`, `fresh` | `StreamerBridge._lock`, and the await its holder is suspended at with the keys of its SUBS |
| `streamer`, `upstream`, `linger` | `_streamer` (absent, live, dead socket), what Schwab streams on it, `_idle_close_task` |
| `phase` | a reader: a call of the tool `stream_quote` (`mcp_server/app.py`) or a subscribe frame of `/api/v1/stream` (`server/stream_ws.py`) |
| `BeginAdd`, `Connected`, `ConnectFails`, `Subscribed`, `SubscribeFails` | `add_subscription` with `_ensure_connected` and `_schwab_subscribe`, and their exceptions or cancellation |
| `Remove`, `LingerElapses`, `IdleClose` | `remove_subscription`, `drop_session`, `_on_refcount_zero`, `_idle_close_after` |
| `Rotate`, `BeginReconnect`, `Reconnected`, `ReconnectFails`, `Resubscribed`, `ResubscribeFails` | `schedule_session_replaced`, `handle_session_replaced`, `reconnect_after_rotation` |
| `SocketDies`, `Close` | the network; `close` at shutdown |

`gap` is a history variable: symbols that are counted but whose SUBS was given up before it was written, by a failed send, a cancelled call or a failed reconnect. A call may also be cancelled
when its SUBS has been written: then the symbols are streamed and counted, and are no exception. One streamer service, no
data: what a reader receives follows from `routing` and `upstream`.

### Run `streaming`
Two tool calls, one of which lists a symbol twice, and one websocket with two frames, over two symbols; two rotations and two lost sockets. This is the smallest instance in which a symbol
is shared by readers that come and go alone and together, a rotation meets an add that is suspended, and a second rotation or loss meets the repair of the first.
`TypeOK` (with: the timer runs only when nothing is counted), `HeldIsRouted`, `UpstreamExact`, and `IdleCloses` under fairness.

Fairness: every await under the lock ends, in success or failure, and the sleep of the timer ends. Readers owe nothing.

### Proofs (`StreamerBridgeProofs`)
For every finite set of readers, every list with any repetitions, every grouping into sessions and every number of rotations and losses: `BridgeTyped`, `NobodyCutOff` (`HeldIsRouted`) and
`UpstreamIsExact` (`UpstreamExact`). The tables are inductive by themselves (`TablesInv`): a count is at least the number of readers routed, and a leave takes away at most as many as leave,
so that nobody else's count can reach zero (`LeaversFinite`). The socket needs more: who is suspended at which await with which keys, and that what was counted since the socket was made is streamed, is
about to be, or is in `gap`. Assumptions: the readers are finite, lists are finite, and sessions share their readers. `IdleCloses` is model-checked only.

## 8. `TransactionCache`

### State and actions
| model | code |
|---|---|
| `rows`, `coverage` | tables `transactions` and `transactions_coverage` of one account, as committed |
| `writer`, `newRows`, `newCoverage` | who holds SQLite's writer lock, and its open transaction |
| `request`, `chunks`, `payload`, `around` | the locals of `_fetch_one_account` and `merge_coverage`. `chunks` is the set of chunks not fetched yet, `NextChunk` the leftmost of them |
| `Begin`, `Fetch`, `Store`, `Select`, `Merge`, `Answer`, `Fail` | `_fetch_one_account`, `upsert_many`, `merge_coverage`, commit and rollback of `connect` |
| `fresh_cutoff`, `coverage_gaps`, `chunk_range`, `Touching`, `Hull`, `Gaps` | the functions of these names; `Touching` and `Hull` are the SELECT and the union of `merge_coverage`. The loops of `coverage_gaps` and `_chunk_range` are in closed form: `cursor` is what the variable of that name holds when the loop has come to a day |
| `ledger`, `Tick`, `Revise` | Schwab and the calendar, external |

One instant is a day, and a month has `MonthLen` of them. A call may span any number of midnights; it computes its cutoff once, when it begins, in one step with its reading of the coverage. What is older than the cutoff does not change at Schwab any more: the code rests on that
(`api/transactions_cache.py:52`). One account; nothing is ever withdrawn. `trusted`, `fetched`, `ripe`, `asOf` and `overtaken` are history
variables; `ripe` has the days a call asked for when they were old, `asOf` says of a day how it stood when it was fetched, "stale" if a young answer was committed over an old one; `overtaken` says that a merge has deleted other rows than it had read. Such a merge may also try to insert a row that starts where another does: the primary key refuses it, and the call fails.

### Run `transactions`
Two processes, one transaction, five days of two-day months, midnight once, ranges that end yesterday and tomorrow, one late post or correction. The midnight makes days old that were young, at any point of the calls.
Chunks of two days make a range of three need two of them. Two processes are needed for the read before the lock (`Select`) and for the rollback of one during the call of another. `TypeOK` (with: rows of coverage neither
overlap nor touch, unless a merge was overtaken), `FetchesTheRest`, `CoverageFetched`, `OldFetchRight` (but for a call that asked before midnight and commits after another). `SYMMETRY` over the processes; there is no liveness.

The cache is not as right as its documentation says: see `AgedIsCached`, `OldFetchStaysRight` and `RowsApart` in section 14. The bounds of the run are too small for a merge to be overtaken; that the exception in `TypeOK` is needed was found by
the proof, and the definition `OvertakenSpans` of `MCTransactionCache` is an instance that shows it.

### Proofs (`AccountProofs`)
All four invariants are theorems, for any number of processes, transactions, days and ranges and any lengths of chunk and month: `RowsAreApart`, `OnlyTheRestIsFetched`, `CoverageIsEarned`,
`OldStaysRight`. The inductive invariant `IInv`, which TLC has checked as well:

- `Typed`, and `Calling`: who has fetched something has the writer lock; nobody merges who has it.
- `FetchesTheRest` is inductive with these two. It rests on two facts about the operators: the gaps in a set of rows are exactly the days no row covers, also where rows overlap, and they do not overlap themselves (`GapsFact`);
  the chunks of a range partition it (`ChunksFact`). So the leftmost chunk can be taken away without losing or repeating a day.
- `Shaped`: the rows are apart, in the open transaction too. `MergedApart` is the reason: a row that does not touch the chunk, and is apart from every row that does, is apart from their union.
- `Claiming`: what coverage claims was fetched by a committed call, in the open transaction also by its holder; and so for the rows that a merge has read and not yet merged. That it needs no exception for overtaken
  merges is the point: the union is of ranges somebody fetched, whoever has deleted them since (`MergedClaims`).
- `Listing`: Schwab lists no transaction twice, and what is on file is listed on the same day, so that an upsert of one day moves nothing out of another (`UpsertedFact`).
- `Agreeing`: what was fetched when it was old is right in the file, in the open transaction and in an answer that is not stored yet. The open transaction owes a day it has fetched itself only
  if it asked for it when it was old (`Claims`): a young answer that waited for the lock makes the day "stale".

## 9. `VolatilityUpdate`, `SyncScheduler`

### State and actions
| model | code |
|---|---|
| `db`, `work`, `lock` | `vol_history.db` as committed, the one open write transaction and whose it is |
| `run[p]` | a process of `schwab dataset update --group volatility`: its place in `run_volatility_update` and its locals |
| `acct` | `schwab dataset accounts snapshot` |
| `waited` | how many requests of the lock's holder a process has waited through |
| `NotTradingDay`, `Prepare`, `Guard`, `Fetch`, `RecordLate`, `Finish`, `Starve` | the trading-day gate, positions, identity guard and skipping, chain and snapshot with its batch commit, exit code, "database is locked" |
| `Checked`, `Verdict`, `Resolved`, `Sources`, `Reconciled` | `check_and_record_identity`, `classify_identity`, `resolve_tier` with `transition_position_clock`, `sources_for_symbol`, `sync_account_positions` |
| `sync`, `last` | the process of `schwab dataset sync`, and `last_run.json` |
| `Start`, `Dispatch`, `Collect`, `TimeOut`, `Retry`, `Finished`, `Die` | `run_daily_sync` and what it calls; `Die` kills it and leaves its children |
| `Manual`, `Exit`, `ExitAccounts` | runs by hand, ends of processes nobody waits for |
| `NextDay`, `SessionDies` | external |

Per symbol and day the samples of the volatility runs are counted (`rows`), and those among them that have an `atm_iv_30d` (`full`), since only these count as the daily snapshot of a later run; the chains of the tickers in `Sparse` may
yield samples without one. Three updaters are started: of the indices only the exit code is modelled, which may be an error. `sync.jobs` and `last.jobs` are the updaters that could be scheduled: one whose `spawn_argv` raises is skipped and leaves no result.
A company stands for its CUSIPs. `overlapped` and `blind` are history variables: days on which two runs were active at
once, tickers a run passed the guard for without an identity. No run spans midnight of New York.

### Runs
| run | bounds | shows |
|---|---|---|
| `dataset_sync` | two tickers (one subscribed, reusable and with a chain that may be thin, one followed while held), three days (the second no trading day), one daily run, one run by hand, one fault | `TypeOK` (with: an open transaction holds less than a batch), `OneDailyPoint`, `MergeNeedsBlindRun`, `SuccessIsStored` |

Two tickers make a run whose transaction is open while the next chain is fetched; two processes compete for the lock; the days and one turnover make a reuse that a later run
meets, and a daily run that begins before, on or after a day without trading. A batch of two leaves one sample uncommitted between two. One fault anywhere (failed request, updater that is skipped, process that cannot be started, failing indices, dying session, unwritable summary, killed scheduler) is combined
with timeouts, starvation and logins, which cost nothing. `Patience` 0 lets a waiting writer give up at any moment. The run may stop: the last day ends it.

### Proofs (`SyncSchedulerProofs`)
All four properties are theorems, for any number of symbols, companies, process slots, days, faults and runs: `LessThanABatchIsLost`, `OnceADay`, `MergesWereBlind`, `SuccessMeansStored`. They share the
inductive invariant `IInv`, which TLC has checked within the bounds of the run:

- `Typed`: the types. Unlike `TypeOK` it says nothing of the batch.
- `Today`: an active run began today, and two active runs make today a day of overlap.
- `Writing`: the writer is between the guard of a symbol and its sample, its count is the number of symbols sampled in the open transaction and not in the committed database (`Unsaved`), and none of them is yet to be visited.
  A count of calls bounds the loss only because no symbol is visited twice.
- `Versions`: what is true of the committed database and of the open transaction alike: every full snapshot is a sample, and more than one a day needs an overlap on that day; a ticker's samples are of the company its identity names, or the guard was
  passed blind. WATCH and FROZEN are never reached (section 14).
- `Knowing`: what a run has read stays true until it acts on it. Symbols it saw recorded are recorded; those it has yet to sample have no full snapshot of today, unless runs overlap; the identity of the
  symbol it is about to sample was compared in the transaction that is still open, so no other run can have changed it in between.
- `Reporting`: every job that was scheduled has its result or is waited for (`Awaited`), and each "ok", in the results, in the report (`Told`) or in the exit code of the child that is waited for, stands for something stored since the run
  started, or, of the market data, for a day without trading since then.

`Kinds` splits `Next` into kinds of step by what they do to the database (a run's own step, a run killed, a commit by someone else, none), so that each part is shown once per kind and not once per action. `Grows` is the lemma the
last part rests on: nothing committed is ever taken back.

`SuccessMeansStored` assumes that a symbol is subscribed (`Equity # {}`). Where none is and none is held, a run of no symbols has nothing to store and succeeds. The other reports of success with nothing full stored are exceptions of
`SuccessIsStored` itself: an updater that was skipped, a day without trading, a sample without a 30-day volatility; without them (`SuccessAlwaysStored`) it is refuted, see section 14.

## 10. `LoginRace`

### State and actions
| model | code |
|---|---|
| `main`, `outcome`, `urls` | the thread in `get_auth_response`, what it returned or raised, and for whom an authorize URL was given out |
| `server`, `busy`, `captured` | `CallbackServer`: the bound socket with its serving thread, whether that thread is in a connection, and what it put in `_result_q` |
| `local`, `taken`, `late` | `LocalServerHandler.wait_for_response` on its thread: its place, whether `wait()` took the capture, its deadline |
| `prompt` | `UserInputHandler`, asleep in `readline` |
| `cancel`, `result_q`, `errors` | the locals of `_race_handlers` |
| `held`, `killer`, `proc` | `AutoLoginSupervisor`: whether it still has its process and timer, who runs `_terminate`, the driver |
| `Begin`, `_open_and_print`, `_maybe_start_supervisor`, `RaceTakes`, `Terminates`, `MainCloses` | `get_auth_response` in order, with its `finally` |
| `WaitBegins`, `DeadlinePasses`, `WaitEnds`, `LocalCloses`, `LocalReports`, `PromptAnswers` | the two handlers and `_runner` |
| `do_GET`, `LoopExits`, `Close`, `Release` | the serving thread, and `close()` with its `shutdown()`, by either thread or both |
| `WatchdogFires`, `Killed` | `terminate()` on the timer's thread, `_terminate` |
| `Connect`, `DriverExits` | a client of the port and the driver, external |

An answer is a code or an OAuth error, and the login its `state` belongs to (or none). A redirect goes to the one port of `redirect_uri`, whoever listens there, so a login meets
answers meant for another, and answers without a state; a code without one is refused at the port and believed at the prompt. Requests for other paths and
methods change nothing but counters. Ctrl-C is left out, as is `_terminate_single` (the driver always leads its group).

### Run `login_race`
The token owner's unattended login and one that a person types, one after the other on the port; a code for each and an error for nobody; two connections. Two logins are what an answer can be
mistaken for; two connections make a capture and a duplicate, or a stranger's answer before the right one. `SuccessPageTrue`, and `LoginEnds` under fairness. A login that returned is not started
again, so the run may stop.

`SuccessPageTrue` relates what the browser was told on one thread to what another thread returns later, for a code; its exception is real: without `late[l]` TLC refutes it. The page is sent
for an OAuth error as well, where it is false whatever the login does (section 14).
`LoginEnds` covers three waits: of the race for every handler, of `close()` for the serving thread, of `finally` for the driver.

Fairness: each thread goes on (weak); the deadline passes; a group that got SIGKILL dies. Nobody has to log in, paste or answer, the driver may run on, and a client that connected need not say
anything: `do_GET` is not fair. The server reads one connection at a time, the TLS handshake in `accept()` included, and without a timeout, so that a silent client holds `shutdown()`, and the login with it, for ever. That is why
`LoginEnds` has two hypotheses: that no client of the port stays silent for ever, and that the prompt is not read for ever. TLC refutes it without the first (`EndsBehindSilence`, section 14).

### Proofs (`AccessProofs`)
For any number of logins, answers and requests: `TypeCorrect`, `PageIsTrue` (`SuccessPageTrue`), `PortIsFree` (an unattended login returns with the port released, so that the next one can
bind it) and `AnswerIsOwn` (what came from the port names the login that returns it). The inductive invariant `IInv` speaks of each login alone: `Answers` follows the capture through
`wait()` and the queue, which holds at most one message of each handler; `Race` says that while the race goes on at most one handler has failed, and which; `Port` says whose
turn it is to release the port. `OthersKept` shows that a step of one login changes nothing of another's, and one lemma per thread that its own
steps keep the three parts. `SuccessPageTrue` needs `Race`: the race ends without an answer only after *every* handler failed, and the callback handler, not
cancelled, fails only for its deadline. Assumptions: the named ones of the module (`None` is no answer, `NoState` no login).

## 11. `WebAccess`

The module has operators and no state: a request is decided by its contents, by the provider files read at startup and by the key sets a lookup sees.
There is nothing for TLC to explore, hence no run; every claim about it is proved.

| model | code |
|---|---|
| `WellFormed`, `Wildcard`, `Parsed`, `Disabled`, `Surviving`, `Errors` | `load_providers` and `_parse_provider` (`webauth/config.py`) |
| `Finds`, `Decodes`, `Listed`, `_static_scopes`, `Principal`, `verify` | `TokenVerifier.verify` with `JwksKeyResolver`; `Decodes` is what `jwt.decode` checks with the options it is given |
| `_peer_allowed`, `_is_loopback`, `Unauthenticated`, `Public`, `ServesPRM`, `Passes` | `WebAuthMiddleware.__call__` with `_gate_remote_mcp` |
| `scope_satisfied`, `Grant`, `RouteScope`, `MayRead`, `MaySubscribe`, `MayPlace`, `MayCancel` | `webauth/scopes.py`, `scope_denial` and the handlers that call it |

A path is the part of the surface it falls in once normalised; keys, subjects and addresses are opaque. The other threads that fill the shared key cache appear as what the up to five
looks of one lookup saw (`looks`).

Proved in `AccessProofs`, for every set of files, tokens, peers and key sets: a token is one principal (`OnePrincipal`); every file is used, reported or
disabled (`FilesAccounted`, if names differ: section 14); a principal was vouched for by the one enabled, well-formed file that claims its issuer, and comes from an
admitted address (`PrincipalIsVouched`); only the loopback interface gets through without a token, the health check of a daemon with providers apart (`NobodyIsLocal`); no token opens the control plane to another machine (`RemoteStaysOut`);
breaking or switching off a file in use admits nobody (`BreakingAFileAdmitsNoOne`: the duplicate-issuer rule makes this less than obvious, since a file that leaves could let another one
survive); scopes come from the token or the file, and whoever may place may cancel (`ScopesAreGranted`). They rest on no assumption about the constants.

## 12. `StrategyShapes`, `OrderTicket`

Operators and no state, as in section 11: a ticket, a position or the flags of an order go in, legs, figures and a ticket come out. No run would explore anything that the
theorems do not cover.

| model | code |
|---|---|
| `Leg`, `Total`, `_leg_intrinsic`, `payoff_at_expiry`, `_kinks`, `Vertices`, `max_profit`, `max_loss` | `analytics/strategy.py`. `{}` is the code's `None`, an unlimited figure. Prices are whole numbers of the smallest unit, `Multiplier` shares a contract |
| `classify`, `Is...`, `Spreads`, `_reduce_qtys`, `_is_naked` | `analytics/strategy_classify.py`. `Before` is the order of its stable sort; `Spreads` the gcd of the quantities |
| `render_ticket`, `Arranged`, `_net_premium` | `analytics/strategy_ticket.py`. A ticket is the record of its tokens; months, symbols and blanks are left out |
| `Nearest`, `IsPriced`, `run` | `commands/strategy.py`: each leg moves to the nearest listed strike, with the shape read off the legs as typed and the figures off the legs as priced. `anchored` says that the chains gave a spot price and one number of days |
| `StrikesFit`, `TypeFits`, `_parse_price_type_duration`, `MarksFit`, `Accepted`, `_expand_legs`, `Marked`, `_order_type` | `order_ticket.py`: the checks of `parse_ticket` in the order of the grammar, and the legs |
| `_spec_from_ticket`, `_spec_from_flags`, `_is_naked_short_options`, `Dated`, `_validate_session_combo`, `Placeable` | `commands/order.py`: the order built, and the checks before the pipeline |
| `Detected`, `DetectOpenClose` | `DetectOpenCloseRule`; `held` is the account's positions |
| `compute_analytics`, `PanelFails`, `render_order_ticket`, `MarkOf`, `_close_marker`, `SideWord`, `HasTicket` | `output/orders.py` |

Bounds: at most `MaxLegs` = 4 legs, the most that a named shape or an expanded ticket has (`--leg` takes more, which `classify` calls CUSTOM; sums over them are left out). Prices at expiry are
natural numbers and unbounded. Stop orders and their triggers are left out.

### Proofs (`AccountProofs`, the second part)
`ExtremesHold` and `ExtremesAreReached`: the vertices the code looks at are enough for every price and every position, and each figure is attained. The argument: between two neighbouring kinks every leg's
intrinsic value is affine, so a payoff is at least the smaller of the values at the ends; past the last kink it moves with the slope. `UnlimitedIsReal`: no figure is stated exactly
when the loss has no bound. `WarningIsTrue` carries this through the snapping of strikes to the envelope of the command, where shape and loss come from different legs: snapping changes neither side
nor quantity of a leg. `TicketPricesAll`: a ticket for k spreads names the price of all of them.

`UnlimitedIsFlagged`: the naked-short flag, which nets one date at a time, misses no order with an unlimited loss (`Net` is a sum over dates, so a negative total needs a date with a negative one). `NakedFlagExact`: of the accepted
tickets exactly the sold single options, straddles and strangles are flagged. `VerticalComesBack`, `VerticalFigures`: a vertical's printed ticket comes back as the same trade
only if the higher strike was written first, and its panel is right only if the lower one was. `SoldLegShownAsBought`: the panel's figures follow `--side`, not the leg. They rest on no assumption about constants, of
which there are none.

## 13. `PolicyFields`, `ProfileTemplates`

Operators and no state: an order, what was fetched and the clock go in, a value or a verdict comes out. `OrderPolicy` (section 5) has the phases of a decision over fields that are
simply given; here are the fields.

| model | code |
|---|---|
| `get` and the families under it (`_compute`, `_md`, `_strike_relative`, `_price_pct`, `_account_state`, `_bp_impact`, `_temporal`, `_counter_field`, `_position_field`, ...) | `order_policy/fields.py`. A value is a set of at most one element, `{}` where the provider raises `UnevaluatableField`. Numbers are quotients where the code has floats, an instrument is a record where Schwab has a symbol |
| `session_status`, `minutes_since_open`, `minutes_to_close` | `order_policy/_calendar.py`; the list of holidays is a flag of the day |
| `FIELD_SOURCE`, `referenced_fields`, `required_sources` | `order_policy/sources.py` |
| `_build_policy_context`, `run_test` | what `commands/order.py` fetches for a profile, and `profile test` (`commands/profile.py`), which fetches nothing. `world` is all that could be fetched, each part of it possibly missing |
| `matches`, `_walk`, `evaluate_conditions`, `_APPLY`, `approved` | `order_policy/match.py`, `conditions.py`, `decision.py`. Trees of clauses are in disjunctive normal form; the operators on strings are left out |
| the templates, `integer`, `number` | `order_policy/profile_new/templates.py`, `questionnaire.py`; names are tuples, without the cut at 64 characters |
| `Editor` and its operations, `atomic_save`, `parse_profile` | `order_policy/profile_new/state.py`, `save.py`, and the check in `schema.py` that their result can fail |

### Proofs (`AccountProofs`, the third part)
`FetchSuffices` and `MinimalFetchDecides` are about the one table that decides what is fetched: leaving the rest out changes no value and no verdict, with two exceptions,
`bp_required_pct` and `bp_after_pct`, which the table gives to the preview though they read the account as well. `PercentagesNeedTheAccount` and `CappedShortPutRejects` say what follows for a template that
uses one. The argument: `GetReads` names the slots of the context each field reads, so that contexts equal in those slots agree on it, and a verdict is a function of the fields (`SameVerdict`). `TestShowsThePlacement` is the
same argument for `profile test`, whose answer is reliable for profiles that read the order and the clock only.

`FirstLegDecides`, `SharesCoverEveryOrder`, `ReplacementsAreNotCounted`, `PurchasesCountAsLosses`, `FatFingerBlindToMarketOrders`: what a condition does not see. `FatFingerAlwaysCaps`, `BlankTickersApplyToNone`,
`DuplicateFatFingersUnloadable`: what the answers of the questionnaire turn into. `UndoRestores`: the editor's undo, also of the last row. `SessionMinutes` and `CallAndPutOpposite`: the edges of two computations.
The theorems rest on no assumption about constants.

## 14. What the code does not do as documented

With a run of its own, violated by the model of the code:

| run | what |
|---|---|
| `key_places_once` | the idempotency cache is read before the pipeline and written after it; a retry in between places again (`server/orders_write.py:31`, `:208`) |

Refuted by TLC when the property takes the place of the properties of the named configuration; the operator is in the module:

| operator, in | configuration | what |
|---|---|---|
| `SleepsUntilDue`, `JobScheduler` | `JobScheduler.cfg` | while a worker runs, its past `next_run_at` is the minimum, and the loop waits zero seconds (`server/jobs/scheduler.py:353`; `src/doc/jobs.md:76-77` "sleeps until the soonest") |
| `SighupHonoured`, `JobScheduler` | `JobSchedulerLive.cfg` | `_reload_requested` clears the event before `apply_reload` runs (`commands/server.py:694-698`, `server/jobs/runtime.py:310-313`): if `promote` or `load_jobs` raises, nothing is reloaded and the signal is lost (`src/doc/jobs.md:82` "`jobs reload` (SIGHUP) re-applies configs") |
| `BadEditKeepsJob`, `JobsDaemon` | `JobsDaemon.cfg` | a staged file that is already bad when the daemon starts: the last good copy in `.current` is not run, because `_reload_one` knows no earlier config of it (`server/jobs/scheduler.py:421-433`, `runtime.py:257-264`; `src/doc/jobs.md:45-46` "a bad edit never takes a working job down") |
| `StopAlwaysClean`, `JobsDaemon` | `JobsDaemon.cfg` | `terminate_children` calls `killpg` unguarded (`server/jobs/scheduler.py:514-515`, `runner.py:258`): if it raises, for a worker that has exited and is not reaped, the other children are not signalled and the pidfile stays (`commands/server.py:734-738`; `:724` "terminate children, remove the pidfile") |
| `EveryManualRunRecorded`, `JobsDaemon` | `JobsDaemon.cfg` | a marker rewritten between its read and its unlink is unlinked unread, and the run is never recorded (`server/jobs/state.py:266-271`; `server/jobs/scheduler.py:318-319` "so a manual run's last_run is recorded") |
| `TracksSurvive`, `TokenManager` | `TokenLive.cfg` | all writers share one temporary file (`session.py:138`): a save that lost it, or a load of a torn file, ends a track's thread for good (`server/token_manager.py:215`; `:10-11` "retry every minute until a token mints") |
| `FullAuthDurable`, `TokenManager` | `TokenLive.cfg` | an exchange that began before a full auth writes the old refresh token over the new one (`server/token_manager.py:278`; `:411-412` "still ends durable") |
| `WantedOrderKept`, `OrderPlacement` | `OrderPlacement.cfg` | the rollback after an uncertain answer cancels an order of the same shape that another call reported as placed (`commands/order.py:1118` "so we don't cancel an order the user actually wanted") |
| `LastRemovalCloses`, `StreamerBridge` | `StreamerBridge.cfg` | a symbol listed twice in one request counts two in `add` and one in `remove` (`mcp_server/subscription.py:84-91`, `:130-138`): it is never unsubscribed and the socket never closes (`mcp_server/streamer_bridge.py:7-8`, `src/doc/mcp.md:79-80`) |
| `AgedIsCached`, `TransactionCache` | `TransactionCache.cfg` | a range that ends in the future is recorded as covered to its end; those days become old and are never fetched. So are corrections of a day that was last fetched while fresh (`api/transactions_cache.py:163-174`; `src/doc/transactions.md:68-70` "already cached, so no special re-fetch needed") |
| `OldFetchStaysRight`, `TransactionCache` | `TransactionCache.cfg` | a call asks for a day while it is young, the day is corrected, midnight makes it old, another call fetches it as old and commits; then the first, which may wait 30 s for the lock with its payload (`storage/transactions_history.py:90`) and goes by the cutoff of its start (`api/transactions_cache.py:133`), stores what it had: wrong until a `--refresh` (`src/doc/transactions.md:64`: what is old is "fetched once and cached forever") |
| `RowsApart`, `TransactionCache` | `TransactionCache.cfg` with `Spans <- OvertakenSpans`, `FirstDay = 4`, `MaxChanges = 0` | with nothing to store, `merge_coverage` reads the rows (`storage/transactions_history.py:313`) before the DELETE that opens its transaction (`:327`); another process commits in between, and the union of the rows read overlaps or touches those that stay (`:281` "Non-overlapping"). The gaps are right all the same (`OnlyTheRestIsFetched`); if the two rows start together the INSERT fails |
| `QuarantineKept`, `SyncScheduler` | `SyncScheduler.cfg` | a run that could not fetch identities (or has none for the symbol) clears the quarantine of a reused ticker, erases its identity and samples it (`storage/identity.py:81` against its docstring at `:61-63`) |
| `NoDoubleWrite`, `SyncScheduler` | `SyncScheduler.cfg` | a sample with no `atm_iv_30d` is stored (`dataset/update.py:614-647`) but does not count as the day's snapshot (`:751-787`), so a run repeated later that day samples the symbol again (`:461-463` "so a re-run of the cron doesn't double-write the same trading day") |
| `SuccessAlwaysStored`, `SyncScheduler` | `SyncScheduler.cfg` | `last_run.json` says success with nothing full stored: on a day without trading (`dataset/update.py:406-411`), without an updater whose `spawn_argv` raised (`dataset/sync_scheduler.py:563-577`), or with a sample that has no `atm_iv_30d` (`dataset/sync_scheduler.py:86-88` "so an out-of-band health check can see whether the last run succeeded") |
| `WritersWait`, `SyncScheduler` | `SyncScheduler.cfg` with four tickers in `Equity`, `Batch` 4, `Patience` 2 | a run holds the lock through the chain fetches between two commits, so writers do not "wait their turn instead of failing" (`storage/vol_history.py:352-360`; `dataset/update.py:730`) |
| `PortReleased`, `LoginRace` | `LoginRace.cfg` | the second of two `close()` calls returns at once, while the first is still in `shutdown()`: a login that somebody typed returns with the port still bound (`auth_callback_server.py:382` "On return the port is fully released") |
| `SuccessPageAlwaysTrue`, `LoginRace` | `LoginRace.cfg` | the answer is captured and the browser reads "Login successful", then `wait()` finds its deadline passed before it looks into the queue, and the login fails (`auth_callback_server.py:352-362`, `:314`); and the page is sent for an OAuth error (`:311-314`) |
| `EndsBehindSilence`, `LoginRace` | `LoginRace.cfg` | `close()` runs `shutdown()` on the caller's thread (`auth_callback_server.py:387`; `:18` "runs ``shutdown()`` on a separate thread"), behind a serving thread that reads without a timeout: a client that connects and says nothing keeps an unattended login, and the thread that renews tokens, from ending |

Met while modelling, confirmed with TLC, and left without an operator of their own:
- a job disabled while it runs and failing with the auth exit code gets a `next_run_at` although it is disabled (`server/jobs/scheduler.py:276`; the docstring at `:164` says "None for disabled jobs");
- the retry budget spent before a reload is not restored for the next scheduled run (`server/jobs/scheduler.py:270`; `src/doc/jobs.md:79`);
- `session.json` itself can be published empty for a moment (`session.py:138`);
- the manual block is put on the token that is on disk, which may be newer than the one rejected (`server/token_manager.py:376`; comment at `:374`);
- a tool call that fails or is cancelled while its SUBS is sent leaves its symbols counted for ever, since its cleanup is entered only afterwards (`mcp_server/app.py:923-971`).

Met while modelling, read in the code:
- after an uncertain answer a filled order is not among the matches, and the report "no matching recent orders found at Schwab (the order most likely never reached the
  broker)" (`commands/order.py:1062`) is given for an order that was placed and executed. `RollbackReportTrue` speaks of working orders only;
- `_is_definitive_rejection` (`commands/order.py:1187`) looks for a code followed by a blank, which `api/client.py:151` strips when the body is empty: such a
  rejection, like a 429, starts a verification;
- a 4xx answer of placeOrder is reported over REST as "rejected by Schwab preview" (`server/orders_write.py:493`);
- `not` over a field that cannot be evaluated is satisfied, though `order_policy/conditions.py:7` has the sentinel "propagate" as a non-satisfied result;
- `record_override` and `record_replace` (`order_policy/counters.py:254`, `:272`) have no caller, so a condition on `replace_count` always sees zero;
- a replay does not compare the body of the retry with that of the original (`server/orders_write.py:216`);
- between `promote`'s removal of `state.json` and the next save, at most a tick later, `jobs reload` finds no state and reports no response, and a crash loses the history (`server/jobs/config.py:312`, `commands/jobs.py:275-298`);
- two daemons overlap during `server restart`: the leaving one removes the pidfile of the new one (`commands/server.py`, `server/jobs/runtime.py:111`);
- a marker of an older manual run replaces a newer outcome (`server/jobs/state.py:223-272`);
- nothing reconnects a dead upstream socket before the next rotation or the idle close, and `_reconnect_count` is never incremented (`mcp_server/streamer_bridge.py`);
- relative offsets of a range are resolved against now, although `src/doc/time.md` anchors them at the other side (`history_spec.py`);
- the tiers WATCH and FROZEN are unreachable for a symbol that was held: once its position row is closed it leaves the working set (`analytics/tier.py:8-14`, `dataset/store.py:381-411`);
- a session that dies in the middle of a volatility run is not an auth failure as soon as one symbol was sampled or skipped (`commands/dataset.py:502-531`), so it is not retried;
- `accounts_nav._load_atm_iv` computes the day after by `end.day + 1`, which raises on the last day of a month (`dataset/accounts_nav.py:328`).
- a redirect that arrives before `wait()` runs is answered "still waiting" and lost (`auth_callback_server.py:277-284`), although the port is bound early on purpose;
- `_terminate` returns without signalling the group when the driver itself has already exited, so a browser it left behind survives, against its docstring ("go down with it instead of being orphaned", `auth_handlers.py:435-437`, `:448`);
- `terminate()` of the thread that lost to the watchdog returns while the driver is still being torn down (`auth_handlers.py:348-364`);
- two provider files of one issuer that also have one explicit `name` are both reported against the last one's path (`webauth/config.py:112-113`, `:130`), against "render an ✗ per file" (`webauth/config.py:6`).

About tickets, the first four proved as theorems (section 12):
- the ticket printed for an ascending vertical stands for the opposite trade when it is pasted back (`VerticalComesBack`): it is printed with the higher strike first and read in the order written (`lower, higher = strikes`). `output/orders.py:658` calls it
  the "Inverse of ``--parse``"; `order_ticket.py:14` gives the grammar as `LOWER/HIGHER`, `tests/test_order_ticket.py:356` calls descending input the common case;
- for a descending vertical the panel's `max_loss` is too small (`VerticalFigures`): `width` is negative (`output/orders.py`, `compute_analytics`);
- a ticket for several spreads carries the price of all (`TicketPricesAll`), where the price of a ticket is "per spread" (`output/orders.py:58`; `doc/strategy.md` "copy-paste-ready ticket line");
- one sold `--leg` without `--side` is shown with the figures of a bought option (`SoldLegShownAsBought`), and every `--leg` order of one option type with `--complex` at its default with those of a single leg, against "or ``None`` for equity / unsupported shapes" (`output/orders.py:56`);
- `--complex VERTICAL` with other than two legs ends in a `ValueError` (`PanelFails`);
- the tickets printed for STRADDLE, STRANGLE, IRON CONDOR, IRON BUTTERFLY, CUSTOM, CALENDAR and DIAGONAL are refused by `parse_ticket` (`TypeFits`, `Accepted`), and an option ticket loses GTC (`render_order_ticket`);
- `DetectOpenCloseRule` does not compare quantities: a leg larger than the position it closes becomes a closing leg as a whole (`order_pipeline/rules.py:202`);
- without a spot price or with several dates `commands/strategy.py` states no figures, and yet warns of `unlimited_loss` where the shape is supported (`run`);
- `_is_naked` (`analytics/strategy_classify.py:341`) speaks of unbounded loss and flags sold puts as well.

About the fields of a policy and its templates, proved as theorems where one is named (section 13):
- a profile with the short-put template and its cap on `bp_required_pct` approves no such order unless another field makes the account be fetched (`CappedShortPutRejects`; `order_policy/sources.py` against "Single source of truth", `:42`);
- an order of several legs gets the verdict of its first leg: a put sold first and anything after it passes as the put alone (`FirstLegDecides`);
- shares, cash and long calls that cover a sold option cover the next one as well: what is already sold is not subtracted (`SharesCoverEveryOrder`; `order_policy/fields.py:891`, `:922`, `:947`), and a call sold to close counts as one sold;
- no body carries an `orderId`, so a limit on `replace_count` never bites (`ReplacementsAreNotCounted`); `order_source` is always "manual", since `_build_policy_context` never sets it;
- `consecutive_losing_closes_24h` counts purchases (`PurchasesCountAsLosses`; "losses in last 24h", `order_policy/profile_new/templates.py:218`);
- "Max quantity per order (blank = no cap)" (`templates.py:226`): a blank answer is a cap of 10 (`FatFingerAlwaysCaps`), and the price bounds never see a market order (`FatFingerBlindToMarketOrders`);
- a blank list of tickers makes a policy that applies to nothing, though the equity one is then named "all" (`BlankTickersApplyToNone`; `templates.py:89`), where the vertical template reads a blank list as any ticker;
- the editor saves two policies of one name, which `parse_profile` refuses (`DuplicateFatFingersUnloadable`);
- `profile test` gives the reader no hint that nothing was fetched (`commands/profile.py:270`); a misspelt field is accepted by `_parse_condition` and has no value (`UnknownField`); half days end at the usual hour (`_calendar.py:20`).

## 15. What is only model-checked, and what is not modelled

Liveness is model-checked only: the provers have no rule for fairness. Every invariant that a run checks is a theorem (`SuccessIsStored` where a symbol is subscribed), and so are `LastGoodKept`, the one action property, and the refinement of `OrderRegister`. What a run shows it shows for its bounds;
the theorems hold for every value of the constants that satisfies the named assumptions. Nine invariants are theorems and are not repeated in a run (`TypeOK`, `TodoStillDue`, `ConcurrencyCap`, `EnabledScheduled`, `RetryBudget` of `JobScheduler`, `TypeOK`
of `TokenManager`; `TypeOK`, `UnattendedReleases`, `OwnAnswer` of `LoginRace`; `SingleFlight` is checked in one run only).

Not modelled: the text of notifications, logs and tables; cron arithmetic; HTTP and TLS; shutdown of the token
owner; the provider's keys as state, cryptography and path normalisation of the gate; the code exchange's contents, certificates and Ctrl-C of a login; the tokens of tickets, stop orders, the operators on strings of a policy and the parsing of its file, probabilities, breakevens and greeks; two daemons at once; decoding of stream frames and the readers' bounded queues; captures of option chains, candles and the members of indices in the
dataset; which days are trading days; floating-point analytics; everything of section 1.13, and the notifications and request handlers of 1.11.

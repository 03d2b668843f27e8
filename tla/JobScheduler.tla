---------------------------- MODULE JobScheduler ----------------------------
(***************************************************************************)
(* The in-memory job scheduler of `schwab server`                          *)
(* (src/schwab_cli/server/jobs/scheduler.py) driven by its thread          *)
(* (runtime.run_scheduler_loop): reap the finished workers, signal the     *)
(* overdue ones, spawn the due ones up to a cap, honour a pending SIGHUP,  *)
(* sleep until the next wakeup.                                            *)
(*                                                                         *)
(* The thread is one process (pc); workers, the clock, the user who edits  *)
(* staged job files and the SIGHUP handler interleave with it between any  *)
(* two of its steps.  state.json, run-report markers, crashes and shutdown *)
(* do not feed back into these variables while the daemon runs: module     *)
(* JobsDaemon adds them.                                                   *)
(*                                                                         *)
(* Abstractions: a job file is a record of the five fields the scheduler   *)
(* reads; cron arithmetic is the table CronFires; an exit code is the      *)
(* outcome it maps to; the order in which fire_due visits _configs (dict   *)
(* insertion order) is left open.                                          *)
(***************************************************************************)
EXTENDS Integers, FiniteSets, FiniteSetsExt

CONSTANTS
    Jobs,           \* job ids
    Crons,          \* (cron expression, timezone) pairs
    CronFires,      \* CronFires[c][t]: first occurrence of c strictly after t
    Configs,        \* the valid contents a job file may have
    MaxConcurrent,  \* max_concurrent
    Watchdog,       \* watchdog_s
    MaxTime,        \* bound on the clock
    MaxEdits,       \* bound on edits of staged files
    None,           \* Python's None: no file, no handle, nothing scheduled
    Invalid         \* a staged file that parse_job rejects

ConfigType == [cron : Crons, enabled : BOOLEAN, timeout_s : Nat \ {0},
               retries : Nat, retry_delay_s : Nat \ {0}]

\* What a worker process exited with, as status_for_exit_code reads it.
Outcomes == {"ok", "auth-failed", "failed"}

ASSUME ConstantsAssumption ==
    /\ MaxTime \in Nat /\ MaxEdits \in Nat
    /\ MaxConcurrent \in Nat \ {0} /\ Watchdog \in Nat \ {0}
    /\ IsFiniteSet(Jobs)
    /\ None \notin Int /\ None \notin Configs /\ None \notin Outcomes \cup {"live"}
    /\ Invalid \notin Configs /\ Invalid # None

ASSUME ConfigsAssumption == \A c \in Configs : c \in ConfigType

ASSUME CronAssumption ==
    \A c \in Crons : \A t \in 0..MaxTime :
        /\ CronFires[c][t] \in Nat /\ CronFires[c][t] > t
        /\ \A u \in t..MaxTime : CronFires[c][t] <= CronFires[c][u]

VARIABLES
    clock,          \* the wall clock, time.time()
    staged,         \* jobs/<id>.json as the user last left it
    edits,          \* number of edits so far (bounded by MaxEdits)
    reload_event,   \* set by the SIGHUP handler
    wake,           \* the threading.Event the loop sleeps on
    pc,             \* what the scheduler thread does next
    tnow,           \* the `now` local of the phase that is running
    todo,           \* due jobs fire_due has still to visit
    wakeup,         \* absolute time the current wait() ends
    configs,        \* _configs
    handles,        \* _handles: the state of each spawned worker process
    deadlines,      \* _deadlines
    timed_out,      \* _timed_out
    retries_left,   \* _retries_left
    next_run_at,    \* _states[id].next_run_at
    started_at      \* _states[id].started_at

\* History variables: no action reads them.
VARIABLES
    lastStart,      \* when the job's latest worker was spawned
    anchor,         \* when the job was last started or put on the schedule
    retrying,       \* the pending (or running) start is an auth retry
    streak,         \* auth retries granted since the last ok or terminal outcome
    lost            \* the reload that took the last SIGHUP raised

environment == <<clock, staged, edits, reload_event, lost>>
loop == <<pc, tnow, todo, wakeup, wake>>
bookkeeping == <<handles, deadlines, timed_out, started_at>>
history == <<lastStart, anchor, retrying, streak>>
inMemory == <<bookkeeping, configs, retries_left, next_run_at, history>>
vars == <<environment, loop, inMemory>>

Never == -1
PCs == {"reap", "enforce", "fire", "firing", "reload", "sleep", "wait", "woken"}

Running == {j \in Jobs : handles[j] # None}
Exited == {j \in Jobs : handles[j] \in Outcomes}
Loaded == {j \in Jobs : configs[j] # None}
Enabled(j) == j \in Loaded /\ configs[j].enabled

\* schedule.next_run_after, looked up for the config's cron.
next_run_after(cfg, t) == CronFires[cfg.cron][t]

\* What _reschedule stores: the next occurrence, or None for a disabled job.
Reschedule(cfg, t) == IF cfg.enabled THEN next_run_after(cfg, t) ELSE None

\* The jobs fire_due would not `continue` past at time t.
Due(t) == {j \in Jobs \ Running : /\ Enabled(j)
                                  /\ next_run_at[j] # None
                                  /\ next_run_at[j] <= t}
-----------------------------------------------------------------------------
TypeOK ==
    /\ clock \in 0..MaxTime
    /\ staged \in [Jobs -> Configs \cup {None, Invalid}]
    /\ edits \in 0..MaxEdits
    /\ reload_event \in BOOLEAN /\ wake \in BOOLEAN /\ lost \in BOOLEAN
    /\ pc \in PCs
    /\ tnow \in 0..MaxTime
    /\ todo \in SUBSET Jobs
    /\ wakeup \in Nat
    /\ configs \in [Jobs -> Configs \cup {None}]
    /\ handles \in [Jobs -> Outcomes \cup {"live", None}]
    /\ deadlines \in [Jobs -> Nat \cup {None}]
    /\ timed_out \in SUBSET Jobs
    /\ retries_left \in [Jobs -> Nat \cup {None}]
    /\ next_run_at \in [Jobs -> Nat \cup {None}]
    /\ started_at \in [Jobs -> (0..MaxTime) \cup {None}]
    /\ lastStart \in [Jobs -> (0..MaxTime) \cup {Never}]
    /\ anchor \in [Jobs -> 0..MaxTime]
    /\ retrying \in [Jobs -> BOOLEAN]
    /\ streak \in [Jobs -> Nat]

\* _start_jobs with no state.json: the staged files are promoted and scheduled
\* from time 0, and the thread starts with a tick.
Init ==
    /\ clock = 0 /\ edits = 0 /\ tnow = 0 /\ wakeup = 0
    /\ staged \in [Jobs -> Configs \cup {None}]
    /\ reload_event = FALSE /\ wake = FALSE /\ lost = FALSE
    /\ pc = "reap" /\ todo = {}
    /\ configs = staged
    /\ handles = [j \in Jobs |-> None]
    /\ deadlines = [j \in Jobs |-> None]
    /\ timed_out = {}
    /\ retries_left = [j \in Jobs |-> None]
    /\ next_run_at = [j \in Jobs |-> IF staged[j] = None THEN None
                                     ELSE Reschedule(staged[j], 0)]
    /\ started_at = [j \in Jobs |-> None]
    /\ lastStart = [j \in Jobs |-> Never]
    /\ anchor = [j \in Jobs |-> 0]
    /\ retrying = [j \in Jobs |-> FALSE]
    /\ streak = [j \in Jobs |-> 0]
-----------------------------------------------------------------------------
(* reap and _handle_outcome.  poll() is asked once per handle; the outcome  *)
(* of a job unloaded while it ran is recorded but not acted upon.           *)

Status(j) == IF j \in timed_out THEN "timeout" ELSE handles[j]

RetriesRemaining(j) ==
    IF retries_left[j] # None THEN retries_left[j] ELSE configs[j].retries

\* Bug variant: the remaining budget is not looked at.
AuthRetryUnchecked(j) == Status(j) = "auth-failed"

\* A fast auth retry: renew() and come back retry_delay_s from now.
AuthRetry(j) == Status(j) = "auth-failed" /\ RetriesRemaining(j) > 0

\* Bug variant: the next occurrence is looked up from the time of reaping.
RunStartAtReap(j) == clock

\* The occurrence that was run; rescheduling is anchored to it.
RunStart(j) == IF started_at[j] # None THEN started_at[j] ELSE clock

\* Bug variant: a successful run is not rescheduled.
OutcomeNextRunForgotten(j) ==
    IF Status(j) = "ok" THEN next_run_at[j]
    ELSE IF AuthRetry(j) THEN clock + configs[j].retry_delay_s
    ELSE Reschedule(configs[j], RunStart(j))

\* What _handle_outcome stores in next_run_at.
OutcomeNextRun(j) ==
    IF AuthRetry(j) THEN clock + configs[j].retry_delay_s
                    ELSE Reschedule(configs[j], RunStart(j))

\* What _handle_outcome stores in _retries_left.
OutcomeRetriesLeft(j) ==
    IF AuthRetry(j) THEN RetriesRemaining(j) - 1 ELSE configs[j].retries

\* Bug variant: reap does not discard the flag.
TimedOutAfterReapKept == timed_out

\* The flags of the jobs that are reaped are discarded.
TimedOutAfterReap == timed_out \ Exited

Reap ==
    /\ pc = "reap" /\ pc' = "enforce"
    /\ handles' = [j \in Jobs |-> IF j \in Exited THEN None ELSE handles[j]]
    /\ deadlines' = [j \in Jobs |-> IF j \in Exited THEN None ELSE deadlines[j]]
    /\ started_at' = [j \in Jobs |-> IF j \in Exited THEN None ELSE started_at[j]]
    /\ timed_out' = TimedOutAfterReap
    /\ LET settled == Exited \cap Loaded IN
       /\ next_run_at' = [j \in Jobs |-> IF j \in settled THEN OutcomeNextRun(j)
                                         ELSE next_run_at[j]]
       /\ retries_left' = [j \in Jobs |-> IF j \in settled
                                          THEN OutcomeRetriesLeft(j)
                                          ELSE retries_left[j]]
       /\ retrying' = [j \in Jobs |-> IF j \in settled THEN AuthRetry(j)
                                      ELSE retrying[j]]
       /\ streak' = [j \in Jobs |-> IF j \in settled
                                    THEN IF AuthRetry(j) THEN streak[j] + 1 ELSE 0
                                    ELSE streak[j]]
    /\ UNCHANGED <<environment, configs, tnow, todo, wakeup, wake, lastStart,
                   anchor>>
-----------------------------------------------------------------------------
(* enforce_timeouts.  terminate() is killpg(SIGTERM); it raises OSError     *)
(* when the worker is already gone, which abandons the rest of the tick.    *)

Overdue == {j \in Running : deadlines[j] # None /\ clock >= deadlines[j]}

\* Bug variant: nobody is flagged or signalled.
EnforceTimeoutsIdle ==
    /\ pc = "enforce" /\ pc' = "fire"
    /\ UNCHANGED <<environment, configs, tnow, todo, wakeup, wake, bookkeeping,
                   retries_left, next_run_at, history>>

EnforceTimeouts ==
    /\ pc = "enforce" /\ pc' = "fire"
    /\ timed_out' = timed_out \cup Overdue
    /\ UNCHANGED <<environment, configs, tnow, todo, wakeup, wake, handles,
                   deadlines, started_at, retries_left, next_run_at, history>>

\* The loop over the handles stops at the one whose terminate() raised; the
\* exception reaches run_scheduler_loop, which goes on to its wait.
TerminateRaises ==
    /\ pc = "enforce" /\ pc' = "sleep"
    /\ \E gone \in Overdue \cap Exited : \E seen \in SUBSET Overdue :
           timed_out' = timed_out \cup seen \cup {gone}
    /\ UNCHANGED <<environment, configs, tnow, todo, wakeup, wake, handles,
                   deadlines, started_at, retries_left, next_run_at, history>>
-----------------------------------------------------------------------------
(* fire_due: `now` is read once, then the due jobs are spawned one by one   *)
(* while there is room under the cap.                                       *)

FireDue ==
    /\ pc = "fire" /\ pc' = "firing"
    /\ tnow' = clock
    /\ todo' = Due(clock)
    /\ UNCHANGED <<environment, wakeup, wake, inMemory>>

\* Bug variant: off by one.
RoomToFireOffByOne == Cardinality(Running) <= MaxConcurrent

\* Bug variant: the last slot is never used.
RoomToFireSlotWasted == Cardinality(Running) + 1 < MaxConcurrent

RoomToFire == Cardinality(Running) < MaxConcurrent

\* Bug variant: the deadline counts from the occurrence, not from the start.
DeadlineFromOccurrence(j) == next_run_at[j] + configs[j].timeout_s

Deadline(j) == tnow + configs[j].timeout_s

\* A spawn that worked.  next_run_at keeps the occurrence being run.
Spawn(j) ==
    /\ pc = "firing" /\ j \in todo /\ RoomToFire
    /\ todo' = todo \ {j}
    /\ handles' = [handles EXCEPT ![j] = "live"]
    /\ deadlines' = [deadlines EXCEPT ![j] = Deadline(j)]
    /\ started_at' = [started_at EXCEPT ![j] = tnow]
    /\ lastStart' = [lastStart EXCEPT ![j] = tnow]
    /\ anchor' = [anchor EXCEPT ![j] = tnow]
    /\ UNCHANGED <<environment, pc, tnow, wakeup, wake, configs, timed_out,
                   retries_left, next_run_at, retrying, streak>>

\* A spawn that raised: status "spawn-failed", next occurrence, notify.
SpawnFails(j) ==
    /\ pc = "firing" /\ j \in todo /\ RoomToFire
    /\ todo' = todo \ {j}
    /\ started_at' = [started_at EXCEPT ![j] = None]
    /\ next_run_at' = [next_run_at EXCEPT ![j] = Reschedule(configs[j], tnow)]
    /\ anchor' = [anchor EXCEPT ![j] = tnow]
    /\ retrying' = [retrying EXCEPT ![j] = FALSE]
    /\ UNCHANGED <<environment, pc, tnow, wakeup, wake, configs, handles,
                   deadlines, timed_out, retries_left, lastStart, streak>>

\* Bug variant: the due set is computed once and kept for the next tick.
FireEndsKeepsTodo ==
    /\ pc = "firing" /\ (todo = {} \/ ~RoomToFire)
    /\ pc' = "reload"
    /\ UNCHANGED <<environment, tnow, todo, wakeup, wake, inMemory>>

\* Nothing left to visit, or the cap broke the loop.
FireEnds ==
    /\ pc = "firing" /\ (todo = {} \/ ~RoomToFire)
    /\ pc' = "reload" /\ todo' = {}
    /\ UNCHANGED <<environment, tnow, wakeup, wake, inMemory>>
-----------------------------------------------------------------------------
(* The event is cleared, then apply_reload promotes the staged files and    *)
(* calls JobScheduler.reload.  A bad staged version leaves the loaded one   *)
(* alone; no running worker is touched.                                     *)

ReloadedConfig(j) == IF staged[j] = Invalid THEN configs[j] ELSE staged[j]

\* "outdated", "error", "unchanged": _reload_one leaves next_run_at alone.
ScheduleKept(j) ==
    \/ staged[j] = Invalid
    \/ staged[j] = configs[j] /\ (staged[j] # None => staged[j].enabled)

\* What _reload_one leaves in next_run_at.
ReloadedNextRun(j) ==
    IF ScheduleKept(j) THEN next_run_at[j]
    ELSE IF staged[j] = None THEN None
    ELSE Reschedule(staged[j], clock)

Reload ==
    /\ pc = "reload" /\ reload_event
    /\ pc' = "sleep"
    /\ reload_event' = FALSE
    /\ configs' = [j \in Jobs |-> ReloadedConfig(j)]
    /\ next_run_at' = [j \in Jobs |-> ReloadedNextRun(j)]
    /\ anchor' = [j \in Jobs |-> IF ScheduleKept(j) THEN anchor[j] ELSE clock]
    /\ retrying' = [j \in Jobs |-> retrying[j] /\ (ScheduleKept(j) \/ j \in Running)]
    /\ UNCHANGED <<clock, staged, edits, lost, tnow, todo, wakeup, wake, bookkeeping,
                   retries_left, lastStart, streak>>

\* promote or load_jobs raises, before anything is reloaded; the loop goes on and
\* nobody sets the event again.
ReloadRaises ==
    /\ pc = "reload" /\ reload_event
    /\ pc' = "sleep"
    /\ reload_event' = FALSE /\ lost' = TRUE
    /\ UNCHANGED <<clock, staged, edits, tnow, todo, wakeup, wake, inMemory>>

NoReload ==
    /\ pc = "reload" /\ ~reload_event
    /\ pc' = "sleep"
    /\ UNCHANGED <<environment, tnow, todo, wakeup, wake, inMemory>>
-----------------------------------------------------------------------------
(* The end of the loop body: next_wakeup and wait.                          *)

\* The soonest next_run_at of any job, at most watchdog_s from now.
next_wakeup == Min({next_run_at[j] : j \in {i \in Jobs : next_run_at[i] # None}}
                   \cup {clock + Watchdog})

Sleep ==
    /\ pc = "sleep" /\ pc' = "wait"
    /\ tnow' = clock
    /\ wakeup' = next_wakeup
    /\ UNCHANGED <<environment, todo, wake, inMemory>>

\* wake.wait(timeout) returns: the event was set, or the time has come (or lies
\* beyond MaxTime, where only the model's clock stops).
WaitReturns ==
    /\ pc = "wait" /\ (wake \/ clock >= wakeup \/ clock = MaxTime)
    /\ pc' = "woken"
    /\ UNCHANGED <<environment, tnow, todo, wakeup, wake, inMemory>>

\* Bug variant: the reload flag is cleared with the wake flag.
WakeClearDropsReload ==
    /\ pc = "woken" /\ pc' = "reap"
    /\ wake' = FALSE /\ reload_event' = FALSE
    /\ UNCHANGED <<clock, staged, edits, lost, tnow, todo, wakeup, inMemory>>

\* wake.clear(), and the loop goes round.
WakeClear ==
    /\ pc = "woken" /\ pc' = "reap"
    /\ wake' = FALSE
    /\ UNCHANGED <<environment, tnow, todo, wakeup, inMemory>>

SchedulerThread ==
    \/ Reap \/ EnforceTimeouts \/ TerminateRaises
    \/ FireDue \/ (\E j \in Jobs : Spawn(j) \/ SpawnFails(j)) \/ FireEnds
    \/ Reload \/ ReloadRaises \/ NoReload \/ Sleep \/ WaitReturns \/ WakeClear
-----------------------------------------------------------------------------
(* The environment: time, workers, the user, the SIGHUP handler.            *)

Advance ==
    /\ clock < MaxTime /\ clock' = clock + 1
    /\ UNCHANGED <<staged, edits, reload_event, lost, loop, inMemory>>

\* A worker process ends by itself, with any exit code.
WorkerExits(j) ==
    /\ handles[j] = "live"
    /\ \E code \in Outcomes : handles' = [handles EXCEPT ![j] = code]
    /\ UNCHANGED <<environment, loop, deadlines, timed_out, started_at,
                   configs, retries_left, next_run_at, history>>

\* A worker process that was sent SIGTERM ends.
TerminatedWorkerExits(j) == j \in timed_out /\ WorkerExits(j)

\* The user rewrites or removes a staged file (also `jobs enable|disable`).
EditStaged(j, content) ==
    /\ edits < MaxEdits /\ edits' = edits + 1
    /\ staged' = [staged EXCEPT ![j] = content]
    /\ UNCHANGED <<clock, reload_event, lost, loop, inMemory>>

\* `jobs reload` signals the daemon; the handler sets both events.
Sighup ==
    /\ reload_event' = TRUE /\ wake' = TRUE /\ lost' = FALSE
    /\ UNCHANGED <<clock, staged, edits, pc, tnow, todo, wakeup, inMemory>>

Environment ==
    \/ Advance \/ Sighup
    \/ \E j \in Jobs : WorkerExits(j)
    \/ \E j \in Jobs, content \in Configs \cup {None, Invalid} : EditStaged(j, content)

Next == SchedulerThread \/ Environment

\* The thread keeps running, time passes, and a worker that got SIGTERM ends.
Fairness ==
    /\ WF_vars(SchedulerThread)
    /\ WF_vars(Advance)
    /\ \A j \in Jobs : WF_vars(TerminatedWorkerExits(j))

Spec == Init /\ [][Next]_vars
FairSpec == Spec /\ Fairness
-----------------------------------------------------------------------------
(* Safety.                                                                  *)

\* What fire_due found due when it read the clock is still due when it gets to
\* spawn it: nothing that happens during the loop over _configs (earlier spawns,
\* exits, edits, signals) makes a job it has yet to visit running, disabled,
\* unloaded or not due.
TodoStillDue == todo # {} => pc = "firing" /\ todo \subseteq Due(tnow)

\* However starts, exits, timeouts and reloads interleave, no more than
\* max_concurrent workers are alive (fire_due's cap).
ConcurrencyCap == Cardinality(Running) <= MaxConcurrent

\* The four maps that describe a worker agree: a job has a handle exactly when
\* it has a deadline and a started_at, and that is its latest start, before the
\* deadline.  A map that reap or fire_due forgets corrupts the next run.
HandleBookkeeping ==
    \A j \in Jobs :
        /\ j \in Running <=> deadlines[j] # None
        /\ j \in Running <=> started_at[j] # None
        /\ j \in Running => /\ started_at[j] = lastStart[j]
                            /\ started_at[j] < deadlines[j]

\* A timeout flag belongs to the worker that is running now and is past its
\* deadline: it never outlives its run and mislabels the next one.
TimeoutFlagFresh ==
    \A j \in timed_out : j \in Running /\ clock >= deadlines[j]

\* One run per occurrence: a job that is not running waits for an occurrence
\* (or a retry) strictly later than its last start, whatever reap latency,
\* retries and reloads came between.
NoDoubleFire ==
    \A j \in Loaded \ Running : next_run_at[j] # None => next_run_at[j] > lastStart[j]

\* No occurrence is lost: unless a retry is pending, a job waits for nothing
\* later than the first occurrence after it was last started or scheduled; the
\* time a run takes and the latency of reap skip nothing.
NoSkippedOccurrence ==
    \A j \in Loaded \ Running :
        Enabled(j) /\ ~retrying[j] =>
            next_run_at[j] <= next_run_after(configs[j], anchor[j])

\* An enabled job never falls off the schedule: every outcome, failed spawn,
\* bad edit and reload leaves it a next_run_at.
EnabledScheduled == \A j \in Jobs : Enabled(j) => next_run_at[j] # None

\* Auth retries do not go on for ever: since its last ok or terminal outcome a
\* job was granted no more retries than some config allows, although reloads
\* change `retries` while the budget in _retries_left is being spent.
RetryBudget ==
    \A j \in Jobs : streak[j] > 0 => \E c \in Configs : streak[j] <= c.retries

-----------------------------------------------------------------------------
(* What the documentation says and the code does not do.                    *)

\* doc/jobs.md:76: the thread "sleeps until the soonest" next run: it polls
\* with a zero timeout only when a job is due.
SleepsUntilDue == pc = "wait" /\ wakeup <= tnow => Due(tnow) # {}

\* doc/jobs.md:82: "`jobs reload` (SIGHUP) re-applies configs": not if promote raises,
\* since the event was cleared before (commands/server.py:694-698).
SighupHonoured ==
    \A j \in Jobs, c \in Configs :
        reload_event /\ staged[j] = c ~> configs[j] = c \/ staged[j] # c

-----------------------------------------------------------------------------
(* Liveness, under Fairness.                                                *)

\* No interleaving loses a SIGHUP: once the event is set the staged version is loaded
\* (unless it is edited again first, or the reload raises), even when the signal
\* arrives between the return of wait() and wake.clear(), or while a tick fails.
ReloadApplied ==
    \A j \in Jobs, c \in Configs :
        reload_event /\ staged[j] = c ~> configs[j] = c \/ staged[j] # c \/ lost

\* A worker past its deadline is stopped and its job freed, even when
\* terminate() raises and the tick is abandoned.
OverdueEnds ==
    \A j \in Jobs : j \in Overdue ~> j \notin Overdue

\* With room under the cap for every job, a due job is started (or fails to
\* spawn, or is rescheduled by a reload): the thread does not sleep through it.
DueStarts ==
    \A j \in Jobs : j \in Due(clock) ~> j \notin Due(clock)
=============================================================================

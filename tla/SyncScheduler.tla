---------------------------- MODULE SyncScheduler ----------------------------
(***************************************************************************)
(* `schwab dataset sync` (dataset/sync_scheduler.py): the daily run that   *)
(* makes sure of the session, starts the updaters as processes, waits for  *)
(* them in turn, each up to its timeout, retries once those that exited    *)
(* with EXIT_AUTH_FAILED after a full login, and leaves last_run.json.     *)
(* The updaters are the market-data run, in a slot of VolatilityUpdate,    *)
(* the accounts snapshot, and the indices, of which only the exit code is  *)
(* modelled.  Volatility runs are also started by hand, and a child        *)
(* outlives a scheduler that is killed: it has a session of its own.       *)
(***************************************************************************)
EXTENDS VolatilityUpdate

CONSTANTS
    AutoLogin,              \* auto_login_command is configured
    MaxSyncs, MaxManual     \* bounds of the model

ASSUME SyncAssumption ==
    /\ AutoLogin \in BOOLEAN /\ MaxSyncs \in Nat /\ MaxManual \in Nat
    /\ None \notin {"ok", "error", "auth", "killed", "spawn"}

VARIABLES
    sync,       \* the scheduler process
    last,       \* last_run.json; history: the jobs that were scheduled
    manuals, syncs

syncVars == <<sync, last, manuals, syncs>>
vars == <<updateVars, syncVars>>

\* UPDATERS, and the one of them that is waited for next: they are started and waited for
\* in this order.
Jobs == {"market-data", "accounts", "indices"}
Turn(js) ==
    CASE "market-data" \in js -> "market-data"
      [] "market-data" \notin js /\ "accounts" \in js -> "accounts"
      [] OTHER -> "indices"

NoResults == [j \in {} |-> None]
NoSync == [pc |-> "idle", started |-> 0, pass |-> 0, slot |-> None, jobs |-> {}, waiting |-> {},
           results |-> NoResults]

\* Of a run that failed the report is not told apart from none.
NoLast == [ok |-> FALSE, started |-> 0, finished |-> 0, jobs |-> {}]

\* The process of a job, and how it may have ended: the indices at any time, and an error
\* stands for the timeout as well.
Ended(j) ==
    CASE j = "market-data" -> run[sync.slot].pc = "done"
      [] j = "accounts" -> acct.pc = "done"
      [] j = "indices" -> TRUE
Code(j) ==
    CASE j = "market-data" -> {run[sync.slot].rc}
      [] j = "accounts" -> {acct.rc}
      [] j = "indices" -> {"ok", "error"}

\* A slot nobody waits for is empty again once its process ended.
Vacant == {p \in Runners : run[p].pc = "idle"}
Slot == CHOOSE p \in Vacant : TRUE

-----------------------------------------------------------------------------
(* run_daily_sync *)

\* _ensure_refresh_token_lifetime and _ensure_token_valid: a login that is attempted when
\* the refresh token is about to end, best effort.
LoginIfDue == session' \in IF AutoLogin THEN {session, "alive"} ELSE {session}

\* After it _job_commands passes over an updater whose command line cannot be built.  What
\* escapes from here reaches the outermost handler of run_daily_sync.
Start ==
    /\ sync.pc = "idle" /\ syncs < MaxSyncs
    /\ syncs' = syncs + 1
    /\ LoginIfDue
    /\ \/ /\ \E jobs \in SUBSET Jobs :
                /\ Fault(Cardinality(Jobs \ jobs))
                /\ sync' = [NoSync EXCEPT !.pc = "dispatch", !.started = day, !.pass = 1,
                                          !.jobs = jobs, !.waiting = jobs]
          /\ UNCHANGED last
       \/ /\ Fault(1)
          /\ last' = NoLast
          /\ UNCHANGED sync
    /\ UNCHANGED <<day, company, dbVars, run, acct, waited, overlapped, blind, manuals>>

\* _dispatch_parallel starts every job; one whose process cannot be started has failed.
\* Bug variant: such a job is left out of the results.
SpawnFailed_Dropped(results, bad) == results
SpawnFailed(results, bad) == [j \in DOMAIN results \cup bad |-> IF j \in bad THEN "spawn" ELSE results[j]]

Dispatch ==
    /\ sync.pc = "dispatch"
    /\ \E bad \in SUBSET sync.waiting :
        LET good == sync.waiting \ bad
            results == SpawnFailed(sync.results, bad)
            p == IF "market-data" \in good THEN Slot ELSE None
        IN    /\ "market-data" \in good => Vacant # {}
              /\ Fault(Cardinality(bad))
              /\ "accounts" \in good => acct.pc = "idle"
              /\ sync' = [sync EXCEPT !.pc = "wait", !.slot = p, !.results = results,
                                      !.waiting = good]
              /\ IF p = None THEN UNCHANGED <<run, overlapped>> ELSE Begin(p)
              /\ acct' = IF "accounts" \in good THEN [pc |-> "fetch", rc |-> None] ELSE acct
    /\ UNCHANGED <<worldVars, dbVars, waited, blind, last, manuals, syncs>>

\* The next child in turn has ended: its exit code is its result, also in place of the one
\* of the first pass.
Reported(results, j, code) ==
    [i \in DOMAIN results \cup {j} |-> IF i = j THEN code ELSE results[i]]

Collect ==
    LET j == Turn(sync.waiting)
    IN  /\ sync.pc = "wait" /\ sync.waiting # {} /\ Ended(j)
        /\ \E code \in Code(j) :
              /\ Fault(IF j = "indices" /\ code = "error" THEN 1 ELSE 0)
              /\ sync' = [sync EXCEPT !.waiting = @ \ {j}, !.results = Reported(@, j, code),
                                      !.slot = IF j = "market-data" THEN None ELSE @]
        /\ acct' = IF j = "accounts" THEN IdleAcct ELSE acct
        /\ run' = IF j = "market-data" THEN [run EXCEPT ![sync.slot] = IdleRun] ELSE run
    /\ UNCHANGED <<worldVars, dbVars, waited, overlapped, blind, last, manuals, syncs>>

\* It has not, within its timeout: its process group is killed.
TimeOut ==
    LET j == Turn(sync.waiting)
    IN  /\ sync.pc = "wait" /\ sync.waiting # {} /\ ~Ended(j)
        /\ IF j = "accounts"
           THEN acct' = [pc |-> "done", rc |-> "killed"] /\ UNCHANGED <<run, dbVars>>
           ELSE Killed(sync.slot) /\ UNCHANGED acct
    /\ UNCHANGED <<worldVars, waited, overlapped, blind, faults, syncVars>>

\* _maybe_retry_auth_failed: one full login, then only the children that failed for want
\* of it again; without the login the results stand.
AuthFailed == {j \in DOMAIN sync.results : sync.results[j] = "auth"}

Retry ==
    /\ sync.pc = "wait" /\ sync.waiting = {} /\ sync.pass = 1 /\ AuthFailed # {}
    /\ \/ /\ AutoLogin /\ session' = "alive"
          /\ sync' = [sync EXCEPT !.pc = "dispatch", !.pass = 2,
                                  !.waiting = AuthFailed]
       \/ /\ sync' = [sync EXCEPT !.pass = 2]
          /\ UNCHANGED session
    /\ UNCHANGED <<day, company, dbVars, run, acct, waited, overlapped, blind, faults,
                   last, manuals, syncs>>

\* The summary is written, unless the disk refuses, and the alert goes out.
Finished ==
    /\ sync.pc = "wait" /\ sync.waiting = {} /\ (sync.pass = 2 \/ AuthFailed = {})
    /\ \/ /\ last' = IF \A j \in DOMAIN sync.results : sync.results[j] = "ok"
                     THEN [ok |-> TRUE, started |-> sync.started, finished |-> day,
                           jobs |-> sync.jobs]
                     ELSE NoLast
          /\ UNCHANGED faults
       \/ Fault(1) /\ UNCHANGED last
    /\ sync' = NoSync
    /\ UNCHANGED <<worldVars, dbVars, run, acct, waited, overlapped, blind, manuals, syncs>>

\* The scheduler itself is killed; its children run on.
Die ==
    /\ sync.pc # "idle" /\ Fault(1)
    /\ sync' = NoSync
    /\ UNCHANGED <<worldVars, dbVars, run, acct, waited, overlapped, blind, last, manuals, syncs>>

SchedulerStep == Dispatch \/ Collect \/ TimeOut \/ Retry \/ Finished

-----------------------------------------------------------------------------
(* Runs nobody waits for. *)

\* `schwab dataset update --group volatility --skip-wait` by hand.
Manual ==
    /\ manuals < MaxManual
    /\ manuals' = manuals + 1
    /\ Vacant # {} /\ Begin(Slot)
    /\ UNCHANGED <<worldVars, dbVars, acct, waited, blind, faults, sync, last, syncs>>

Exit(p) ==
    /\ run[p].pc = "done" /\ sync.slot # p
    /\ run' = [run EXCEPT ![p] = IdleRun]
    /\ UNCHANGED <<worldVars, dbVars, acct, waited, overlapped, blind, faults, syncVars>>

ExitAccounts ==
    /\ acct.pc = "done" /\ ~(sync.pc = "wait" /\ "accounts" \in sync.waiting)
    /\ acct' = IdleAcct
    /\ UNCHANGED <<worldVars, dbVars, run, waited, overlapped, blind, faults, syncVars>>

SyncInit ==
    /\ Init
    /\ sync = NoSync /\ last = NoLast /\ manuals = 0 /\ syncs = 0

Next ==
    \/ (\E p \in Runners : RunStep(p)) /\ UNCHANGED syncVars
    \/ AcctStep /\ UNCHANGED syncVars
    \/ WorldStep /\ UNCHANGED syncVars
    \/ Start \/ SchedulerStep \/ Die
    \/ Manual \/ (\E p \in Runners : Exit(p)) \/ ExitAccounts

Spec == SyncInit /\ [][Next]_vars

-----------------------------------------------------------------------------
Codes == {None, "ok", "error", "auth", "killed", "spawn"}

DbType ==
    [rows : [Symbols -> [Days -> Nat]], full : [Symbols -> [Days -> Nat]],
     firms : [Symbols -> SUBSET Companies], ident : [Symbols -> Companies \cup {None}],
     quarantined : SUBSET Symbols, open : SUBSET Symbols, closed : [Symbols -> {0} \cup Days],
     tier : [Symbols -> {"GRACE", "ACTIVE", "WATCH", "FROZEN"}], nav : SUBSET Days]

\* The symbols whose sample is in the open transaction only.
Unsaved == {s \in Symbols : work.rows[s] # db.rows[s]}

\* The variables have their types, and what a crash of the writer would lose is less than a
\* batch: the samples in its open transaction are as many as it counted since its last commit
\* (run_volatility_update, _COMMIT_BATCH).
TypeOK ==
    /\ day \in Days /\ session \in {"alive", "dead"}
    /\ company \in [Symbols -> Companies]
    /\ db \in DbType
    /\ lock \in Runners \cup {None} /\ (IF lock = None THEN work = None ELSE work \in DbType)
    /\ \A p \in Runners : run[p].rc \in Codes /\ run[p].todo \subseteq Symbols
    /\ acct.rc \in Codes
    /\ sync.slot \in Runners \cup {None} /\ \A j \in DOMAIN sync.results : sync.results[j] \in Codes
    /\ lock # None => /\ Active(lock) /\ run[lock].since < Batch
                      /\ Cardinality(Unsaved) = run[lock].since

\* A symbol gets one full daily snapshot a day: through crashes, retries and runs repeated by
\* hand none is recorded twice unless two runs overlapped, and a run passes over only what
\* is stored: neither a partial snapshot of `schwab vol` nor a sample without a 30-day
\* volatility stands in for the daily one (_symbols_with_daily_snapshot_on_ny_day,
\* dataset/update.py).
OneDailyPoint ==
    /\ \A s \in Symbols, d \in Days : db.full[s][d] > 1 => d \in overlapped
    /\ \A p \in Runners : Active(p) =>
          \A s \in run[p].recorded : db.full[s][run[p].today] > 0

\* Snapshots of two companies end up under one ticker only where a run had no identity to
\* compare: the identity guard catches every reuse it can see, also after crashes that
\* roll it back (storage/identity.py, check_and_record_identity).
MergeNeedsBlindRun ==
    \A s \in Symbols : Cardinality(db.firms[s]) > 1 => s \in blind

\* last_run.json says success only if, since that run began, the account values and some
\* sample were stored, whatever was killed, retried, locked out or could not be started on the
\* way: for the jobs that were scheduled, and for the sample unless a day that is no trading
\* day lies between its start and its end (run_daily_sync, the exit codes of the updaters).
SuccessIsStored ==
    last.ok =>
        /\ "accounts" \in last.jobs => \E d \in db.nav : d >= last.started
        /\ "market-data" \in last.jobs =>
              \/ \E s \in Symbols, d \in last.started .. MaxDay : db.rows[s][d] > 0
              \/ \E d \in Holidays : last.started <= d /\ d <= last.finished

\* What sync_scheduler.py says of last_run.json: a health check can see whether the last run
\* succeeded.
SuccessAlwaysStored ==
    last.ok => /\ \E d \in db.nav : d >= last.started
               /\ \E s \in Symbols, d \in last.started .. MaxDay : db.full[s][d] > 0

\* What dataset/update.py says of a repeated run: it does not write a trading day twice.
NoDoubleWrite == \A s \in Symbols, d \in Days : db.rows[s][d] > 1 => d \in overlapped

\* What storage/identity.py says of a quarantined symbol: its history is not written and
\* only an explicit re-key clears the flag.
QuarantineKept ==
    [][\A s \in db.quarantined : s \in db'.quarantined /\ db'.rows[s] = db.rows[s]]_vars

\* What storage/vol_history.py says of the busy timeout: writers wait their turn instead of
\* failing.
WritersWait == \A p \in Procs : Waiting(p) => waited[p] < Patience
=============================================================================

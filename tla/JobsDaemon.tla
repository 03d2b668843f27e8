----------------------------- MODULE JobsDaemon -----------------------------
(***************************************************************************)
(* The jobs side of the `schwab server` process over its whole life: start *)
(* up (_start_jobs), the scheduler thread (run_scheduler_loop), shut down  *)
(* (_stop_jobs), a crash at any point, and the next start, with the files  *)
(* that outlive it: the staged job files, the promoted copies in .current, *)
(* state.json, the run-report markers and the pidfile.                     *)
(*                                                                         *)
(* JobScheduler models the scheduling inside one such life; here a tick    *)
(* only tells when files are read and written.  Which of the enabled, idle *)
(* jobs a tick starts is left open, so that every schedule, cap and retry  *)
(* is covered; so is the order in which promote visits the ids.            *)
(***************************************************************************)
EXTENDS Naturals, FiniteSets

CONSTANTS
    Jobs,       \* job ids
    Versions,   \* contents of a job file that parse
    Enabled,    \* those of them with enabled: true
    Bad,        \* a content that parse_job rejects
    None,       \* no file, no config
    State,      \* the id that promote gives state.json: its stem
    MaxStarts,  \* bound on the starts of the daemon
    MaxEdits    \* bound on the edits of the staged files

ASSUME JobsDaemonAssumption ==
    /\ IsFiniteSet(Jobs) /\ State \notin Jobs
    /\ Enabled \subseteq Versions
    /\ Bad \notin Versions /\ None \notin Versions /\ Bad # None
    /\ MaxStarts \in Nat /\ MaxEdits \in Nat

\* Files.
VARIABLES
    staged,     \* jobs/<id>.json
    current,    \* jobs/.current/<id>.json
    stateFile,  \* jobs/.current/state.json
    markers,    \* jobs with a file in jobs/.current/reports
    pidfile     \* the daemon jobs/.current/server.pid names, 0 without a file

\* The daemon.
VARIABLES
    inc,        \* which start of the daemon this is
    pc,         \* what _start_jobs or, later, the scheduler thread does next
    main,       \* what the main thread does
    todo,       \* ids, or markers, still to visit
    target,     \* the id whose file is being copied, or marker unlinked
    taken,      \* markers read in this tick
    invalid,    \* ids that promote found outdated or in error
    configs,    \* JobScheduler._configs
    memory,     \* JobScheduler._states
    hup,        \* reload_event
    stopping,   \* stop_event
    doomed      \* terminated_ids

VARIABLES
    worker,     \* worker[i][j]: the process that start i spawned for job j
    edits       \* number of edits so far

\* History variables: no action reads them.
VARIABLES
    ended,      \* how the last life of the daemon ended
    saved,      \* jobs with a run in some state.json, see HistorySurvives
    owed        \* what became of a job's last manual run, see ManualRunsRecorded

files == <<staged, current, stateFile, markers, pidfile>>
reading == <<todo, target, taken, invalid>>
process == <<inc, main, configs, memory, hup, stopping, doomed>>
outside == <<worker, edits, ended, saved, owed>>
vars == <<files, pc, reading, process, outside>>

Starts == 1..MaxStarts
Outcomes == {"none", "ran", "manual", "interrupted"}
RunState == [running : [Jobs -> {0} \cup Starts], last : [Jobs -> Outcomes]]
NoRuns == [running |-> [j \in Jobs |-> 0], last |-> [j \in Jobs |-> "none"]]

StartingPCs == {"orphans", "saveStart", "pidfile"}
PromotePCs == {"promote", "copy"}
LoopPCs == {"top", "drain", "unlink", "reap", "fire", "save", "check", "wait"}

Handles == {j \in Jobs : worker[inc][j] # "none"}
Running(t) == {j \in Jobs : t.running[j] # 0}

\* The ids promote collects: stems of *.json in either directory, so also
\* that of state.json.
Ids(file) == {j \in Jobs : staged[j] # None \/ current[j] # None}
             \cup (IF file = None THEN {} ELSE {State})

\* t with every job of S no longer running and its last outcome set to o.
Settled(t, S, o) ==
    [running |-> [j \in Jobs |-> IF j \in S THEN 0 ELSE t.running[j]],
     last |-> [j \in Jobs |-> IF j \in S THEN o ELSE t.last[j]]]
-----------------------------------------------------------------------------
TypeOK ==
    /\ staged \in [Jobs -> Versions \cup {Bad, None}]
    /\ current \in [Jobs -> Versions \cup {Bad, None}]
    /\ stateFile \in RunState \cup {None} /\ memory \in RunState
    /\ markers \in SUBSET Jobs /\ taken \in SUBSET Jobs
    /\ pidfile \in {0} \cup Starts /\ inc \in {0} \cup Starts
    /\ pc \in {"down", "ended"} \cup StartingPCs \cup PromotePCs \cup LoopPCs
    /\ main \in {"down", "starting", "serving", "joining", "joined", "late",
                 "graceJoined", "graceLate"}
    /\ todo \in SUBSET (Jobs \cup {State}) /\ target \in Jobs \cup {None}
    /\ invalid \in SUBSET Jobs /\ doomed \in SUBSET Jobs
    /\ configs \in [Jobs -> Versions \cup {None}]
    /\ hup \in BOOLEAN /\ stopping \in BOOLEAN
    /\ worker \in [Starts -> [Jobs -> {"none", "live", "done"}]]
    /\ edits \in 0..MaxEdits
    /\ ended \in {"never", "joined", "late", "raised", "crash"}
    /\ saved \in SUBSET Jobs /\ owed \in [Jobs -> {"none", "pending", "overtaken"}]

Init ==
    /\ staged \in [Jobs -> Versions \cup {Bad, None}]
    /\ current = [j \in Jobs |-> None] /\ stateFile = None
    /\ markers = {} /\ pidfile = 0 /\ inc = 0
    /\ pc = "down" /\ main = "down"
    /\ todo = {} /\ target = None /\ taken = {} /\ invalid = {}
    /\ configs = [j \in Jobs |-> None] /\ memory = NoRuns
    /\ hup = FALSE /\ stopping = FALSE /\ doomed = {}
    /\ worker = [i \in Starts |-> [j \in Jobs |-> "none"]]
    /\ edits = 0 /\ ended = "never" /\ saved = {} /\ owed = [j \in Jobs |-> "none"]

-----------------------------------------------------------------------------
(* Starting *)

\* Bug variant: a job whose recorded worker still lives stays running.
ReconciledIfDead(t) ==
    Settled(t, {j \in Running(t) : worker[t.running[j]][j] # "live"}, "interrupted")

\* reconcile_orphans with _proc_start_unknown: no recorded pid is ever
\* confirmed, so no process is killed and every job is marked interrupted.
Reconciled(t) == Settled(t, Running(t), "interrupted")

\* Bug variant: the daemon starts from an empty history.
LoadedEmpty == NoRuns

\* load_state: a missing file is an empty state.
LoadedState == IF stateFile = None THEN NoRuns ELSE stateFile

Start ==
    /\ pc = "down" /\ inc < MaxStarts
    /\ inc' = inc + 1
    /\ memory' = Reconciled(LoadedState)
    /\ pc' = "orphans" /\ main' = "starting"
    /\ UNCHANGED <<files, reading, configs, hup, stopping, doomed, outside>>

SaveState ==
    /\ stateFile' = memory
    /\ saved' = saved \cup {j \in Jobs : memory.last[j] # "none"}

BeginPromote(file) ==
    /\ pc' = "promote"
    /\ todo' = Ids(file) /\ invalid' = {}

SaveOrphans ==
    /\ pc = "orphans"
    /\ SaveState
    /\ BeginPromote(memory)
    /\ UNCHANGED <<staged, current, markers, pidfile, target, taken, process,
                   worker, edits, ended, owed>>

SaveStart ==
    /\ pc = "saveStart"
    /\ SaveState
    /\ pc' = "pidfile"
    /\ UNCHANGED <<staged, current, markers, pidfile, reading, process,
                   worker, edits, ended, owed>>

WritePidfile ==
    /\ pc = "pidfile"
    /\ pidfile' = inc
    /\ pc' = "top" /\ main' = IF stopping THEN "joining" ELSE "serving"
    /\ UNCHANGED <<staged, current, stateFile, markers, reading, inc, configs,
                   memory, hup, stopping, doomed, outside>>

-----------------------------------------------------------------------------
(* apply_reload: promote every id, then load what was promoted *)

Visit(j) ==
    /\ pc = "promote" /\ j \in todo
    /\ todo' = todo \ {j}
    /\ UNCHANGED <<taken, process, outside>>

\* Bug variant: a file that does not parse counts as removed.
GoneOrBad(j) == staged[j] \notin Versions /\ current[j] # None

\* Present in .current and gone from staging.
Gone(j) == staged[j] = None /\ current[j] # None

Unload(j) ==
    /\ Visit(j) /\ Gone(j)
    /\ current' = [current EXCEPT ![j] = None]
    /\ UNCHANGED <<staged, stateFile, markers, pidfile, pc, target, invalid>>

\* Outdated, or in error: .current is left alone.
Reject(j) ==
    /\ Visit(j) /\ staged[j] \notin Versions /\ ~Gone(j)
    /\ invalid' = invalid \cup {j}
    /\ UNCHANGED <<files, pc, target>>

Keep(j) ==
    /\ Visit(j) /\ staged[j] \in Versions /\ current[j] = staged[j]
    /\ UNCHANGED <<files, pc, target, invalid>>

BeginCopy(j) ==
    /\ Visit(j) /\ staged[j] \in Versions /\ current[j] # staged[j]
    /\ pc' = "copy" /\ target' = j
    /\ UNCHANGED <<files, invalid>>

\* _atomic_write reads the staged file again: the user may have edited it
\* since it was parsed.
Copy ==
    /\ pc = "copy" /\ staged[target] # None
    /\ current' = [current EXCEPT ![target] = staged[target]]
    /\ pc' = "promote" /\ target' = None
    /\ UNCHANGED <<staged, stateFile, markers, pidfile, todo, taken, invalid,
                   process, outside>>

\* state.json has no staged namesake: promote removes it.
UnlinkState ==
    /\ Visit(State)
    /\ stateFile' = None
    /\ UNCHANGED <<staged, current, markers, pidfile, pc, target, invalid>>

\* Bug variant: load_jobs takes a file that does not parse.
LoadableUnparsed(j) == current[j] # None

\* What load_jobs returns as valid.
Loadable(j) == current[j] \in Versions

\* scheduler.reload on what load_jobs finds.  An invalid id keeps the config
\* it has, none if it was not loaded before.
Load ==
    /\ pc = "promote" /\ todo = {}
    /\ configs' = [j \in Jobs |->
           IF j \in invalid THEN configs[j]
           ELSE IF Loadable(j) THEN current[j] ELSE None]
    /\ pc' = IF main = "starting" THEN "saveStart" ELSE "wait"
    /\ UNCHANGED <<files, reading, inc, main, memory, hup, stopping, doomed, outside>>

-----------------------------------------------------------------------------
(* The scheduler thread *)

\* Bug variant: markers of jobs that are not loaded are left where they are.
PendingLoaded == {j \in markers : configs[j] # None}

Pending == markers

LoopTop ==
    /\ pc = "top"
    /\ \/ stopping /\ pc' = "ended" /\ UNCHANGED todo
       \/ ~stopping /\ pc' = "drain" /\ todo' = Pending
    /\ UNCHANGED <<files, target, taken, invalid, process, outside>>

\* drain_run_reports reads each marker, then unlinks it.
DrainRead(j) ==
    /\ pc = "drain" /\ j \in todo
    /\ taken' = taken \cup {j} /\ target' = j
    /\ pc' = "unlink"
    /\ UNCHANGED <<files, todo, invalid, process, outside>>

DrainUnlink ==
    /\ pc = "unlink"
    /\ markers' = markers \ {target}
    /\ todo' = todo \ {target} /\ target' = None
    /\ pc' = "drain"
    /\ UNCHANGED <<staged, current, stateFile, pidfile, taken, invalid, process, outside>>

Ingest ==
    /\ pc = "drain" /\ todo = {}
    /\ memory' = [memory EXCEPT !.last =
                     [j \in Jobs |-> IF j \in taken THEN "manual" ELSE @[j]]]
    /\ owed' = [j \in Jobs |->
           IF /\ j \in taken \ markers /\ memory'.last[j] = "manual"
              /\ owed[j] = "pending"
           THEN "none" ELSE owed[j]]
    /\ taken' = {}
    /\ pc' = "reap"
    /\ UNCHANGED <<files, todo, target, invalid, inc, main, configs, hup, stopping,
                   doomed, worker, edits, ended, saved>>

Reap ==
    /\ pc = "reap"
    /\ LET exited == {j \in Jobs : worker[inc][j] = "done"}
       IN  /\ worker' = [worker EXCEPT ![inc] =
                  [j \in Jobs |-> IF j \in exited THEN "none" ELSE @[j]]]
           /\ memory' = Settled(memory, exited, "ran")
    /\ pc' = "fire"
    /\ UNCHANGED <<files, reading, inc, main, configs, hup, stopping, doomed,
                   edits, ended, saved, owed>>

\* enforce_timeouts signals a worker that has just exited, and killpg raises: the
\* loop gives the tick up before fire_due and the save.
TickAbandoned ==
    /\ pc = "fire" /\ \E j \in Jobs : worker[inc][j] = "done"
    /\ pc' = "wait"
    /\ UNCHANGED <<files, reading, process, outside>>

Fire ==
    /\ pc = "fire"
    /\ \E due \in SUBSET {j \in Jobs \ Handles : configs[j] \in Enabled} :
           /\ worker' = [worker EXCEPT ![inc] =
                  [j \in Jobs |-> IF j \in due THEN "live" ELSE @[j]]]
           /\ memory' = [memory EXCEPT !.running =
                  [j \in Jobs |-> IF j \in due THEN inc ELSE @[j]]]
    /\ pc' = "save"
    /\ UNCHANGED <<files, reading, inc, main, configs, hup, stopping, doomed,
                   edits, ended, saved, owed>>

TickSaves ==
    /\ pc = "save"
    /\ SaveState
    /\ pc' = "check"
    /\ UNCHANGED <<staged, current, markers, pidfile, reading, process,
                   worker, edits, ended, owed>>

CheckReload ==
    /\ pc = "check"
    /\ hup' = FALSE
    /\ \/ hup /\ BeginPromote(stateFile)
       \/ ~hup /\ pc' = "wait" /\ UNCHANGED <<todo, invalid>>
    /\ UNCHANGED <<files, target, taken, inc, main, configs, memory, stopping,
                   doomed, outside>>

WaitEnds ==
    /\ pc = "wait"
    /\ pc' = "top"
    /\ UNCHANGED <<files, reading, process, outside>>

-----------------------------------------------------------------------------
(* Stopping *)

\* SIGTERM or SIGINT.  While the daemon starts, the main thread sees it when
\* it gets to stop_event.wait().
Sigterm ==
    /\ main \in {"starting", "serving"} /\ ~stopping
    /\ stopping' = TRUE
    /\ main' = IF main = "serving" THEN "joining" ELSE main
    /\ UNCHANGED <<files, pc, reading, inc, configs, memory, hup, doomed, outside>>

\* Bug variant: _stop_jobs does not wait for the thread.
ThreadEndedIgnored == TRUE

ThreadEnded == pc = "ended"

\* thread.join(timeout=5): the thread ended, or the main thread goes on.
Join ==
    /\ main = "joining"
    /\ \/ ThreadEnded /\ main' = "joined"
       \/ ~ThreadEnded /\ main' = "late"
    /\ UNCHANGED <<files, pc, reading, inc, configs, memory, hup, stopping,
                   doomed, outside>>

\* terminate_children signals the children it finds ...
Terminate ==
    /\ main \in {"joined", "late"}
    /\ doomed' = Handles
    /\ main' = IF main = "joined" THEN "graceJoined" ELSE "graceLate"
    /\ UNCHANGED <<files, pc, reading, inc, configs, memory, hup, stopping, outside>>

\* The process is gone, and what it had in memory.
Down(how) ==
    /\ pc' = "down" /\ main' = "down" /\ ended' = how
    /\ todo' = {} /\ target' = None /\ taken' = {} /\ invalid' = {}
    /\ configs' = [j \in Jobs |-> None] /\ memory' = NoRuns
    /\ hup' = FALSE /\ stopping' = FALSE /\ doomed' = {}
    /\ saved' = IF stateFile = None THEN {} ELSE saved
    /\ owed' = [j \in Jobs |-> IF j \in markers THEN "pending" ELSE "none"]
    /\ UNCHANGED <<staged, current, stateFile, markers, inc, edits>>

\* An exited worker nobody reaps any more.
Reparented == [worker EXCEPT ![inc] =
                  [j \in Jobs |-> IF @[j] = "done" THEN "none" ELSE @[j]]]

\* ... and, after a grace period, kills whatever handles there are; then the
\* pidfile is removed and the process exits.  With no child at the start
\* there is no grace period and nobody is killed.  Nothing is saved.
StopEnds ==
    /\ main \in {"graceJoined", "graceLate"}
    /\ worker' = IF doomed = {} THEN Reparented
                 ELSE [worker EXCEPT ![inc] = [j \in Jobs |-> "none"]]
    /\ pidfile' = 0
    /\ Down(IF main = "graceJoined" THEN "joined" ELSE "late")

\* killpg raises for the group of a worker that has exited and is not reaped, at
\* kill time if it exits between its poll and its kill.  A thread that was not
\* joined may also reap, or change the dict, under the loops over it.
SignalRaises(j) ==
    /\ j \in Handles
    /\ worker[inc][j] = "done" \/ main \in {"late", "graceLate"}

\* The exception leaves _stop_jobs and ends the process: nobody is killed that was
\* not reached, and the pidfile stays.
StopRaises ==
    /\ \/ main \in {"joined", "late"}
       \/ main \in {"graceJoined", "graceLate"} /\ doomed # {}
    /\ \E j \in Jobs : SignalRaises(j)
    /\ \E killed \in SUBSET (IF main \in {"joined", "late"} THEN {} ELSE Handles) :
           worker' = [worker EXCEPT ![inc] =
               [j \in Jobs |-> IF j \in killed THEN "none" ELSE Reparented[inc][j]]]
    /\ Down("raised")
    /\ UNCHANGED pidfile

\* The staged file vanished between its parse and its copy.  In the loop the
\* reload is given up; while starting the exception ends the daemon, through
\* a _stop_jobs that has no thread and no scheduler.
CopyRaises ==
    /\ pc = "copy" /\ staged[target] = None
    /\ \/ /\ main # "starting"
          /\ pc' = "wait" /\ target' = None /\ todo' = {}
          /\ UNCHANGED <<files, taken, invalid, process, outside>>
       \/ /\ main = "starting"
          /\ pidfile' = 0
          /\ Down("joined")
          /\ UNCHANGED worker

-----------------------------------------------------------------------------
(* Everybody else *)

\* The process dies anywhere.
Crash ==
    /\ pc # "down"
    /\ worker' = Reparented
    /\ Down("crash")
    /\ UNCHANGED pidfile

\* A worker outlives its daemon: it leads a session of its own.
WorkerExits(i, j) ==
    /\ worker[i][j] = "live"
    /\ worker' = [worker EXCEPT ![i][j] = IF i = inc /\ pc # "down" THEN "done" ELSE "none"]
    /\ UNCHANGED <<files, pc, reading, process, edits, ended, saved, owed>>

\* `schwab jobs run` of a promoted job, by hand: its marker is written, over the
\* one of an earlier run.  Between the read and the unlink of that one it is the
\* new marker that is unlinked, unread.
ManualRun(j) ==
    /\ current[j] \in Versions
    /\ markers' = markers \cup {j}
    /\ owed' = [owed EXCEPT ![j] =
                   IF pc = "unlink" /\ target = j THEN "overtaken" ELSE "pending"]
    /\ UNCHANGED <<staged, current, stateFile, pidfile, pc, reading, process,
                   worker, edits, ended, saved>>

\* The user, or `schwab jobs enable|disable`, rewrites a staged file.
Edit(j, content) ==
    /\ edits < MaxEdits /\ content # staged[j]
    /\ staged' = [staged EXCEPT ![j] = content]
    /\ edits' = edits + 1
    /\ UNCHANGED <<current, stateFile, markers, pidfile, pc, reading, process,
                   worker, ended, saved, owed>>

\* `schwab jobs reload`, `enable`, `disable` signal the process the pidfile names.
Sighup ==
    /\ pidfile = inc /\ pc # "down" /\ ~hup
    /\ hup' = TRUE
    /\ UNCHANGED <<files, pc, reading, inc, main, configs, memory, stopping,
                   doomed, outside>>

Starting == Start \/ SaveOrphans \/ SaveStart \/ WritePidfile
Promote ==
    \/ \E j \in Jobs : Unload(j) \/ Reject(j) \/ Keep(j) \/ BeginCopy(j)
    \/ Copy \/ CopyRaises \/ UnlinkState \/ Load
Loop ==
    \/ LoopTop
    \/ \E j \in Jobs : DrainRead(j)
    \/ DrainUnlink \/ Ingest \/ Reap \/ TickAbandoned \/ Fire \/ TickSaves \/ CheckReload \/ WaitEnds
Stopping == Sigterm \/ Join \/ Terminate \/ StopEnds \/ StopRaises
Environment ==
    \/ Crash \/ Sighup
    \/ \E i \in Starts, j \in Jobs : WorkerExits(i, j)
    \/ \E j \in Jobs : ManualRun(j)
    \/ \E j \in Jobs, content \in Versions \cup {Bad, None} : Edit(j, content)

Next == Starting \/ Promote \/ Loop \/ Stopping \/ Environment

Spec == Init /\ [][Next]_vars

\* The scheduler thread is never held up for ever: its calls have timeouts.
FairSpec == Spec /\ WF_vars(Promote) /\ WF_vars(Loop)
-----------------------------------------------------------------------------
(* Properties *)

Serving == main = "serving"

\* state.json of a daemon that is past its start never calls a job running on
\* account of a worker of an earlier daemon, and right after a tick it names
\* exactly the jobs whose workers have not been reaped: reconcile_orphans,
\* terminate_children, reap and fire_due with the saves between them.
NoPhantomRunning ==
    pc \notin {"down", "orphans"} /\ stateFile # None =>
        /\ \A j \in Jobs : stateFile.running[j] \in {0, inc}
        /\ pc = "check" /\ Serving => Running(stateFile) = Handles

\* A stop that waited for the scheduler thread and in which no signal raised
\* leaves no worker behind and no pidfile: the join comes before
\* terminate_children, which no later fire_due can then escape.
JoinedStopClean ==
    pc = "down" /\ ended = "joined" =>
        Handles = {} /\ pidfile # inc

\* A job that has ever been in state.json with a last run is never shown
\* without one again, over any number of reloads, stops and restarts, unless
\* the daemon went down between promote's removal of state.json and the next
\* save: that window is the only one.
HistorySurvives ==
    main # "down" => \A j \in saved : memory.last[j] # "none"

\* A staged file that does not parse costs nothing as long as the process
\* lives: promote leaves the last good copy alone, and no reload takes the
\* job off the schedule.  (A file that breaks between its parse and its copy
\* is copied: _atomic_write reads it again.)
LastGoodKept ==
    [][\A j \in Jobs :
           staged[j] = Bad /\ current[j] \in Versions /\ target # j =>
               /\ current'[j] = current[j]
               /\ configs[j] # None /\ pc' # "down" => configs'[j] # None]_vars

\* As long as the daemon serves, the last manual run of a job gets into the job's
\* state (unless the job is run by hand for ever): the run is in the memory that
\* the tick then saves, whatever the job's config, also if it was rewritten while
\* older markers were being read, but not if it overtook the unlink of its own.
ManualRunsRecorded ==
    \A j \in Jobs :
        \/ []<><<ManualRun(j)>>_vars
        \/ Serving /\ owed[j] = "pending" ~> ~Serving \/ owed[j] # "pending"

\* server/jobs/scheduler.py:316-318: the scheduler "drains them here so a manual
\* run's last_run is recorded".  Not one that rewrote its marker under the unlink.
EveryManualRunRecorded ==
    \A j \in Jobs :
        \/ []<><<ManualRun(j)>>_vars
        \/ Serving /\ owed[j] # "none" ~> ~Serving \/ owed[j] = "none"

\* commands/server.py:724: "Stop the job scheduler thread, terminate children,
\* remove the pidfile".  Not if a signal to a child raises.
StopAlwaysClean ==
    pc = "down" /\ ended \in {"joined", "raised"} =>
        Handles = {} /\ pidfile # inc

\* doc/jobs.md:45-46: "the last-good version keeps running [...] a bad edit
\* never takes a working job down".
BadEditKeepsJob ==
    \A j \in Jobs :
        /\ Serving /\ pc \in LoopPCs
        /\ staged[j] = Bad /\ current[j] \in Versions
        => configs[j] # None
=============================================================================

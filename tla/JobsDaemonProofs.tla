-------------------------- MODULE JobsDaemonProofs --------------------------
(***************************************************************************)
(* Theorems about JobsDaemon, for any finite set of jobs, any contents of  *)
(* their files and any number of starts and edits.                         *)
(***************************************************************************)
EXTENDS JobsDaemon, TLAPS

-----------------------------------------------------------------------------
(* The inductive invariant *)

\* Where the process and its two threads are.  A start that has not come yet has
\* no worker.
Control ==
    /\ pc = "down" <=> main = "down"
    /\ pc # "down" \/ ended # "never" => inc # 0
    /\ pc \in StartingPCs => main = "starting"
    /\ main = "starting" => pc \in StartingPCs \cup PromotePCs
    /\ pc \in {"copy", "unlink"} => target \in Jobs
    /\ \A i \in Starts : i > inc => \A j \in Jobs : worker[i][j] = "none"

\* The states in memory name exactly the workers that this daemon has spawned and
\* not reaped; the file follows them.
Books ==
    /\ pc # "down" => \A j \in Jobs :
           memory.running[j] = IF worker[inc][j] = "none" THEN 0 ELSE inc
    /\ pc \notin {"down", "orphans"} /\ stateFile # None =>
           \A j \in Jobs : stateFile.running[j] \in {0, inc}
    /\ pc = "check" => stateFile = memory

\* While the daemon starts, and once its thread has ended, no worker is added.
Stops ==
    /\ main = "starting" => Handles = {}
    /\ main \in {"joined", "graceJoined"} => pc = "ended"
    /\ main = "graceJoined" => Handles \subseteq doomed
    /\ JoinedStopClean

\* What has been saved is in memory, and in the file if there is one.
History ==
    /\ HistorySurvives
    /\ stateFile # None => \A j \in saved : stateFile.last[j] # "none"
    /\ pc = "down" /\ stateFile = None => saved = {}

IInv == TypeOK /\ Control /\ Books /\ Stops /\ History

LEMMA NoRunsTyped == NoRuns \in RunState
  BY DEF NoRuns, RunState, Outcomes

\* A process that starts has spawned nothing, and takes over no run.
LEMMA StartIsFresh ==
  ASSUME IInv, Start
  PROVE  /\ inc' \in Starts /\ inc' > inc /\ worker' = worker
         /\ \A j \in Jobs : worker[inc'][j] = "none" /\ memory'.running[j] = 0
<1>1. inc' \in Starts /\ inc' > inc /\ worker' = worker
  BY JobsDaemonAssumption DEF IInv, TypeOK, Start, outside, Starts
<1>2. \A j \in Jobs : worker[inc'][j] = "none"
  BY <1>1 DEF IInv, Control
<1>3. LoadedState \in RunState
  BY NoRunsTyped DEF IInv, TypeOK, LoadedState
<1>4. \A j \in Jobs : memory'.running[j] = 0
  BY <1>3 DEF Start, Reconciled, Settled, Running, RunState
<1> QED BY <1>1, <1>2, <1>4

\* A process that goes down leaves typed values behind.
LEMMA DownTyped ==
  ASSUME TypeOK, NEW how \in {"joined", "late", "raised", "crash"}, Down(how),
         worker' \in [Starts -> [Jobs -> {"none", "live", "done"}]],
         pidfile' \in {0} \cup Starts
  PROVE  TypeOK'
BY NoRunsTyped DEF TypeOK, Down

LEMMA TypeOKKept ==
  ASSUME IInv, [Next]_vars
  PROVE  TypeOK'
<1> USE DEF files, reading, process, outside
<1>0. TypeOK /\ Control
  BY DEF IInv
<1>1. CASE Start
  BY <1>0, <1>1, JobsDaemonAssumption DEF TypeOK, Control, StartingPCs, PromotePCs, LoopPCs, Start, Reconciled, LoadedState, Settled, RunState, NoRuns, Outcomes, Starts
<1>2. CASE SaveOrphans \/ SaveStart \/ TickSaves
  BY <1>0, <1>2, JobsDaemonAssumption DEF TypeOK, Control, StartingPCs, PromotePCs, LoopPCs, SaveOrphans, SaveStart, TickSaves, SaveState, BeginPromote, Ids
<1>3. CASE WritePidfile
  BY <1>0, <1>3, JobsDaemonAssumption DEF TypeOK, Control, StartingPCs, PromotePCs, LoopPCs, WritePidfile
<1>4. CASE \E j \in Jobs : Unload(j) \/ Reject(j) \/ Keep(j) \/ BeginCopy(j)
  BY <1>0, <1>4, JobsDaemonAssumption DEF TypeOK, Control, StartingPCs, PromotePCs, LoopPCs, Visit, Unload, Reject, Keep, BeginCopy
<1>5. CASE Copy
  BY <1>0, <1>5, JobsDaemonAssumption DEF TypeOK, Control, StartingPCs, PromotePCs, LoopPCs, Copy
<1>6. CASE CopyRaises
  <2>1. CASE main # "starting"
    BY <1>0, <1>6, <2>1 DEF TypeOK, LoopPCs, CopyRaises
  <2>2. CASE main = "starting"
    BY <1>0, <1>6, <2>2, DownTyped DEF TypeOK, CopyRaises
  <2> QED BY <2>1, <2>2
<1>7. CASE UnlinkState
  BY <1>0, <1>7, JobsDaemonAssumption DEF TypeOK, Control, StartingPCs, PromotePCs, LoopPCs, Visit, UnlinkState
<1>8. CASE Load
  BY <1>0, <1>8, JobsDaemonAssumption DEF TypeOK, Control, StartingPCs, PromotePCs, LoopPCs, Load, Loadable
<1>9. CASE LoopTop
  BY <1>0, <1>9, JobsDaemonAssumption DEF TypeOK, Control, StartingPCs, PromotePCs, LoopPCs, LoopTop, Pending
<1>10. CASE (\E j \in Jobs : DrainRead(j)) \/ DrainUnlink
  BY <1>0, <1>10, JobsDaemonAssumption DEF TypeOK, Control, StartingPCs, PromotePCs, LoopPCs, DrainRead, DrainUnlink
<1>11. CASE Ingest
  BY <1>0, <1>11, JobsDaemonAssumption DEF TypeOK, Control, StartingPCs, PromotePCs, LoopPCs, Ingest, RunState, Outcomes
<1>12. CASE Reap
  BY <1>0, <1>12, JobsDaemonAssumption DEF TypeOK, Control, StartingPCs, PromotePCs, LoopPCs, Reap, Settled, RunState, Outcomes, Starts
<1>13. CASE Fire
  <2>1. memory' \in RunState /\ worker' \in [Starts -> [Jobs -> {"none", "live", "done"}]]
    BY <1>0, <1>13 DEF TypeOK, Control, LoopPCs, Fire, RunState, Starts
  <2> QED BY <1>0, <1>13, <2>1 DEF TypeOK, LoopPCs, Fire
<1>14. CASE CheckReload
  BY <1>0, <1>14, JobsDaemonAssumption DEF TypeOK, Control, StartingPCs, PromotePCs, LoopPCs, CheckReload, BeginPromote, Ids
<1>15. CASE TickAbandoned \/ WaitEnds
  BY <1>0, <1>15, JobsDaemonAssumption DEF TypeOK, Control, StartingPCs, PromotePCs, LoopPCs, TickAbandoned, WaitEnds
<1>16. CASE Sigterm
  BY <1>0, <1>16, JobsDaemonAssumption DEF TypeOK, Control, StartingPCs, PromotePCs, LoopPCs, Sigterm
<1>17. CASE Join
  BY <1>0, <1>17, JobsDaemonAssumption DEF TypeOK, Control, StartingPCs, PromotePCs, LoopPCs, Join, ThreadEnded
<1>18. CASE Terminate
  BY <1>0, <1>18, JobsDaemonAssumption DEF TypeOK, Control, StartingPCs, PromotePCs, LoopPCs, Terminate, Handles
<1>19. CASE StopEnds
  <2>1. worker' \in [Starts -> [Jobs -> {"none", "live", "done"}]]
    BY <1>0, <1>19 DEF TypeOK, StopEnds, Reparented
  <2> QED BY <1>0, <1>19, <2>1, DownTyped DEF TypeOK, StopEnds
<1>20. CASE StopRaises
  <2>1. worker' \in [Starts -> [Jobs -> {"none", "live", "done"}]]
    <3>1. inc \in Starts
      BY <1>0, <1>20 DEF TypeOK, Control, StopRaises
    <3>2. Reparented \in [Starts -> [Jobs -> {"none", "live", "done"}]]
      BY <1>0 DEF TypeOK, Reparented
    <3>3. PICK killed \in SUBSET Jobs : worker' = [worker EXCEPT ![inc] =
                 [j \in Jobs |-> IF j \in killed THEN "none" ELSE Reparented[inc][j]]]
      BY <1>20 DEF StopRaises, Handles
    <3>4. [j \in Jobs |-> IF j \in killed THEN "none" ELSE Reparented[inc][j]]
              \in [Jobs -> {"none", "live", "done"}]
      BY <3>1, <3>2
    <3> QED BY <1>0, <3>1, <3>3, <3>4 DEF TypeOK
  <2> QED BY <1>0, <1>20, <2>1, DownTyped DEF TypeOK, StopRaises
<1>21. CASE Crash
  <2>1. worker' \in [Starts -> [Jobs -> {"none", "live", "done"}]]
    BY <1>0, <1>21 DEF TypeOK, Crash, Reparented
  <2> QED BY <1>0, <1>21, <2>1, DownTyped DEF TypeOK, Crash
<1>22. CASE Sighup
  BY <1>0, <1>22, JobsDaemonAssumption DEF TypeOK, Control, StartingPCs, PromotePCs, LoopPCs, Sighup
<1>23. CASE \E i \in Starts, j \in Jobs : WorkerExits(i, j)
  BY <1>0, <1>23, JobsDaemonAssumption DEF TypeOK, Control, StartingPCs, PromotePCs, LoopPCs, WorkerExits
<1>24. CASE \E j \in Jobs : ManualRun(j)
  BY <1>0, <1>24, JobsDaemonAssumption DEF TypeOK, Control, StartingPCs, PromotePCs, LoopPCs, ManualRun
<1>25. CASE \E j \in Jobs, content \in Versions \cup {Bad, None} : Edit(j, content)
  BY <1>0, <1>25, JobsDaemonAssumption DEF TypeOK, Control, StartingPCs, PromotePCs, LoopPCs, Edit
<1>26. CASE UNCHANGED vars
  BY <1>0, <1>26, JobsDaemonAssumption DEF TypeOK, Control, StartingPCs, PromotePCs, LoopPCs, vars
<1> QED BY <1>1, <1>2, <1>3, <1>4, <1>5, <1>6, <1>7, <1>8, <1>9, <1>10, <1>11, <1>12, <1>13, <1>14, <1>15, <1>16, <1>17, <1>18, <1>19, <1>20, <1>21, <1>22, <1>23, <1>24, <1>25, <1>26 DEF Next, Starting, Promote, Loop, Stopping, Environment

LEMMA ControlKept ==
  ASSUME IInv, [Next]_vars
  PROVE  Control'
<1> USE DEF files, reading, process, outside
<1>0. TypeOK /\ Control
  BY DEF IInv
<1>1. CASE Start
  BY <1>0, <1>1 DEF TypeOK, Control, StartingPCs, PromotePCs, LoopPCs, Start, Starts
<1>2. CASE SaveOrphans \/ SaveStart \/ TickSaves
  BY <1>0, <1>2 DEF TypeOK, Control, StartingPCs, PromotePCs, LoopPCs, SaveOrphans, SaveStart, TickSaves, SaveState, BeginPromote
<1>3. CASE WritePidfile
  BY <1>0, <1>3 DEF TypeOK, Control, StartingPCs, PromotePCs, LoopPCs, WritePidfile
<1>4. CASE \E j \in Jobs : Unload(j) \/ Reject(j) \/ Keep(j) \/ BeginCopy(j)
  BY <1>0, <1>4 DEF TypeOK, Control, StartingPCs, PromotePCs, LoopPCs, Visit, Unload, Reject, Keep, BeginCopy
<1>5. CASE Copy
  BY <1>0, <1>5 DEF TypeOK, Control, StartingPCs, PromotePCs, LoopPCs, Copy
<1>6. CASE CopyRaises
  BY <1>0, <1>6 DEF TypeOK, Control, StartingPCs, PromotePCs, LoopPCs, CopyRaises, Down
<1>7. CASE UnlinkState
  BY <1>0, <1>7 DEF TypeOK, Control, StartingPCs, PromotePCs, LoopPCs, Visit, UnlinkState
<1>8. CASE Load
  BY <1>0, <1>8 DEF TypeOK, Control, StartingPCs, PromotePCs, LoopPCs, Load
<1>9. CASE LoopTop
  BY <1>0, <1>9 DEF TypeOK, Control, StartingPCs, PromotePCs, LoopPCs, LoopTop
<1>10. CASE (\E j \in Jobs : DrainRead(j)) \/ DrainUnlink
  BY <1>0, <1>10 DEF TypeOK, Control, StartingPCs, PromotePCs, LoopPCs, DrainRead, DrainUnlink
<1>11. CASE Ingest
  BY <1>0, <1>11 DEF TypeOK, Control, StartingPCs, PromotePCs, LoopPCs, Ingest
<1>12. CASE Reap
  BY <1>0, <1>12 DEF TypeOK, Control, StartingPCs, PromotePCs, LoopPCs, Reap, Starts
<1>13. CASE Fire
  BY <1>0, <1>13 DEF TypeOK, Control, StartingPCs, PromotePCs, LoopPCs, Fire, Starts
<1>14. CASE CheckReload
  BY <1>0, <1>14 DEF TypeOK, Control, StartingPCs, PromotePCs, LoopPCs, CheckReload, BeginPromote
<1>15. CASE TickAbandoned \/ WaitEnds
  BY <1>0, <1>15 DEF TypeOK, Control, StartingPCs, PromotePCs, LoopPCs, TickAbandoned, WaitEnds
<1>16. CASE Sigterm
  BY <1>0, <1>16 DEF TypeOK, Control, StartingPCs, PromotePCs, LoopPCs, Sigterm
<1>17. CASE Join
  BY <1>0, <1>17 DEF TypeOK, Control, StartingPCs, PromotePCs, LoopPCs, Join, ThreadEnded
<1>18. CASE Terminate
  BY <1>0, <1>18 DEF TypeOK, Control, StartingPCs, PromotePCs, LoopPCs, Terminate
<1>19. CASE StopEnds
  BY <1>0, <1>19 DEF TypeOK, Control, StartingPCs, PromotePCs, LoopPCs, StopEnds, Down, Reparented, Starts
<1>20. CASE StopRaises
  BY <1>0, <1>20 DEF TypeOK, Control, StartingPCs, PromotePCs, LoopPCs, StopRaises, SignalRaises, Down, Reparented, Starts
<1>21. CASE Crash
  BY <1>0, <1>21 DEF TypeOK, Control, StartingPCs, PromotePCs, LoopPCs, Crash, Down, Reparented, Starts
<1>22. CASE Sighup
  BY <1>0, <1>22 DEF TypeOK, Control, StartingPCs, PromotePCs, LoopPCs, Sighup
<1>23. CASE \E i \in Starts, j \in Jobs : WorkerExits(i, j)
  BY <1>0, <1>23 DEF TypeOK, Control, StartingPCs, PromotePCs, LoopPCs, WorkerExits, Starts
<1>24. CASE \E j \in Jobs : ManualRun(j)
  BY <1>0, <1>24 DEF TypeOK, Control, StartingPCs, PromotePCs, LoopPCs, ManualRun
<1>25. CASE \E j \in Jobs, content \in Versions \cup {Bad, None} : Edit(j, content)
  BY <1>0, <1>25 DEF TypeOK, Control, StartingPCs, PromotePCs, LoopPCs, Edit
<1>26. CASE UNCHANGED vars
  BY <1>0, <1>26 DEF TypeOK, Control, StartingPCs, PromotePCs, LoopPCs, vars
<1> QED BY <1>1, <1>2, <1>3, <1>4, <1>5, <1>6, <1>7, <1>8, <1>9, <1>10, <1>11, <1>12, <1>13, <1>14, <1>15, <1>16, <1>17, <1>18, <1>19, <1>20, <1>21, <1>22, <1>23, <1>24, <1>25, <1>26 DEF Next, Starting, Promote, Loop, Stopping, Environment

LEMMA BooksKept ==
  ASSUME IInv, [Next]_vars
  PROVE  Books'
<1> USE DEF files, reading, process, outside
<1>0. TypeOK /\ Control /\ Books
  BY DEF IInv
<1>1. CASE Start
  BY <1>0, <1>1, StartIsFresh DEF TypeOK, Books, Start
<1>2. CASE SaveOrphans \/ SaveStart \/ TickSaves
  BY <1>0, <1>2 DEF TypeOK, Control, Books, StartingPCs, PromotePCs, SaveOrphans, SaveStart, TickSaves, SaveState, BeginPromote, RunState
<1>3. CASE WritePidfile
  BY <1>0, <1>3 DEF TypeOK, Control, Books, StartingPCs, PromotePCs, WritePidfile
<1>4. CASE \E j \in Jobs : Unload(j) \/ Reject(j) \/ Keep(j) \/ BeginCopy(j)
  BY <1>0, <1>4 DEF TypeOK, Control, Books, StartingPCs, PromotePCs, Visit, Unload, Reject, Keep, BeginCopy
<1>5. CASE Copy
  BY <1>0, <1>5 DEF TypeOK, Control, Books, StartingPCs, PromotePCs, Copy
<1>6. CASE CopyRaises
  BY <1>0, <1>6 DEF TypeOK, Control, Books, StartingPCs, PromotePCs, CopyRaises, Down
<1>7. CASE UnlinkState
  BY <1>0, <1>7 DEF TypeOK, Control, Books, StartingPCs, PromotePCs, Visit, UnlinkState
<1>8. CASE Load
  BY <1>0, <1>8 DEF TypeOK, Control, Books, StartingPCs, PromotePCs, Load
<1>9. CASE LoopTop
  BY <1>0, <1>9 DEF TypeOK, Control, Books, StartingPCs, PromotePCs, LoopTop
<1>10. CASE (\E j \in Jobs : DrainRead(j)) \/ DrainUnlink
  BY <1>0, <1>10 DEF TypeOK, Control, Books, StartingPCs, PromotePCs, DrainRead, DrainUnlink
<1>11. CASE Ingest
  BY <1>0, <1>11 DEF TypeOK, Control, Books, StartingPCs, PromotePCs, Ingest, RunState
<1>12. CASE Reap
  BY <1>0, <1>12 DEF TypeOK, Control, Books, StartingPCs, PromotePCs, Reap, Settled, RunState, Starts
<1>13. CASE Fire
  BY <1>0, <1>13 DEF TypeOK, Control, Books, StartingPCs, PromotePCs, Fire, Handles, RunState, Starts
<1>14. CASE CheckReload
  BY <1>0, <1>14 DEF TypeOK, Control, Books, StartingPCs, PromotePCs, CheckReload, BeginPromote
<1>15. CASE TickAbandoned \/ WaitEnds
  BY <1>0, <1>15 DEF TypeOK, Control, Books, StartingPCs, PromotePCs, TickAbandoned, WaitEnds
<1>16. CASE Sigterm
  BY <1>0, <1>16 DEF TypeOK, Control, Books, StartingPCs, PromotePCs, Sigterm
<1>17. CASE Join
  BY <1>0, <1>17 DEF TypeOK, Control, Books, StartingPCs, PromotePCs, Join, ThreadEnded
<1>18. CASE Terminate
  BY <1>0, <1>18 DEF TypeOK, Control, Books, StartingPCs, PromotePCs, Terminate
<1>19. CASE StopEnds
  BY <1>0, <1>19 DEF TypeOK, Control, Books, StartingPCs, PromotePCs, StopEnds, Down
<1>20. CASE StopRaises
  BY <1>0, <1>20 DEF TypeOK, Control, Books, StartingPCs, PromotePCs, StopRaises, SignalRaises, Down
<1>21. CASE Crash
  BY <1>0, <1>21 DEF TypeOK, Control, Books, StartingPCs, PromotePCs, Crash, Down
<1>22. CASE Sighup
  BY <1>0, <1>22 DEF TypeOK, Control, Books, StartingPCs, PromotePCs, Sighup
<1>23. CASE \E i \in Starts, j \in Jobs : WorkerExits(i, j)
  BY <1>0, <1>23 DEF TypeOK, Control, Books, StartingPCs, PromotePCs, WorkerExits
<1>24. CASE \E j \in Jobs : ManualRun(j)
  BY <1>0, <1>24 DEF TypeOK, Control, Books, StartingPCs, PromotePCs, ManualRun
<1>25. CASE \E j \in Jobs, content \in Versions \cup {Bad, None} : Edit(j, content)
  BY <1>0, <1>25 DEF TypeOK, Control, Books, StartingPCs, PromotePCs, Edit
<1>26. CASE UNCHANGED vars
  BY <1>0, <1>26 DEF TypeOK, Control, Books, StartingPCs, PromotePCs, vars
<1> QED BY <1>1, <1>2, <1>3, <1>4, <1>5, <1>6, <1>7, <1>8, <1>9, <1>10, <1>11, <1>12, <1>13, <1>14, <1>15, <1>16, <1>17, <1>18, <1>19, <1>20, <1>21, <1>22, <1>23, <1>24, <1>25, <1>26 DEF Next, Starting, Promote, Loop, Stopping, Environment

LEMMA StopsKept ==
  ASSUME IInv, [Next]_vars
  PROVE  Stops'
<1> USE DEF files, reading, process, outside
<1>0. TypeOK /\ Control /\ Stops
  BY DEF IInv
<1>1. CASE Start
  BY <1>0, <1>1, StartIsFresh DEF TypeOK, Stops, JoinedStopClean, Handles, Start
<1>2. CASE SaveOrphans \/ SaveStart \/ TickSaves
  BY <1>0, <1>2 DEF TypeOK, Control, Stops, JoinedStopClean, Handles, StartingPCs, PromotePCs, SaveOrphans, SaveStart, TickSaves, SaveState, BeginPromote
<1>3. CASE WritePidfile
  BY <1>0, <1>3 DEF TypeOK, Control, Stops, JoinedStopClean, Handles, StartingPCs, PromotePCs, WritePidfile
<1>4. CASE \E j \in Jobs : Unload(j) \/ Reject(j) \/ Keep(j) \/ BeginCopy(j)
  BY <1>0, <1>4 DEF TypeOK, Control, Stops, JoinedStopClean, Handles, StartingPCs, PromotePCs, Visit, Unload, Reject, Keep, BeginCopy
<1>5. CASE Copy
  BY <1>0, <1>5 DEF TypeOK, Control, Stops, JoinedStopClean, Handles, StartingPCs, PromotePCs, Copy
<1>6. CASE CopyRaises
  BY <1>0, <1>6 DEF TypeOK, Control, Stops, JoinedStopClean, Handles, StartingPCs, PromotePCs, CopyRaises, Down
<1>7. CASE UnlinkState
  BY <1>0, <1>7 DEF TypeOK, Control, Stops, JoinedStopClean, Handles, StartingPCs, PromotePCs, Visit, UnlinkState
<1>8. CASE Load
  BY <1>0, <1>8 DEF TypeOK, Control, Stops, JoinedStopClean, Handles, StartingPCs, PromotePCs, Load
<1>9. CASE LoopTop
  BY <1>0, <1>9 DEF TypeOK, Control, Stops, JoinedStopClean, Handles, StartingPCs, PromotePCs, LoopTop
<1>10. CASE (\E j \in Jobs : DrainRead(j)) \/ DrainUnlink
  BY <1>0, <1>10 DEF TypeOK, Control, Stops, JoinedStopClean, Handles, StartingPCs, PromotePCs, DrainRead, DrainUnlink
<1>11. CASE Ingest
  BY <1>0, <1>11 DEF TypeOK, Control, Stops, JoinedStopClean, Handles, StartingPCs, PromotePCs, Ingest
<1>12. CASE Reap
  BY <1>0, <1>12 DEF TypeOK, Control, Stops, JoinedStopClean, Handles, StartingPCs, PromotePCs, Reap, Starts
<1>13. CASE Fire
  BY <1>0, <1>13 DEF TypeOK, Control, Stops, JoinedStopClean, Handles, StartingPCs, PromotePCs, Fire, Starts
<1>14. CASE CheckReload
  BY <1>0, <1>14 DEF TypeOK, Control, Stops, JoinedStopClean, Handles, StartingPCs, PromotePCs, CheckReload, BeginPromote
<1>15. CASE TickAbandoned \/ WaitEnds
  BY <1>0, <1>15 DEF TypeOK, Control, Stops, JoinedStopClean, Handles, StartingPCs, PromotePCs, TickAbandoned, WaitEnds
<1>16. CASE Sigterm
  BY <1>0, <1>16 DEF TypeOK, Control, Stops, JoinedStopClean, Handles, StartingPCs, PromotePCs, Sigterm
<1>17. CASE Join
  BY <1>0, <1>17 DEF TypeOK, Control, Stops, JoinedStopClean, Handles, StartingPCs, PromotePCs, Join, ThreadEnded
<1>18. CASE Terminate
  BY <1>0, <1>18 DEF TypeOK, Control, Stops, JoinedStopClean, Handles, StartingPCs, PromotePCs, Terminate
<1>19. CASE StopEnds
  BY <1>0, <1>19 DEF TypeOK, Control, Stops, JoinedStopClean, Handles, StartingPCs, PromotePCs, StopEnds, Down, Reparented, Starts
<1>20. CASE StopRaises
  BY <1>0, <1>20 DEF TypeOK, Control, Stops, JoinedStopClean, Handles, StartingPCs, PromotePCs, StopRaises, SignalRaises, Down, Reparented, Starts
<1>21. CASE Crash
  BY <1>0, <1>21 DEF TypeOK, Control, Stops, JoinedStopClean, Handles, StartingPCs, PromotePCs, Crash, Down, Reparented, Starts
<1>22. CASE Sighup
  BY <1>0, <1>22 DEF TypeOK, Control, Stops, JoinedStopClean, Handles, StartingPCs, PromotePCs, Sighup
<1>23. CASE \E i \in Starts, j \in Jobs : WorkerExits(i, j)
  BY <1>0, <1>23 DEF TypeOK, Control, Stops, JoinedStopClean, Handles, StartingPCs, PromotePCs, WorkerExits
<1>24. CASE \E j \in Jobs : ManualRun(j)
  BY <1>0, <1>24 DEF TypeOK, Control, Stops, JoinedStopClean, Handles, StartingPCs, PromotePCs, ManualRun
<1>25. CASE \E j \in Jobs, content \in Versions \cup {Bad, None} : Edit(j, content)
  BY <1>0, <1>25 DEF TypeOK, Control, Stops, JoinedStopClean, Handles, StartingPCs, PromotePCs, Edit
<1>26. CASE UNCHANGED vars
  BY <1>0, <1>26 DEF TypeOK, Control, Stops, JoinedStopClean, Handles, StartingPCs, PromotePCs, vars
<1> QED BY <1>1, <1>2, <1>3, <1>4, <1>5, <1>6, <1>7, <1>8, <1>9, <1>10, <1>11, <1>12, <1>13, <1>14, <1>15, <1>16, <1>17, <1>18, <1>19, <1>20, <1>21, <1>22, <1>23, <1>24, <1>25, <1>26 DEF Next, Starting, Promote, Loop, Stopping, Environment

LEMMA HistoryKept ==
  ASSUME IInv, [Next]_vars
  PROVE  History'
<1> USE DEF files, reading, process, outside
<1>0. TypeOK /\ Control /\ History
  BY DEF IInv
<1>1. CASE Start
  BY <1>0, <1>1 DEF TypeOK, Control, History, HistorySurvives, Start, Reconciled, LoadedState, Settled, Running, RunState, NoRuns
<1>2. CASE SaveOrphans \/ SaveStart \/ TickSaves
  BY <1>0, <1>2 DEF TypeOK, Control, History, HistorySurvives, SaveOrphans, SaveStart, TickSaves, SaveState, BeginPromote, RunState
<1>3. CASE WritePidfile
  BY <1>0, <1>3 DEF TypeOK, Control, History, HistorySurvives, WritePidfile
<1>4. CASE \E j \in Jobs : Unload(j) \/ Reject(j) \/ Keep(j) \/ BeginCopy(j)
  BY <1>0, <1>4 DEF TypeOK, Control, History, HistorySurvives, Visit, Unload, Reject, Keep, BeginCopy
<1>5. CASE Copy
  BY <1>0, <1>5 DEF TypeOK, Control, History, HistorySurvives, Copy
<1>6. CASE CopyRaises
  BY <1>0, <1>6 DEF TypeOK, Control, History, HistorySurvives, CopyRaises, Down
<1>7. CASE UnlinkState
  BY <1>0, <1>7 DEF TypeOK, Control, History, HistorySurvives, Visit, UnlinkState
<1>8. CASE Load
  BY <1>0, <1>8 DEF TypeOK, Control, History, HistorySurvives, Load
<1>9. CASE LoopTop
  BY <1>0, <1>9 DEF TypeOK, Control, History, HistorySurvives, LoopTop
<1>10. CASE (\E j \in Jobs : DrainRead(j)) \/ DrainUnlink
  BY <1>0, <1>10 DEF TypeOK, Control, History, HistorySurvives, DrainRead, DrainUnlink
<1>11. CASE Ingest
  BY <1>0, <1>11 DEF TypeOK, Control, History, HistorySurvives, Ingest, RunState
<1>12. CASE Reap
  BY <1>0, <1>12 DEF TypeOK, Control, History, HistorySurvives, Reap, Settled, RunState
<1>13. CASE Fire
  BY <1>0, <1>13 DEF TypeOK, Control, History, HistorySurvives, Fire, RunState
<1>14. CASE CheckReload
  BY <1>0, <1>14 DEF TypeOK, Control, History, HistorySurvives, CheckReload, BeginPromote
<1>15. CASE TickAbandoned \/ WaitEnds
  BY <1>0, <1>15 DEF TypeOK, Control, History, HistorySurvives, TickAbandoned, WaitEnds
<1>16. CASE Sigterm
  BY <1>0, <1>16 DEF TypeOK, Control, History, HistorySurvives, Sigterm
<1>17. CASE Join
  BY <1>0, <1>17 DEF TypeOK, Control, History, HistorySurvives, Join, ThreadEnded
<1>18. CASE Terminate
  BY <1>0, <1>18 DEF TypeOK, Control, History, HistorySurvives, Terminate
<1>19. CASE StopEnds
  BY <1>0, <1>19 DEF TypeOK, Control, History, HistorySurvives, StopEnds, Down
<1>20. CASE StopRaises
  BY <1>0, <1>20 DEF TypeOK, Control, History, HistorySurvives, StopRaises, SignalRaises, Down
<1>21. CASE Crash
  BY <1>0, <1>21 DEF TypeOK, Control, History, HistorySurvives, Crash, Down
<1>22. CASE Sighup
  BY <1>0, <1>22 DEF TypeOK, Control, History, HistorySurvives, Sighup
<1>23. CASE \E i \in Starts, j \in Jobs : WorkerExits(i, j)
  BY <1>0, <1>23 DEF TypeOK, Control, History, HistorySurvives, WorkerExits
<1>24. CASE \E j \in Jobs : ManualRun(j)
  BY <1>0, <1>24 DEF TypeOK, Control, History, HistorySurvives, ManualRun
<1>25. CASE \E j \in Jobs, content \in Versions \cup {Bad, None} : Edit(j, content)
  BY <1>0, <1>25 DEF TypeOK, Control, History, HistorySurvives, Edit
<1>26. CASE UNCHANGED vars
  BY <1>0, <1>26 DEF TypeOK, Control, History, HistorySurvives, vars
<1> QED BY <1>1, <1>2, <1>3, <1>4, <1>5, <1>6, <1>7, <1>8, <1>9, <1>10, <1>11, <1>12, <1>13, <1>14, <1>15, <1>16, <1>17, <1>18, <1>19, <1>20, <1>21, <1>22, <1>23, <1>24, <1>25, <1>26 DEF Next, Starting, Promote, Loop, Stopping, Environment

LEMMA InitInv == Init => IInv
<1> SUFFICES ASSUME Init PROVE IInv
  OBVIOUS
<1>1. TypeOK
  <2>1. 0 \in 0..MaxEdits
    BY JobsDaemonAssumption
  <2>2. worker \in [Starts -> [Jobs -> {"none", "live", "done"}]]
    BY DEF Init
  <2> QED BY <2>1, <2>2, NoRunsTyped DEF Init, TypeOK
<1>2. Control
  BY DEF Init, Control, StartingPCs
<1>3. Books /\ Stops /\ History
  BY DEF Init, Books, Stops, JoinedStopClean, History, HistorySurvives
<1> QED BY <1>1, <1>2, <1>3 DEF IInv

LEMMA Inductive == Spec => []IInv
<1>1. IInv /\ [Next]_vars => IInv'
  BY TypeOKKept, ControlKept, BooksKept, StopsKept, HistoryKept DEF IInv
<1> QED BY InitInv, <1>1, PTL DEF Spec

-----------------------------------------------------------------------------
(* The theorems *)

\* Files, states, threads and workers keep their types.
THEOREM DaemonTyped == Spec => []TypeOK
BY Inductive, PTL DEF IInv

\* The state.json of a daemon past its start names no worker of an earlier one,
\* and right after a tick it names exactly the workers that are not reaped.
THEOREM NoPhantoms == Spec => []NoPhantomRunning
<1>1. IInv => NoPhantomRunning
  BY DEF IInv, TypeOK, Books, Control, NoPhantomRunning, Running, Handles, Serving
<1> QED BY <1>1, Inductive, PTL

\* A stop that waited for the scheduler thread, and in which no signal to a worker
\* raised, leaves no worker and no pidfile.
THEOREM StopsClean == Spec => []JoinedStopClean
<1>1. IInv => JoinedStopClean
  BY DEF IInv, Stops
<1> QED BY <1>1, Inductive, PTL

\* What state.json has ever shown of a job's runs is not lost, but in the one
\* window between promote's removal of the file and the next save.
THEOREM HistoryIsKept == Spec => []HistorySurvives
<1>1. IInv => HistorySurvives
  BY DEF IInv, History
<1> QED BY <1>1, Inductive, PTL

\* A staged file that does not parse leaves its last good copy and its config
\* alone, as long as the process lives.
THEOREM BadEditsAreHarmless == Spec => LastGoodKept
<1> DEFINE Good(j) == staged[j] = Bad /\ current[j] \in Versions /\ target # j =>
                         /\ current'[j] = current[j]
                         /\ configs[j] # None /\ pc' # "down" => configs'[j] # None
<1>1. ASSUME IInv, [Next]_vars, NEW j \in Jobs PROVE Good(j)
  <2> USE DEF files, process
  <2>1. CASE UNCHANGED <<current, configs>>
    BY <2>1
  <2>2. CASE pc' = "down" /\ UNCHANGED current
    BY <2>2
  <2>3. CASE Copy
    BY <2>3 DEF Copy, IInv, TypeOK
  <2>4. CASE Load
    BY <2>4, JobsDaemonAssumption DEF Load, Loadable
  <2>5. CASE \E k \in Jobs : Unload(k)
    BY <2>5, JobsDaemonAssumption DEF Unload, Visit, Gone, IInv, TypeOK
  <2>6. CASE \E k \in Jobs : Reject(k) \/ Keep(k) \/ BeginCopy(k)
    BY <2>1, <2>6 DEF Visit, Reject, Keep, BeginCopy
  <2>7. CASE CopyRaises
    BY <2>1, <2>2, <2>7 DEF CopyRaises, Down
  <2>8. CASE Starting \/ UnlinkState
    BY <2>1, <2>8 DEF Starting, Start, SaveOrphans, SaveStart, WritePidfile, UnlinkState, Visit
  <2>9. CASE Loop
    BY <2>1, <2>9 DEF Loop, LoopTop, DrainRead, DrainUnlink, Ingest, Reap, TickAbandoned, Fire, TickSaves,
                     CheckReload, WaitEnds
  <2>10. CASE Stopping
    BY <2>1, <2>2, <2>10 DEF Stopping, Sigterm, Join, Terminate, StopEnds, StopRaises, Down
  <2>11. CASE Environment
    BY <2>1, <2>2, <2>11 DEF Environment, Crash, Down, Sighup, WorkerExits, ManualRun, Edit
  <2>12. CASE UNCHANGED vars
    BY <2>1, <2>12 DEF vars
  <2> HIDE DEF Good
  <2> QED BY <1>1, <2>3, <2>4, <2>5, <2>6, <2>7, <2>8, <2>9, <2>10, <2>11, <2>12 DEF Next, Promote
<1>2. IInv /\ [Next]_vars => [\A j \in Jobs : Good(j)]_vars
  BY <1>1
<1> QED BY <1>2, Inductive, PTL DEF Spec, LastGoodKept
====

------------------------- MODULE JobSchedulerProofs -------------------------
(***************************************************************************)
(* Invariants of JobScheduler, proved for every set of jobs, configs,      *)
(* crons and bounds.                                                       *)
(***************************************************************************)
EXTENDS JobScheduler, TLAPS, FiniteSetTheorems, WellFoundedInduction

\* A nonempty set of naturals has a minimum, and Min is one of its elements
\* (next_wakeup is such a minimum).
LEMMA MinIsElement ==
    ASSUME NEW T, T \subseteq Nat, T # {}
    PROVE  Min(T) \in T
<1> DEFINE R == {ss \in Nat \X Nat : ss[1] < ss[2]}
<1>1. IsWellFoundedOn(R, Nat)
  BY NatLessThanWellFounded, Zenon DEF OpToRel
<1> HIDE DEF R
<1>2. PICK x \in T : \A y \in T : ~ (<<y, x>> \in R)
  BY <1>1, WFMin, Zenon
<1>3. ASSUME NEW y \in T, y < x  PROVE FALSE
  <2>1. <<y, x>> \in Nat \X Nat /\ <<y, x>>[1] < <<y, x>>[2]
    BY <1>3, Zenon
  <2>2. <<y, x>> \in R
    BY <2>1, Zenon DEF R
  <2>3. QED
    BY <1>2, <2>2, Zenon
<1>4. \A y \in T : x =< y
  BY <1>3, SMT
<1>5. QED
  BY <1>2, <1>4, Zenon DEF Min

\* Every valid config has the field types parse_job enforces.
LEMMA ConfigFields ==
    ASSUME NEW c \in Configs
    PROVE  /\ c.cron \in Crons /\ c.enabled \in BOOLEAN
           /\ c.timeout_s \in Nat \ {0} /\ c.retries \in Nat
           /\ c.retry_delay_s \in Nat \ {0}
BY ConfigsAssumption DEF ConfigType

\* _reschedule looks strictly ahead: next_run_after is later than its argument.
LEMMA RescheduleLater ==
    ASSUME NEW c \in Configs, NEW t \in 0..MaxTime
    PROVE  /\ next_run_after(c, t) \in Nat /\ next_run_after(c, t) > t
           /\ Reschedule(c, t) \in Nat \cup {None}
           /\ c.enabled => Reschedule(c, t) = next_run_after(c, t)
           /\ Reschedule(c, t) # None => Reschedule(c, t) > t
BY ConfigFields, CronAssumption DEF Reschedule, next_run_after

-----------------------------------------------------------------------------
(* Type correctness.                                                        *)

LEMMA TypeInit == Init => TypeOK
<1> SUFFICES ASSUME Init PROVE TypeOK
  OBVIOUS
<1>1. MaxTime \in Nat /\ MaxEdits \in Nat
  BY ConstantsAssumption
<1>2. next_run_at \in [Jobs -> Nat \cup {None}]
  BY <1>1, RescheduleLater DEF Init
<1>3. /\ clock \in 0..MaxTime /\ edits \in 0..MaxEdits /\ tnow \in 0..MaxTime
      /\ wakeup \in Nat
      /\ lastStart \in [Jobs -> (0..MaxTime) \cup {Never}]
      /\ anchor \in [Jobs -> 0..MaxTime]
      /\ streak \in [Jobs -> Nat]
  BY <1>1 DEF Init
<1>4. /\ staged \in [Jobs -> Configs \cup {None, Invalid}]
      /\ configs \in [Jobs -> Configs \cup {None}]
      /\ handles \in [Jobs -> Outcomes \cup {"live", None}]
      /\ retrying \in [Jobs -> BOOLEAN]
  BY DEF Init
<1>5. QED
  BY <1>2, <1>3, <1>4 DEF Init, TypeOK, PCs

LEMMA TypeReap == TypeOK /\ Reap => TypeOK'
<1> SUFFICES ASSUME TypeOK, Reap PROVE TypeOK'
  OBVIOUS
<1>0. MaxTime \in Nat /\ MaxEdits \in Nat /\ None \notin Int
  BY ConstantsAssumption
<1>1. ASSUME NEW j \in Exited \cap Loaded
      PROVE  /\ configs[j] \in Configs
             /\ OutcomeNextRun(j) \in Nat \cup {None}
             /\ OutcomeRetriesLeft(j) \in Nat
             /\ AuthRetry(j) \in BOOLEAN
  <2>1. configs[j] \in Configs
    BY <1>1 DEF TypeOK, Loaded
  <2>2. RunStart(j) \in 0..MaxTime
    BY <1>1 DEF TypeOK, RunStart, Exited
  <2>3. RetriesRemaining(j) \in Nat
    BY <1>1, <2>1, ConfigFields DEF TypeOK, RetriesRemaining, Exited
  <2>4. clock + configs[j].retry_delay_s \in Nat
    BY <2>1, ConfigFields DEF TypeOK
  <2>5. OutcomeNextRun(j) \in Nat \cup {None}
    BY <2>1, <2>2, <2>4, RescheduleLater DEF OutcomeNextRun
  <2>6. OutcomeRetriesLeft(j) \in Nat
    BY <2>1, <2>3, ConfigFields DEF OutcomeRetriesLeft, AuthRetry
  <2>7. QED
    BY <2>1, <2>5, <2>6 DEF AuthRetry
<1>2. next_run_at' \in [Jobs -> Nat \cup {None}]
  BY <1>1, Zenon DEF Reap, TypeOK
<1>3. retries_left' \in [Jobs -> Nat \cup {None}]
  BY <1>1, Zenon DEF Reap, TypeOK
<1>4. retrying' \in [Jobs -> BOOLEAN]
  BY <1>1, Zenon DEF Reap, TypeOK
<1>5. streak' \in [Jobs -> Nat]
  BY DEF Reap, TypeOK
<1>6. /\ handles' \in [Jobs -> Outcomes \cup {"live", None}]
      /\ deadlines' \in [Jobs -> Nat \cup {None}]
      /\ started_at' \in [Jobs -> (0..MaxTime) \cup {None}]
      /\ timed_out' \in SUBSET Jobs
  BY DEF Reap, TypeOK, TimedOutAfterReap
<1>7. QED
  BY <1>2, <1>3, <1>4, <1>5, <1>6 DEF Reap, TypeOK, PCs, environment

LEMMA TypeFire == TypeOK /\ (FireDue \/ FireEnds) => TypeOK'
<1> SUFFICES ASSUME TypeOK, FireDue \/ FireEnds PROVE TypeOK'
  OBVIOUS
<1>1. tnow' \in 0..MaxTime /\ todo' \in SUBSET Jobs /\ pc' \in PCs
  BY DEF FireDue, FireEnds, TypeOK, PCs, Due, environment
<1>2. QED
  BY <1>1 DEF FireDue, FireEnds, TypeOK, environment, bookkeeping, inMemory,
              history

\* The jobs fire_due visits have a config: they are enabled.
LEMMA TodoHasConfig ==
    ASSUME TypeOK, TodoStillDue, NEW j \in todo
    PROVE  configs[j] \in Configs
BY DEF TypeOK, TodoStillDue, Due, Enabled, Loaded

LEMMA TypeSpawn ==
    ASSUME TypeOK, TodoStillDue, NEW j \in Jobs, Spawn(j) \/ SpawnFails(j)
    PROVE  TypeOK'
<1>0. configs[j] \in Configs /\ tnow \in 0..MaxTime
  BY TodoHasConfig DEF Spawn, SpawnFails, TypeOK
<1>1. CASE Spawn(j)
  <2>1. tnow + configs[j].timeout_s \in Nat
    BY <1>0, ConstantsAssumption, ConfigFields
  <2>2. QED
    BY <1>0, <1>1, <2>1 DEF Spawn, Deadline, TypeOK, environment
<1>2. CASE SpawnFails(j)
  <2>1. Reschedule(configs[j], tnow) \in Nat \cup {None}
    BY <1>0, RescheduleLater
  <2>2. QED
    BY <1>0, <1>2, <2>1 DEF SpawnFails, TypeOK, environment
<1>3. QED
  BY <1>1, <1>2

LEMMA TypeReload == TypeOK /\ Reload => TypeOK'
<1> SUFFICES ASSUME TypeOK, Reload PROVE TypeOK'
  OBVIOUS
<1>1. ASSUME NEW j \in Jobs
      PROVE  /\ ReloadedConfig(j) \in Configs \cup {None}
             /\ ReloadedNextRun(j) \in Nat \cup {None}
  <2>1. staged[j] \in Configs => Reschedule(staged[j], clock) \in Nat \cup {None}
    BY RescheduleLater DEF TypeOK
  <2>2. staged[j] \in Configs \cup {None, Invalid}
    BY DEF TypeOK
  <2>3. QED
    BY <2>1, <2>2 DEF TypeOK, ReloadedConfig, ReloadedNextRun, ScheduleKept
<1>2. /\ configs' \in [Jobs -> Configs \cup {None}]
      /\ next_run_at' \in [Jobs -> Nat \cup {None}]
  BY <1>1, Zenon DEF Reload
<1>3. /\ anchor' \in [Jobs -> 0..MaxTime]
      /\ retrying' \in [Jobs -> BOOLEAN]
  BY Zenon DEF Reload, TypeOK
<1>4. QED
  BY <1>2, <1>3 DEF Reload, TypeOK, PCs, bookkeeping

LEMMA TypeSleep == TypeOK /\ Sleep => TypeOK'
<1> SUFFICES ASSUME TypeOK, Sleep PROVE TypeOK'
  OBVIOUS
<1> DEFINE times == {next_run_at[j] : j \in {i \in Jobs : next_run_at[i] # None}}
                    \cup {clock + Watchdog}
<1>1. clock + Watchdog \in Nat
  BY ConstantsAssumption DEF TypeOK
<1>2. times \subseteq Nat /\ times # {}
  BY <1>1 DEF TypeOK
<1>3. next_wakeup \in Nat
  BY <1>2, MinIsElement, Zenon DEF next_wakeup
<1>4. QED
  BY <1>3 DEF Sleep, TypeOK, PCs, environment, inMemory, bookkeeping, history

\* The steps that change nothing but flags, the clock and the staged files.
LEMMA TypeOther ==
    ASSUME TypeOK,
           \/ EnforceTimeouts \/ TerminateRaises \/ ReloadRaises \/ NoReload
           \/ WaitReturns \/ WakeClear \/ Environment \/ UNCHANGED vars
    PROVE  TypeOK'
<1>1. MaxTime \in Nat /\ MaxEdits \in Nat
  BY ConstantsAssumption
<1>2. CASE EnforceTimeouts \/ TerminateRaises
  BY <1>2 DEF EnforceTimeouts, TerminateRaises, Overdue, Running, TypeOK, PCs,
              environment, history
<1>3. CASE ReloadRaises \/ NoReload \/ WaitReturns \/ WakeClear
  BY <1>3 DEF ReloadRaises, NoReload, WaitReturns, WakeClear, TypeOK, PCs, environment,
              inMemory, bookkeeping, history
<1>4. CASE Advance \/ Sighup
  <2>1. CASE Advance
    <3>1. clock' \in 0..MaxTime
      BY <1>1, <2>1 DEF Advance, TypeOK
    <3>2. QED
      BY <2>1, <3>1 DEF Advance, TypeOK, loop, inMemory, bookkeeping, history
  <2>2. CASE Sighup
    BY <2>2 DEF Sighup, TypeOK, inMemory, bookkeeping, history
  <2>3. QED
    BY <1>4, <2>1, <2>2
<1>5. CASE \E j \in Jobs : WorkerExits(j)
  BY <1>5 DEF WorkerExits, TypeOK, environment, loop, history
<1>6. CASE \E j \in Jobs, content \in Configs \cup {None, Invalid} :
               EditStaged(j, content)
  BY <1>1, <1>6 DEF EditStaged, TypeOK, loop, inMemory, bookkeeping, history
<1>7. CASE UNCHANGED vars
  BY <1>7 DEF TypeOK, vars, environment, loop, inMemory, bookkeeping, history
<1>8. QED
  BY <1>2, <1>3, <1>4, <1>5, <1>6, <1>7 DEF Environment

LEMMA TypeNext == TypeOK /\ TodoStillDue /\ [Next]_vars => TypeOK'
BY TypeReap, TypeFire, TypeSpawn, TypeReload, TypeSleep, TypeOther
   DEF Next, SchedulerThread

-----------------------------------------------------------------------------
(* The inductive invariant.  HandleBookkeeping says that a running job's    *)
(* started_at is its lastStart; TodoStillDue carries what fire_due checked  *)
(* to the step that spawns; Past orders the recorded times.                 *)

Past ==
    /\ tnow <= clock
    /\ \A j \in Jobs : lastStart[j] <= anchor[j] /\ anchor[j] <= clock

IInv ==
    /\ TypeOK
    /\ TodoStillDue
    /\ Past
    /\ ConcurrencyCap
    /\ HandleBookkeeping
    /\ TimeoutFlagFresh
    /\ NoDoubleFire
    /\ EnabledScheduled
    /\ NoSkippedOccurrence

LEMMA InitIInv == Init => IInv
<1> SUFFICES ASSUME Init PROVE IInv
  OBVIOUS
<1>1. TypeOK
  BY TypeInit
<1>2. Running = {} /\ Cardinality({}) = 0
  BY FS_EmptySet DEF Init, Running
<1>3. ConcurrencyCap
  BY <1>2, ConstantsAssumption DEF ConcurrencyCap
<1>4. \A j \in Loaded : /\ next_run_at[j] # None => next_run_at[j] > 0
                        /\ Enabled(j) => next_run_at[j] = next_run_after(configs[j], 0)
                        /\ next_run_after(configs[j], 0) \in Nat
  <2>1. 0 \in 0..MaxTime
    BY ConstantsAssumption
  <2>2. QED
    BY <2>1, RescheduleLater DEF Init, Loaded, Enabled
<1>5. /\ \A j \in Jobs : lastStart[j] = -1 /\ anchor[j] = 0
      /\ None \notin Nat
      /\ TypeOK
  BY <1>1, ConstantsAssumption DEF Init, Never
<1>6. NoDoubleFire
  BY <1>4, <1>5 DEF NoDoubleFire, Loaded, TypeOK
<1>7. EnabledScheduled
  BY <1>4, <1>5 DEF EnabledScheduled, Enabled
<1>8. NoSkippedOccurrence
  BY <1>4, <1>5 DEF NoSkippedOccurrence, Loaded
<1>9. Past /\ TodoStillDue /\ TimeoutFlagFresh
  BY DEF Init, Past, TodoStillDue, TimeoutFlagFresh, Never
<1>10. HandleBookkeeping
  BY <1>2 DEF HandleBookkeeping, Init
<1>11. QED
  BY <1>1, <1>3, <1>6, <1>7, <1>8, <1>9, <1>10 DEF IInv

\* Dropping handles keeps the cap.
LEMMA CapShrinks ==
    ASSUME ConcurrencyCap, Running' \subseteq Running
    PROVE  ConcurrencyCap'
<1>1. IsFiniteSet(Running)
  BY ConstantsAssumption, FS_Subset DEF Running
<1>2. /\ Cardinality(Running') <= Cardinality(Running)
      /\ Cardinality(Running) \in Nat /\ Cardinality(Running') \in Nat
  BY <1>1, FS_Subset, FS_CardinalityType
<1>3. QED
  BY <1>2, ConstantsAssumption DEF ConcurrencyCap

LEMMA IInvReap == IInv /\ Reap => IInv'
<1> SUFFICES ASSUME IInv, Reap PROVE IInv'
  OBVIOUS
<1> USE DEF IInv
<1>1. TypeOK'
  BY TypeReap
<1>2. Exited \subseteq Running /\ Running' = Running \ Exited
  BY ConstantsAssumption DEF Reap, Running, Exited
<1>3. ConcurrencyCap'
  BY <1>2, CapShrinks
<1>4. HandleBookkeeping'
  BY <1>2 DEF Reap, HandleBookkeeping, Running, Exited
<1>5. TimeoutFlagFresh'
  BY <1>2 DEF Reap, TimeoutFlagFresh, TimedOutAfterReap, environment, TypeOK
<1>6. TodoStillDue' /\ Past'
  BY DEF Reap, TodoStillDue, Past, environment
<1>7. ASSUME NEW j \in Exited \cap Loaded
      PROVE  /\ OutcomeNextRun(j) # None => OutcomeNextRun(j) > lastStart[j]
             /\ Enabled(j) => OutcomeNextRun(j) # None
             /\ Enabled(j) /\ ~AuthRetry(j) =>
                   OutcomeNextRun(j) <= next_run_after(configs[j], anchor[j])
  <2>1. configs[j] \in Configs /\ configs[j].cron \in Crons
    BY ConfigFields DEF TypeOK, Loaded
  <2>2. RunStart(j) = lastStart[j] /\ lastStart[j] \in 0..MaxTime
    BY <1>2, <1>7, ConstantsAssumption
       DEF HandleBookkeeping, RunStart, TypeOK, Exited, Running, Never
  <2>3. anchor[j] \in 0..MaxTime /\ lastStart[j] <= anchor[j] /\ anchor[j] <= clock
    BY <1>7 DEF Past, TypeOK, Loaded
  <2>4. next_run_after(configs[j], lastStart[j])
           <= next_run_after(configs[j], anchor[j])
    BY <2>1, <2>2, <2>3, CronAssumption DEF next_run_after
  <2>5. clock + configs[j].retry_delay_s > lastStart[j]
    <3>1. configs[j].retry_delay_s \in Nat \ {0} /\ clock \in Nat /\ MaxTime \in Nat
      BY <2>1, ConfigFields, ConstantsAssumption DEF TypeOK
    <3> HIDE DEF TypeOK
    <3>2. QED
      BY <2>2, <2>3, <3>1
  <2>6. clock + configs[j].retry_delay_s \in Nat
    BY <2>1, ConfigFields DEF TypeOK
  <2>7. QED
    BY <2>1, <2>2, <2>4, <2>5, <2>6, RescheduleLater, ConstantsAssumption
       DEF OutcomeNextRun, Enabled
<1>8. NoDoubleFire'
  BY <1>2, <1>7 DEF NoDoubleFire, Reap, Loaded
<1>9. EnabledScheduled'
  BY <1>7 DEF EnabledScheduled, Reap, Enabled, Loaded
<1>10. NoSkippedOccurrence'
  BY <1>2, <1>7 DEF NoSkippedOccurrence, Reap, Enabled, Loaded, next_run_after
<1>11. QED
  BY <1>1, <1>3, <1>4, <1>5, <1>6, <1>8, <1>9, <1>10

LEMMA IInvEnforce == IInv /\ (EnforceTimeouts \/ TerminateRaises) => IInv'
<1> SUFFICES ASSUME IInv, EnforceTimeouts \/ TerminateRaises PROVE IInv'
  OBVIOUS
<1> USE DEF IInv
<1>1. TypeOK'
  BY TypeOther
<1>2. /\ UNCHANGED <<handles, deadlines, started_at, configs, next_run_at,
                     clock, tnow, todo, lastStart, anchor, retrying>>
      /\ timed_out' \subseteq timed_out \cup Overdue
      /\ pc # "firing"
  BY DEF EnforceTimeouts, TerminateRaises, environment, history
<1>3. TimeoutFlagFresh'
  BY <1>2 DEF TimeoutFlagFresh, Overdue, Running
<1>4. TodoStillDue' /\ Past' /\ HandleBookkeeping' /\ ConcurrencyCap'
  BY <1>2 DEF TodoStillDue, Past, HandleBookkeeping, ConcurrencyCap, Running
<1>5. NoDoubleFire' /\ EnabledScheduled' /\ NoSkippedOccurrence'
  BY <1>2 DEF NoDoubleFire, EnabledScheduled, NoSkippedOccurrence, Enabled,
              Loaded, Running, next_run_after
<1>6. QED
  BY <1>1, <1>3, <1>4, <1>5

\* What the invariant says of jobs and workers is not disturbed by a step that
\* leaves their variables alone.
LEMMA IInvUntouched ==
    ASSUME IInv, UNCHANGED <<inMemory, clock>>
    PROVE  /\ ConcurrencyCap' /\ HandleBookkeeping' /\ TimeoutFlagFresh'
           /\ NoDoubleFire' /\ EnabledScheduled' /\ NoSkippedOccurrence'
<1> USE DEF IInv, inMemory, bookkeeping, history
<1>1. ConcurrencyCap' /\ HandleBookkeeping' /\ TimeoutFlagFresh'
  BY DEF ConcurrencyCap, HandleBookkeeping, TimeoutFlagFresh, Running
<1>2. NoDoubleFire' /\ EnabledScheduled' /\ NoSkippedOccurrence'
  BY DEF NoDoubleFire, EnabledScheduled, NoSkippedOccurrence, Enabled,
         Loaded, Running, next_run_after
<1>3. QED
  BY <1>1, <1>2

LEMMA IInvFireDue == IInv /\ FireDue => IInv'
<1> SUFFICES ASSUME IInv, FireDue PROVE IInv'
  OBVIOUS
<1> USE DEF IInv
<1>1. TypeOK'
  BY TypeFire
<1>2. UNCHANGED <<inMemory, clock>> /\ tnow' = clock
  BY DEF FireDue, environment
<1>3. TodoStillDue'
  BY <1>2 DEF FireDue, TodoStillDue, Due, Enabled, Loaded, Running, inMemory,
              bookkeeping
<1>4. Past'
  BY <1>2 DEF Past, TypeOK, inMemory, history
<1>5. QED
  BY <1>1, <1>2, <1>3, <1>4, IInvUntouched

\* Steps that touch neither the jobs nor the time and leave nothing to visit,
\* or leave the visit alone.
LEMMA IInvQuiet ==
    ASSUME IInv, FireEnds \/ ReloadRaises \/ NoReload \/ Sleep \/ WaitReturns \/ WakeClear
                 \/ Sighup \/ UNCHANGED vars
                 \/ (\E j \in Jobs, content \in Configs \cup {None, Invalid} :
                        EditStaged(j, content))
    PROVE  IInv'
<1> USE DEF IInv
<1>1. TypeOK'
  BY TypeFire, TypeSleep, TypeOther DEF Environment
<1>2. /\ UNCHANGED <<inMemory, clock>>
      /\ tnow' \in {tnow, clock}
      /\ todo' \subseteq todo
      /\ todo' # {} => todo' = todo /\ tnow' = tnow /\ pc' = pc
  BY DEF FireEnds, ReloadRaises, NoReload, Sleep, WaitReturns, WakeClear, Sighup, EditStaged,
         vars, environment, loop, TodoStillDue
<1>3. TodoStillDue'
  BY <1>2 DEF TodoStillDue, Due, Enabled, Loaded, Running, inMemory, bookkeeping
<1>4. Past'
  BY <1>2 DEF Past, TypeOK, inMemory, history
<1>5. QED
  BY <1>1, <1>2, <1>3, <1>4, IInvUntouched

LEMMA IInvAdvance == IInv /\ Advance => IInv'
<1> SUFFICES ASSUME IInv, Advance PROVE IInv'
  OBVIOUS
<1> USE DEF IInv
<1>1. TypeOK'
  BY TypeOther DEF Environment
<1>2. /\ UNCHANGED <<inMemory, todo, tnow, pc>>
      /\ clock \in Nat /\ clock' = clock + 1
  BY DEF Advance, loop, TypeOK
<1> USE DEF inMemory, bookkeeping, history
<1>3. TodoStillDue' /\ ConcurrencyCap' /\ HandleBookkeeping'
  BY <1>2 DEF TodoStillDue, Due, Enabled, Loaded, ConcurrencyCap,
              HandleBookkeeping, Running
<1>4. Past' /\ TimeoutFlagFresh'
  BY <1>2, ConstantsAssumption
     DEF Past, TimeoutFlagFresh, HandleBookkeeping, Running, TypeOK, Never
<1>5. NoDoubleFire' /\ EnabledScheduled' /\ NoSkippedOccurrence'
  BY <1>2 DEF NoDoubleFire, EnabledScheduled, NoSkippedOccurrence, Enabled,
              Loaded, Running, next_run_after
<1>6. QED
  BY <1>1, <1>3, <1>4, <1>5

LEMMA IInvSpawn == ASSUME IInv, NEW j \in Jobs, Spawn(j) PROVE IInv'
<1> USE DEF IInv
<1>1. TypeOK'
  BY TypeSpawn
<1>2. /\ j \in todo /\ j \notin Running /\ Enabled(j) /\ configs[j] \in Configs
      /\ pc = "firing" /\ tnow \in Nat /\ None \notin Int
      /\ None \notin Outcomes \cup {"live"}
  BY TodoHasConfig, ConstantsAssumption DEF Spawn, TodoStillDue, Due, TypeOK
<1>3. /\ Running' = Running \cup {j}
      /\ UNCHANGED <<configs, next_run_at, retrying, timed_out, tnow, clock, pc>>
  BY <1>2 DEF Spawn, Running, TypeOK, environment
<1>4. ConcurrencyCap'
  <2>1. IsFiniteSet(Running)
    BY ConstantsAssumption, FS_Subset DEF Running
  <2>2. /\ Cardinality(Running') = Cardinality(Running) + 1
        /\ Cardinality(Running) \in Nat
    BY <1>2, <1>3, <2>1, FS_AddElement, FS_CardinalityType
  <2>3. Cardinality(Running) < MaxConcurrent
    BY DEF Spawn, RoomToFire
  <2>4. QED
    BY <2>2, <2>3, ConstantsAssumption DEF ConcurrencyCap
<1>5. HandleBookkeeping'
  <2>1. tnow + configs[j].timeout_s \in Nat /\ tnow < tnow + configs[j].timeout_s
    BY <1>2, ConfigFields
  <2>2. /\ started_at'[j] = tnow /\ lastStart'[j] = tnow
        /\ deadlines'[j] = tnow + configs[j].timeout_s
        /\ \A i \in Jobs \ {j} : /\ started_at'[i] = started_at[i]
                                 /\ lastStart'[i] = lastStart[i]
                                 /\ deadlines'[i] = deadlines[i]
    BY DEF Spawn, Deadline, TypeOK
  <2>3. QED
    BY <1>2, <1>3, <2>1, <2>2 DEF HandleBookkeeping
<1>6. TimeoutFlagFresh'
  BY <1>2, <1>3 DEF Spawn, TimeoutFlagFresh, TypeOK
<1>7. TodoStillDue'
  BY <1>2, <1>3 DEF Spawn, TodoStillDue, Due, Enabled, Loaded
<1>8. Past'
  BY <1>2, <1>3 DEF Spawn, Past, TypeOK
<1>9. NoDoubleFire'
  BY <1>3 DEF Spawn, NoDoubleFire, Loaded, TypeOK
<1>10. EnabledScheduled'
  BY <1>3 DEF EnabledScheduled, Enabled, Loaded
<1>11. NoSkippedOccurrence'
  BY <1>3 DEF Spawn, NoSkippedOccurrence, Enabled, Loaded, TypeOK, next_run_after
<1>12. QED
  BY <1>1, <1>4, <1>5, <1>6, <1>7, <1>8, <1>9, <1>10, <1>11

LEMMA IInvSpawnFails == ASSUME IInv, NEW j \in Jobs, SpawnFails(j) PROVE IInv'
<1> USE DEF IInv
<1>1. TypeOK'
  BY TypeSpawn
<1>2. /\ j \in todo /\ j \notin Running /\ Enabled(j) /\ configs[j] \in Configs
      /\ pc = "firing" /\ tnow \in 0..MaxTime /\ None \notin Int
      /\ next_run_at[j] # None /\ next_run_at[j] <= tnow
  BY TodoHasConfig, ConstantsAssumption
     DEF SpawnFails, TodoStillDue, Due, TypeOK
<1>3. /\ UNCHANGED <<configs, handles, deadlines, timed_out, tnow, clock, pc,
                     lastStart>>
      /\ Running' = Running
  BY DEF SpawnFails, Running, environment
<1>4. /\ next_run_at'[j] \in Nat /\ next_run_at'[j] > tnow
      /\ next_run_at'[j] = next_run_after(configs[j], tnow)
      /\ anchor'[j] = tnow /\ started_at'[j] = None
      /\ \A i \in Jobs \ {j} : /\ next_run_at'[i] = next_run_at[i]
                               /\ anchor'[i] = anchor[i]
                               /\ started_at'[i] = started_at[i]
                               /\ retrying'[i] = retrying[i]
  BY <1>2, RescheduleLater DEF SpawnFails, TypeOK, Enabled
<1>5. lastStart[j] < tnow
  BY <1>2 DEF NoDoubleFire, Enabled, TypeOK, Never
<1>6. ConcurrencyCap' /\ TimeoutFlagFresh'
  BY <1>3 DEF ConcurrencyCap, TimeoutFlagFresh
<1>7. HandleBookkeeping'
  BY <1>2, <1>3, <1>4 DEF HandleBookkeeping
<1>8. TodoStillDue'
  BY <1>2, <1>3, <1>4 DEF SpawnFails, TodoStillDue, Due, Enabled, Loaded
<1>9. Past'
  BY <1>2, <1>3, <1>4, <1>5 DEF Past, TypeOK, Never
<1>10. NoDoubleFire'
  BY <1>2, <1>3, <1>4, <1>5 DEF NoDoubleFire, Loaded, TypeOK, Never
<1>11. EnabledScheduled'
  BY <1>2, <1>3, <1>4 DEF EnabledScheduled, Enabled, Loaded
<1>12. NoSkippedOccurrence'
  BY <1>2, <1>3, <1>4 DEF NoSkippedOccurrence, Enabled, Loaded, next_run_after
<1>13. QED
  BY <1>1, <1>6, <1>7, <1>8, <1>9, <1>10, <1>11, <1>12

LEMMA IInvReload == IInv /\ Reload => IInv'
<1> SUFFICES ASSUME IInv, Reload PROVE IInv'
  OBVIOUS
<1> USE DEF IInv
<1>1. TypeOK'
  BY TypeReload
<1>2. /\ UNCHANGED <<clock, tnow, todo, lastStart>> /\ UNCHANGED bookkeeping
      /\ Running' = Running /\ todo = {}
      /\ clock \in 0..MaxTime /\ None \notin Int
  BY ConstantsAssumption
     DEF Reload, bookkeeping, Running, TypeOK, TodoStillDue
<1>3. /\ ConcurrencyCap' /\ HandleBookkeeping' /\ TimeoutFlagFresh'
      /\ TodoStillDue'
  BY <1>2 DEF ConcurrencyCap, HandleBookkeeping, TimeoutFlagFresh, TodoStillDue,
              bookkeeping
<1>4. ASSUME NEW j \in Jobs
      PROVE  /\ configs'[j] = ReloadedConfig(j)
             /\ next_run_at'[j] = ReloadedNextRun(j)
             /\ anchor'[j] = IF ScheduleKept(j) THEN anchor[j] ELSE clock
             /\ ScheduleKept(j) => ReloadedConfig(j) = configs[j]
             /\ retrying'[j] = (retrying[j] /\ (ScheduleKept(j) \/ j \in Running))
             /\ lastStart[j] \in Int /\ lastStart[j] <= anchor[j]
             /\ anchor[j] \in Int /\ anchor[j] <= clock
  BY DEF Reload, ReloadedConfig, ScheduleKept, Past, TypeOK, Never
<1>5. ASSUME NEW j \in Jobs, ~ScheduleKept(j), staged[j] # None
      PROVE  /\ staged[j] \in Configs
             /\ ReloadedConfig(j) = staged[j]
             /\ ReloadedNextRun(j) # None => ReloadedNextRun(j) > clock
             /\ staged[j].enabled =>
                   /\ ReloadedNextRun(j) \in Nat
                   /\ ReloadedNextRun(j) = next_run_after(staged[j], clock)
  <2>1. staged[j] \in Configs
    BY <1>5 DEF TypeOK, ScheduleKept
  <2>2. QED
    BY <1>2, <1>5, <2>1, RescheduleLater
       DEF ReloadedNextRun, ReloadedConfig, ScheduleKept
<1>6. Past'
  BY <1>2, <1>4 DEF Past
<1>7. NoDoubleFire'
  <2> SUFFICES ASSUME NEW j \in Loaded' \ Running', next_run_at'[j] # None
               PROVE  next_run_at'[j] > lastStart[j]
    BY <1>2 DEF NoDoubleFire
  <2>1. j \in Jobs /\ j \notin Running /\ ReloadedConfig(j) # None
    BY <1>2, <1>4 DEF Loaded
  <2>2. CASE ScheduleKept(j)
    BY <1>4, <2>1, <2>2 DEF NoDoubleFire, Loaded, ReloadedNextRun
  <2>3. CASE ~ScheduleKept(j)
    <3>1. staged[j] # None /\ ReloadedNextRun(j) \in Nat
      BY <1>1, <1>4, <2>1, <2>3
         DEF ReloadedNextRun, ReloadedConfig, ScheduleKept, TypeOK
    <3>2. QED
      BY <1>2, <1>4, <1>5, <2>1, <2>3, <3>1
  <2>4. QED
    BY <2>2, <2>3
<1>8. EnabledScheduled' /\ NoSkippedOccurrence'
  <2> SUFFICES ASSUME NEW j \in Jobs, Enabled(j)'
               PROVE  /\ next_run_at'[j] # None
                      /\ j \notin Running /\ ~retrying'[j] =>
                            next_run_at'[j] <= next_run_after(configs'[j], anchor'[j])
    BY <1>2 DEF EnabledScheduled, NoSkippedOccurrence, Loaded, next_run_after
  <2>1. ReloadedConfig(j) # None /\ ReloadedConfig(j).enabled
    BY <1>4 DEF Enabled, Loaded
  <2>2. CASE ScheduleKept(j)
    BY <1>4, <2>1, <2>2
       DEF EnabledScheduled, NoSkippedOccurrence, Enabled, Loaded, ReloadedNextRun
  <2>3. CASE ~ScheduleKept(j)
    <3>1. staged[j] # None
      BY <2>1, <2>3 DEF ReloadedConfig, ScheduleKept
    <3>2. QED
      BY <1>2, <1>4, <1>5, <2>1, <2>3, <3>1
  <2>4. QED
    BY <2>2, <2>3
<1>9. QED
  BY <1>1, <1>3, <1>6, <1>7, <1>8

LEMMA IInvWorkerExits == ASSUME IInv, NEW j \in Jobs, WorkerExits(j) PROVE IInv'
<1> USE DEF IInv
<1>1. TypeOK'
  BY TypeOther DEF Environment
<1>2. /\ Running' = Running
      /\ UNCHANGED <<deadlines, timed_out, started_at, configs, next_run_at,
                     clock, tnow, todo, pc, lastStart, anchor, retrying>>
  BY ConstantsAssumption
     DEF WorkerExits, Running, TypeOK, environment, loop, history
<1>3. /\ ConcurrencyCap' /\ HandleBookkeeping' /\ TimeoutFlagFresh'
      /\ TodoStillDue' /\ Past'
  BY <1>2 DEF ConcurrencyCap, HandleBookkeeping, TimeoutFlagFresh, TodoStillDue,
              Past, Due, Enabled, Loaded
<1>4. NoDoubleFire' /\ EnabledScheduled' /\ NoSkippedOccurrence'
  BY <1>2 DEF NoDoubleFire, EnabledScheduled, NoSkippedOccurrence, Enabled,
              Loaded, next_run_after
<1>5. QED
  BY <1>1, <1>3, <1>4

LEMMA IInvNext == IInv /\ [Next]_vars => IInv'
BY IInvReap, IInvEnforce, IInvFireDue, IInvQuiet, IInvAdvance, IInvSpawn,
   IInvSpawnFails, IInvReload, IInvWorkerExits
   DEF Next, SchedulerThread, Environment

LEMMA Invariance == Spec => []IInv
BY InitIInv, IInvNext, PTL DEF Spec

-----------------------------------------------------------------------------
(* The retry budget: what has been granted and what is left never add up to *)
(* more than one config's retries.                                          *)

BudgetInv ==
    \A j \in Jobs :
        /\ retries_left[j] = None => streak[j] = 0
        /\ retries_left[j] # None =>
              \E c \in Configs : streak[j] + retries_left[j] <= c.retries

LEMMA BudgetReap == TypeOK /\ BudgetInv /\ Reap => BudgetInv'
<1> SUFFICES ASSUME TypeOK, BudgetInv, Reap, NEW j \in Jobs
             PROVE  /\ retries_left'[j] = None => streak'[j] = 0
                    /\ retries_left'[j] # None =>
                          \E c \in Configs : streak'[j] + retries_left'[j] <= c.retries
  BY Zenon DEF BudgetInv
<1>1. CASE j \notin Exited \cap Loaded
  BY <1>1 DEF Reap, BudgetInv, TypeOK
<1>2. CASE j \in Exited \cap Loaded
  <2>1. /\ configs[j] \in Configs /\ configs[j].retries \in Nat
        /\ None \notin Int /\ streak[j] \in Nat
        /\ retries_left[j] \in Nat \cup {None}
    BY <1>2, ConfigFields, ConstantsAssumption DEF TypeOK, Loaded
  <2>2. /\ retries_left'[j] = OutcomeRetriesLeft(j)
        /\ streak'[j] = IF AuthRetry(j) THEN streak[j] + 1 ELSE 0
    BY <1>2 DEF Reap
  <2>3. \E c \in Configs : streak[j] + RetriesRemaining(j) <= c.retries
    BY <2>1 DEF RetriesRemaining, BudgetInv
  <2>4. \A c \in Configs : c.retries \in Nat
    BY ConfigFields
  <2>5. QED
    BY <2>1, <2>2, <2>3, <2>4 DEF OutcomeRetriesLeft, RetriesRemaining, AuthRetry
<1>3. QED
  BY <1>1, <1>2

LEMMA BudgetNext == TypeOK /\ BudgetInv /\ [Next]_vars => BudgetInv'
<1> SUFFICES ASSUME TypeOK, BudgetInv, [Next]_vars PROVE BudgetInv'
  OBVIOUS
<1>1. CASE Reap
  BY <1>1, BudgetReap
<1>2. CASE ~Reap
  <2>1. UNCHANGED <<retries_left, streak>>
    BY <1>2 DEF Next, SchedulerThread, Environment, EnforceTimeouts,
       TerminateRaises, FireDue, Spawn, SpawnFails, FireEnds, Reload,
       ReloadRaises, NoReload, Sleep, WaitReturns, WakeClear, Advance, Sighup, WorkerExits, EditStaged,
       vars, inMemory, history
  <2>2. QED
    BY <2>1 DEF BudgetInv
<1>3. QED
  BY <1>1, <1>2

\* A job is never granted more auth retries in a row than some config allows.
THEOREM RetriesBounded == Spec => []RetryBudget
<1>1. Init => BudgetInv
  BY DEF Init, BudgetInv
<1>2. TypeOK /\ BudgetInv => RetryBudget
  BY ConfigFields, ConstantsAssumption DEF TypeOK, BudgetInv, RetryBudget
<1>3. IInv => TypeOK
  BY DEF IInv
<1>4. QED
  BY <1>1, <1>2, <1>3, BudgetNext, Invariance, PTL DEF Spec

-----------------------------------------------------------------------------
(* The results.                                                             *)

\* Every variable keeps its type, whatever the jobs, configs and bounds.
THEOREM TypeCorrect == Spec => []TypeOK
BY Invariance, PTL DEF IInv

\* The scheduler never has more workers than max_concurrent.
THEOREM CapHolds == Spec => []ConcurrencyCap
BY Invariance, PTL DEF IInv

\* _handles, _deadlines and started_at always describe the same workers.
THEOREM BookkeepingHolds == Spec => []HandleBookkeeping
BY Invariance, PTL DEF IInv

\* _timed_out names running workers past their deadline only: a kill of an
\* earlier run never turns a later failure into a timeout.
THEOREM TimeoutsAreFresh == Spec => []TimeoutFlagFresh
BY Invariance, PTL DEF IInv

\* No cron occurrence is run twice: what an idle job waits for is strictly later
\* than its last start.
THEOREM OccurrenceRunsOnce == Spec => []NoDoubleFire
BY Invariance, PTL DEF IInv

\* No occurrence is skipped after a start or a reload, except for a retry.
THEOREM OccurrenceNotSkipped == Spec => []NoSkippedOccurrence
BY Invariance, PTL DEF IInv

\* An enabled job always has a next_run_at.
THEOREM StaysScheduled == Spec => []EnabledScheduled
BY Invariance, PTL DEF IInv

\* fire_due spawns only jobs that are still idle, enabled and due.
THEOREM FiresOnlyDue == Spec => []TodoStillDue
BY Invariance, PTL DEF IInv
=============================================================================

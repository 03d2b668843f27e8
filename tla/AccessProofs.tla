----------------------------- MODULE AccessProofs -----------------------------
(***************************************************************************)
(* Theorems about how one gets in: about LoginRace, for any number of      *)
(* logins on the port and any number of requests, and about the gate of    *)
(* WebAccess, for every set of provider files, allowlist, token, key set   *)
(* and request.                                                            *)
(***************************************************************************)
EXTENDS LoginRace, WebAccess, SequenceTheorems, TLAPS

-----------------------------------------------------------------------------
(* Type correctness.                                                        *)
LEMMA PutIsTyped ==
    ASSUME TypeOK, NEW l \in Logins, NEW from \in {"local", "prompt"},
           NEW answer \in Answer \cup {None}
    PROVE  Put(l, from, answer) \in [Logins -> Seq(Message)]
<1>1. [from |-> from, answer |-> answer] \in Message
  BY DEF Message
<1>2. \A q \in Seq(Message) : Append(q, [from |-> from, answer |-> answer]) \in Seq(Message)
  BY <1>1
<1> QED
  BY <1>2 DEF Put, TypeOK

LEMMA InitTyped == Init => TypeOK
  BY MaxRequestsAssumption DEF Init, TypeOK, Outcome, Message

ServerStep(l) == do_GET(l) \/ LoopExits(l)

LEMMA ServerTyped ==
    ASSUME TypeOK, NEW l \in Logins, ServerStep(l) \/ Connect(l)
    PROVE  TypeOK'
<1>1. CASE do_GET(l)
  BY <1>1, SaidAssumption DEF TypeOK, do_GET, mainVars, raceVars, driverVars
<1>2. CASE LoopExits(l)
  BY <1>2 DEF TypeOK, LoopExits, mainVars, raceVars, driverVars
<1>3. CASE Connect(l)
  BY <1>3, MaxRequestsAssumption DEF TypeOK, Connect, raceVars, driverVars
<1> QED
  BY <1>1, <1>2, <1>3 DEF ServerStep

LEMMA HandlersTyped ==
    ASSUME TypeOK, NEW l \in Logins, LocalStep(l) \/ PromptAnswers(l) \/ DeadlinePasses(l)
    PROVE  TypeOK'
<1>1. CASE WaitBegins(l)
  BY <1>1 DEF TypeOK, WaitBegins, mainVars, serverVars, driverVars
<1>2. CASE WaitEnds(l)
  BY <1>2 DEF TypeOK, WaitEnds, mainVars, serverVars, driverVars
<1>3. CASE LocalCloses(l)
  BY <1>3 DEF TypeOK, LocalCloses, Close, Release, mainVars, serverVars, driverVars
<1>4. CASE LocalReports(l)
  <2>1. result_q' \in [Logins -> Seq(Message)]
    BY <1>4, PutIsTyped DEF LocalReports, TypeOK
  <2> QED
    BY <1>4, <2>1 DEF TypeOK, LocalReports, mainVars, serverVars, driverVars
<1>5. CASE PromptAnswers(l)
  <2>1. result_q' \in [Logins -> Seq(Message)]
    BY <1>5, PutIsTyped, SaidAssumption DEF PromptAnswers
  <2> QED
    BY <1>5, <2>1 DEF TypeOK, PromptAnswers, mainVars, serverVars, driverVars
<1>6. CASE DeadlinePasses(l)
  BY <1>6 DEF TypeOK, DeadlinePasses, mainVars, serverVars, driverVars
<1> QED
  BY <1>1, <1>2, <1>3, <1>4, <1>5, <1>6 DEF LocalStep

LEMMA DriverTyped ==
    ASSUME TypeOK, NEW l \in Logins, WatchdogFires(l) \/ DriverExits(l) \/ Killed(l)
    PROVE  TypeOK'
<1>1. CASE WatchdogFires(l)
  BY <1>1 DEF TypeOK, WatchdogFires, mainVars, serverVars, raceVars
<1>2. CASE DriverExits(l)
  BY <1>2 DEF TypeOK, DriverExits, mainVars, serverVars, raceVars
<1>3. CASE Killed(l)
  BY <1>3 DEF TypeOK, Killed, serverVars, raceVars
<1> QED
  BY <1>1, <1>2, <1>3

LEMMA MainTyped ==
    ASSUME TypeOK, NEW l \in Logins, Begin(l) \/ MainStep(l)
    PROVE  TypeOK'
<1>1. CASE Begin(l)
  BY <1>1 DEF TypeOK, Begin, raceVars, driverVars
<1>2. CASE _open_and_print(l)
  BY <1>2 DEF TypeOK, _open_and_print, serverVars, raceVars, driverVars
<1>3. CASE _maybe_start_supervisor(l)
  <2>1. main' = [main EXCEPT ![l] = "racing"] \/ main' = [main EXCEPT ![l] = "close"]
    BY <1>3 DEF _maybe_start_supervisor
  <2>2. Spawn(l) \/ UNCHANGED driverVars
    BY <1>3 DEF _maybe_start_supervisor
  <2>3. /\ local' = [local EXCEPT ![l] = "started"] \/ local' = local
        /\ \/ prompt' = [prompt EXCEPT ![l] = prompt[l]]
           \/ prompt' = [prompt EXCEPT ![l] = "reading"]
           \/ prompt' = prompt
    BY <1>3 DEF _maybe_start_supervisor
  <2>4. UNCHANGED <<outcome, urls, requests, serverVars, taken, late, cancel, result_q, errors>>
    BY <1>3 DEF _maybe_start_supervisor
  <2>5. /\ held' \in [Logins -> BOOLEAN]
        /\ killer' \in [Logins -> {"none", "main", "watchdog"}]
        /\ proc' \in [Logins -> {"none", "running", "exited", "dead"}]
    BY <2>2 DEF TypeOK, Spawn, driverVars
  <2>6. main' \in [Logins -> {"idle", "bound", "opened", "racing", "terminate", "killing",
                              "close", "shutdown", "returned"}]
    BY <2>1 DEF TypeOK
  <2>7. local' \in [Logins -> {"none", "started", "waiting", "close", "shutdown", "report", "ended"}]
    BY <2>3 DEF TypeOK
  <2>8. prompt' \in [Logins -> {"none", "reading", "ended"}]
    BY <2>3 DEF TypeOK
  <2> QED
    BY <2>4, <2>5, <2>6, <2>7, <2>8 DEF TypeOK, serverVars
<1>4. CASE RaceTakes(l)
  <2> DEFINE head == Head(result_q[l])
  <2>1. result_q[l] \in Seq(Message) /\ result_q[l] # <<>>
    BY <1>4 DEF RaceTakes, TypeOK
  <2>2. head \in Message /\ Tail(result_q[l]) \in Seq(Message)
    BY <2>1
  <2>3. result_q' \in [Logins -> Seq(Message)]
    BY <1>4, <2>2 DEF RaceTakes, TypeOK
  <2>4. [from |-> head.from, answer |-> head.answer] \in Outcome
    BY <2>2 DEF Outcome, Message
  <2>5. outcome' \in [Logins -> Outcome]
    <3>1. CASE head.answer # None
      <4>1. outcome' = [outcome EXCEPT ![l] = [from |-> head.from, answer |-> head.answer]]
        BY <1>4, <3>1 DEF RaceTakes, Returns
      <4> QED
        BY <2>4, <4>1 DEF TypeOK
    <3>2. CASE head.answer = None
      BY <1>4, <3>2 DEF RaceTakes, TypeOK
    <3> QED
      BY <3>1, <3>2
  <2>6. errors' \in [Logins -> Nat]
    <3>1. CASE head.answer # None
      BY <1>4, <3>1 DEF RaceTakes, TypeOK
    <3>2. CASE head.answer = None
      <4>1. errors' = [errors EXCEPT ![l] = errors[l] + 1]
        BY <1>4, <3>2 DEF RaceTakes
      <4> QED
        BY <4>1 DEF TypeOK
    <3> QED
      BY <3>1, <3>2
  <2>7. AllFailed(l) \in BOOLEAN
    BY DEF AllFailed
  <2>8. cancel' \in [Logins -> BOOLEAN]
    BY <1>4, <2>7 DEF RaceTakes, TypeOK
  <2> QED
    BY <1>4, <2>3, <2>5, <2>6, <2>8 DEF TypeOK, RaceTakes, serverVars, driverVars
<1>5. CASE Terminates(l)
  BY <1>5 DEF TypeOK, Terminates, serverVars, raceVars
<1>6. CASE MainCloses(l)
  BY <1>6 DEF TypeOK, MainCloses, Close, Release, raceVars, driverVars
<1> QED
  BY <1>1, <1>2, <1>3, <1>4, <1>5, <1>6 DEF MainStep

LEMMA NextTyped == TypeOK /\ [Next]_vars => TypeOK'
<1> SUFFICES ASSUME TypeOK, [Next]_vars PROVE TypeOK'
  OBVIOUS
<1>1. CASE UNCHANGED vars
  BY <1>1 DEF TypeOK, vars, mainVars, serverVars, raceVars, driverVars
<1>2. CASE Next
  BY <1>2, ServerTyped, HandlersTyped, DriverTyped, MainTyped DEF Next, ServerStep
<1> QED
  BY <1>1, <1>2

\* Every reachable state is well typed.
THEOREM TypeCorrect == Spec => []TypeOK
<1>1. Init => TypeOK
  BY InitTyped
<1>2. TypeOK /\ [Next]_vars => TypeOK'
  BY NextTyped
<1> QED
  BY <1>1, <1>2, PTL DEF Spec

-----------------------------------------------------------------------------
(* What holds of each login by itself.                                      *)
Before(l) == main[l] \in {"idle", "bound", "opened"}
Queued(l, from) == \E i \in DOMAIN result_q[l] : result_q[l][i].from = from

\* Where a login's answers and failures are.
Answers(l) ==
    /\ captured[l] # None => Armed(l) /\ Accepts(l, captured[l])
    /\ taken[l] => captured[l] # None
    /\ local[l] \in {"close", "shutdown", "report", "ended"} /\ ~taken[l] => cancel[l] \/ late[l]
    /\ local[l] \in {"none", "started", "waiting"} => ~taken[l]
    /\ local[l] = "none" => ~late[l]
    /\ \A i \in DOMAIN result_q[l] :
          /\ result_q[l][i].from = "local" =>
                /\ local[l] = "ended"
                /\ result_q[l][i].answer = (IF taken[l] THEN captured[l] ELSE None)
          /\ result_q[l][i].from = "prompt" => prompt[l] = "ended"
          /\ \A j \in DOMAIN result_q[l] : result_q[l][i].from = result_q[l][j].from => i = j

\* Where the race stands.
Race(l) ==
    /\ killer[l] = "main" => main[l] = "killing"
    /\ l \in Unattended => prompt[l] = "none"
    /\ Before(l) => /\ local[l] = "none" /\ prompt[l] = "none" /\ errors[l] = 0
                    /\ result_q[l] = <<>>
    /\ Before(l) \/ main[l] = "racing" => outcome[l].from = "nobody" /\ ~cancel[l]
    /\ main[l] = "racing" =>
          /\ local[l] # "none"
          /\ errors[l] \in {0, 1} /\ (l \in Unattended => errors[l] = 0)
          /\ errors[l] = 1 =>
                \/ local[l] = "ended" /\ ~taken[l]
                \/ prompt[l] = "ended" /\ ~Queued(l, "prompt")
    /\ outcome[l].from = "local" => taken[l] /\ outcome[l].answer = captured[l]
    /\ ~Before(l) /\ main[l] # "racing" /\ outcome[l].from = "nobody" => local[l] = "none" \/ late[l]

\* Who holds the port of an unattended login.
Port(l) ==
    /\ main[l] = "idle" => server[l] = "off"
    /\ main[l] \in {"bound", "opened"} => server[l] = "serving"
    /\ main[l] \in {"terminate", "killing"} => local[l] = "ended"
    /\ main[l] = "close" => local[l] = "ended" \/ (local[l] = "none" /\ server[l] = "serving")
    /\ main[l] = "shutdown" => local[l] = "none" /\ server[l] \in {"stopping", "stopped"}
    /\ main[l] = "returned" => server[l] \in {"off", "released"} /\ local[l] \in {"none", "ended"}
    /\ local[l] \in {"started", "waiting", "close"} => server[l] = "serving"
    /\ local[l] = "shutdown" => server[l] \in {"stopping", "stopped"}
    /\ local[l] \in {"report", "ended"} => server[l] = "released"

Local(l) == Answers(l) /\ Race(l) /\ (l \in Unattended => Port(l))
IInv == TypeOK /\ \A l \in Logins : Local(l)

-----------------------------------------------------------------------------
(* A step of one login leaves the others alone.                             *)
SameMain(k) == main'[k] = main[k] /\ outcome'[k] = outcome[k]
SameServer(k) == server'[k] = server[k] /\ captured'[k] = captured[k]
SameLocal(k) == local'[k] = local[k] /\ taken'[k] = taken[k] /\ late'[k] = late[k]
SameRace(k) == /\ prompt'[k] = prompt[k] /\ cancel'[k] = cancel[k]
               /\ result_q'[k] = result_q[k] /\ errors'[k] = errors[k]
SameKiller(k) == killer'[k] = killer[k]
Same(k) == SameMain(k) /\ SameServer(k) /\ SameLocal(k) /\ SameRace(k) /\ SameKiller(k)

LEMMA SameIsKept ==
    ASSUME NEW l \in Logins, Same(l), Local(l)
    PROVE  Local(l)'
<1> USE DEF Same, SameMain, SameServer, SameLocal, SameRace, SameKiller, Local
<1>1. Answers(l)'
  BY DEF Answers, Armed, Accepts
<1>2. Race(l)'
  BY DEF Race, Before, Queued
<1>3. l \in Unattended => Port(l)'
  BY DEF Port
<1> QED
  BY <1>1, <1>2, <1>3

Step(l) ==
    \/ Begin(l) \/ MainStep(l) \/ LocalStep(l) \/ ServerStep(l)
    \/ Connect(l) \/ PromptAnswers(l) \/ DeadlinePasses(l)
    \/ WatchdogFires(l) \/ DriverExits(l) \/ Killed(l)

LEMMA OthersKept ==
    ASSUME TypeOK, NEW l \in Logins, Step(l), NEW k \in Logins, k # l
    PROVE  Same(k)
<1> USE DEF TypeOK, Same, SameMain, SameServer, SameLocal, SameRace, SameKiller,
            mainVars, serverVars, raceVars, driverVars
<1>1. CASE Begin(l)
  BY <1>1 DEF Begin
<1>2. CASE _open_and_print(l)
  BY <1>2 DEF _open_and_print
<1>3. CASE _maybe_start_supervisor(l)
  BY <1>3 DEF _maybe_start_supervisor, Spawn
<1>4. CASE RaceTakes(l)
  BY <1>4 DEF RaceTakes, Returns
<1>5. CASE Terminates(l)
  BY <1>5 DEF Terminates
<1>6. CASE MainCloses(l)
  BY <1>6 DEF MainCloses, Close, Release
<1>7. CASE LocalStep(l)
  BY <1>7 DEF LocalStep, WaitBegins, WaitEnds, LocalCloses, Close, Release, LocalReports, Put
<1>8. CASE ServerStep(l) \/ Connect(l) \/ DeadlinePasses(l)
  BY <1>8 DEF ServerStep, do_GET, LoopExits, Connect, DeadlinePasses
<1>9. CASE PromptAnswers(l)
  BY <1>9 DEF PromptAnswers, Put
<1>10. CASE WatchdogFires(l) \/ DriverExits(l) \/ Killed(l)
  BY <1>10 DEF WatchdogFires, DriverExits, Killed
<1> QED
  BY <1>1, <1>2, <1>3, <1>4, <1>5, <1>6, <1>7, <1>8, <1>9, <1>10 DEF Step, MainStep

-----------------------------------------------------------------------------
(* A step of a login keeps what holds of it.                                *)
LEMMA ClientKept ==
    ASSUME TypeOK, NEW l \in Logins, Local(l), Connect(l) \/ DriverExits(l) \/ WatchdogFires(l)
    PROVE  Local(l)'
<1>1. SameMain(l) /\ SameServer(l) /\ SameLocal(l) /\ SameRace(l)
  BY DEF Connect, DriverExits, WatchdogFires, SameMain, SameServer, SameLocal, SameRace,
         mainVars, serverVars, raceVars, driverVars
<1>2. killer'[l] = "main" => killer[l] = "main"
  BY DEF TypeOK, Connect, DriverExits, WatchdogFires, driverVars
<1> USE <1>1, <1>2 DEF SameMain, SameServer, SameLocal, SameRace, Local
<1>3. Answers(l)'
  BY DEF Answers, Armed, Accepts
<1>4. Race(l)'
  BY DEF Race, Before, Queued
<1>5. l \in Unattended => Port(l)'
  BY DEF Port
<1> QED
  BY <1>3, <1>4, <1>5

LEMMA KilledKept ==
    ASSUME TypeOK, NEW l \in Logins, Local(l), Killed(l)
    PROVE  Local(l)'
<1>1. /\ outcome' = outcome /\ SameServer(l) /\ SameLocal(l) /\ SameRace(l)
      /\ killer'[l] = "none"
      /\ main'[l] = IF killer[l] = "main" THEN "close" ELSE main[l]
  BY DEF TypeOK, Killed, SameServer, SameLocal, SameRace, serverVars, raceVars
<1> USE <1>1 DEF SameServer, SameLocal, SameRace, Local
<1>2. Answers(l)'
  BY DEF Answers, Armed, Accepts
<1>3. l \in Unattended => Port(l)'
  BY DEF Port, Race
<1>4. Race(l)'
  BY DEF Race, Before, Queued
<1> QED
  BY <1>2, <1>3, <1>4

LEMMA ServerKept ==
    ASSUME TypeOK, NEW l \in Logins, Local(l), ServerStep(l)
    PROVE  Local(l)'
<1>1. CASE do_GET(l)
  <2>1. SameMain(l) /\ SameLocal(l) /\ SameRace(l) /\ SameKiller(l) /\ server' = server
    BY <1>1 DEF do_GET, SameMain, SameLocal, SameRace, SameKiller, mainVars, raceVars, driverVars
  <2>2. captured'[l] = captured[l] \/ Captures(l, captured'[l])
    BY <1>1 DEF TypeOK, do_GET
  <2> USE <2>1, <2>2 DEF SameMain, SameLocal, SameRace, SameKiller, Local
  <2>3. captured[l] # None => captured'[l] = captured[l]
    BY <2>2 DEF Captures
  <2>4. captured[l] = None => ~taken[l]
    BY DEF Answers
  <2>5. Answers(l)'
    BY <2>3, <2>4 DEF Answers, Armed, Accepts, Captures
  <2>6. Race(l)'
    BY <2>3, <2>4 DEF Race, Before, Queued
  <2>7. l \in Unattended => Port(l)'
    BY DEF Port
  <2> QED
    BY <2>5, <2>6, <2>7
<1>2. CASE LoopExits(l)
  <2>1. /\ SameMain(l) /\ SameLocal(l) /\ SameRace(l) /\ SameKiller(l) /\ captured' = captured
        /\ server[l] = "stopping" /\ server'[l] = "stopped"
    BY <1>2 DEF TypeOK, LoopExits, SameMain, SameLocal, SameRace, SameKiller,
                mainVars, raceVars, driverVars
  <2> USE <2>1 DEF SameMain, SameLocal, SameRace, SameKiller, Local
  <2>2. Answers(l)'
    BY DEF Answers, Armed, Accepts
  <2>3. Race(l)'
    BY DEF Race, Before, Queued
  <2>4. l \in Unattended => Port(l)'
    BY DEF Port
  <2> QED
    BY <2>2, <2>3, <2>4
<1> QED
  BY <1>1, <1>2 DEF ServerStep

LEMMA LocalKept ==
    ASSUME TypeOK, NEW l \in Logins, Local(l), LocalStep(l) \/ DeadlinePasses(l)
    PROVE  Local(l)'
<1> USE DEF Local, SameMain, SameRace, SameKiller
<1>1. CASE WaitBegins(l)
  <2>1. /\ SameMain(l) /\ SameRace(l) /\ SameKiller(l) /\ SameServer(l)
        /\ taken' = taken /\ late' = late
        /\ local[l] = "started" /\ local'[l] = "waiting"
    BY <1>1 DEF TypeOK, WaitBegins, SameServer, mainVars, serverVars, driverVars
  <2> USE <2>1 DEF SameServer
  <2>2. Answers(l)'
    BY DEF Answers, Armed, Accepts
  <2>3. Race(l)'
    BY DEF Race, Before, Queued
  <2>4. l \in Unattended => Port(l)'
    BY DEF Port
  <2> QED
    BY <2>2, <2>3, <2>4
<1>2. CASE WaitEnds(l)
  <2>1. /\ SameMain(l) /\ SameRace(l) /\ SameKiller(l) /\ SameServer(l)
        /\ late' = late
        /\ local[l] = "waiting" /\ local'[l] = "close"
    BY <1>2 DEF TypeOK, WaitEnds, SameServer, mainVars, serverVars, driverVars
  <2>2. \/ GivesUp(l) /\ taken'[l] = taken[l]
        \/ captured[l] # None /\ taken'[l]
    BY <1>2 DEF TypeOK, WaitEnds
  <2> USE <2>1, <2>2 DEF SameServer, GivesUp
  <2>3. Answers(l)'
    BY DEF Answers, Armed, Accepts
  <2>4. Race(l)'
    BY DEF Race, Before, Queued, Answers
  <2>5. l \in Unattended => Port(l)'
    BY DEF Port
  <2> QED
    BY <2>3, <2>4, <2>5
<1>3. CASE LocalCloses(l)
  <2>1. /\ SameMain(l) /\ SameRace(l) /\ SameKiller(l)
        /\ captured' = captured /\ taken' = taken /\ late' = late
    BY <1>3 DEF LocalCloses, mainVars, driverVars
  <2>2. \/ local[l] = "close" /\ Closed(l) /\ local'[l] = "report" /\ server' = server
        \/ /\ local[l] = "close" /\ server[l] \in {"serving", "stopping"}
           /\ local'[l] = "shutdown" /\ server'[l] = "stopping"
        \/ /\ local[l] = "shutdown" /\ server[l] \in {"stopped", "released"}
           /\ local'[l] = "report" /\ server'[l] = "released"
    BY <1>3 DEF TypeOK, LocalCloses, Close, Release
  <2> USE <2>1, <2>2
  <2>3. Answers(l)'
    BY DEF Answers, Armed, Accepts
  <2>4. Race(l)'
    BY DEF Race, Before, Queued
  <2>5. l \in Unattended => Port(l)'
    BY DEF Port, Closed, Race, Before
  <2> QED
    BY <2>3, <2>4, <2>5
<1>4. CASE DeadlinePasses(l)
  <2>1. /\ SameMain(l) /\ SameRace(l) /\ SameKiller(l) /\ SameServer(l)
        /\ local' = local /\ taken' = taken
        /\ local[l] = "waiting" /\ late'[l]
    BY <1>4 DEF TypeOK, DeadlinePasses, SameServer, mainVars, serverVars, driverVars
  <2> USE <2>1 DEF SameServer
  <2>2. Answers(l)'
    BY DEF Answers, Armed, Accepts
  <2>3. Race(l)'
    BY DEF Race, Before, Queued
  <2>4. l \in Unattended => Port(l)'
    BY DEF Port
  <2> QED
    BY <2>2, <2>3, <2>4
<1>5. CASE LocalReports(l)
  <2> DEFINE said == IF taken[l] THEN captured[l] ELSE None
             m == [from |-> "local", answer |-> said]
  <2>1. /\ SameMain(l) /\ SameServer(l) /\ SameKiller(l)
        /\ taken' = taken /\ late' = late /\ prompt' = prompt /\ cancel' = cancel
        /\ errors' = errors
        /\ local[l] = "report" /\ local'[l] = "ended"
        /\ result_q'[l] = Append(result_q[l], m)
    BY <1>5 DEF TypeOK, LocalReports, Put, SameServer, mainVars, serverVars, driverVars
  <2>2. result_q[l] \in Seq(Message) /\ m \in Message
    BY DEF TypeOK, Message
  <2>3. /\ Len(result_q'[l]) = Len(result_q[l]) + 1
        /\ \A i \in 1 .. Len(result_q[l]) : result_q'[l][i] = result_q[l][i]
        /\ result_q'[l][Len(result_q[l]) + 1] = m
        /\ Len(result_q[l]) \in Nat
        /\ DOMAIN result_q[l] = 1 .. Len(result_q[l])
        /\ DOMAIN result_q'[l] = 1 .. Len(result_q[l]) + 1
    BY <2>1, <2>2
  <2>4. \A i \in DOMAIN result_q'[l] :
           \/ i \in DOMAIN result_q[l] /\ result_q'[l][i] = result_q[l][i]
           \/ i = Len(result_q[l]) + 1 /\ result_q'[l][i] = m
    BY <2>3
  <2>5. \A i \in DOMAIN result_q[l] : result_q[l][i].from # "local"
    BY <2>1 DEF Answers
  <2>6. Answers(l)'
    BY <2>1, <2>3, <2>4, <2>5 DEF Answers, Armed, Accepts, SameServer
  <2>7. Queued(l, "prompt")' => Queued(l, "prompt")
    BY <2>4 DEF Queued
  <2>8. Race(l)'
    BY <2>1, <2>7 DEF Race, Before, SameServer
  <2>9. l \in Unattended => Port(l)'
    BY <2>1 DEF Port, SameServer
  <2> QED
    BY <2>6, <2>8, <2>9
<1> QED
  BY <1>1, <1>2, <1>3, <1>4, <1>5 DEF LocalStep

LEMMA PromptKept ==
    ASSUME TypeOK, NEW l \in Logins, Local(l), PromptAnswers(l)
    PROVE  Local(l)'
<1> USE DEF Local, SameMain, SameServer, SameLocal, SameKiller
<1>1. PICK answer \in Answer \cup {None} : result_q' = Put(l, "prompt", answer)
  BY SaidAssumption DEF PromptAnswers
<1> DEFINE m == [from |-> "prompt", answer |-> answer]
<1>2. /\ SameMain(l) /\ SameServer(l) /\ SameLocal(l) /\ SameKiller(l)
      /\ cancel' = cancel /\ errors' = errors
      /\ prompt[l] = "reading" /\ prompt'[l] = "ended"
      /\ result_q'[l] = Append(result_q[l], m)
  BY <1>1 DEF TypeOK, PromptAnswers, Put, mainVars, serverVars, driverVars
<1>3. result_q[l] \in Seq(Message) /\ m \in Message
  BY DEF TypeOK, Message
<1>4. /\ Len(result_q'[l]) = Len(result_q[l]) + 1
      /\ \A i \in 1 .. Len(result_q[l]) : result_q'[l][i] = result_q[l][i]
      /\ result_q'[l][Len(result_q[l]) + 1] = m
      /\ Len(result_q[l]) \in Nat
      /\ DOMAIN result_q[l] = 1 .. Len(result_q[l])
      /\ DOMAIN result_q'[l] = 1 .. Len(result_q[l]) + 1
  BY <1>2, <1>3
<1>5. \A i \in DOMAIN result_q'[l] :
         \/ i \in DOMAIN result_q[l] /\ result_q'[l][i] = result_q[l][i]
         \/ i = Len(result_q[l]) + 1 /\ result_q'[l][i] = m
  BY <1>4
<1>6. \A i \in DOMAIN result_q[l] : result_q[l][i].from # "prompt"
  BY <1>2 DEF Answers
<1>7. Answers(l)'
  BY <1>2, <1>4, <1>5, <1>6 DEF Answers, Armed, Accepts
<1>8. Race(l)'
  BY <1>2 DEF Race, Before
<1>9. l \in Unattended => Port(l)'
  BY <1>2 DEF Port
<1> QED
  BY <1>7, <1>8, <1>9

LEMMA RaceKept ==
    ASSUME TypeOK, NEW l \in Logins, Local(l), RaceTakes(l)
    PROVE  Local(l)'
<1> DEFINE q == result_q[l]
           head == Head(q)
<1>1. /\ SameServer(l) /\ SameLocal(l) /\ SameKiller(l) /\ prompt' = prompt
      /\ main[l] = "racing" /\ q # <<>> /\ result_q'[l] = Tail(q)
  BY DEF TypeOK, RaceTakes, SameServer, SameLocal, SameKiller, serverVars, driverVars
<1>2. q \in Seq(Message) /\ q # <<>>
  BY <1>1 DEF TypeOK
<1>3. /\ head = q[1] /\ head \in Message /\ 1 \in DOMAIN q
      /\ Len(q) \in Nat /\ DOMAIN q = 1 .. Len(q)
      /\ DOMAIN Tail(q) = 1 .. Len(q) - 1
      /\ \A i \in 1 .. Len(q) - 1 : Tail(q)[i] = q[i + 1]
  BY <1>2
<1>4. \A i \in DOMAIN Tail(q) : i + 1 \in DOMAIN q /\ Tail(q)[i] = q[i + 1] /\ i + 1 # 1
  BY <1>3
<1>5. \A i, j \in DOMAIN Tail(q) : i + 1 = j + 1 => i = j
  BY <1>3
<1> HIDE DEF q, head
<1> USE DEF Local, SameServer, SameLocal, SameKiller
<1>6. \/ /\ head.answer # None /\ outcome'[l] = [from |-> head.from, answer |-> head.answer]
         /\ cancel'[l] = TRUE /\ main'[l] = "terminate" /\ errors' = errors
      \/ /\ head.answer = None /\ outcome' = outcome /\ errors'[l] = errors[l] + 1
         /\ \/ AllFailed(l) /\ cancel'[l] /\ main'[l] = "terminate"
            \/ ~AllFailed(l) /\ cancel'[l] = FALSE /\ main'[l] = "racing"
  <2>1. CASE head.answer # None
    BY <2>1 DEF TypeOK, RaceTakes, Returns, head, q
  <2>2. CASE head.answer = None
    BY <2>2, <1>1 DEF TypeOK, RaceTakes, head, q
  <2> QED
    BY <2>1, <2>2
<1>7. Answers(l)'
  <2>1. cancel[l] => cancel'[l]
    BY <1>1 DEF Race
  <2> QED
    BY <1>1, <1>4, <1>5, <2>1 DEF Answers, Armed, Accepts, q
<1>8. head.from = "local" => local[l] = "ended" /\ head.answer = (IF taken[l] THEN captured[l] ELSE None)
  BY <1>3 DEF Answers, q
<1>9. head.from = "prompt" => prompt[l] = "ended" /\ ~Queued(l, "prompt")'
  <2>1. SUFFICES ASSUME head.from = "prompt" PROVE prompt[l] = "ended" /\ ~Queued(l, "prompt")'
    OBVIOUS
  <2>2. prompt[l] = "ended"
    BY <1>3, <2>1 DEF Answers, q
  <2>3. \A i \in DOMAIN Tail(q) : Tail(q)[i].from # "prompt"
    BY <1>3, <1>4, <2>1 DEF Answers, q
  <2> QED
    BY <1>1, <2>2, <2>3 DEF Queued
<1>10. head.from \in {"local", "prompt"}
  BY <1>3 DEF Message
<1>11. Queued(l, "prompt")' => Queued(l, "prompt")
  BY <1>1, <1>4 DEF Queued, q
<1>12. taken[l] => captured[l] # None
  BY DEF Answers
<1>13. l \in Unattended => head.from = "local"
  BY <1>1, <1>9, <1>10 DEF Race
<1>14. head.from = "prompt" => Queued(l, "prompt")
  BY <1>3 DEF Queued, q
<1>15. Race(l)'
  <2>1. CASE head.answer # None
    <3>1. /\ outcome'[l].from = head.from /\ outcome'[l].answer = head.answer
          /\ main'[l] = "terminate"
      BY <1>6, <2>1
    <3> QED
      BY <1>1, <1>8, <1>10, <2>1, <3>1 DEF Race, Before
  <2>2. CASE head.answer = None /\ AllFailed(l)
    \* Everybody failed: the callback handler among them, and only for its deadline.
    <3>1. /\ outcome' = outcome /\ errors'[l] = errors[l] + 1 /\ cancel'[l] /\ main'[l] = "terminate"
      BY <1>6, <2>2
    <3>2. local[l] = "ended" /\ ~taken[l]
      BY <1>1, <1>8, <1>10, <1>12, <1>13, <1>14, <2>2 DEF Race, AllFailed, Handlers
    <3>3. late[l]
      BY <1>1, <3>2 DEF Answers, Race
    <3> QED
      BY <1>1, <3>1, <3>3 DEF Race, Before
  <2>3. CASE head.answer = None /\ ~AllFailed(l)
    <3>1. /\ outcome' = outcome /\ errors'[l] = errors[l] + 1 /\ cancel'[l] = FALSE
          /\ main'[l] = "racing"
      BY <1>6, <2>3
    <3>2. errors[l] = 0 /\ l \notin Unattended
      BY <1>1, <2>3 DEF Race, AllFailed, Handlers
    <3>3. \/ local[l] = "ended" /\ ~taken[l]
          \/ prompt[l] = "ended" /\ ~Queued(l, "prompt")'
      BY <1>8, <1>9, <1>10, <1>12, <2>3
    <3> QED
      BY <1>1, <3>1, <3>2, <3>3 DEF Race, Before
  <2> QED
    BY <2>1, <2>2, <2>3
<1>16. l \in Unattended => Port(l)'
  <2>1. l \in Unattended => local[l] = "ended"
    BY <1>8, <1>13
  <2>2. main'[l] \in {"terminate", "racing"}
    BY <1>6
  <2> QED
    BY <1>1, <2>1, <2>2 DEF Port
<1> QED
  BY <1>7, <1>15, <1>16

LEMMA MainKept ==
    ASSUME TypeOK, NEW l \in Logins, Local(l), Begin(l) \/ MainStep(l)
    PROVE  Local(l)'
<1> USE DEF Local, SameServer, SameLocal, SameRace, SameKiller
<1>1. CASE Begin(l)
  <2>1. /\ SameLocal(l) /\ SameRace(l) /\ SameKiller(l)
        /\ outcome' = outcome /\ captured' = captured /\ main[l] = "idle"
        /\ \/ main'[l] = "bound" /\ server'[l] = "serving"
           \/ main'[l] = "returned" /\ server' = server
    BY <1>1 DEF TypeOK, Begin, raceVars, driverVars
  <2> USE <2>1
  <2>2. Answers(l)'
    BY DEF Answers, Armed, Accepts
  <2>3. Race(l)'
    BY DEF Race, Before, Queued
  <2>4. l \in Unattended => Port(l)'
    BY DEF Port, Race, Before
  <2> QED
    BY <2>2, <2>3, <2>4
<1>2. CASE _open_and_print(l)
  <2>1. /\ SameServer(l) /\ SameLocal(l) /\ SameRace(l) /\ SameKiller(l)
        /\ outcome' = outcome /\ main[l] = "bound" /\ main'[l] = "opened"
    BY <1>2 DEF TypeOK, _open_and_print, serverVars, raceVars, driverVars
  <2> USE <2>1
  <2>2. Answers(l)'
    BY DEF Answers, Armed, Accepts
  <2>3. Race(l)'
    BY DEF Race, Before, Queued
  <2>4. l \in Unattended => Port(l)'
    BY DEF Port
  <2> QED
    BY <2>2, <2>3, <2>4
<1>3. CASE _maybe_start_supervisor(l)
  <2>1. /\ SameServer(l) /\ SameKiller(l) /\ main[l] = "opened"
        /\ outcome' = outcome /\ taken' = taken /\ late' = late
        /\ cancel' = cancel /\ result_q' = result_q /\ errors' = errors
    BY <1>3 DEF TypeOK, _maybe_start_supervisor, Spawn, serverVars, driverVars
  <2>2. \/ /\ main'[l] = "racing" /\ local'[l] = "started"
           /\ prompt'[l] = (IF l \in Unattended THEN prompt[l] ELSE "reading")
        \/ /\ l \in Unattended /\ main'[l] = "close"
           /\ local' = local /\ prompt' = prompt
    BY <1>3 DEF TypeOK, _maybe_start_supervisor
  <2>3. local[l] = "none" /\ prompt[l] = "none" /\ result_q[l] = <<>> /\ errors[l] = 0
    BY <2>1 DEF Race, Before
  <2> USE <2>1, <2>2, <2>3
  <2>4. Answers(l)'
    BY DEF Answers, Armed, Accepts
  <2>5. Race(l)'
    BY DEF Race, Before, Queued
  <2>6. l \in Unattended => Port(l)'
    BY DEF Port
  <2> QED
    BY <2>4, <2>5, <2>6
<1>4. CASE Terminates(l)
  <2>1. /\ SameServer(l) /\ SameLocal(l) /\ SameRace(l)
        /\ outcome' = outcome /\ main[l] = "terminate"
        /\ \/ main'[l] = "killing"
           \/ main'[l] = "close" /\ killer'[l] = killer[l]
    BY <1>4 DEF TypeOK, Terminates, serverVars, raceVars
  <2> USE <2>1
  <2>2. Answers(l)'
    BY DEF Answers, Armed, Accepts
  <2>3. Race(l)'
    BY DEF Race, Before, Queued
  <2>4. l \in Unattended => Port(l)'
    BY DEF Port
  <2> QED
    BY <2>2, <2>3, <2>4
<1>5. CASE MainCloses(l)
  <2>1. /\ SameLocal(l) /\ SameRace(l) /\ SameKiller(l)
        /\ outcome' = outcome /\ captured' = captured
    BY <1>5 DEF MainCloses, raceVars, driverVars
  <2>2. \/ main[l] = "close" /\ Closed(l) /\ main'[l] = "returned" /\ server' = server
        \/ /\ main[l] = "close" /\ server[l] \in {"serving", "stopping"}
           /\ main'[l] = "shutdown" /\ server'[l] = "stopping"
        \/ /\ main[l] = "shutdown" /\ server[l] \in {"stopped", "released"}
           /\ main'[l] = "returned" /\ server'[l] = "released"
    BY <1>5 DEF TypeOK, MainCloses, Close, Release
  <2> USE <2>1, <2>2
  <2>3. Answers(l)'
    BY DEF Answers, Armed, Accepts
  <2>4. Race(l)'
    BY DEF Race, Before, Queued
  <2>5. l \in Unattended => Port(l)'
    BY DEF Port, Closed
  <2> QED
    BY <2>3, <2>4, <2>5
<1>6. CASE RaceTakes(l)
  BY <1>6, RaceKept
<1> QED
  BY <1>1, <1>2, <1>3, <1>4, <1>5, <1>6 DEF MainStep

-----------------------------------------------------------------------------
(* The inductive invariant, and what follows from it.                       *)
LEMMA InitIInv == Init => IInv
<1> SUFFICES ASSUME Init PROVE IInv
  OBVIOUS
<1>1. TypeOK
  BY InitTyped
<1>2. ASSUME NEW l \in Logins PROVE Local(l)
  <2>1. Answers(l)
    BY DEF Init, Answers
  <2>2. Race(l)
    BY DEF Init, Race, Before
  <2>3. l \in Unattended => Port(l)
    BY DEF Init, Port
  <2> QED
    BY <2>1, <2>2, <2>3 DEF Local
<1> QED
  BY <1>1, <1>2 DEF IInv

LEMMA NextIInv == IInv /\ [Next]_vars => IInv'
<1> SUFFICES ASSUME IInv, [Next]_vars PROVE IInv'
  OBVIOUS
<1>1. TypeOK'
  BY NextTyped DEF IInv
<1>2. ASSUME NEW k \in Logins PROVE Local(k)'
  <2>1. TypeOK /\ Local(k)
    BY DEF IInv
  <2>2. CASE UNCHANGED vars
    <3>1. Same(k)
      BY <2>2 DEF vars, mainVars, serverVars, raceVars, driverVars, Same, SameMain,
                  SameServer, SameLocal, SameRace, SameKiller
    <3> QED
      BY <2>1, <3>1, SameIsKept
  <2>3. CASE Next
    <3>1. PICK l \in Logins : Step(l)
      BY <2>3 DEF Next, Step, ServerStep
    <3>2. CASE k # l
      BY <2>1, <3>1, <3>2, OthersKept, SameIsKept
    <3>3. CASE k = l
      BY <2>1, <3>1, <3>3, ClientKept, KilledKept, ServerKept, LocalKept, PromptKept, MainKept
         DEF Step
    <3> QED
      BY <3>2, <3>3
  <2> QED
    BY <2>2, <2>3
<1> QED
  BY <1>1, <1>2 DEF IInv

LEMMA Invariance == Spec => []IInv
<1>1. Init => IInv
  BY InitIInv
<1>2. IInv /\ [Next]_vars => IInv'
  BY NextIInv
<1> QED
  BY <1>1, <1>2, PTL DEF Spec

\* A browser that was told "Login successful" for a code was told the truth: the login
\* returns that code, or a pasted answer, or the deadline had passed when wait() looked;
\* of an OAuth error, for which the page is sent as well, it says nothing
\* (auth_callback_server.py:311-314, auth_flows.py:256-268).
THEOREM PageIsTrue == Spec => []SuccessPageTrue
<1>1. IInv => SuccessPageTrue
  <2> SUFFICES ASSUME IInv, NEW l \in Logins, main[l] = "returned", captured[l] # None,
                      captured[l].kind = "code"
               PROVE  outcome[l].answer = captured[l] \/ outcome[l].from = "prompt" \/ late[l]
    BY DEF SuccessPageTrue
  <2>1. Answers(l) /\ Race(l) /\ outcome[l].from \in {"local", "prompt", "nobody"}
    BY DEF IInv, Local, TypeOK, Outcome, Message
  <2> QED
    BY <2>1 DEF Answers, Armed, Race, Before
<1> QED
  BY <1>1, Invariance, PTL

\* The token owner's login leaves the port free for the next one
\* (auth_callback_server.py:422-433).
THEOREM PortIsFree == Spec => []UnattendedReleases
<1>1. IInv => UnattendedReleases
  BY UnattendedAssumption DEF IInv, Local, Port, UnattendedReleases, Released, Bound
<1> QED
  BY <1>1, Invariance, PTL

\* What comes from the port was meant for the login that returns it
\* (auth_callback_server.py:96-131).
THEOREM AnswerIsOwn == Spec => []OwnAnswer
<1>1. IInv => OwnAnswer
  BY DEF IInv, Local, Answers, Race, OwnAnswer
<1> QED
  BY <1>1, Invariance, PTL

-----------------------------------------------------------------------------
\* A provider that survived owns its issuer (config.py:117-125).
LEMMA OwnsItsIssuer ==
    ASSUME NEW raw, NEW p \in Providers(raw), NEW q \in Providers(raw), p.issuer = q.issuer
    PROVE  p = q
<1>1. PICK f \in Surviving(raw) : p = raw[f]
  BY DEF Providers
<1>2. PICK g \in Surviving(raw) : q = raw[g]
  BY DEF Providers
<1>3. f = g
  BY <1>1, <1>2 DEF Surviving
<1> QED
  BY <1>1, <1>2, <1>3

(* A token verifies as at most one principal: no two providers, however     *)
(* their files are named or overlap, can claim it (verify.py:82-115).        *)
THEOREM OnePrincipal ==
    ASSUME NEW raw, NEW token, NEW looks, NEW now,
           NEW a \in verify(raw, token, looks, now),
           NEW b \in verify(raw, token, looks, now)
    PROVE  a = b
<1>1. PICK p \in Providers(raw) : a = Principal(p, token) /\ p.issuer = token.iss
  BY DEF verify
<1>2. PICK q \in Providers(raw) : b = Principal(q, token) /\ q.issuer = token.iss
  BY DEF verify
<1>3. p = q
  BY <1>1, <1>2, OwnsItsIssuer
<1> QED
  BY <1>1, <1>2, <1>3

(* Every file is used, reported as an error or disabled, and only one of    *)
(* them, provided no two parsed files give themselves one name: errors are   *)
(* reported by name (config.py:80-136).                                      *)
THEOREM FilesAccounted ==
    ASSUME NEW raw, DOMAIN raw \subseteq Nat,
           \A f, g \in Parsed(raw) : raw[f].name = raw[g].name => f = g
    PROVE  /\ DOMAIN raw = Surviving(raw) \cup Errors(raw) \cup Disabled(raw)
           /\ Surviving(raw) \cap Errors(raw) = {}
           /\ Surviving(raw) \cap Disabled(raw) = {}
           /\ Errors(raw) \cap Disabled(raw) = {}
<1>1. /\ Parsed(raw) \subseteq DOMAIN raw
      /\ Disabled(raw) \subseteq DOMAIN raw
      /\ Parsed(raw) \cap Disabled(raw) = {}
      /\ Surviving(raw) \subseteq Parsed(raw)
  BY DEF Parsed, Disabled, Objects, Surviving
<1>2. ASSUME NEW f \in Parsed(raw) PROVE PathOf(raw, raw[f].name) = f
  <2>1. f \in Nat /\ \A g \in Parsed(raw) : raw[g].name = raw[f].name => g <= f
    BY <1>1
  <2>2. \A h \in Parsed(raw) : raw[h].name = raw[f].name => h = f
    OBVIOUS
  <2> QED
    BY <2>1, <2>2 DEF PathOf
<1>3. {PathOf(raw, raw[f].name) : f \in Parsed(raw) \ Surviving(raw)}
      = Parsed(raw) \ Surviving(raw)
  BY <1>2
<1>4. Errors(raw) = (DOMAIN raw \ (Disabled(raw) \cup Parsed(raw)))
                    \cup (Parsed(raw) \ Surviving(raw))
  BY <1>3 DEF Errors
<1> QED
  BY <1>1, <1>4

-----------------------------------------------------------------------------
(* What it takes to be let through as somebody: a peer web.allow admits and  *)
(* one enabled, well-formed file, alone in claiming the token's issuer, that *)
(* lists its subject and accepts its algorithm and key (middleware.py).       *)
Vouched(gate, r) ==
    /\ r.peer.known /\ (r.peer.address \in Loopback \/ \E n \in gate.allow : r.peer.address \in n)
    /\ r.has_token
    /\ \E f \in DOMAIN gate.raw : LET p == gate.raw[f] IN
          /\ p.json = "object" /\ p.enabled # FALSE /\ WellFormed(p)
          /\ p.issuer = r.token.iss
          /\ \A g \in Parsed(gate.raw) : gate.raw[g].issuer = r.token.iss => g = f
          /\ r.token.alg \in p.algorithms \cap AllowedAlgorithms
          /\ Finds(r.looks, r.token.kid, r.token.signer)
          /\ Listed(p, r.token)

\* Whoever gets through as a principal was vouched for, and is the token's subject.
THEOREM PrincipalIsVouched ==
    ASSUME NEW gate, NEW r, NEW who \in Passes(gate, r), who.authenticated
    PROVE  Vouched(gate, r) /\ who.subject = r.token.sub
<1>1. who # Nobody
  BY DEF Nobody
<1>2. /\ _peer_allowed(gate, r.peer)
      /\ r.has_token
      /\ who \in verify(gate.raw, r.token, r.looks, r.now)
  BY <1>1 DEF Passes, Verified
<1>3. PICK p \in Providers(gate.raw) :
         /\ who = Principal(p, r.token)
         /\ p.issuer = r.token.iss
         /\ Finds(r.looks, r.token.kid, r.token.signer)
         /\ Decodes(p, r.token, r.token.signer, r.now)
         /\ Listed(p, r.token)
  BY <1>2 DEF verify
<1>4. PICK f \in Surviving(gate.raw) : p = gate.raw[f]
  BY DEF Providers
<1>5. /\ f \in DOMAIN gate.raw
      /\ p.json = "object" /\ p.enabled # FALSE /\ WellFormed(p)
      /\ \A g \in Parsed(gate.raw) : gate.raw[g].issuer = p.issuer => g = f
  BY <1>4 DEF Surviving, Parsed, Disabled, Objects
<1>6. r.token.alg \in p.algorithms \cap AllowedAlgorithms
  BY <1>3, <1>5 DEF Decodes, WellFormed
<1>7. who.subject = r.token.sub
  BY <1>3 DEF Principal
<1> QED
  BY <1>2, <1>3, <1>4, <1>5, <1>6, <1>7 DEF Vouched, _peer_allowed, _is_loopback

(* Whoever gets through as nobody is on this machine, or asks for the health *)
(* of a daemon that has providers (middleware.py:102-215).                   *)
THEOREM NobodyIsLocal ==
    ASSUME NEW gate, NEW r, NEW who \in Passes(gate, r), ~who.authenticated
    PROVE  \/ _is_loopback(r.peer)
           \/ r.surface = "health" /\ has_providers(gate) /\ _peer_allowed(gate, r.peer)
<1>1. who = Nobody
  BY DEF Passes, Verified, verify, Principal
<1>2. Unauthenticated(gate, r)
  <2>1. \A w \in Verified(gate, r) : w.authenticated
    BY DEF Verified, verify, Principal
  <2> QED
    BY <2>1 DEF Passes
<1> QED
  BY <1>2 DEF Unauthenticated

(* No allowlist, provider or token reaches the control plane from another    *)
(* machine, and while no provider survived (one typo in the only file)       *)
(* neither does anything else (runtime.py:46, middleware.py:141-172).         *)
THEOREM RemoteStaysOut ==
    ASSUME NEW gate, NEW r, ~_is_loopback(r.peer),
           r.surface = "internal" \/ ~has_providers(gate)
    PROVE  Passes(gate, r) = {}
<1>1. ~Unauthenticated(gate, r)
  BY DEF Unauthenticated
<1>2. ~(Public(gate, r) /\ has_providers(gate))
  BY DEF Public
<1> QED
  BY <1>1, <1>2 DEF Passes

-----------------------------------------------------------------------------
(* raw with file f broken or switched off.                                  *)
Without(f, raw, raw2) ==
    /\ DOMAIN raw2 = DOMAIN raw
    /\ \A g \in DOMAIN raw : g # f => raw2[g] = raw[g]
    /\ f \notin Parsed(raw2)

LEMMA SurvivorsShrink ==
    ASSUME NEW raw, NEW raw2, NEW f \in Surviving(raw), Without(f, raw, raw2)
    PROVE  /\ Surviving(raw2) \subseteq Surviving(raw)
           /\ Providers(raw2) \subseteq Providers(raw)
<1>1. Parsed(raw2) = Parsed(raw) \ {f}
  BY DEF Without, Parsed, Disabled, Objects
<1>2. \A g \in Parsed(raw2) : raw2[g] = raw[g]
  BY <1>1 DEF Without, Parsed, Objects
<1>3. \A g \in Parsed(raw2) : raw[g].issuer # raw[f].issuer
  BY <1>1 DEF Surviving
<1>4. Surviving(raw2) \subseteq Surviving(raw)
  <2> SUFFICES ASSUME NEW g \in Surviving(raw2), NEW h \in Parsed(raw),
                      raw[h].issuer = raw[g].issuer
               PROVE  g \in Parsed(raw) /\ h = g
    BY <1>1 DEF Surviving
  <2>1. g \in Parsed(raw2)
    BY DEF Surviving
  <2>2. h \in Parsed(raw2)
    BY <2>1, <1>1, <1>3
  <2> QED
    BY <2>1, <2>2, <1>1, <1>2 DEF Surviving
<1>5. \A g \in Surviving(raw2) : raw2[g] = raw[g]
  BY <1>2 DEF Surviving
<1> QED
  BY <1>4, <1>5 DEF Providers

(* A provider file in use that breaks or is switched off lets no remote      *)
(* request in that was refused before: nobody, and no one with other scopes  *)
(* (config.py:80-136, middleware.py:102-215).  It does let local ones in,     *)
(* when it was the last.                                                     *)
THEOREM BreakingAFileAdmitsNoOne ==
    ASSUME NEW gate, NEW gate2, NEW r, NEW f \in Surviving(gate.raw),
           Without(f, gate.raw, gate2.raw),
           gate2.allow = gate.allow, gate2.mcp = gate.mcp,
           ~_is_loopback(r.peer)
    PROVE  Passes(gate2, r) \subseteq Passes(gate, r)
<1>1. /\ Surviving(gate2.raw) \subseteq Surviving(gate.raw)
      /\ Providers(gate2.raw) \subseteq Providers(gate.raw)
  BY SurvivorsShrink
<1>2. has_providers(gate2) => has_providers(gate)
  BY <1>1 DEF has_providers
<1>3. Verified(gate2, r) \subseteq Verified(gate, r)
  BY <1>1 DEF Verified, verify
<1>4. _peer_allowed(gate2, r.peer) <=> _peer_allowed(gate, r.peer)
  BY DEF _peer_allowed
<1>5. Unauthenticated(gate2, r) => Unauthenticated(gate, r)
  BY <1>2, <1>4 DEF Unauthenticated
<1>6. Public(gate2, r) <=> Public(gate, r)
  BY DEF Public
<1> QED
  BY <1>2, <1>3, <1>4, <1>5, <1>6 DEF Passes

-----------------------------------------------------------------------------
(* A principal has no scope that neither its token nor its provider's file   *)
(* grants; and whom the handlers let place under a profile they let cancel    *)
(* (orders_write.py:82-105), as the retry of a placement needs.               *)
THEOREM ScopesAreGranted ==
    ASSUME NEW raw, NEW token, NEW looks, NEW now,
           NEW who \in verify(raw, token, looks, now)
    PROVE  /\ \E p \in Providers(raw) :
                 /\ p.issuer = token.iss
                 /\ \A s \in who.scopes :
                       \/ s \in token.scopes[p.scope_claim]
                       \/ \E n \in {"*", token.sub, token.email} \cap DOMAIN p.allowed_subjects :
                             s \in p.allowed_subjects[n]
           /\ \A profile : profile # "" /\ MayPlace(who, profile) => MayCancel(who)
<1>1. PICK p \in Providers(raw) :
         who = Principal(p, token) /\ p.issuer = token.iss /\ Listed(p, token)
  BY DEF verify
<1>2. who.scopes = token.scopes[p.scope_claim] \cup _static_scopes(p, token)
  BY <1>1 DEF Principal
<1>3. ASSUME NEW s \in _static_scopes(p, token)
      PROVE  \E n \in {"*", token.sub, token.email} \cap DOMAIN p.allowed_subjects :
                 s \in p.allowed_subjects[n]
  BY <1>1, <1>3 DEF Listed, _static_scopes, Wildcard
<1>4. ASSUME NEW profile, profile # "", MayPlace(who, profile)
      PROVE  MayCancel(who)
  <2>1. who.authenticated
    BY <1>1 DEF Principal
  <2>2. \/ <<"order", profile>> \in who.scopes
        \/ <<"order", "*">> \in who.scopes
    BY <1>4, <2>1 DEF MayPlace, Grant, scope_satisfied, OrderOf
  <2>3. <<"order", profile>> # <<"order", "">> /\ <<"order", "*">> # <<"order", "">>
    BY <1>4
  <2> QED
    BY <2>2, <2>3 DEF MayCancel, Flat
<1> QED
  BY <1>1, <1>2, <1>3, <1>4
===============================================================================

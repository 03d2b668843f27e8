----------------------------- MODULE LoginRace -----------------------------
(***************************************************************************)
(* One authorization code per login (auth_flows.py, auth_handlers.py,      *)
(* auth_callback_server.py): a login binds the loopback port, opens the    *)
(* authorize URL, starts the browser driver when nobody watches, and races  *)
(* the callback server against a line typed at the prompt.  Its threads are *)
(* the main one, the two handlers', the server's and the driver's watchdog. *)
(*                                                                         *)
(* A login is one call of get_auth_response, in any process: all of them    *)
(* use the one port of redirect_uri, so that a redirect of one may reach    *)
(* the server of another.                                                   *)
(***************************************************************************)
EXTENDS Naturals, Sequences, FiniteSets

CONSTANTS
    Logins,
    Unattended,     \* logins with auto_login_command and without --manual
    NoState,        \* a callback without `state`, or a bare code
    None,
    Said,           \* what a callback or a pasted line may say
    MaxRequests     \* bound on the connections clients make

ASSUME UnattendedAssumption == Unattended \subseteq Logins
ASSUME NoStateAssumption == NoState \notin Logins
ASSUME MaxRequestsAssumption == MaxRequests \in Nat

\* What a callback or a pasted line says: a code or an OAuth error, and for whom.
Answer == [kind : {"code", "error"}, state : Logins \cup {NoState}]

ASSUME SaidAssumption == Said \subseteq Answer
ASSUME NoneAssumption == None \notin Answer

VARIABLES
    main,       \* where the caller's thread is in get_auth_response
    outcome,    \* what it returned, and whose answer it is
    urls,       \* logins whose authorize URL was given out
    requests,   \* how many connections clients made
    server,     \* the serving thread and its socket
    busy,       \* the serving thread is in a connection
    captured,   \* what it told the browser "Login successful" for
    local,      \* LocalServerHandler.wait_for_response
    taken,      \* whether wait() took the captured answer
    late,       \* its deadline has passed
    prompt,     \* UserInputHandler.wait_for_response
    cancel,     \* the race's event
    result_q,   \* the race's queue
    errors,     \* how many handlers failed
    held,       \* the supervisor still holds its references (_proc, _watchdog)
    killer,     \* the thread that took them and runs _terminate
    proc        \* the browser driver

mainVars == <<main, outcome, urls, requests>>
serverVars == <<server, busy, captured>>
raceVars == <<local, taken, late, prompt, cancel, result_q, errors>>
driverVars == <<held, killer, proc>>
vars == <<mainVars, serverVars, raceVars, driverVars>>

Message == [from : {"local", "prompt"}, answer : Answer \cup {None}]
Outcome == Message \cup {[from |-> "nobody", answer |-> None]}

TypeOK ==
    /\ main \in [Logins -> {"idle", "bound", "opened", "racing", "terminate", "killing",
                            "close", "shutdown", "returned"}]
    /\ outcome \in [Logins -> Outcome]
    /\ urls \subseteq Logins
    /\ requests \in 0 .. MaxRequests
    /\ server \in [Logins -> {"off", "serving", "stopping", "stopped", "released"}]
    /\ busy \in [Logins -> BOOLEAN]
    /\ captured \in [Logins -> Answer \cup {None}]
    /\ local \in [Logins -> {"none", "started", "waiting", "close", "shutdown", "report", "ended"}]
    /\ taken \in [Logins -> BOOLEAN]
    /\ late \in [Logins -> BOOLEAN]
    /\ prompt \in [Logins -> {"none", "reading", "ended"}]
    /\ cancel \in [Logins -> BOOLEAN]
    /\ result_q \in [Logins -> Seq(Message)]
    /\ errors \in [Logins -> Nat]
    /\ held \in [Logins -> BOOLEAN]
    /\ killer \in [Logins -> {"none", "main", "watchdog"}]
    /\ proc \in [Logins -> {"none", "running", "exited", "dead"}]

Init ==
    /\ main = [l \in Logins |-> "idle"]
    /\ outcome = [l \in Logins |-> [from |-> "nobody", answer |-> None]]
    /\ urls = {}
    /\ requests = 0
    /\ server = [l \in Logins |-> "off"]
    /\ busy = [l \in Logins |-> FALSE]
    /\ captured = [l \in Logins |-> None]
    /\ local = [l \in Logins |-> "none"]
    /\ taken = [l \in Logins |-> FALSE]
    /\ late = [l \in Logins |-> FALSE]
    /\ prompt = [l \in Logins |-> "none"]
    /\ cancel = [l \in Logins |-> FALSE]
    /\ result_q = [l \in Logins |-> <<>>]
    /\ errors = [l \in Logins |-> 0]
    /\ held = [l \in Logins |-> FALSE]
    /\ killer = [l \in Logins |-> "none"]
    /\ proc = [l \in Logins |-> "none"]

-----------------------------------------------------------------------------
(* The callback server.                                                     *)
Bound(l) == server[l] \in {"serving", "stopping", "stopped"}
Closed(l) == server[l] \in {"stopping", "stopped", "released"}

\* _expected_state is set by wait().
Armed(l) == local[l] \notin {"none", "started"}

\* parse_callback_query with require_state: an error may come without a state.
Accepts(l, q) == q.state = l \/ (q.kind = "error" /\ q.state = NoState)

\* A client is accepted; handshake and request are read on the one serving thread,
\* without a timeout.
Connect(l) ==
    /\ server[l] = "serving" /\ ~busy[l]
    /\ requests < MaxRequests
    /\ busy' = [busy EXCEPT ![l] = TRUE]
    /\ requests' = requests + 1
    /\ UNCHANGED <<main, outcome, urls, server, captured, raceVars, driverVars>>

\* Capture the first answer of this login once wait() expects it.
Captures(l, q) == Armed(l) /\ Accepts(l, q) /\ captured[l] = None

\* The client sends its request, if it ever does, and is answered; or it hangs up, or
\* asks for what is not served.
do_GET(l) ==
    /\ server[l] \in {"serving", "stopping"} /\ busy[l]
    /\ \/ UNCHANGED captured
       \/ \E q \in Said :
             /\ q.state \in urls \cup {NoState}
             /\ Captures(l, q)
             /\ captured' = [captured EXCEPT ![l] = q]
    /\ busy' = [busy EXCEPT ![l] = FALSE]
    /\ UNCHANGED <<mainVars, server, raceVars, driverVars>>

\* serve_forever sees the shutdown request between two requests.
LoopExits(l) ==
    /\ server[l] = "stopping" /\ ~busy[l]
    /\ server' = [server EXCEPT ![l] = "stopped"]
    /\ UNCHANGED <<mainVars, busy, captured, raceVars, driverVars>>

\* close(), by a thread that goes on as `after` when _closed was set; two threads
\* may both read it before either sets it.
Close(l, thread, after) ==
    \/ /\ Closed(l)
       /\ thread' = [thread EXCEPT ![l] = after]
       /\ UNCHANGED server
    \/ /\ server[l] \in {"serving", "stopping"}
       /\ thread' = [thread EXCEPT ![l] = "shutdown"]
       /\ server' = [server EXCEPT ![l] = "stopping"]

\* shutdown() returns and the socket is closed, which a second thread may find so.
Release(l, thread, after) ==
    /\ server[l] \in {"stopped", "released"}
    /\ server' = [server EXCEPT ![l] = "released"]
    /\ thread' = [thread EXCEPT ![l] = after]

-----------------------------------------------------------------------------
(* LocalServerHandler.wait_for_response.                                    *)
Put(l, from, answer) == [result_q EXCEPT ![l] = Append(@, [from |-> from, answer |-> answer])]

WaitBegins(l) ==
    /\ local[l] = "started"
    /\ local' = [local EXCEPT ![l] = "waiting"]
    /\ UNCHANGED <<mainVars, serverVars, taken, late, prompt, cancel, result_q, errors, driverVars>>

DeadlinePasses(l) ==
    /\ local[l] = "waiting" /\ ~late[l]
    /\ late' = [late EXCEPT ![l] = TRUE]
    /\ UNCHANGED <<mainVars, serverVars, local, taken, prompt, cancel, result_q, errors, driverVars>>

\* wait() ends: it was cancelled or timed out, whatever is in its queue, or has
\* an answer.  Either way the handler closes the server before it reports.
GivesUp(l) == cancel[l] \/ late[l]

WaitEnds(l) ==
    /\ local[l] = "waiting"
    /\ \/ GivesUp(l) /\ UNCHANGED taken
       \/ captured[l] # None /\ taken' = [taken EXCEPT ![l] = TRUE]
    /\ local' = [local EXCEPT ![l] = "close"]
    /\ UNCHANGED <<mainVars, serverVars, late, prompt, cancel, result_q, errors, driverVars>>

LocalCloses(l) ==
    /\ \/ local[l] = "close" /\ Close(l, local, "report")
       \/ local[l] = "shutdown" /\ Release(l, local, "report")
    /\ UNCHANGED <<mainVars, busy, captured, taken, late, prompt, cancel, result_q, errors, driverVars>>

LocalReports(l) ==
    /\ local[l] = "report"
    /\ local' = [local EXCEPT ![l] = "ended"]
    /\ result_q' = Put(l, "local", IF taken[l] THEN captured[l] ELSE None)
    /\ UNCHANGED <<mainVars, serverVars, taken, late, prompt, cancel, errors, driverVars>>

\* UserInputHandler: one line, with no effect once the race is over; a line
\* without a state is believed.
PromptAnswers(l) ==
    /\ prompt[l] = "reading"
    /\ prompt' = [prompt EXCEPT ![l] = "ended"]
    /\ \E line \in Said \cup {None} :
          /\ line # None => line.state \in urls \cup {NoState}
          /\ LET Parsed == line # None /\ line.state \in {l, NoState} /\ ~cancel[l]
             IN  result_q' = Put(l, "prompt", IF Parsed THEN line ELSE None)
    /\ UNCHANGED <<mainVars, serverVars, local, taken, late, cancel, errors, driverVars>>

-----------------------------------------------------------------------------
(* AutoLoginSupervisor.                                                     *)
Spawn(l) ==
    /\ held' = [held EXCEPT ![l] = TRUE]
    /\ proc' = [proc EXCEPT ![l] = "running"]
    /\ UNCHANGED killer

\* terminate() has the references and _terminate finds the driver running.
MustKill(l) == held[l] /\ proc[l] = "running"

WatchdogFires(l) ==
    /\ held[l]
    /\ held' = [held EXCEPT ![l] = FALSE]
    /\ killer' = [killer EXCEPT ![l] = IF MustKill(l) THEN "watchdog" ELSE @]
    /\ UNCHANGED <<mainVars, serverVars, raceVars, proc>>

\* The driver ends by itself.
DriverExits(l) ==
    /\ proc[l] = "running"
    /\ proc' = [proc EXCEPT ![l] = "exited"]
    /\ UNCHANGED <<mainVars, serverVars, raceVars, held, killer>>

\* SIGTERM, five seconds, SIGKILL to the whole group.
Killed(l) ==
    /\ killer[l] # "none"
    /\ proc' = [proc EXCEPT ![l] = "dead"]
    /\ killer' = [killer EXCEPT ![l] = "none"]
    /\ main' = [main EXCEPT ![l] = IF killer[l] = "main" THEN "close" ELSE @]
    /\ UNCHANGED <<outcome, urls, requests, serverVars, raceVars, held>>

-----------------------------------------------------------------------------
(* get_auth_response.                                                       *)
Returns(l, from, answer) == [outcome EXCEPT ![l] = [from |-> from, answer |-> answer]]

\* The port is bound before anybody is sent to the identity provider.
Begin(l) ==
    /\ main[l] = "idle"
    /\ \/ /\ \A k \in Logins : ~Bound(k)
          /\ server' = [server EXCEPT ![l] = "serving"]
          /\ main' = [main EXCEPT ![l] = "bound"]
       \/ /\ main' = [main EXCEPT ![l] = "returned"]    \* in use, or no certificate
          /\ UNCHANGED server
    /\ UNCHANGED <<outcome, urls, requests, busy, captured, raceVars, driverVars>>

_open_and_print(l) ==
    /\ main[l] = "bound"
    /\ main' = [main EXCEPT ![l] = "opened"]
    /\ urls' = urls \cup {l}
    /\ UNCHANGED <<outcome, requests, serverVars, raceVars, driverVars>>

\* The driver starts, or cannot be started.
_maybe_start_supervisor(l) ==
    /\ main[l] = "opened"
    /\ \/ /\ main' = [main EXCEPT ![l] = "racing"]
          /\ IF l \in Unattended THEN Spawn(l) ELSE UNCHANGED driverVars
          /\ local' = [local EXCEPT ![l] = "started"]
          /\ prompt' = [prompt EXCEPT ![l] = IF l \in Unattended THEN @ ELSE "reading"]
       \/ /\ l \in Unattended
          /\ main' = [main EXCEPT ![l] = "close"]
          /\ UNCHANGED <<local, prompt, driverVars>>
    /\ UNCHANGED <<outcome, urls, requests, serverVars, taken, late, cancel, result_q, errors>>

Handlers(l) == IF l \in Unattended THEN 1 ELSE 2

\* Bug variant: every handler but one more must fail.
AllFailedBeyond(l) == errors[l] >= Handlers(l)

\* Bug variant: the first failure ends the race.
AllFailedAtFirst(l) == l \in Logins

\* The first answer wins, an OAuth error among them; a failure is waited out.
AllFailed(l) == errors[l] + 1 >= Handlers(l)

RaceTakes(l) ==
    /\ main[l] = "racing" /\ result_q[l] # <<>>
    /\ result_q' = [result_q EXCEPT ![l] = Tail(@)]
    /\ LET head == Head(result_q[l]) IN
       IF head.answer # None
       THEN /\ outcome' = Returns(l, head.from, head.answer)
            /\ cancel' = [cancel EXCEPT ![l] = TRUE]
            /\ main' = [main EXCEPT ![l] = "terminate"]
            /\ UNCHANGED errors
       ELSE /\ errors' = [errors EXCEPT ![l] = @ + 1]
            /\ cancel' = [cancel EXCEPT ![l] = AllFailed(l)]
            /\ main' = [main EXCEPT ![l] = IF AllFailed(l) THEN "terminate" ELSE @]
            /\ UNCHANGED outcome
    /\ UNCHANGED <<urls, requests, serverVars, local, taken, late, prompt, driverVars>>

\* The `finally`: the driver, then the port.
Terminates(l) ==
    /\ main[l] = "terminate"
    /\ main' = [main EXCEPT ![l] = IF MustKill(l) THEN "killing" ELSE "close"]
    /\ killer' = [killer EXCEPT ![l] = IF MustKill(l) THEN "main" ELSE @]
    /\ held' = [held EXCEPT ![l] = FALSE]
    /\ UNCHANGED <<outcome, urls, requests, serverVars, raceVars, proc>>

MainCloses(l) ==
    /\ \/ main[l] = "close" /\ Close(l, main, "returned")
       \/ main[l] = "shutdown" /\ Release(l, main, "returned")
    /\ UNCHANGED <<outcome, urls, requests, busy, captured, raceVars, driverVars>>

-----------------------------------------------------------------------------
MainStep(l) ==
    \/ _open_and_print(l) \/ _maybe_start_supervisor(l) \/ RaceTakes(l)
    \/ Terminates(l) \/ MainCloses(l)
LocalStep(l) == WaitBegins(l) \/ WaitEnds(l) \/ LocalCloses(l) \/ LocalReports(l)

Next ==
    \E l \in Logins :
        \/ Begin(l) \/ MainStep(l) \/ LocalStep(l) \/ LoopExits(l)
        \/ Connect(l) \/ do_GET(l) \/ PromptAnswers(l) \/ DeadlinePasses(l)
        \/ WatchdogFires(l) \/ DriverExits(l) \/ Killed(l)

Spec == Init /\ [][Next]_vars

\* Every thread goes on, the deadline passes and a group that got SIGKILL dies.
\* Nobody has to log in, paste a line, or send anything once connected.
FairSpec ==
    /\ Spec
    /\ \A l \in Logins :
          /\ WF_vars(MainStep(l)) /\ WF_vars(LocalStep(l)) /\ WF_vars(LoopExits(l))
          /\ WF_vars(DeadlinePasses(l)) /\ WF_vars(Killed(l))

-----------------------------------------------------------------------------
(* Properties.                                                              *)

\* "Login successful" for a code is true: it is the code the login returns, unless
\* a pasted line won or the deadline had passed when wait() looked.  The page is sent
\* for an OAuth error as well (auth_callback_server.py:311-314, auth_flows.py:256-268).
SuccessPageTrue ==
    \A l \in Logins :
        main[l] = "returned" /\ captured[l] # None /\ captured[l].kind = "code" =>
            \/ outcome[l].answer = captured[l]
            \/ outcome[l].from = "prompt"
            \/ late[l]

\* A login ends, and its browser driver with it, unless somebody is asked for ever to
\* paste a code or a connected client stays silent for ever: the token owner waits
\* for it on the thread that renews tokens, and no deadline bounds shutdown()
\* (auth_flows.py:124-133, auth_callback_server.py:387, auth_handlers.py:348-364).
LoginEnds ==
    \A l \in Logins :
        []<>~busy[l] /\ []<>(prompt[l] # "reading")
            => (main[l] = "bound" ~> main[l] = "returned" /\ proc[l] # "running")

\* An unattended login leaves the port free for the next (auth_callback_server.py:422-433).
Released(l) == main[l] = "returned" => ~Bound(l)
UnattendedReleases == \A l \in Unattended : Released(l)

\* An answer the server captured was meant for the login that returns it, whatever
\* other redirects reach the port (auth_callback_server.py:96-131).
OwnAnswer == \A l \in Logins : outcome[l].from = "local" => Accepts(l, outcome[l].answer)

-----------------------------------------------------------------------------
(* What the documentation says and the code does not do.                    *)

\* "On return the port is fully released" (auth_callback_server.py:382): not while
\* the handler's thread is in shutdown() and the caller's close() is the second.
PortReleased == \A l \in Logins : Released(l)

\* "Login successful": not for an OAuth error, nor if the deadline passed between
\* the capture and the poll (auth_callback_server.py:311-314, :356).
SuccessPageAlwaysTrue ==
    \A l \in Logins : main[l] = "returned" /\ captured[l] # None =>
        /\ captured[l].kind = "code"
        /\ outcome[l].answer = captured[l] \/ outcome[l].from = "prompt"

\* "runs shutdown() on a separate thread" (auth_callback_server.py:18): it runs on the
\* caller's, and waits for ever behind a client that says nothing.
EndsBehindSilence ==
    \A l \in Unattended :
        main[l] = "bound" ~> main[l] = "returned" /\ proc[l] # "running"
=============================================================================

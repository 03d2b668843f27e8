----------------------------- MODULE TokenManager -----------------------------
(***************************************************************************)
(* The daemon's owner of the OAuth token pair                              *)
(* (src/schwab_cli/server/token_manager.py), the session file it keeps     *)
(* valid (session.py) and the other process that writes that file          *)
(* (`schwab auth`, commands/auth.py).                                      *)
(*                                                                         *)
(* Processes: the access track and any number of force_exchange callers    *)
(* share single-flight exchanges; the refresh track runs every full        *)
(* (browser) auth of the daemon; the CLI may exchange or do a full auth on *)
(* its own.  Each takes its own steps between reads and writes of shared   *)
(* state.  session.save is three steps (open the one session.json.tmp,     *)
(* write, os.replace): fd says which file an open descriptor now is.       *)
(*                                                                         *)
(* Abstractions: an access token is its expiry; refresh tokens are         *)
(* numbered as Schwab issues them; notifications, jitter and the           *)
(* on_session_replaced hook are left out; the backoff of a recovery is any *)
(* delay up to a cap; shutdown is not modelled.                            *)
(***************************************************************************)
EXTENDS Integers, FiniteSets, FiniteSetsExt

CONSTANTS
    Callers,          \* threads that call force_exchange
    AutoLogin,        \* cfg.auto_login_command is set
    AccessLife,       \* lifetime of an access token
    StartExps,        \* expiries of the access token the daemon may start on
    RefreshLife,      \* refresh_lifetime_s
    StopFloor,        \* refresh_stop_s
    AccessRetry,      \* access_retry_interval_s
    AccessNapCap,     \* cap of access_loop's nap
    RefreshNapCap,    \* cap of refresh_loop's nap
    BackoffCap,       \* longest nap between two attempts of a recovery
    MaxTime,          \* bound on the clock
    MaxMints,         \* bound on the refresh tokens Schwab issues
    MaxCli,           \* bound on the runs of `schwab auth`
    None,             \* no file, no token, no process
    Torn              \* contents that session.load cannot parse

ASSUME ConstantsAssumption ==
    /\ AutoLogin \in BOOLEAN
    /\ {AccessLife, RefreshLife, AccessRetry, AccessNapCap, RefreshNapCap,
        BackoffCap, MaxMints} \subseteq Nat \ {0}
    /\ {StopFloor, MaxTime, MaxCli} \cup StartExps \subseteq Nat
    /\ \A e \in StartExps : e <= AccessLife       \* it has been issued
    /\ Callers \cap {"access", "refresh", "cli"} = {}
    /\ None \notin Callers \cup {"access"} /\ None \notin Nat

Exchangers == Callers \cup {"access"}
Writers == Exchangers \cup {"refresh", "cli"}
Tokens == 1..MaxMints
Sessions == [rt : Tokens, exp : Nat, rexp : Nat]

ASSUME SentinelsAssumption == None \notin Sessions \cup {Torn} /\ Torn \notin Sessions

VARIABLES
    clock,
    minted, born, revoked,      \* Schwab: tokens issued, when, and killed
    session, tmp,               \* session.json and session.json.tmp
    fd,                         \* the file a writer has open
    lapse_notified, inflight, xch_result,
    recovery, refresh_wake,     \* the two threading.Events
    cp_attempted, cp_token_key, critical_for, manual_block,
    pc, s, fresh, out, tnow,    \* per process: program counter and locals
    accWake, refWake,           \* when the two naps end
    recovering,                 \* the refresh track is inside _run_recovery
    settling,                   \* ... inside _after_full_auth_success
    cliRuns,
    tried                       \* history: (token, checkpoint) pairs attempted

schwab == <<minted, born, revoked>>
disk == <<session, tmp, fd>>
flight == <<inflight, xch_result>>
latches == <<lapse_notified, manual_block>>
checkpoints == <<cp_attempted, cp_token_key, critical_for>>
locals == <<s, fresh, out, tnow>>
naps == <<accWake, refWake>>
vars == <<clock, schwab, disk, flight, latches, recovery, refresh_wake,
          checkpoints, pc, locals, naps, recovering, settling, cliRuns, tried>>

Statuses == {"success", "invalid_grant", "transient"}
PCs == {"idle", "loaded", "enter", "exchange", "waiting", "woken", "result",
        "open", "write", "replace", "unlink", "publish", "awake", "step", "auth",
        "failed", "backoff", "settle", "clear", "block", "dead"}

\* refresh_checkpoints: halve the lifetime until the floor.
refresh_checkpoints ==
    {c \in StopFloor + 1 .. RefreshLife :
        \E k \in 1..RefreshLife : c = RefreshLife \div (2 ^ k)}

\* Schwab rejects a token it revoked and one that has outlived its lifetime.
Dead(t) == t \in revoked \/ (t <= minted /\ clock >= born[t] + RefreshLife)

AtLeastOne(n) == IF n < 1 THEN 1 ELSE n
AtMost(cap, n) == IF n > cap THEN cap ELSE n

TypeOK ==
    /\ clock \in 0..MaxTime
    /\ minted \in 0..MaxMints /\ born \in [Tokens -> 0..MaxTime]
    /\ revoked \subseteq 1..minted
    /\ session \in Sessions \cup {None, Torn} /\ tmp \in Sessions \cup {None, Torn}
    /\ fd \in [Writers -> {"none", "tmp", "session", "gone"}]
    /\ lapse_notified \in BOOLEAN /\ manual_block \in Tokens \cup {None}
    /\ inflight \in Exchangers \cup {None}
    /\ xch_result \in [status : Statuses, fresh : Sessions \cup {None}]
    /\ recovery \in BOOLEAN /\ refresh_wake \in BOOLEAN
    /\ cp_attempted \subseteq refresh_checkpoints
    /\ cp_token_key \in (Tokens \X Nat) \cup {None}
    /\ critical_for \in Nat \cup {None}
    /\ pc \in [Writers -> PCs]
    /\ s \in [Writers -> Sessions \cup {None}]
    /\ fresh \in [Writers -> Sessions \cup {None}]
    /\ out \in [Exchangers -> Statuses \cup {"raised", None}]
    /\ tnow \in [{"access", "refresh"} -> 0..MaxTime]
    /\ accWake \in Nat /\ refWake \in Nat
    /\ recovering \in BOOLEAN /\ settling \in BOOLEAN
    /\ cliRuns \in 0..MaxCli
    /\ tried \subseteq Tokens \X refresh_checkpoints

\* The daemon starts on a session whose access token may be used up, or on none.
Init ==
    /\ clock = 0 /\ minted = 1 /\ born = [t \in Tokens |-> 0] /\ revoked = {}
    /\ session \in {[rt |-> 1, exp |-> e, rexp |-> RefreshLife] : e \in StartExps}
                   \cup {None}
    /\ tmp = None /\ fd = [p \in Writers |-> "none"]
    /\ lapse_notified = FALSE /\ manual_block = None
    /\ inflight = None /\ xch_result = [status |-> "transient", fresh |-> None]
    /\ recovery = FALSE /\ refresh_wake = FALSE
    /\ cp_attempted = {} /\ cp_token_key = None /\ critical_for = None
    /\ pc = [p \in Writers |-> IF p = "refresh" THEN "step" ELSE "idle"]
    /\ s = [p \in Writers |-> None] /\ fresh = [p \in Writers |-> None]
    /\ out = [p \in Exchangers |-> None]
    /\ tnow = [p \in {"access", "refresh"} |-> 0]
    /\ accWake = 0 /\ refWake = 0
    /\ recovering = FALSE /\ settling = FALSE
    /\ cliRuns = 0 /\ tried = {}

Goto(p, l) == pc' = [pc EXCEPT ![p] = l]

\* Leaving a call: its locals are gone.  The access loop naps delay seconds.
ReturnFrom(p, delay) ==
    /\ Goto(p, "idle")
    /\ s' = [s EXCEPT ![p] = None] /\ fresh' = [fresh EXCEPT ![p] = None]
    /\ out' = [out EXCEPT ![p] = None]
    /\ accWake' = IF p = "access" THEN clock + AtMost(AccessNapCap, delay) ELSE accWake

\* An exception: it ends the access track's thread, and a caller's request.
Raise(p) ==
    /\ Goto(p, IF p = "access" THEN "dead" ELSE "idle")
    /\ s' = [s EXCEPT ![p] = None] /\ fresh' = [fresh EXCEPT ![p] = None]
    /\ out' = [out EXCEPT ![p] = None]
    /\ UNCHANGED accWake
-----------------------------------------------------------------------------
(* session.save, one step per system call.                                  *)

\* tmp.write_text: open truncates the file every writer shares.
SaveOpen(p) ==
    /\ pc[p] = "open" /\ Goto(p, "write")
    /\ tmp' = Torn /\ fd' = [fd EXCEPT ![p] = "tmp"]
    /\ UNCHANGED <<clock, schwab, session, flight, latches, recovery, refresh_wake,
                   checkpoints, locals, naps, recovering, settling, cliRuns, tried>>

\* ... and the text goes to wherever that file has been moved since.
SaveWrite(p) ==
    /\ pc[p] = "write" /\ Goto(p, "replace")
    /\ tmp' = IF fd[p] = "tmp" THEN fresh[p] ELSE tmp
    /\ session' = IF fd[p] = "session" THEN fresh[p] ELSE session
    /\ fd' = [fd EXCEPT ![p] = "none"]
    /\ UNCHANGED <<clock, schwab, flight, latches, recovery, refresh_wake,
                   checkpoints, locals, naps, recovering, settling, cliRuns, tried>>

\* Where a writer goes once session.json is replaced.  _do_exchange also lifts
\* the lapse latch.
AfterSave(p) ==
    IF p \in Exchangers THEN "publish"
    ELSE IF p = "cli" THEN "idle"
    ELSE IF settling THEN "settle" ELSE "open"

\* os.replace, which moves what others have open along with the name.
SaveReplace(p) ==
    /\ pc[p] = "replace" /\ tmp # None
    /\ session' = tmp /\ tmp' = None
    /\ fd' = [q \in Writers |-> CASE fd[q] = "tmp" -> "session"
                                  [] fd[q] = "session" -> "gone"
                                  [] OTHER -> fd[q]]
    /\ Goto(p, AfterSave(p))
    /\ lapse_notified' = (lapse_notified /\ p \notin Exchangers)
    /\ settling' = IF p = "refresh" THEN ~settling ELSE settling
    /\ fresh' = IF p = "cli" THEN [fresh EXCEPT ![p] = None] ELSE fresh
    /\ s' = IF p = "cli" THEN [s EXCEPT ![p] = None] ELSE s
    /\ UNCHANGED <<clock, schwab, flight, manual_block, recovery, refresh_wake,
                   checkpoints, out, tnow, naps, recovering, cliRuns, tried>>

\* chmod or replace found no session.json.tmp: another writer moved it away.
SaveLosesFile(p) ==
    /\ pc[p] = "replace" /\ tmp = None /\ Goto(p, "unlink")
    /\ UNCHANGED <<clock, schwab, disk, flight, latches, recovery, refresh_wake,
                   checkpoints, locals, naps, recovering, settling, cliRuns, tried>>

Unlinked ==
    /\ tmp' = None
    /\ fd' = [q \in Writers |-> IF fd[q] = "tmp" THEN "gone" ELSE fd[q]]
    /\ UNCHANGED session

\* The handler unlinks the name, whoever's file it is by now, and re-raises.
SaveRaises(p) ==
    /\ pc[p] = "unlink" /\ Unlinked
    /\ \/ /\ p \in Exchangers /\ Goto(p, "publish")
          /\ out' = [out EXCEPT ![p] = "raised"]
          /\ UNCHANGED <<fresh, refWake, settling>>
       \/ /\ p = "cli" /\ Goto(p, "idle") /\ fresh' = [fresh EXCEPT ![p] = None]
          /\ UNCHANGED <<out, refWake, settling>>
       \/ /\ p = "refresh" /\ settling /\ Goto(p, "dead")
          /\ settling' = FALSE /\ UNCHANGED <<fresh, out, refWake>>
       \/ /\ p = "refresh" /\ ~settling /\ Goto(p, "failed")
          /\ fresh' = [fresh EXCEPT ![p] = None]
          /\ UNCHANGED <<out, refWake, settling>>
    /\ UNCHANGED <<clock, schwab, flight, latches, recovery, refresh_wake,
                   checkpoints, s, tnow, accWake, recovering, cliRuns, tried>>
-----------------------------------------------------------------------------
(* access_step and force_exchange: load, check, exchange, report.           *)

\* access_loop's nap is over, or somebody calls force_exchange.
CallStarts(p) ==
    /\ pc[p] = "idle"
    /\ p = "access" => clock >= accWake \/ clock = MaxTime

\* No session: nothing to exchange.
LoadNothing(p) ==
    /\ p \in Exchangers /\ CallStarts(p) /\ session = None
    /\ ReturnFrom(p, AccessRetry)
    /\ UNCHANGED <<clock, schwab, disk, flight, latches, recovery, refresh_wake,
                   checkpoints, tnow, refWake, recovering, settling, cliRuns, tried>>

\* session.load raises on a file it cannot parse.
LoadRaises(p) ==
    /\ p \in Exchangers /\ CallStarts(p) /\ session = Torn
    /\ Raise(p)
    /\ UNCHANGED <<clock, schwab, disk, flight, latches, recovery, refresh_wake,
                   checkpoints, tnow, refWake, recovering, settling, cliRuns, tried>>

Load(p) ==
    /\ p \in Exchangers /\ CallStarts(p) /\ session \in Sessions
    /\ Goto(p, "loaded") /\ s' = [s EXCEPT ![p] = session]
    /\ UNCHANGED <<clock, schwab, disk, flight, latches, recovery, refresh_wake,
                   checkpoints, fresh, out, tnow, naps, recovering, settling,
                   cliRuns, tried>>

KnownDead(t) == recovery \/ manual_block = t

HalfAt(ses) == ses.exp - AccessLife \div 2
QuarterAt(ses) == ses.exp - AccessLife \div 4

\* The refresh token is known to be dead: leave it to the refresh track.
LeaveAlone(p) ==
    /\ pc[p] = "loaded" /\ KnownDead(s[p].rt)
    /\ ReturnFrom(p, AccessRetry)
    /\ UNCHANGED <<clock, schwab, disk, flight, latches, recovery, refresh_wake,
                   checkpoints, tnow, refWake, recovering, settling, cliRuns, tried>>

\* The access track has nothing to do before half of the token's life is over.
NotYet(p) ==
    /\ p = "access" /\ pc[p] = "loaded" /\ ~KnownDead(s[p].rt)
    /\ clock < HalfAt(s[p])
    /\ ReturnFrom(p, HalfAt(s[p]) - clock)
    /\ UNCHANGED <<clock, schwab, disk, flight, latches, recovery, refresh_wake,
                   checkpoints, tnow, refWake, recovering, settling, cliRuns, tried>>

WantsExchange(p) ==
    /\ pc[p] = "loaded" /\ ~KnownDead(s[p].rt)
    /\ p = "access" => clock >= HalfAt(s[p])
    /\ Goto(p, "enter")
    /\ tnow' = IF p = "access" THEN [tnow EXCEPT ![p] = clock] ELSE tnow
    /\ UNCHANGED <<clock, schwab, disk, flight, latches, recovery, refresh_wake,
                   checkpoints, s, fresh, out, naps, recovering, settling, cliRuns, tried>>

\* Bug variant: nobody waits for a flight that is under way.
EnterAlways(p) ==
    /\ pc[p] = "enter"
    /\ inflight' = p /\ Goto(p, "exchange")
    /\ UNCHANGED <<clock, schwab, disk, xch_result, latches, recovery, refresh_wake,
                   checkpoints, locals, naps, recovering, settling, cliRuns, tried>>

\* Under _xch_lock: lead a new flight, or follow the one that is under way.
Enter(p) ==
    /\ pc[p] = "enter"
    /\ \/ inflight = None /\ inflight' = p /\ Goto(p, "exchange")
       \/ inflight # None /\ UNCHANGED inflight /\ Goto(p, "waiting")
    /\ UNCHANGED <<clock, schwab, disk, xch_result, latches, recovery, refresh_wake,
                   checkpoints, locals, naps, recovering, settling, cliRuns, tried>>

\* Bug variant: a refresh grant is taken to renew the refresh token's life.
RefreshedFromAsNew(old) == [rt |-> old.rt, exp |-> clock + AccessLife,
                            rexp |-> clock + RefreshLife]

\* Bug variant: the new access token is saved under the old one's expiry.
RefreshedFromOldExpiry(old) == old

\* Session.refreshed_from: same refresh token, original expiry.
RefreshedFrom(old) == [rt |-> old.rt, exp |-> clock + AccessLife, rexp |-> old.rexp]

ExchangeOk(p) ==
    /\ pc[p] = "exchange" /\ ~Dead(s[p].rt)
    /\ fresh' = [fresh EXCEPT ![p] = RefreshedFrom(s[p])]
    /\ IF p = "cli" THEN UNCHANGED out ELSE out' = [out EXCEPT ![p] = "success"]
    /\ Goto(p, "open")
    /\ UNCHANGED <<clock, schwab, disk, flight, latches, recovery, refresh_wake,
                   checkpoints, s, tnow, naps, recovering, settling, cliRuns, tried>>

\* classify_exchange_error: Schwab's 400 and 401 are invalid_grant, all other
\* failures transient.
ExchangeFails(p, class) ==
    /\ p \in Exchangers /\ pc[p] = "exchange"
    /\ class = "invalid_grant" => Dead(s[p].rt)
    /\ out' = [out EXCEPT ![p] = class]
    /\ Goto(p, "publish")
    /\ UNCHANGED <<clock, schwab, disk, flight, latches, recovery, refresh_wake,
                   checkpoints, s, fresh, tnow, naps, recovering, settling, cliRuns, tried>>

\* Bug variant: what was raised is published as it is.
ResultRaw(p) == [status |-> out[p], fresh |-> fresh[p]]

\* A leader whose save raised publishes a transient failure and goes on raising.
Result(p) == IF out[p] = "raised" THEN [status |-> "transient", fresh |-> None]
                                  ELSE [status |-> out[p], fresh |-> fresh[p]]

\* Bug variant: the flight is cleared only when the exchange returns.
FlightLeftUnlessReturned(p) == IF out[p] = "raised" THEN inflight ELSE None

FlightLeft(p) == None

\* The finally block: result, flight and waiters under one lock.
Publish(p) ==
    /\ pc[p] = "publish"
    /\ xch_result' = Result(p)
    /\ inflight' = FlightLeft(p)
    /\ pc' = [q \in Writers |->
                IF q = p THEN IF out[p] # "raised" THEN "result"
                              ELSE IF p = "access" THEN "dead" ELSE "idle"
                ELSE IF pc[q] = "waiting" THEN "woken" ELSE pc[q]]
    /\ UNCHANGED <<clock, schwab, disk, latches, recovery, refresh_wake, checkpoints,
                   locals, naps, recovering, settling, cliRuns, tried>>

\* The waiter's event was set: it takes the lock and reads the result.
FollowerWoken(p) ==
    /\ pc[p] = "woken" /\ Goto(p, "result")
    /\ out' = [out EXCEPT ![p] = xch_result.status]
    /\ fresh' = [fresh EXCEPT ![p] = xch_result.fresh]
    /\ UNCHANGED <<clock, schwab, disk, flight, latches, recovery, refresh_wake,
                   checkpoints, s, tnow, naps, recovering, settling, cliRuns, tried>>

\* Bug variant: a waiter that gave up takes the last published result.
FollowerTimesOutStale(p) ==
    /\ pc[p] = "waiting" /\ Goto(p, "result")
    /\ out' = [out EXCEPT ![p] = xch_result.status]
    /\ fresh' = [fresh EXCEPT ![p] = xch_result.fresh]
    /\ UNCHANGED <<clock, schwab, disk, flight, latches, recovery, refresh_wake,
                   checkpoints, s, tnow, naps, recovering, settling, cliRuns, tried>>

\* The leader is stuck beyond the 60 s bound: an honest transient failure.
FollowerTimesOut(p) ==
    /\ pc[p] = "waiting" /\ Goto(p, "result")
    /\ out' = [out EXCEPT ![p] = "transient"]
    /\ UNCHANGED <<clock, schwab, disk, flight, latches, recovery, refresh_wake,
                   checkpoints, s, fresh, tnow, naps, recovering, settling, cliRuns, tried>>

\* invalid_grant: request_recovery sets both events.
HandOff(p) ==
    /\ pc[p] = "result" /\ out[p] = "invalid_grant"
    /\ recovery' = TRUE /\ refresh_wake' = TRUE
    /\ ReturnFrom(p, AccessRetry)
    /\ UNCHANGED <<clock, schwab, disk, flight, latches, checkpoints, tnow, refWake,
                   recovering, settling, cliRuns, tried>>

\* A success, or a caller's transient failure.
Report(p) ==
    /\ pc[p] = "result"
    /\ \/ out[p] = "success" /\ ReturnFrom(p, AtLeastOne(HalfAt(fresh[p]) - clock))
       \/ out[p] = "transient" /\ p # "access" /\ ReturnFrom(p, 0)
    /\ UNCHANGED <<clock, schwab, disk, flight, latches, recovery, refresh_wake,
                   checkpoints, tnow, refWake, recovering, settling, cliRuns, tried>>

\* The access track's transient failure: hold until the quarter mark, then retry
\* at a fixed pace, and say once that the token lapsed.
AccessTransient ==
    LET p == "access" IN
    /\ pc[p] = "result" /\ out[p] = "transient"
    /\ IF tnow[p] < QuarterAt(s[p])
       THEN ReturnFrom(p, QuarterAt(s[p]) - tnow[p]) /\ UNCHANGED lapse_notified
       ELSE /\ ReturnFrom(p, AccessRetry)
            /\ lapse_notified' = (lapse_notified \/ tnow[p] >= s[p].exp)
    /\ UNCHANGED <<clock, schwab, disk, flight, manual_block, recovery, refresh_wake,
                   checkpoints, tnow, refWake, recovering, settling, cliRuns, tried>>
-----------------------------------------------------------------------------
(* refresh_loop and refresh_step.                                           *)

RefreshNap(delay) == refWake' = clock + AtMost(RefreshNapCap, AtLeastOne(delay))

\* _refresh_wake.wait(timeout) returns.
RefreshWakes ==
    /\ pc["refresh"] = "idle"
    /\ refresh_wake \/ clock >= refWake \/ clock = MaxTime
    /\ Goto("refresh", "awake")
    /\ UNCHANGED <<clock, schwab, disk, flight, latches, recovery, refresh_wake,
                   checkpoints, locals, naps, recovering, settling, cliRuns, tried>>

RefreshWakeClear ==
    /\ pc["refresh"] = "awake" /\ Goto("refresh", "step")
    /\ refresh_wake' = FALSE
    /\ UNCHANGED <<clock, schwab, disk, flight, latches, recovery, checkpoints, locals,
                   naps, recovering, settling, cliRuns, tried>>

\* A pending recovery comes first: _run_recovery.
RecoveryStarts ==
    /\ pc["refresh"] = "step" /\ recovery
    /\ Goto("refresh", IF AutoLogin THEN "auth" ELSE "block")
    /\ recovering' = AutoLogin
    /\ UNCHANGED <<clock, schwab, disk, flight, latches, recovery, refresh_wake,
                   checkpoints, locals, naps, settling, cliRuns, tried>>

\* No unattended login: block the token that is on disk now and tell the user.
ManualBlock ==
    /\ pc["refresh"] = "block" /\ session # Torn /\ Goto("refresh", "clear")
    /\ manual_block' = IF session = None THEN None ELSE session.rt
    /\ UNCHANGED <<clock, schwab, disk, flight, lapse_notified, recovery, refresh_wake,
                   checkpoints, locals, naps, recovering, settling, cliRuns, tried>>

\* recovery.clear() ends a recovery, with or without a login.
RecoveryClear ==
    /\ pc["refresh"] = "clear" /\ Goto("refresh", "idle")
    /\ recovery' = FALSE /\ recovering' = FALSE /\ RefreshNap(1)
    /\ fresh' = [fresh EXCEPT !["refresh"] = None]
    /\ UNCHANGED <<clock, schwab, disk, flight, latches, refresh_wake, checkpoints,
                   s, out, tnow, accWake, settling, cliRuns, tried>>

RefreshStepRaises ==
    /\ pc["refresh"] \in {"step", "block"} /\ session = Torn
    /\ pc["refresh"] = "step" => ~recovery
    /\ Goto("refresh", "dead")
    /\ UNCHANGED <<clock, schwab, disk, flight, latches, recovery, refresh_wake,
                   checkpoints, locals, naps, recovering, settling, cliRuns, tried>>

RefreshNothing ==
    /\ pc["refresh"] = "step" /\ ~recovery /\ session = None
    /\ Goto("refresh", "idle") /\ RefreshNap(RefreshNapCap)
    /\ UNCHANGED <<clock, schwab, disk, flight, latches, recovery, refresh_wake,
                   checkpoints, locals, accWake, recovering, settling, cliRuns, tried>>

TokenKey(ses) == <<ses.rt, ses.rexp>>
Remaining(ses, t) == ses.rexp - t

\* Bug variant: the attempts made for an earlier token still count.
AttemptedForEver(ses) == cp_attempted

\* _reset_checkpoint_state_if_token_changed.
Attempted(ses) == IF cp_token_key = TokenKey(ses) THEN cp_attempted ELSE {}

Passed(ses, t) == {c \in refresh_checkpoints : Remaining(ses, t) <= c}
DueCheckpoints(ses) == Passed(ses, clock) \ Attempted(ses)

\* The next threshold ahead: a checkpoint not yet attempted, or the floor.
NextTarget(ses, t, done) ==
    Max({c \in refresh_checkpoints : c < Remaining(ses, t) /\ c \notin done}
        \cup {StopFloor})

\* What refresh_step does with a session, short of a login.
RefreshIdles(ses) ==
    /\ Goto("refresh", "idle")
    /\ \/ /\ Remaining(ses, clock) <= StopFloor           \* critical, tell the user
          /\ critical_for' = ses.rexp /\ RefreshNap(RefreshNapCap)
       \/ /\ Remaining(ses, clock) > StopFloor /\ ~AutoLogin
          /\ RefreshNap(Remaining(ses, clock) - StopFloor) /\ UNCHANGED critical_for
       \/ /\ Remaining(ses, clock) > StopFloor /\ AutoLogin /\ DueCheckpoints(ses) = {}
          /\ RefreshNap(Remaining(ses, clock) - NextTarget(ses, clock, Attempted(ses)))
          /\ UNCHANGED critical_for
    /\ cp_attempted' = Attempted(ses)
    /\ UNCHANGED <<s, tnow, tried>>

\* One attempt covers every checkpoint already passed.
RefreshAttempts(ses) ==
    /\ AutoLogin /\ Remaining(ses, clock) > StopFloor /\ DueCheckpoints(ses) # {}
    /\ Goto("refresh", "auth")
    /\ cp_attempted' = Attempted(ses) \cup Passed(ses, clock)
    /\ tried' = tried \cup ({ses.rt} \X Passed(ses, clock))
    /\ s' = [s EXCEPT !["refresh"] = ses]
    /\ tnow' = [tnow EXCEPT !["refresh"] = clock]
    /\ UNCHANGED <<critical_for, refWake>>

RefreshStep ==
    /\ pc["refresh"] = "step" /\ ~recovery /\ session \in Sessions
    /\ cp_token_key' = TokenKey(session)
    /\ RefreshIdles(session) \/ RefreshAttempts(session)
    /\ UNCHANGED <<clock, schwab, disk, flight, latches, recovery, refresh_wake, fresh,
                   out, accWake, recovering, settling, cliRuns>>

\* A full auth: Schwab issues a new refresh token.
FullAuth(p) ==
    /\ p \in {"refresh", "cli"} /\ pc[p] = "auth" /\ minted < MaxMints
    /\ minted' = minted + 1 /\ born' = [born EXCEPT ![minted + 1] = clock]
    /\ fresh' = [fresh EXCEPT ![p] = [rt |-> minted + 1, exp |-> clock + AccessLife,
                                      rexp |-> clock + RefreshLife]]
    /\ Goto(p, "open")
    /\ UNCHANGED <<clock, revoked, disk, flight, latches, recovery, refresh_wake,
                   checkpoints, s, out, tnow, naps, recovering, settling, cliRuns, tried>>

\* The login fails, or its save does.  A recovery backs off and tries again; a
\* scheduled renewal waits for the next checkpoint.
FullAuthFails ==
    LET p == "refresh" IN
    /\ pc[p] \in {"auth", "failed"}
    /\ \/ /\ recovering /\ Goto(p, "backoff")
          /\ \E d \in 1..BackoffCap : refWake' = clock + d
       \/ /\ ~recovering /\ Goto(p, "idle")
          /\ RefreshNap(Remaining(s[p], tnow[p]) - NextTarget(s[p], tnow[p], cp_attempted))
    /\ s' = [s EXCEPT ![p] = None]
    /\ UNCHANGED <<clock, schwab, disk, flight, latches, recovery, refresh_wake,
                   checkpoints, fresh, out, tnow, accWake, recovering, settling,
                   cliRuns, tried>>

\* Bug variant: the backoff waits for a wake-up nobody sends.
BackoffEndsOnWake ==
    /\ pc["refresh"] = "backoff" /\ refresh_wake
    /\ Goto("refresh", "auth")
    /\ UNCHANGED <<clock, schwab, disk, flight, latches, recovery, refresh_wake,
                   checkpoints, locals, naps, recovering, settling, cliRuns, tried>>

BackoffEnds ==
    /\ pc["refresh"] = "backoff" /\ (clock >= refWake \/ clock = MaxTime)
    /\ Goto("refresh", "auth")
    /\ UNCHANGED <<clock, schwab, disk, flight, latches, recovery, refresh_wake,
                   checkpoints, locals, naps, recovering, settling, cliRuns, tried>>

\* _after_full_auth_success, once it has saved the session again.
Settle ==
    LET p == "refresh" IN
    /\ pc[p] = "settle"
    /\ lapse_notified' = FALSE /\ manual_block' = None
    /\ critical_for' = None
    /\ cp_token_key' = TokenKey(fresh[p]) /\ cp_attempted' = {}
    /\ IF recovering
       THEN Goto(p, "clear") /\ UNCHANGED refWake
       ELSE /\ Goto(p, "idle")
            /\ RefreshNap(Remaining(fresh[p], clock) - NextTarget(fresh[p], clock, {}))
    /\ s' = [s EXCEPT ![p] = None]
    /\ fresh' = IF recovering THEN fresh ELSE [fresh EXCEPT ![p] = None]
    /\ UNCHANGED <<clock, schwab, disk, flight, recovery, refresh_wake, out, tnow,
                   accWake, recovering, settling, cliRuns, tried>>
-----------------------------------------------------------------------------
(* `schwab auth`, in a process of its own.                                  *)

\* With --force, or without a readable session: a full auth.  Otherwise the
\* stored refresh token is exchanged first.
CliStarts ==
    /\ pc["cli"] = "idle" /\ cliRuns < MaxCli /\ cliRuns' = cliRuns + 1
    /\ \/ Goto("cli", "auth") /\ UNCHANGED s
       \/ /\ session \in Sessions /\ Goto("cli", "exchange")
          /\ s' = [s EXCEPT !["cli"] = session]
    /\ UNCHANGED <<clock, schwab, disk, flight, latches, recovery, refresh_wake,
                   checkpoints, fresh, out, tnow, naps, recovering, settling, tried>>

\* The exchange failed: fall through to a full auth.
CliFallsThrough ==
    /\ pc["cli"] = "exchange" /\ Goto("cli", "auth")
    /\ s' = [s EXCEPT !["cli"] = None]
    /\ UNCHANGED <<clock, schwab, disk, flight, latches, recovery, refresh_wake,
                   checkpoints, fresh, out, tnow, naps, recovering, settling, cliRuns, tried>>

CliGivesUp ==
    /\ pc["cli"] = "auth" /\ Goto("cli", "idle")
    /\ UNCHANGED <<clock, schwab, disk, flight, latches, recovery, refresh_wake,
                   checkpoints, locals, naps, recovering, settling, cliRuns, tried>>

Cli == CliStarts \/ CliFallsThrough \/ CliGivesUp
-----------------------------------------------------------------------------
Save(p) ==
    SaveOpen(p) \/ SaveWrite(p) \/ SaveReplace(p) \/ SaveLosesFile(p) \/ SaveRaises(p)

\* Schwab gives its verdict on the refresh token.
Answered(p) == ExchangeOk(p) \/ ExchangeFails(p, "invalid_grant")

Exchanger(p) ==
    \/ LoadNothing(p) \/ LoadRaises(p) \/ Load(p)
    \/ LeaveAlone(p) \/ NotYet(p) \/ WantsExchange(p) \/ Enter(p)
    \/ Answered(p) \/ ExchangeFails(p, "transient") \/ Save(p) \/ Publish(p)
    \/ FollowerWoken(p) \/ FollowerTimesOut(p) \/ HandOff(p) \/ Report(p)
    \/ p = "access" /\ AccessTransient

RefreshTrack ==
    \/ RefreshWakes \/ RefreshWakeClear \/ RecoveryStarts \/ ManualBlock \/ RecoveryClear
    \/ RefreshStepRaises \/ RefreshNothing \/ RefreshStep
    \/ FullAuth("refresh") \/ FullAuthFails \/ BackoffEnds \/ Save("refresh") \/ Settle

Advance ==
    /\ clock < MaxTime /\ clock' = clock + 1
    /\ UNCHANGED <<schwab, disk, flight, latches, recovery, refresh_wake, checkpoints,
                   pc, locals, naps, recovering, settling, cliRuns, tried>>

\* Schwab kills a refresh token (a password change, a newer login).
Revoke(t) ==
    /\ t \in 1..minted /\ revoked' = revoked \cup {t}
    /\ UNCHANGED <<clock, minted, born, disk, flight, latches, recovery, refresh_wake,
                   checkpoints, pc, locals, naps, recovering, settling, cliRuns, tried>>

Next ==
    \/ \E p \in Exchangers : Exchanger(p)
    \/ RefreshTrack
    \/ Cli \/ FullAuth("cli") \/ ExchangeOk("cli") \/ Save("cli")
    \/ Advance \/ \E t \in Tokens : Revoke(t)

Spec == Init /\ [][Next]_vars

Serving(c) == pc[c] # "idle" /\ Exchanger(c)

\* Threads run, time passes, a save that was begun ends, and neither Schwab nor
\* the unattended login fails for ever.
Fairness ==
    /\ WF_vars(Exchanger("access")) /\ WF_vars(RefreshTrack) /\ WF_vars(Advance)
    /\ \A c \in Callers : WF_vars(Serving(c))
    /\ WF_vars(Save("cli"))
    /\ SF_vars(\E p \in Exchangers : Answered(p)) /\ SF_vars(FullAuth("refresh"))

FairSpec == Spec /\ Fairness
-----------------------------------------------------------------------------
(* Safety.                                                                  *)

InFlight == {p \in Exchangers : pc[p] \in {"exchange", "open", "write", "replace",
                                           "unlink", "publish"}}

\* Concurrent callers share one round trip to Schwab: the flight recorded in
\* _xch_inflight is the only one, and it ends with its leader, even a leader whose
\* save raises.
SingleFlight == \A p \in Exchangers : p \in InFlight <=> inflight = p

\* The refresh token's expiry, from which every renewal checkpoint follows, is
\* the true one in every copy of a session, whichever way it was obtained.
ExpiryTruthful ==
    \A ses \in ({session, tmp} \cup {fresh[p] : p \in Writers}) \cap Sessions :
        ses.rt <= minted /\ ses.rexp = born[ses.rt] + RefreshLife

\* A forced exchange that succeeds, led or followed, never hands out an access
\* token older than the one its caller started from (for the same login), as long
\* as no other process writes the file.
ForcedNotOlder ==
    cliRuns = 0 => \A p \in Exchangers :
        pc[p] = "result" /\ out[p] = "success" /\ fresh[p].rt = s[p].rt
            => fresh[p].exp >= s[p].exp
-----------------------------------------------------------------------------
(* What the documentation says and the code does not do.                    *)

\* token_manager.py:10-11: after a transient failure the access track backs off,
\* "then retry every minute until a token mints"; the refresh track retries
\* "until it succeeds": neither ever ends by itself.
TracksSurvive == pc["access"] # "dead" /\ pc["refresh"] # "dead"

\* token_manager.py:411-412: after a full auth the session is saved again so that
\* it "still ends durable": an older login does not come back.
FullAuthDurable ==
    [][{session, session'} \subseteq Sessions => (session.rt <= session'.rt)]_vars

Stuck == minted = MaxMints \/ ~TracksSurvive

\* A requested recovery ends with a login, however many attempts that takes.
RecoveryEnds == AutoLogin /\ recovery ~> (~recovery \/ Stuck)

\* A lapsed access token is replaced, also when its refresh token is dead.
AccessRenewed ==
    AutoLogin /\ session \in Sessions /\ session.exp <= clock
    ~> (session \in Sessions /\ session.exp > clock) \/ Stuck

\* Every token on disk gets its attempt at every checkpoint it passes, also one
\* that another process put there (the latch of an earlier token does not hide it),
\* unless a recovery takes over.
CheckpointAttempted ==
    \A t \in Tokens, c \in refresh_checkpoints :
        LET Held == session \in Sessions /\ session.rt = t IN
        AutoLogin /\ Held /\ Remaining(session, clock) <= c
        ~> \/ <<t, c>> \in tried
           \/ ~Held
           \/ Held /\ Remaining(session, clock) <= StopFloor
           \/ recovery \/ pc["refresh"] = "dead"
=============================================================================

------------------------- MODULE TokenManagerProofs -------------------------
(***************************************************************************)
(* Invariants of TokenManager, proved for every set of callers, every      *)
(* lifetime and every bound.                                               *)
(***************************************************************************)
EXTENDS TokenManager, TLAPS, WellFoundedInduction

Exchanging == {"loaded", "enter", "exchange", "waiting", "woken", "result"}
Saving == {"open", "write", "replace", "unlink"}

\* The locals a process reads are there: a call holds the session it loaded, a
\* save the one it writes, a success the one it reports ...
ExchangerLocals(p) ==
    /\ pc[p] \in Exchanging \cup Saving \cup {"publish"} => s[p] \in Sessions
    /\ pc[p] \in Saving => fresh[p] \in Sessions /\ out[p] = "success"
    /\ pc[p] \in {"publish", "result"} /\ out[p] = "success" => fresh[p] \in Sessions
    /\ pc[p] = "publish" => out[p] \in Statuses \cup {"raised"}

ResultPresent == xch_result.status = "success" => xch_result.fresh \in Sessions

CliLocals ==
    /\ pc["cli"] = "exchange" => s["cli"] \in Sessions
    /\ pc["cli"] \in Saving => fresh["cli"] \in Sessions

\* ... and a renewal that failed, outside a recovery, the one it was for.
RefreshLocals ==
    /\ pc["refresh"] \in Saving \cup {"settle"} => fresh["refresh"] \in Sessions
    /\ pc["refresh"] = "backoff" => recovering
    /\ pc["refresh"] \in Saving \cup {"auth", "failed"} /\ ~recovering
          => s["refresh"] \in Sessions

LocalsPresent ==
    (\A p \in Exchangers : ExchangerLocals(p)) /\ ResultPresent /\ CliLocals
    /\ RefreshLocals

-----------------------------------------------------------------------------
(* Arithmetic: naps end at natural times.                                   *)

\* A nonempty bounded set of naturals has a maximum, and Max is one of its elements.
LEMMA MaxIsElement ==
    ASSUME NEW m \in Nat, NEW T, T \subseteq 0..m, T # {}
    PROVE  Max(T) \in T
<1> DEFINE D == {m - x : x \in T}
           R == {ss \in Nat \X Nat : ss[1] < ss[2]}
<1>1. IsWellFoundedOn(R, Nat)
  BY NatLessThanWellFounded, Zenon DEF OpToRel
<1>2. D \subseteq Nat /\ D # {}
  <2>1. \A x \in T : m - x \in Nat
    BY SMT
  <2>2. QED
    BY <2>1, Zenon
<1> HIDE DEF D, R
<1>3. PICK d \in D : \A e \in D : ~ (<<e, d>> \in R)
  BY <1>1, <1>2, WFMin, Zenon
<1>4. PICK x \in T : d = m - x
  BY <1>3, Zenon DEF D
<1>5. ASSUME NEW y \in T, y > x  PROVE FALSE
  <2>1. m - y \in D
    BY Zenon DEF D
  <2>2. m - y \in Nat /\ d \in Nat /\ m - y < d
    BY <1>2, <1>3, <1>4, <1>5, <2>1, SMT
  <2>3. <<m - y, d>> \in R
    BY <2>2, SMT DEF R
  <2>4. QED
    BY <1>3, <2>1, <2>3, Zenon
<1>6. \A y \in T : x >= y
  BY <1>5, SMT
<1>7. QED
  BY <1>6, Zenon DEF Max

LEMMA CheckpointBounds ==
    refresh_checkpoints \subseteq StopFloor + 1 .. RefreshLife
BY DEF refresh_checkpoints

\* The next threshold is a natural number.
LEMMA NextTargetNat ==
    ASSUME NEW ses \in Sessions, NEW t \in Int, NEW done
    PROVE  NextTarget(ses, t, done) \in Nat
<1> DEFINE C == {c \in refresh_checkpoints : c < Remaining(ses, t) /\ c \notin done}
<1>1. StopFloor \in Nat /\ RefreshLife \in Nat
  BY ConstantsAssumption
<1>2. C \cup {StopFloor} \subseteq 0 .. (RefreshLife + StopFloor)
  <2>1. C \subseteq StopFloor + 1 .. RefreshLife
    BY CheckpointBounds, Zenon
  <2>2. QED
    BY <1>1, <2>1
<1>3. Max(C \cup {StopFloor}) \in C \cup {StopFloor}
  <2> HIDE DEF C
  <2>1. RefreshLife + StopFloor \in Nat /\ C \cup {StopFloor} # {}
    BY <1>1
  <2>2. QED
    BY <1>2, <2>1, MaxIsElement, Zenon
<1>4. Max(C \cup {StopFloor}) \in Nat
  BY <1>1, <1>2, <1>3
<1>5. QED
  BY <1>4, Zenon DEF NextTarget

LEMMA SessionFields ==
    ASSUME NEW ses \in Sessions
    PROVE  ses.rt \in Tokens /\ ses.exp \in Nat /\ ses.rexp \in Nat
BY DEF Sessions

\* Both loops' naps end at a natural time.
LEMMA Naps ==
    ASSUME TypeOK
    PROVE  /\ \A d \in Nat : clock + AtMost(AccessNapCap, d) \in Nat
           /\ \A d \in Int : clock + AtMost(RefreshNapCap, AtLeastOne(d)) \in Nat
BY ConstantsAssumption DEF TypeOK, AtMost, AtLeastOne

LEMMA RefreshNapEnds ==
    ASSUME TypeOK, NEW d \in Int, RefreshNap(d)
    PROVE  refWake' \in Nat
BY Naps DEF RefreshNap

LEMMA RenewalNap ==
    ASSUME NEW ses \in Sessions, NEW t \in Int, NEW done
    PROVE  /\ Remaining(ses, t) \in Int
           /\ Remaining(ses, t) - NextTarget(ses, t, done) \in Int
BY NextTargetNat, SessionFields DEF Remaining

-----------------------------------------------------------------------------
(* Types, and the locals that are present.                                  *)

TInv == TypeOK /\ LocalsPresent

LEMMA Processes ==
    /\ Writers = Exchangers \cup {"refresh", "cli"}
    /\ "refresh" \notin Exchangers /\ "cli" \notin Exchangers
    /\ "access" \in Exchangers /\ None \notin Exchangers
BY ConstantsAssumption DEF Writers, Exchangers

LEMMA TInvInit == Init => TInv
<1> SUFFICES ASSUME Init PROVE TInv
  OBVIOUS
<1>1. /\ StartExps \subseteq Nat /\ RefreshLife \in Nat /\ MaxTime \in Nat
      /\ MaxMints \in Nat \ {0} /\ MaxCli \in Nat
  BY ConstantsAssumption
<1>2. session \in Sessions \cup {None}
  BY <1>1 DEF Init, Sessions, Tokens
<1>3. TypeOK
  <2>1. /\ clock \in 0..MaxTime /\ minted \in 0..MaxMints /\ revoked \subseteq 1..minted
        /\ born \in [Tokens -> 0..MaxTime] /\ cliRuns \in 0..MaxCli
        /\ accWake \in Nat /\ refWake \in Nat
        /\ tnow \in [{"access", "refresh"} -> 0..MaxTime]
    BY <1>1 DEF Init
  <2>2. /\ fd \in [Writers -> {"none", "tmp", "session", "gone"}]
        /\ pc \in [Writers -> PCs]
        /\ s \in [Writers -> Sessions \cup {None}]
        /\ fresh \in [Writers -> Sessions \cup {None}]
        /\ out \in [Exchangers -> Statuses \cup {"raised", None}]
    BY DEF Init, PCs
  <2>3. xch_result \in [status : Statuses, fresh : Sessions \cup {None}]
    BY DEF Init, Statuses
  <2>4. QED
    BY <1>2, <2>1, <2>2, <2>3 DEF Init, TypeOK
<1>4. LocalsPresent
  BY Processes DEF Init, LocalsPresent, ExchangerLocals, ResultPresent,
                      CliLocals, RefreshLocals, Exchanging, Saving
<1>5. QED
  BY <1>3, <1>4 DEF TInv

\* The steps of a save.
LEMMA TypeSave ==
    ASSUME TInv, NEW p \in Writers, Save(p)
    PROVE  TypeOK'
<1> USE Processes DEF TInv, TypeOK, PCs, schwab, flight, latches, checkpoints,
                      locals, naps, disk, Goto
<1>1. CASE SaveOpen(p)
  BY <1>1 DEF SaveOpen
<1>2. CASE SaveWrite(p)
  BY <1>2 DEF SaveWrite
<1>3. CASE SaveReplace(p)
  <2>1. AfterSave(p) \in PCs
    BY DEF AfterSave
  <2>2. fd' \in [Writers -> {"none", "tmp", "session", "gone"}]
    BY <1>3 DEF SaveReplace
  <2>3. lapse_notified' \in BOOLEAN /\ settling' \in BOOLEAN
    BY <1>3 DEF SaveReplace
  <2>4. /\ s' \in [Writers -> Sessions \cup {None}]
        /\ fresh' \in [Writers -> Sessions \cup {None}]
    BY <1>3 DEF SaveReplace
  <2>5. QED
    BY <1>3, <2>1, <2>2, <2>3, <2>4 DEF SaveReplace
<1>4. CASE SaveLosesFile(p)
  BY <1>4 DEF SaveLosesFile
<1>5. CASE SaveRaises(p)
  <2>1. fd' \in [Writers -> {"none", "tmp", "session", "gone"}]
    BY <1>5 DEF SaveRaises, Unlinked
  <2>2. /\ pc' \in [Writers -> PCs]
        /\ fresh' \in [Writers -> Sessions \cup {None}]
        /\ out' \in [Exchangers -> Statuses \cup {"raised", None}]
        /\ settling' \in BOOLEAN
    BY <1>5 DEF SaveRaises
  <2>3. QED
    BY <1>5, <2>1, <2>2 DEF SaveRaises, Unlinked
<1>6. QED
  BY <1>1, <1>2, <1>3, <1>4, <1>5 DEF Save

\* What leaves a call sets: nothing is left of its locals.
LEMMA TypeReturn ==
    ASSUME TInv, NEW p \in Exchangers, NEW d \in Nat, ReturnFrom(p, d) \/ Raise(p)
    PROVE  /\ pc' \in [Writers -> PCs] /\ accWake' \in Nat
           /\ s' \in [Writers -> Sessions \cup {None}]
           /\ fresh' \in [Writers -> Sessions \cup {None}]
           /\ out' \in [Exchangers -> Statuses \cup {"raised", None}]
<1>1. accWake' \in Nat
  BY Naps DEF TInv, TypeOK, ReturnFrom, Raise
<1>2. QED
  BY <1>1, Processes DEF TInv, TypeOK, PCs, ReturnFrom, Raise, Goto

LEMMA RefreshedFromSession ==
    ASSUME TypeOK, NEW old \in Sessions
    PROVE  RefreshedFrom(old) \in Sessions
BY ConstantsAssumption DEF TypeOK, Sessions, RefreshedFrom

\* Where a call returns: the delays are natural numbers.
LEMMA TypeCallEnds ==
    ASSUME TInv, NEW p \in Exchangers,
           \/ LoadNothing(p) \/ LoadRaises(p) \/ LeaveAlone(p) \/ NotYet(p)
           \/ HandOff(p) \/ Report(p) \/ (p = "access" /\ AccessTransient)
    PROVE  TypeOK'
<1>1. /\ AccessRetry \in Nat /\ AccessLife \in Nat /\ 0 \in Nat
      /\ clock \in Nat /\ \A q \in {"access"} : tnow[q] \in Nat
  BY ConstantsAssumption DEF TInv, TypeOK
<1>2. \A ses \in Sessions : HalfAt(ses) \in Int /\ QuarterAt(ses) \in Int
  BY <1>1, SessionFields DEF HalfAt, QuarterAt
<1>3. \E d \in Nat : ReturnFrom(p, d) \/ Raise(p)
  <2>1. CASE LoadNothing(p) \/ LoadRaises(p) \/ LeaveAlone(p) \/ HandOff(p)
    BY <1>1, <2>1, Zenon DEF LoadNothing, LoadRaises, LeaveAlone, HandOff
  <2>2. CASE NotYet(p)
    <3>1. s[p] \in Sessions
      BY <2>2 DEF NotYet, TInv, LocalsPresent, ExchangerLocals, Exchanging
    <3>2. HalfAt(s[p]) - clock \in Nat
      BY <1>1, <1>2, <2>2, <3>1 DEF NotYet
    <3>3. QED
      BY <2>2, <3>2 DEF NotYet
  <2>3. CASE Report(p)
    <3>1. CASE out[p] = "success"
      <4>1. fresh[p] \in Sessions
        BY <2>3, <3>1 DEF Report, TInv, LocalsPresent, ExchangerLocals
      <4>2. AtLeastOne(HalfAt(fresh[p]) - clock) \in Nat
        BY <1>1, <1>2, <4>1 DEF AtLeastOne
      <4>3. QED
        BY <2>3, <3>1, <4>2 DEF Report
    <3>2. QED
      BY <1>1, <2>3, <3>1 DEF Report
  <2>4. CASE (p = "access" /\ AccessTransient)
    <3>1. s[p] \in Sessions
      BY <2>4 DEF AccessTransient, TInv, LocalsPresent, ExchangerLocals, Exchanging
    <3>2. tnow[p] < QuarterAt(s[p]) => QuarterAt(s[p]) - tnow[p] \in Nat
      BY <1>1, <1>2, <2>4, <3>1
    <3>3. QED
      BY <1>1, <2>4, <3>2 DEF AccessTransient
  <2>5. QED
    BY <2>1, <2>2, <2>3, <2>4
<1>4. /\ pc' \in [Writers -> PCs] /\ accWake' \in Nat
      /\ s' \in [Writers -> Sessions \cup {None}]
      /\ fresh' \in [Writers -> Sessions \cup {None}]
      /\ out' \in [Exchangers -> Statuses \cup {"raised", None}]
  BY <1>3, TypeReturn, Zenon
<1>5. /\ recovery' \in BOOLEAN /\ refresh_wake' \in BOOLEAN /\ lapse_notified' \in BOOLEAN
      /\ UNCHANGED <<clock, schwab, disk, flight, manual_block, checkpoints, tnow,
                     refWake, recovering, settling, cliRuns, tried>>
  BY DEF TInv, TypeOK, LoadNothing, LoadRaises, LeaveAlone, NotYet, HandOff, Report,
         AccessTransient, latches
<1>6. QED
  BY <1>4, <1>5 DEF TInv, TypeOK, schwab, disk, flight, checkpoints

\* The other steps of an exchange.
LEMMA TypeExchange ==
    ASSUME TInv, NEW p \in Exchangers,
           \/ Load(p) \/ WantsExchange(p) \/ Enter(p) \/ Answered(p)
           \/ ExchangeFails(p, "transient") \/ Publish(p) \/ FollowerWoken(p)
           \/ FollowerTimesOut(p)
    PROVE  TypeOK'
<1> USE Processes DEF TInv, TypeOK, PCs, schwab, flight, latches, checkpoints,
                      locals, naps, disk, Goto
<1>1. CASE Load(p)
  BY <1>1 DEF Load
<1>2. CASE WantsExchange(p)
  BY <1>2 DEF WantsExchange
<1>3. CASE Enter(p)
  BY <1>3 DEF Enter
<1>4. CASE ExchangeOk(p)
  <2>1. RefreshedFrom(s[p]) \in Sessions
    BY <1>4, RefreshedFromSession DEF ExchangeOk, LocalsPresent, ExchangerLocals, Exchanging
  <2>2. QED
    BY <1>4, <2>1 DEF ExchangeOk, Statuses
<1>5. CASE ExchangeFails(p, "invalid_grant") \/ ExchangeFails(p, "transient")
  BY <1>5 DEF ExchangeFails, Statuses
<1>6. CASE Publish(p)
  <2>1. Result(p) \in [status : Statuses, fresh : Sessions \cup {None}]
    BY <1>6 DEF Publish, Result, LocalsPresent, ExchangerLocals, ResultPresent, Statuses
  <2>2. QED
    BY <1>6, <2>1 DEF Publish, FlightLeft
<1>7. CASE FollowerWoken(p)
  BY <1>7 DEF FollowerWoken
<1>8. CASE FollowerTimesOut(p)
  BY <1>8 DEF FollowerTimesOut, Statuses
<1>9. QED
  BY <1>1, <1>2, <1>3, <1>4, <1>5, <1>6, <1>7, <1>8 DEF Answered

LEMMA TypeRefresh ==
    ASSUME TInv,
           \/ RefreshWakes \/ RefreshWakeClear \/ RecoveryStarts \/ ManualBlock
           \/ RecoveryClear \/ RefreshStepRaises \/ RefreshNothing \/ BackoffEnds
    PROVE  TypeOK'
<1> USE Processes DEF TInv, TypeOK, PCs, schwab, flight, latches, checkpoints,
                      locals, naps, disk, Goto
<1>1. CASE RefreshWakes \/ RefreshStepRaises \/ BackoffEnds
  BY <1>1 DEF RefreshWakes, RefreshStepRaises, BackoffEnds
<1>2. CASE RefreshWakeClear
  <2>1. refresh_wake' \in BOOLEAN /\ pc' \in [Writers -> PCs]
    BY <1>2 DEF RefreshWakeClear
  <2>2. UNCHANGED <<clock, schwab, disk, flight, latches, recovery, checkpoints,
                    locals, naps, recovering, settling, cliRuns, tried>>
    BY <1>2, Zenon DEF RefreshWakeClear
  <2>3. QED
    BY <2>1, <2>2
<1>3. CASE RecoveryStarts
  BY <1>3, ConstantsAssumption DEF RecoveryStarts
<1>4. CASE ManualBlock
  BY <1>4, SessionFields DEF ManualBlock
<1>5. CASE RecoveryClear
  <2>1. refWake' \in Nat
    BY <1>5, RefreshNapEnds DEF RecoveryClear
  <2>2. pc' \in [Writers -> PCs] /\ fresh' \in [Writers -> Sessions \cup {None}]
    BY <1>5 DEF RecoveryClear
  <2>3. recovery' \in BOOLEAN /\ recovering' \in BOOLEAN
    BY <1>5 DEF RecoveryClear
  <2>4. UNCHANGED <<clock, schwab, disk, flight, latches, refresh_wake, checkpoints,
                    s, out, tnow, accWake, settling, cliRuns, tried>>
    BY <1>5, Zenon DEF RecoveryClear
  <2>5. QED
    BY <2>1, <2>2, <2>3, <2>4
<1>6. CASE RefreshNothing
  <2>1. refWake' \in Nat
    BY <1>6, RefreshNapEnds, ConstantsAssumption DEF RefreshNothing
  <2>2. QED
    BY <1>6, <2>1 DEF RefreshNothing
<1>7. QED
  BY <1>1, <1>2, <1>3, <1>4, <1>5, <1>6

LEMMA TypeRefreshStep ==
    ASSUME TInv, RefreshStep
    PROVE  TypeOK'
<1> USE Processes DEF TInv, TypeOK, PCs, schwab, flight, latches, checkpoints,
                      locals, naps, disk, Goto
<1>1. session \in Sessions /\ session.rt \in Tokens /\ session.rexp \in Nat
  BY SessionFields DEF RefreshStep
<1>2. cp_token_key' \in (Tokens \X Nat) \cup {None}
  BY <1>1 DEF RefreshStep, TokenKey
<1>3. /\ Attempted(session) \subseteq refresh_checkpoints
      /\ Passed(session, clock) \subseteq refresh_checkpoints
  BY DEF Attempted, Passed
<1>4. clock \in Int
  BY ConstantsAssumption
<1>5. CASE RefreshIdles(session)
  <2>1. /\ Remaining(session, clock) \in Int
        /\ Remaining(session, clock) - NextTarget(session, clock, Attempted(session))
              \in Int
    BY <1>1, <1>4, RenewalNap
  <2>2. refWake' \in Nat
    <3>1. /\ RefreshNapCap \in Int /\ StopFloor \in Int
          /\ Remaining(session, clock) - StopFloor \in Int
      BY <2>1, ConstantsAssumption
    <3>2. PICK d \in Int : RefreshNap(d)
      BY <1>5, <2>1, <3>1, Zenon DEF RefreshIdles
    <3>3. QED
      BY <3>2, RefreshNapEnds
  <2>3. critical_for' \in Nat \cup {None} /\ pc' \in [Writers -> PCs]
    BY <1>1, <1>5 DEF RefreshIdles
  <2>4. QED
    BY <1>2, <1>3, <1>5, <2>2, <2>3 DEF RefreshIdles, RefreshStep
<1>6. CASE RefreshAttempts(session)
  <2>1. /\ cp_attempted' \subseteq refresh_checkpoints
        /\ tried' \subseteq Tokens \X refresh_checkpoints
    BY <1>1, <1>3, <1>6 DEF RefreshAttempts
  <2>2. /\ pc' \in [Writers -> PCs] /\ s' \in [Writers -> Sessions \cup {None}]
        /\ tnow' \in [{"access", "refresh"} -> 0..MaxTime]
    BY <1>1, <1>6 DEF RefreshAttempts
  <2>3. QED
    BY <1>2, <1>6, <2>1, <2>2 DEF RefreshAttempts, RefreshStep
<1>7. QED
  BY <1>5, <1>6 DEF RefreshStep

LEMMA TypeLogin ==
    ASSUME TInv,
           FullAuth("refresh") \/ FullAuth("cli") \/ FullAuthFails \/ Settle
    PROVE  TypeOK'
<1> USE Processes DEF TInv, TypeOK, PCs, schwab, flight, latches, checkpoints,
                      locals, naps, disk, Goto
<1>1. ASSUME NEW p \in {"refresh", "cli"}, FullAuth(p)  PROVE TypeOK'
  <2>1. /\ minted + 1 \in Tokens /\ clock + AccessLife \in Nat
        /\ clock + RefreshLife \in Nat
    BY <1>1, ConstantsAssumption DEF FullAuth, Tokens
  <2>2. fresh' \in [Writers -> Sessions \cup {None}]
    BY <1>1, <2>1 DEF FullAuth, Sessions
  <2>3. /\ minted' \in 0..MaxMints /\ born' \in [Tokens -> 0..MaxTime]
        /\ revoked' \subseteq 1..minted'
    BY <1>1, <2>1, ConstantsAssumption DEF FullAuth
  <2>4. QED
    BY <1>1, <2>2, <2>3 DEF FullAuth
<1>2. CASE FullAuthFails
  <2>1. refWake' \in Nat
    <3>1. CASE recovering
      BY <1>2, <3>1, ConstantsAssumption DEF FullAuthFails
    <3>2. CASE ~recovering
      <4>1. s["refresh"] \in Sessions /\ tnow["refresh"] \in Int
        BY <1>2, <3>2, ConstantsAssumption DEF FullAuthFails, LocalsPresent, RefreshLocals
      <4>2. Remaining(s["refresh"], tnow["refresh"])
               - NextTarget(s["refresh"], tnow["refresh"], cp_attempted) \in Int
        BY <4>1, RenewalNap
      <4>3. QED
        BY <1>2, <3>2, <4>2, RefreshNapEnds DEF FullAuthFails
    <3>3. QED
      BY <3>1, <3>2
  <2>2. QED
    BY <1>2, <2>1 DEF FullAuthFails
<1>3. CASE Settle
  <2>1. fresh["refresh"] \in Sessions /\ clock \in Int
    BY <1>3, ConstantsAssumption DEF Settle, LocalsPresent, RefreshLocals
  <2>2. cp_token_key' \in (Tokens \X Nat) \cup {None}
    BY <1>3, <2>1, SessionFields DEF Settle, TokenKey
  <2>3. refWake' \in Nat
    <3>1. Remaining(fresh["refresh"], clock)
             - NextTarget(fresh["refresh"], clock, {}) \in Int
      BY <2>1, RenewalNap
    <3>2. QED
      BY <1>3, <3>1, RefreshNapEnds DEF Settle
  <2>4. /\ pc' \in [Writers -> PCs] /\ s' \in [Writers -> Sessions \cup {None}]
        /\ fresh' \in [Writers -> Sessions \cup {None}]
    BY <1>3 DEF Settle
  <2>5. QED
    BY <1>3, <2>2, <2>3, <2>4 DEF Settle
<1>4. QED
  BY <1>1, <1>2, <1>3

LEMMA TypeOthers ==
    ASSUME TInv, Cli \/ ExchangeOk("cli") \/ Advance \/ \E t \in Tokens : Revoke(t)
    PROVE  TypeOK'
<1> USE Processes DEF TInv, TypeOK, PCs, schwab, flight, latches, checkpoints,
                      locals, naps, disk, Goto
<1>1. CASE CliStarts
  <2>1. cliRuns' \in 0..MaxCli
    BY <1>1, ConstantsAssumption DEF CliStarts
  <2>2. pc' \in [Writers -> PCs] /\ s' \in [Writers -> Sessions \cup {None}]
    BY <1>1 DEF CliStarts
  <2>3. QED
    BY <1>1, <2>1, <2>2 DEF CliStarts
<1>2. CASE CliFallsThrough \/ CliGivesUp
  BY <1>2 DEF CliFallsThrough, CliGivesUp
<1>3. CASE ExchangeOk("cli")
  <2>1. RefreshedFrom(s["cli"]) \in Sessions
    BY <1>3, RefreshedFromSession DEF ExchangeOk, LocalsPresent, CliLocals
  <2>2. QED
    BY <1>3, <2>1 DEF ExchangeOk
<1>4. CASE Advance
  BY <1>4, ConstantsAssumption DEF Advance
<1>5. CASE \E t \in Tokens : Revoke(t)
  BY <1>5 DEF Revoke
<1>6. QED
  BY <1>1, <1>2, <1>3, <1>4, <1>5 DEF Cli

-----------------------------------------------------------------------------
(* The locals stay present.                                                 *)

LEMMA LocalsSave ==
    ASSUME TInv, NEW p \in Writers, Save(p)
    PROVE  LocalsPresent'
<1> USE Processes DEF TInv, TypeOK, LocalsPresent, ExchangerLocals, ResultPresent,
                      CliLocals, RefreshLocals, Exchanging, Saving, flight,
                      locals, Goto
<1>1. CASE SaveOpen(p)
  BY <1>1 DEF SaveOpen
<1>2. CASE SaveWrite(p)
  BY <1>2 DEF SaveWrite
<1>3. CASE SaveReplace(p)
  <2>1. \A q \in Exchangers : ExchangerLocals(q)'
    BY <1>3 DEF SaveReplace, AfterSave, Statuses
  <2>2. ResultPresent' /\ CliLocals'
    BY <1>3 DEF SaveReplace, AfterSave
  <2>3. RefreshLocals'
    BY <1>3 DEF SaveReplace, AfterSave
  <2>4. QED
    BY <2>1, <2>2, <2>3
<1>4. CASE SaveLosesFile(p)
  BY <1>4 DEF SaveLosesFile
<1>5. CASE SaveRaises(p)
  <2>1. \A q \in Exchangers : ExchangerLocals(q)'
    BY <1>5 DEF SaveRaises
  <2>2. ResultPresent' /\ CliLocals'
    BY <1>5 DEF SaveRaises
  <2>3. RefreshLocals'
    BY <1>5 DEF SaveRaises
  <2>4. QED
    BY <2>1, <2>2, <2>3
<1>6. QED
  BY <1>1, <1>2, <1>3, <1>4, <1>5 DEF Save

LEMMA LocalsExchanger ==
    ASSUME TInv, NEW p \in Exchangers, Exchanger(p)
    PROVE  LocalsPresent'
<1>0. \/ Save(p) \/ Load(p) \/ WantsExchange(p) \/ Enter(p) \/ ExchangeOk(p)
      \/ ExchangeFails(p, "invalid_grant") \/ ExchangeFails(p, "transient")
      \/ Publish(p) \/ FollowerWoken(p) \/ FollowerTimesOut(p)
      \/ LoadNothing(p) \/ LoadRaises(p) \/ LeaveAlone(p) \/ NotYet(p)
      \/ HandOff(p) \/ Report(p) \/ (p = "access" /\ AccessTransient)
  BY DEF Exchanger, Answered
<1> USE Processes DEF TInv, TypeOK, LocalsPresent, ExchangerLocals, ResultPresent,
                      CliLocals, RefreshLocals, Exchanging, Saving, flight,
                      locals, Goto
<1>1. CASE LoadNothing(p) \/ LoadRaises(p) \/ LeaveAlone(p)
           \/ NotYet(p) \/ HandOff(p) \/ Report(p) \/ (p = "access" /\ AccessTransient)
  BY <1>1 DEF LoadNothing, LoadRaises, LeaveAlone, NotYet, HandOff, Report,
              AccessTransient, ReturnFrom, Raise
<1>2. CASE Load(p)
  BY <1>2 DEF Load
<1>3. CASE WantsExchange(p) \/ Enter(p)
  BY <1>3 DEF WantsExchange, Enter
<1>4. CASE ExchangeOk(p)
  <2>1. RefreshedFrom(s[p]) \in Sessions
    BY <1>4, RefreshedFromSession DEF ExchangeOk
  <2>2. QED
    BY <1>4, <2>1 DEF ExchangeOk
<1>5. CASE ExchangeFails(p, "invalid_grant") \/ ExchangeFails(p, "transient")
  <2>1. \E class \in {"invalid_grant", "transient"} : ExchangeFails(p, class)
    BY <1>5, Zenon
  <2>2. PICK class \in {"invalid_grant", "transient"} : ExchangeFails(p, class)
    BY <2>1
  <2>3. \A q \in Exchangers : ExchangerLocals(q)'
    BY <2>2 DEF ExchangeFails, Statuses
  <2>4. ResultPresent' /\ CliLocals' /\ RefreshLocals'
    BY <2>2 DEF ExchangeFails
  <2>5. QED
    BY <2>3, <2>4
<1>6. CASE Publish(p)
  <2>1. ResultPresent'
    BY <1>6 DEF Publish, Result
  <2>2. \A q \in Exchangers : ExchangerLocals(q)'
    BY <1>6 DEF Publish
  <2>3. CliLocals' /\ RefreshLocals'
    BY <1>6 DEF Publish
  <2>4. QED
    BY <2>1, <2>2, <2>3
<1>7. CASE FollowerWoken(p)
  BY <1>7 DEF FollowerWoken
<1>8. CASE FollowerTimesOut(p)
  BY <1>8 DEF FollowerTimesOut
<1>9. CASE Save(p)
  BY <1>9, LocalsSave, Processes
<1>10. QED
  BY <1>0, <1>1, <1>2, <1>3, <1>4, <1>5, <1>6, <1>7, <1>8, <1>9

LEMMA LocalsRefresh ==
    ASSUME TInv, RefreshTrack
    PROVE  LocalsPresent'
<1> USE Processes DEF TInv, TypeOK, LocalsPresent, ExchangerLocals, ResultPresent,
                      CliLocals, RefreshLocals, Exchanging, Saving, flight,
                      locals, Goto
<1>1. CASE RefreshWakes \/ RefreshWakeClear \/ RefreshStepRaises \/ RefreshNothing
  BY <1>1 DEF RefreshWakes, RefreshWakeClear, RefreshStepRaises, RefreshNothing
<1>2. CASE RecoveryStarts
  BY <1>2, ConstantsAssumption DEF RecoveryStarts
<1>3. CASE ManualBlock \/ RecoveryClear \/ BackoffEnds
  BY <1>3 DEF ManualBlock, RecoveryClear, BackoffEnds
<1>4. CASE RefreshStep
  BY <1>4 DEF RefreshStep, RefreshIdles, RefreshAttempts
<1>5. CASE FullAuth("refresh")
  <2>1. fresh'["refresh"] \in Sessions
    <3>1. minted + 1 \in Tokens /\ clock + AccessLife \in Nat
          /\ clock + RefreshLife \in Nat
      BY <1>5, ConstantsAssumption DEF FullAuth, Tokens
    <3>2. QED
      BY <1>5, <3>1 DEF FullAuth, Sessions
  <2>2. QED
    BY <1>5, <2>1 DEF FullAuth
<1>6. CASE FullAuthFails \/ Settle
  BY <1>6 DEF FullAuthFails, Settle
<1>7. CASE Save("refresh")
  BY <1>7, LocalsSave, Processes
<1>8. QED
  BY <1>1, <1>2, <1>3, <1>4, <1>5, <1>6, <1>7 DEF RefreshTrack

LEMMA LocalsOthers ==
    ASSUME TInv, \/ Cli \/ FullAuth("cli") \/ ExchangeOk("cli") \/ Advance
                 \/ \E t \in Tokens : Revoke(t)
    PROVE  LocalsPresent'
<1> USE Processes DEF TInv, TypeOK, LocalsPresent, ExchangerLocals, ResultPresent,
                      CliLocals, RefreshLocals, Exchanging, Saving, flight,
                      locals, Goto
<1>1. CASE Cli
  BY <1>1 DEF Cli, CliStarts, CliFallsThrough, CliGivesUp
<1>2. CASE FullAuth("cli")
  <2>1. fresh'["cli"] \in Sessions
    <3>1. minted + 1 \in Tokens /\ clock + AccessLife \in Nat
          /\ clock + RefreshLife \in Nat
      BY <1>2, ConstantsAssumption DEF FullAuth, Tokens
    <3>2. QED
      BY <1>2, <3>1 DEF FullAuth, Sessions
  <2>2. QED
    BY <1>2, <2>1 DEF FullAuth
<1>3. CASE ExchangeOk("cli")
  <2>1. RefreshedFrom(s["cli"]) \in Sessions
    BY <1>3, RefreshedFromSession DEF ExchangeOk
  <2>2. QED
    BY <1>3, <2>1 DEF ExchangeOk
<1>4. CASE Advance \/ \E t \in Tokens : Revoke(t)
  BY <1>4 DEF Advance, Revoke
<1>5. QED
  BY <1>1, <1>2, <1>3, <1>4

LEMMA TInvNext == TInv /\ [Next]_vars => TInv'
<1> SUFFICES ASSUME TInv, [Next]_vars PROVE TypeOK' /\ LocalsPresent'
  BY DEF TInv
<1>1. ASSUME NEW p \in Exchangers, Exchanger(p)
      PROVE  TypeOK' /\ LocalsPresent'
  <2>1. \/ Save(p)
        \/ \/ Load(p) \/ WantsExchange(p) \/ Enter(p) \/ Answered(p)
           \/ ExchangeFails(p, "transient") \/ Publish(p) \/ FollowerWoken(p)
           \/ FollowerTimesOut(p)
        \/ \/ LoadNothing(p) \/ LoadRaises(p) \/ LeaveAlone(p) \/ NotYet(p)
           \/ HandOff(p) \/ Report(p) \/ (p = "access" /\ AccessTransient)
    BY <1>1 DEF Exchanger
  <2>2. TypeOK'
    BY <2>1, TypeSave, TypeExchange, TypeCallEnds, Processes
  <2>3. QED
    BY <1>1, <2>2, LocalsExchanger
<1>2. CASE RefreshTrack
  <2>1. TypeOK'
    BY <1>2, TypeRefresh, TypeRefreshStep, TypeLogin, TypeSave, Processes
       DEF RefreshTrack
  <2>2. QED
    BY <1>2, <2>1, LocalsRefresh
<1>3. CASE Save("cli")
  BY <1>3, TypeSave, LocalsSave, Processes
<1>4. CASE \/ Cli \/ FullAuth("cli") \/ ExchangeOk("cli") \/ Advance
           \/ \E t \in Tokens : Revoke(t)
  BY <1>4, TypeOthers, TypeLogin, LocalsOthers
<1>5. CASE UNCHANGED vars
  BY <1>5 DEF TInv, TypeOK, LocalsPresent, ExchangerLocals, ResultPresent, CliLocals,
     RefreshLocals, vars, schwab, disk, flight, latches, checkpoints, locals, naps
<1>6. QED
  BY <1>1, <1>2, <1>3, <1>4, <1>5 DEF Next

-----------------------------------------------------------------------------
(* One flight at a time.                                                    *)

\* A step that changes no exchanger's place in the flight.
Outside ==
    UNCHANGED inflight /\ \A q \in Exchangers : (q \in InFlight) = (q \in InFlight')

\* The program counter of a process that is no exchanger is not looked at.
LEMMA OutsideOthers ==
    ASSUME TInv, UNCHANGED inflight,
           NEW p \in {"refresh", "cli"}, NEW l, pc' = [pc EXCEPT ![p] = l] \/ pc' = pc
    PROVE  Outside
BY Processes DEF TInv, TypeOK, Outside, InFlight

LEMMA OutsideExchanger ==
    ASSUME TInv, NEW p \in Exchangers, Exchanger(p), ~Enter(p), ~Publish(p)
    PROVE  Outside
<1> USE Processes DEF TInv, TypeOK, Outside, InFlight, Goto, flight
<1>1. CASE LoadNothing(p) \/ LoadRaises(p) \/ LeaveAlone(p) \/ NotYet(p)
           \/ HandOff(p) \/ Report(p) \/ (p = "access" /\ AccessTransient)
  BY <1>1 DEF LoadNothing, LoadRaises, LeaveAlone, NotYet, HandOff, Report,
              AccessTransient, ReturnFrom, Raise, CallStarts
<1>2. CASE Load(p) \/ WantsExchange(p) \/ FollowerWoken(p) \/ FollowerTimesOut(p)
  BY <1>2 DEF Load, WantsExchange, FollowerWoken, FollowerTimesOut, CallStarts
<1>3. CASE Answered(p) \/ ExchangeFails(p, "transient")
  BY <1>3 DEF Answered, ExchangeOk, ExchangeFails
<1>4. CASE Save(p)
  BY <1>4 DEF Save, SaveOpen, SaveWrite, SaveReplace, SaveLosesFile, SaveRaises,
              AfterSave
<1>5. QED
  BY <1>1, <1>2, <1>3, <1>4 DEF Exchanger

LEMMA OutsideSave ==
    ASSUME TInv, NEW p \in {"refresh", "cli"}, Save(p)
    PROVE  Outside
<1>1. UNCHANGED inflight
  BY DEF Save, SaveOpen, SaveWrite, SaveReplace, SaveLosesFile, SaveRaises, flight
<1>2. \E l : pc' = [pc EXCEPT ![p] = l]
  BY Zenon DEF Save, SaveOpen, SaveWrite, SaveReplace, SaveLosesFile, SaveRaises, Goto
<1>3. QED
  BY <1>1, <1>2, OutsideOthers

LEMMA FlightNext == TInv /\ SingleFlight /\ [Next]_vars => SingleFlight'
<1> SUFFICES ASSUME TInv, SingleFlight, [Next]_vars PROVE SingleFlight'
  OBVIOUS
<1>1. ASSUME NEW p \in Exchangers, Enter(p)  PROVE SingleFlight'
  BY <1>1, Processes DEF TInv, TypeOK, Enter, SingleFlight, InFlight, Goto
<1>2. ASSUME NEW p \in Exchangers, Publish(p)  PROVE SingleFlight'
  BY <1>2, Processes DEF TInv, TypeOK, Publish, SingleFlight, InFlight, FlightLeft
<1>3. ASSUME Outside  PROVE SingleFlight'
  BY <1>3 DEF Outside, SingleFlight
<1>4. CASE RefreshTrack /\ ~Save("refresh")
  <2>1. UNCHANGED inflight
    BY <1>4 DEF RefreshTrack, RefreshWakes, RefreshWakeClear, RecoveryStarts,
       ManualBlock, RecoveryClear, RefreshStepRaises, RefreshNothing, RefreshStep,
       FullAuth, FullAuthFails, BackoffEnds, Settle, flight
  <2>2. \E l : pc' = [pc EXCEPT !["refresh"] = l]
    BY <1>4, Zenon DEF RefreshTrack, RefreshWakes, RefreshWakeClear, RecoveryStarts,
       ManualBlock, RecoveryClear, RefreshStepRaises, RefreshNothing, RefreshStep,
       RefreshIdles, RefreshAttempts, FullAuth, FullAuthFails, BackoffEnds, Settle, Goto
  <2>3. QED
    BY <1>3, <2>1, <2>2, OutsideOthers
<1>5. CASE Cli \/ FullAuth("cli") \/ ExchangeOk("cli")
  <2>1. UNCHANGED inflight
    BY <1>5 DEF Cli, CliStarts, CliFallsThrough, CliGivesUp, FullAuth, ExchangeOk, flight
  <2>2. \E l : pc' = [pc EXCEPT !["cli"] = l]
    BY <1>5, Zenon DEF Cli, CliStarts, CliFallsThrough, CliGivesUp, FullAuth, ExchangeOk,
       Goto
  <2>3. QED
    BY <1>3, <2>1, <2>2, OutsideOthers
<1>6. CASE Advance \/ (\E t \in Tokens : Revoke(t)) \/ UNCHANGED vars
  BY <1>6 DEF Advance, Revoke, vars, flight, SingleFlight, InFlight
<1>7. QED
  BY <1>1, <1>2, <1>3, <1>4, <1>5, <1>6, OutsideExchanger, OutsideSave DEF Next

-----------------------------------------------------------------------------
(* Every copy of a session tells its token's true expiry.                   *)

Copies == ({session, tmp, xch_result.fresh} \cup {fresh[p] : p \in Writers}
           \cup {s[p] : p \in Writers}) \cap Sessions

Truthful(ses) == ses.rt <= minted /\ ses.rexp = born[ses.rt] + RefreshLife

CopiesTruthful == \A ses \in Copies : Truthful(ses)

\* Copies are only moved about: none is made up.
Moved == UNCHANGED <<minted, born>> /\ Copies' \subseteq Copies

LEMMA CopiesMoved == CopiesTruthful /\ Moved => CopiesTruthful'
BY DEF CopiesTruthful, Truthful, Moved

LEMMA CopiesInit == Init => CopiesTruthful
BY SentinelsAssumption, ConstantsAssumption
   DEF Init, CopiesTruthful, Copies, Truthful, Sessions, Tokens

LEMMA CopiesSave ==
    ASSUME TInv, NEW p \in Writers, Save(p)
    PROVE  Moved
<1> USE SentinelsAssumption DEF TInv, TypeOK, Copies, Moved
<1>1. UNCHANGED <<minted, born, xch_result>>
  BY DEF Save, SaveOpen, SaveWrite, SaveReplace, SaveLosesFile, SaveRaises, schwab, flight
<1>2. CASE SaveOpen(p)
  BY <1>1, <1>2 DEF SaveOpen, locals
<1>3. CASE SaveWrite(p)
  BY <1>1, <1>3 DEF SaveWrite, locals
<1>4. CASE SaveReplace(p)
  BY <1>1, <1>4 DEF SaveReplace
<1>5. CASE SaveLosesFile(p)
  BY <1>1, <1>5 DEF SaveLosesFile, locals, disk
<1>6. CASE SaveRaises(p)
  BY <1>1, <1>6 DEF SaveRaises, Unlinked
<1>7. QED
  BY <1>2, <1>3, <1>4, <1>5, <1>6 DEF Save

\* Schwab's access tokens live AccessLife from their issue.
Issued(ses) == ses \in Sessions /\ ses.exp = clock + AccessLife

Adds(ses) == Copies' \subseteq Copies \cup {ses}

\* A refresh grant keeps the refresh token and its expiry.
LEMMA CopiesExchange ==
    ASSUME TInv, CopiesTruthful, NEW p \in Writers, ExchangeOk(p),
           s[p] \in Sessions
    PROVE  /\ CopiesTruthful'
           /\ Issued(RefreshedFrom(s[p])) /\ Adds(RefreshedFrom(s[p]))
<1>1. /\ s[p] \in Copies /\ RefreshedFrom(s[p]).rt = s[p].rt
      /\ RefreshedFrom(s[p]).rexp = s[p].rexp
      /\ RefreshedFrom(s[p]).exp = clock + AccessLife
  BY DEF Copies, RefreshedFrom
<1>2. UNCHANGED <<minted, born>> /\ Copies' \subseteq Copies \cup {RefreshedFrom(s[p])}
  BY DEF ExchangeOk, Copies, TInv, TypeOK, schwab, disk, flight
<1>3. RefreshedFrom(s[p]) \in Sessions
  BY RefreshedFromSession DEF TInv
<1>4. QED
  BY <1>1, <1>2, <1>3 DEF CopiesTruthful, Truthful, Issued, Adds

\* A full auth numbers its token anew: no copy of it exists yet.
LEMMA CopiesLogin ==
    ASSUME TInv, CopiesTruthful, NEW p \in {"refresh", "cli"}, FullAuth(p)
    PROVE  /\ CopiesTruthful'
           /\ \E new : Issued(new) /\ Adds(new) /\ new.rt = minted + 1
<1>1. PICK new : /\ fresh' = [fresh EXCEPT ![p] = new]
                 /\ new.rt = minted + 1 /\ new.rexp = clock + RefreshLife
                 /\ Issued(new)
  <2> DEFINE n == [rt |-> minted + 1, exp |-> clock + AccessLife,
                   rexp |-> clock + RefreshLife]
  <2>1. fresh' = [fresh EXCEPT ![p] = n]
    BY Zenon DEF FullAuth
  <2>2. n.rt = minted + 1 /\ n.rexp = clock + RefreshLife /\ n.exp = clock + AccessLife
    OBVIOUS
  <2>3. minted + 1 \in Tokens /\ clock + AccessLife \in Nat /\ clock + RefreshLife \in Nat
    BY ConstantsAssumption DEF FullAuth, TInv, TypeOK, Tokens
  <2>4. n \in Sessions
    BY <2>3 DEF Sessions
  <2>5. QED
    BY <2>1, <2>2, <2>4, Zenon DEF Issued
<1>2. Copies' \subseteq Copies \cup {new}
  BY <1>1 DEF FullAuth, Copies, TInv, TypeOK, disk, flight
<1>3. /\ minted \in Nat /\ minted' = minted + 1 /\ minted + 1 \in Tokens
      /\ \A t \in Tokens : t <= minted => born'[t] = born[t]
      /\ born'[minted + 1] = clock
  BY ConstantsAssumption DEF FullAuth, TInv, TypeOK, Tokens
<1>4. ASSUME NEW ses \in Copies  PROVE Truthful(ses)'
  <2>1. ses.rt \in Tokens /\ Truthful(ses)
    BY <1>4, SessionFields DEF Copies, CopiesTruthful
  <2>2. ses.rt \in Int
    BY <2>1 DEF Tokens
  <2>3. QED
    BY <1>3, <2>1, <2>2 DEF Truthful
<1>5. Truthful(new)'
  BY <1>1, <1>3 DEF Truthful
<1>6. QED
  BY <1>1, <1>2, <1>4, <1>5 DEF CopiesTruthful, Truthful, Adds

LEMMA CopiesExchanger ==
    ASSUME TInv, NEW p \in Exchangers, Exchanger(p), ~ExchangeOk(p)
    PROVE  Moved
<1> USE SentinelsAssumption, Processes DEF Moved
<1>1. CASE LoadNothing(p) \/ LoadRaises(p) \/ LeaveAlone(p) \/ NotYet(p)
           \/ HandOff(p) \/ Report(p) \/ (p = "access" /\ AccessTransient)
  <2>1. /\ UNCHANGED <<minted, born, session, tmp, xch_result>>
        /\ s' = [s EXCEPT ![p] = None] /\ fresh' = [fresh EXCEPT ![p] = None]
    BY <1>1 DEF LoadNothing, LoadRaises, LeaveAlone, NotYet, HandOff, Report,
                AccessTransient, ReturnFrom, Raise, schwab, disk, flight
  <2>2. QED
    BY <2>1 DEF TInv, TypeOK, Copies
<1>2. CASE Load(p)
  BY <1>2 DEF Load, TInv, TypeOK, Copies, schwab, disk, flight
<1>3. CASE WantsExchange(p) \/ Enter(p) \/ ExchangeFails(p, "invalid_grant")
           \/ ExchangeFails(p, "transient") \/ FollowerTimesOut(p)
  <2>1. UNCHANGED <<minted, born, session, tmp, xch_result, s, fresh>>
    BY <1>3 DEF WantsExchange, Enter, ExchangeFails, FollowerTimesOut, schwab, disk,
                flight, locals
  <2>2. QED
    BY <2>1 DEF Copies
<1>4. CASE Publish(p)
  BY <1>4 DEF Publish, Result, TInv, TypeOK, Copies, schwab, disk, locals
<1>5. CASE FollowerWoken(p)
  BY <1>5 DEF FollowerWoken, TInv, TypeOK, Copies, schwab, disk, flight
<1>6. CASE Save(p)
  BY <1>6, CopiesSave
<1>7. QED
  BY <1>1, <1>2, <1>3, <1>4, <1>4, <1>5, <1>6 DEF Exchanger, Answered

LEMMA CopiesRefresh ==
    ASSUME TInv, RefreshTrack, ~FullAuth("refresh")
    PROVE  Moved
<1>1. CASE Save("refresh")
  BY <1>1, CopiesSave, Processes
<1>2. CASE ~Save("refresh")
  <2>1. UNCHANGED <<minted, born, session, tmp, xch_result>>
    BY <1>2 DEF RefreshTrack, RefreshWakes, RefreshWakeClear, RecoveryStarts,
       ManualBlock, RecoveryClear, RefreshStepRaises, RefreshNothing, RefreshStep,
       FullAuthFails, BackoffEnds, Settle, schwab, disk, flight
  <2>2. /\ \E x \in {None, session, s["refresh"]} : s' = [s EXCEPT !["refresh"] = x]
        /\ \E x \in {None, fresh["refresh"]} : fresh' = [fresh EXCEPT !["refresh"] = x]
    BY <1>2 DEF TInv, TypeOK, RefreshTrack, RefreshWakes, RefreshWakeClear,
       RecoveryStarts, ManualBlock, RecoveryClear, RefreshStepRaises, RefreshNothing,
       RefreshStep, RefreshIdles, RefreshAttempts, FullAuthFails, BackoffEnds, Settle,
       locals
  <2>3. QED
    BY <2>1, <2>2, Processes, SentinelsAssumption DEF TInv, TypeOK, Copies, Moved
<1>3. QED
  BY <1>1, <1>2

LEMMA CopiesStill ==
    ASSUME TInv, Cli \/ Advance \/ (\E t \in Tokens : Revoke(t)) \/ UNCHANGED vars
    PROVE  Moved
<1>1. CASE Cli
  <2>1. /\ UNCHANGED <<minted, born, session, tmp, xch_result, fresh>>
        /\ \E x \in {None, session, s["cli"]} : s' = [s EXCEPT !["cli"] = x]
    BY <1>1 DEF TInv, TypeOK, Cli, CliStarts, CliFallsThrough, CliGivesUp, locals,
       schwab, disk, flight
  <2>2. QED
    BY <2>1, Processes, SentinelsAssumption DEF TInv, TypeOK, Copies, Moved
<1>2. CASE Advance \/ (\E t \in Tokens : Revoke(t)) \/ UNCHANGED vars
  BY <1>2 DEF Advance, Revoke, vars, Copies, Moved, schwab, disk, flight, locals
<1>3. QED
  BY <1>1, <1>2

LEMMA CopiesNext == TInv /\ CopiesTruthful /\ [Next]_vars => CopiesTruthful'
<1> SUFFICES ASSUME TInv, CopiesTruthful, [Next]_vars PROVE CopiesTruthful'
  OBVIOUS
<1>1. CASE RefreshTrack
  BY <1>1, CopiesRefresh, CopiesMoved, CopiesLogin
<1>2. CASE ExchangeOk("cli")
  BY <1>2, CopiesExchange, Processes DEF ExchangeOk, TInv, LocalsPresent, CliLocals
<1>3. ASSUME NEW p \in Exchangers, ExchangeOk(p)  PROVE CopiesTruthful'
  BY <1>3, CopiesExchange, Processes DEF ExchangeOk, TInv, LocalsPresent, ExchangerLocals, Exchanging
<1>4. QED
  BY <1>1, <1>2, <1>3, CopiesExchanger, CopiesStill, CopiesMoved, CopiesLogin, CopiesSave, Processes
     DEF Next

-----------------------------------------------------------------------------
(* What a flight brings is at least as young as what was there before.      *)

Young == \A ses \in Copies : ses.exp <= clock + AccessLife

Brings(ses, other) == other.rt = ses.rt => other.exp <= ses.exp

Leads(p) == pc[p] \in Saving \cup {"publish"} /\ out[p] = "success"

\* The leader of a flight holds the youngest session of its login until it has
\* published it.
LeaderNewest ==
    \A p \in Exchangers : Leads(p) => \A ses \in Copies : Brings(fresh[p], ses)

\* Who has been woken finds no older result, however late it looks.
WokenNewest ==
    \A p \in Exchangers :
        pc[p] = "woken" /\ xch_result.status = "success" => Brings(xch_result.fresh, s[p])

ResultNewest ==
    \A p \in Exchangers : pc[p] = "result" /\ out[p] = "success" => Brings(fresh[p], s[p])

Newest == LeaderNewest /\ WokenNewest /\ ResultNewest

\* None of it is claimed once the CLI has been started.
CliCounted == cliRuns = 0 => pc["cli"] = "idle" /\ Newest

LEMMA CopyFields ==
    ASSUME NEW ses \in Copies
    PROVE  ses \in Sessions /\ ses.rt \in Int /\ ses.exp \in Nat
BY SessionFields DEF Copies, Tokens

LEMMA NewestInit == Init => Young /\ CliCounted
<1> SUFFICES ASSUME Init PROVE Young /\ CliCounted
  OBVIOUS
<1>1. Young
  BY SentinelsAssumption, ConstantsAssumption DEF Init, Young, Copies, Sessions, Tokens
<1>2. CliCounted
  BY Processes DEF Init, CliCounted, Newest, LeaderNewest, WokenNewest, ResultNewest, Leads, Saving, Writers
<1>3. QED
  BY <1>1, <1>2

\* A step adds at most one session, and that one is issued now.
LEMMA StepAdds ==
    ASSUME TInv, CopiesTruthful, [Next]_vars
    PROVE  /\ clock \in Nat /\ clock' \in Nat /\ clock <= clock'
           /\ Moved \/ \E new : Issued(new) /\ Adds(new)
<1>1. ASSUME NEW p \in Exchangers, Exchanger(p)  PROVE UNCHANGED clock
  BY <1>1 DEF Exchanger, Answered, LoadNothing, LoadRaises, Load, LeaveAlone, NotYet, WantsExchange, Enter,
     ExchangeOk, ExchangeFails, Save, SaveOpen, SaveWrite, SaveReplace, SaveLosesFile, SaveRaises,
     Publish, FollowerWoken, FollowerTimesOut, HandOff, Report, AccessTransient
<1>2. ASSUME RefreshTrack  PROVE UNCHANGED clock
  BY <1>2 DEF RefreshTrack, RefreshWakes, RefreshWakeClear, RecoveryStarts, ManualBlock, RecoveryClear,
     RefreshStepRaises, RefreshNothing, RefreshStep, FullAuth, FullAuthFails, BackoffEnds, Settle,
     Save, SaveOpen, SaveWrite, SaveReplace, SaveLosesFile, SaveRaises
<1>3. ASSUME Cli \/ FullAuth("cli") \/ ExchangeOk("cli") \/ Save("cli")  PROVE UNCHANGED clock
  BY <1>3 DEF Cli, CliStarts, CliFallsThrough, CliGivesUp, FullAuth, ExchangeOk,
     Save, SaveOpen, SaveWrite, SaveReplace, SaveLosesFile, SaveRaises
<1>4. clock \in Nat /\ clock' \in Nat /\ clock <= clock'
  <2>1. clock \in Nat
    BY ConstantsAssumption DEF TInv, TypeOK
  <2>2. UNCHANGED clock \/ Advance
    BY <1>1, <1>2, <1>3 DEF Next, Revoke, vars
  <2>3. QED
    BY <2>1, <2>2 DEF Advance
<1>5. ASSUME NEW p \in Exchangers, ExchangeOk(p)  PROVE \E new : Issued(new) /\ Adds(new)
  BY <1>5, CopiesExchange, Processes DEF ExchangeOk, TInv, LocalsPresent, ExchangerLocals, Exchanging
<1>6. ASSUME ExchangeOk("cli")  PROVE \E new : Issued(new) /\ Adds(new)
  BY <1>6, CopiesExchange, Processes DEF ExchangeOk, TInv, LocalsPresent, CliLocals
<1>7. ASSUME Cli \/ Advance \/ (\E t \in Tokens : Revoke(t)) \/ UNCHANGED vars  PROVE Moved
  BY <1>7, CopiesStill
<1>8. QED
  BY <1>4, <1>5, <1>6, <1>7, CopiesExchanger, CopiesRefresh, CopiesLogin, CopiesSave, Processes DEF Next

LEMMA YoungNext == TInv /\ CopiesTruthful /\ Young /\ [Next]_vars => Young'
<1> SUFFICES ASSUME TInv, CopiesTruthful, Young, [Next]_vars, NEW ses \in Copies'
             PROVE  ses.exp <= clock' + AccessLife
  BY DEF Young
<1>1. clock \in Nat /\ clock' \in Nat /\ clock <= clock' /\ AccessLife \in Nat
  BY StepAdds, ConstantsAssumption
<1>2. ses.exp \in Nat /\ ses.exp <= clock + AccessLife
  <2>1. CASE ses \in Copies
    BY <2>1, CopyFields DEF Young
  <2>2. CASE ses \notin Copies
    <3>1. Issued(ses)
      BY <2>2, StepAdds DEF Moved, Adds
    <3>2. QED
      BY <1>1, <3>1, SessionFields DEF Issued
  <2>3. QED
    BY <2>1, <2>2
<1>3. QED
  BY <1>1, <1>2

\* A step that neither ends an exchange nor publishes or takes its result.
Steady ==
    /\ UNCHANGED xch_result
    /\ \A q \in Exchangers :
          /\ Leads(q)' => Leads(q) /\ fresh'[q] = fresh[q]
          /\ pc'[q] = "woken" => pc[q] = "woken" /\ s'[q] = s[q]
          /\ pc'[q] = "result" /\ out'[q] = "success"
                => pc[q] = "result" /\ out[q] = "success" /\ s'[q] = s[q] /\ fresh'[q] = fresh[q]

LEMMA NewestSteady == Newest /\ Steady /\ Moved => Newest'
BY DEF Newest, Steady, Moved, LeaderNewest, WokenNewest, ResultNewest, Brings

LEMMA SteadyExchanger ==
    ASSUME TInv, NEW p \in Exchangers, Exchanger(p), ~ExchangeOk(p), ~Publish(p), ~FollowerWoken(p)
    PROVE  Steady
<1> USE Processes DEF TInv, TypeOK, Steady, Leads, Saving, Goto
<1>1. CASE LoadNothing(p) \/ LoadRaises(p) \/ LeaveAlone(p) \/ NotYet(p)
           \/ HandOff(p) \/ Report(p) \/ (p = "access" /\ AccessTransient)
  BY <1>1 DEF LoadNothing, LoadRaises, LeaveAlone, NotYet, HandOff, Report,
              AccessTransient, ReturnFrom, Raise, flight
<1>2. CASE Load(p) \/ WantsExchange(p) \/ Enter(p)
  BY <1>2 DEF Load, WantsExchange, Enter, locals, flight
<1>3. CASE FollowerTimesOut(p) \/ ExchangeFails(p, "transient") \/ ExchangeFails(p, "invalid_grant")
  BY <1>3 DEF FollowerTimesOut, ExchangeFails, locals, flight
<1>4. CASE Save(p)
  BY <1>4 DEF Save, SaveOpen, SaveWrite, SaveReplace, SaveLosesFile, SaveRaises, AfterSave, locals, flight
<1>5. QED
  BY <1>1, <1>2, <1>3, <1>4 DEF Exchanger, Answered

\* Nor does one of the refresh track, of the clock or of Schwab.
LEMMA SteadyOthers ==
    ASSUME TInv, RefreshTrack \/ Advance \/ (\E t \in Tokens : Revoke(t)) \/ UNCHANGED vars
    PROVE  Steady
<1>1. ASSUME UNCHANGED xch_result,
             \A q \in Exchangers : pc'[q] = pc[q] /\ out'[q] = out[q] /\ s'[q] = s[q] /\ fresh'[q] = fresh[q]
      PROVE  Steady
  BY <1>1 DEF Steady, Leads
<1>2. ASSUME RefreshTrack
      PROVE  /\ UNCHANGED <<xch_result, out>>
             /\ \E l : pc' = [pc EXCEPT !["refresh"] = l]
             /\ \E x : s' = [s EXCEPT !["refresh"] = x]
             /\ \E x : fresh' = [fresh EXCEPT !["refresh"] = x]
  <2>1. CASE Save("refresh")
    <3>1. UNCHANGED <<xch_result, out>> /\ s' = s
      BY <2>1, Processes DEF Save, SaveOpen, SaveWrite, SaveReplace, SaveLosesFile, SaveRaises, locals, flight
    <3>2. \E l : pc' = [pc EXCEPT !["refresh"] = l]
      BY <2>1, Zenon DEF Save, SaveOpen, SaveWrite, SaveReplace, SaveLosesFile, SaveRaises, Goto
    <3>3. fresh' = fresh \/ fresh' = [fresh EXCEPT !["refresh"] = None]
      BY <2>1, Processes DEF Save, SaveOpen, SaveWrite, SaveReplace, SaveLosesFile, SaveRaises, locals
    <3>4. s = [s EXCEPT !["refresh"] = s["refresh"]] /\ fresh = [fresh EXCEPT !["refresh"] = fresh["refresh"]]
      BY DEF TInv, TypeOK
    <3>5. QED
      BY <3>1, <3>2, <3>3, <3>4, Zenon
  <2>2. CASE ~Save("refresh")
    <3>1. UNCHANGED <<xch_result, out>>
      BY <1>2, <2>2 DEF RefreshTrack, RefreshWakes, RefreshWakeClear, RecoveryStarts, ManualBlock,
         RecoveryClear, RefreshStepRaises, RefreshNothing, RefreshStep, FullAuth, FullAuthFails,
         BackoffEnds, Settle, flight, locals
    <3>2. \E l : pc' = [pc EXCEPT !["refresh"] = l]
      BY <1>2, <2>2, Zenon DEF RefreshTrack, RefreshWakes, RefreshWakeClear, RecoveryStarts,
         ManualBlock, RecoveryClear, RefreshStepRaises, RefreshNothing, RefreshStep,
         RefreshIdles, RefreshAttempts, FullAuth, FullAuthFails, BackoffEnds, Settle, Goto
    <3>3. CASE FullAuth("refresh")
      <4>1. s' = [s EXCEPT !["refresh"] = s["refresh"]]
        BY <3>3 DEF FullAuth, TInv, TypeOK
      <4>2. \E x : fresh' = [fresh EXCEPT !["refresh"] = x]
        BY <3>3, Zenon DEF FullAuth
      <4>3. QED
        BY <3>1, <3>2, <4>1, <4>2, Zenon
    <3>4. CASE ~FullAuth("refresh")
      <4>1. /\ \E x \in {None, s["refresh"], session} : s' = [s EXCEPT !["refresh"] = x]
            /\ \E x \in {None, fresh["refresh"]} : fresh' = [fresh EXCEPT !["refresh"] = x]
        BY <1>2, <2>2, <3>4 DEF TInv, TypeOK, RefreshTrack, RefreshWakes, RefreshWakeClear,
           RecoveryStarts, ManualBlock, RecoveryClear, RefreshStepRaises, RefreshNothing,
           RefreshStep, RefreshIdles, RefreshAttempts, FullAuthFails, BackoffEnds, Settle, locals
      <4>2. QED
        BY <3>1, <3>2, <4>1, Zenon
    <3>5. QED
      BY <3>3, <3>4
  <2>3. QED
    BY <2>1, <2>2
<1>3. CASE RefreshTrack
  BY <1>1, <1>2, <1>3, Processes DEF TInv, TypeOK
<1>4. CASE Advance \/ (\E t \in Tokens : Revoke(t)) \/ UNCHANGED vars
  BY <1>1, <1>4 DEF Advance, Revoke, vars, flight, locals
<1>5. QED
  BY <1>3, <1>4

\* A login of the refresh track has a number that no flight is about.
LEMMA NewestLogin ==
    ASSUME TInv, CopiesTruthful, Newest, FullAuth("refresh")
    PROVE  Newest'
<1>1. Steady
  BY SteadyOthers DEF RefreshTrack
<1>2. PICK new : Adds(new) /\ new.rt = minted + 1
  BY CopiesLogin
<1>3. ASSUME NEW p \in Exchangers, Leads(p)', NEW ses \in Copies'  PROVE Brings(fresh'[p], ses)
  <2>1. Leads(p) /\ fresh'[p] = fresh[p]
    BY <1>1, <1>3 DEF Steady
  <2>2. fresh[p] \in Copies
    BY <2>1, Processes DEF Leads, TInv, LocalsPresent, ExchangerLocals, Copies
  <2>3. fresh[p].rt \in Int /\ fresh[p].rt <= minted /\ minted \in Int
    BY <2>2, CopyFields, ConstantsAssumption DEF CopiesTruthful, Truthful, TInv, TypeOK
  <2>4. CASE ses \in Copies
    BY <2>1, <2>4 DEF Newest, LeaderNewest
  <2>5. CASE ses = new
    BY <1>2, <2>1, <2>3, <2>5 DEF Brings
  <2>6. QED
    BY <1>2, <1>3, <2>4, <2>5 DEF Adds
<1>4. WokenNewest' /\ ResultNewest'
  BY <1>1 DEF Newest, Steady, WokenNewest, ResultNewest, Brings
<1>5. QED
  BY <1>3, <1>4 DEF Newest, LeaderNewest

\* An exchange that succeeds brings the youngest session there is, of any login.
LEMMA NewestExchange ==
    ASSUME TInv, SingleFlight, CopiesTruthful, Young, Newest, NEW p \in Exchangers, ExchangeOk(p)
    PROVE  Newest'
<1> DEFINE new == RefreshedFrom(s[p])
<1>1. s[p] \in Sessions
  BY DEF ExchangeOk, TInv, LocalsPresent, ExchangerLocals, Exchanging
<1>2. Issued(new) /\ Adds(new)
  BY <1>1, CopiesExchange, Processes
<1> HIDE DEF new
<1>3. /\ fresh' = [fresh EXCEPT ![p] = new] /\ fresh'[p] = new
      /\ pc' = [pc EXCEPT ![p] = "open"] /\ UNCHANGED <<s, xch_result>>
      /\ \A q \in Exchangers \ {p} : pc'[q] = pc[q] /\ out'[q] = out[q] /\ fresh'[q] = fresh[q]
      /\ pc'[p] = "open" /\ pc[p] = "exchange"
  BY Processes DEF ExchangeOk, TInv, TypeOK, Goto, flight, new
<1>4. ASSUME NEW q \in Exchangers, Leads(q)', q # p  PROVE FALSE
  BY <1>3, <1>4 DEF Leads, SingleFlight, InFlight, Saving
<1>5. ASSUME NEW ses \in Copies'  PROVE Brings(new, ses)
  <2>1. ses \in Copies \/ ses = new
    BY <1>2, <1>5 DEF Adds
  <2>2. CASE ses \in Copies
    BY <1>2, <2>2 DEF Young, Issued, Brings
  <2>3. CASE ses = new
    <3>1. new.exp \in Nat
      BY <1>2, SessionFields DEF Issued
    <3>2. QED
      BY <2>3, <3>1 DEF Brings
  <2>4. QED
    BY <2>1, <2>2, <2>3
<1>6. LeaderNewest'
  BY <1>3, <1>4, <1>5 DEF LeaderNewest
<1>7. WokenNewest' /\ ResultNewest'
  BY <1>3 DEF Newest, WokenNewest, ResultNewest, Brings
<1>8. QED
  BY <1>6, <1>7 DEF Newest

\* What the leader publishes is no older than what it or a waiting follower started from.
LEMMA NewestPublish ==
    ASSUME TInv, SingleFlight, Newest, NEW p \in Exchangers, Publish(p)
    PROVE  Newest'
<1>1. /\ UNCHANGED <<s, fresh, out>> /\ xch_result' = Result(p) /\ pc[p] = "publish"
      /\ \A q \in Exchangers \ {p} : pc'[q] = IF pc[q] = "waiting" THEN "woken" ELSE pc[q]
      /\ pc'[p] \in {"result", "dead", "idle"} /\ (pc'[p] = "result" => out[p] # "raised")
  BY Processes DEF Publish, TInv, TypeOK, locals
<1>2. ASSUME NEW q \in Exchangers, Leads(q)'  PROVE FALSE
  BY <1>1, <1>2 DEF Leads, SingleFlight, InFlight, Saving
<1>3. ASSUME out[p] = "success", NEW q \in Exchangers, s[q] \in Sessions  PROVE Brings(fresh[p], s[q])
  BY <1>1, <1>3, Processes DEF Newest, LeaderNewest, Leads, Copies
<1>4. ASSUME NEW q \in Exchangers, pc'[q] = "woken", xch_result'.status = "success"
      PROVE  Brings(xch_result'.fresh, s[q])
  <2>1. s[q] \in Sessions
    BY <1>1, <1>4 DEF TInv, LocalsPresent, ExchangerLocals, Exchanging
  <2>2. out[p] = "success" /\ xch_result'.fresh = fresh[p]
    BY <1>1, <1>4 DEF Result
  <2>3. QED
    BY <1>3, <2>1, <2>2
<1>5. ASSUME NEW q \in Exchangers, pc'[q] = "result", out[q] = "success"
      PROVE  Brings(fresh[q], s[q])
  <2>1. CASE q = p
    BY <1>1, <1>3, <1>5, <2>1 DEF TInv, LocalsPresent, ExchangerLocals
  <2>2. CASE q # p
    BY <1>1, <1>5, <2>2 DEF Newest, ResultNewest
  <2>3. QED
    BY <2>1, <2>2
<1>6. QED
  BY <1>1, <1>2, <1>4, <1>5 DEF Newest, LeaderNewest, WokenNewest, ResultNewest, Brings

LEMMA NewestWoken ==
    ASSUME TInv, Newest, NEW p \in Exchangers, FollowerWoken(p)
    PROVE  Newest'
<1>1. /\ pc' = [pc EXCEPT ![p] = "result"] /\ pc[p] = "woken"
      /\ out' = [out EXCEPT ![p] = xch_result.status] /\ fresh' = [fresh EXCEPT ![p] = xch_result.fresh]
      /\ UNCHANGED <<s, xch_result>> /\ pc'[p] = "result"
      /\ out'[p] = xch_result.status /\ fresh'[p] = xch_result.fresh
      /\ \A q \in Exchangers \ {p} : pc'[q] = pc[q] /\ out'[q] = out[q] /\ fresh'[q] = fresh[q]
  BY Processes DEF FollowerWoken, TInv, TypeOK, Goto, flight
<1>2. Moved
  BY CopiesExchanger DEF Exchanger, FollowerWoken, ExchangeOk
<1>3. \A q \in Exchangers : Leads(q)' => q # p /\ Leads(q)
  BY <1>1 DEF Leads, Saving
<1>4. LeaderNewest'
  BY <1>1, <1>2, <1>3 DEF Newest, LeaderNewest, Moved
<1>5. WokenNewest'
  BY <1>1 DEF Newest, WokenNewest
<1>6. ResultNewest'
  BY <1>1 DEF Newest, WokenNewest, ResultNewest
<1>7. QED
  BY <1>4, <1>5, <1>6 DEF Newest

LEMMA CliStays ==
    ASSUME TInv, pc["cli"] = "idle",
           \/ \E p \in Exchangers : Exchanger(p)
           \/ RefreshTrack \/ Advance \/ (\E t \in Tokens : Revoke(t)) \/ UNCHANGED vars
    PROVE  pc'["cli"] = "idle"
<1>1. ASSUME NEW p \in Writers \ {"cli"}, NEW l, pc' = [pc EXCEPT ![p] = l]  PROVE pc'["cli"] = "idle"
  BY <1>1, Processes DEF TInv, TypeOK
<1>2. ASSUME NEW p \in Exchangers, Exchanger(p)  PROVE pc'["cli"] = "idle"
  <2>1. CASE Publish(p)
    BY <2>1, Processes DEF Publish
  <2>2. CASE ~Publish(p)
    <3>1. \E l : pc' = [pc EXCEPT ![p] = l]
      BY <1>2, <2>2, Zenon DEF Exchanger, Answered, LoadNothing, LoadRaises, Load, LeaveAlone, NotYet,
         WantsExchange, Enter, ExchangeOk, ExchangeFails, Save, SaveOpen, SaveWrite, SaveReplace,
         SaveLosesFile, SaveRaises, FollowerWoken, FollowerTimesOut, HandOff, Report, AccessTransient,
         ReturnFrom, Raise, Goto
    <3>2. QED
      BY <1>1, <3>1, Processes
  <2>3. QED
    BY <2>1, <2>2
<1>3. CASE RefreshTrack
  <2>1. \E l : pc' = [pc EXCEPT !["refresh"] = l]
    BY <1>3, Zenon DEF RefreshTrack, RefreshWakes, RefreshWakeClear, RecoveryStarts,
       ManualBlock, RecoveryClear, RefreshStepRaises, RefreshNothing, RefreshStep,
       RefreshIdles, RefreshAttempts, FullAuth, FullAuthFails, BackoffEnds, Settle,
       Save, SaveOpen, SaveWrite, SaveReplace, SaveLosesFile, SaveRaises, Goto
  <2>2. QED
    BY <1>1, <2>1, Processes
<1>4. CASE Advance \/ (\E t \in Tokens : Revoke(t)) \/ UNCHANGED vars
  BY <1>4 DEF Advance, Revoke, vars
<1>5. QED
  BY <1>2, <1>3, <1>4

\* Until it is started the CLI takes no step, and once it was that is remembered.
LEMMA CliSteps ==
    ASSUME TInv, [Next]_vars, cliRuns' = 0, cliRuns = 0 => pc["cli"] = "idle"
    PROVE  /\ cliRuns = 0 /\ pc'["cli"] = "idle"
           /\ ~Cli /\ ~FullAuth("cli") /\ ~ExchangeOk("cli") /\ ~Save("cli")
<1>1. cliRuns \in Nat
  BY ConstantsAssumption DEF TInv, TypeOK
<1>2. UNCHANGED cliRuns \/ CliStarts
  BY DEF Next, Exchanger, Answered, LoadNothing, LoadRaises, Load, LeaveAlone, NotYet, WantsExchange, Enter,
     ExchangeOk, ExchangeFails, Save, SaveOpen, SaveWrite, SaveReplace, SaveLosesFile, SaveRaises,
     Publish, FollowerWoken, FollowerTimesOut, HandOff, Report, AccessTransient,
     RefreshTrack, RefreshWakes, RefreshWakeClear, RecoveryStarts, ManualBlock, RecoveryClear,
     RefreshStepRaises, RefreshNothing, RefreshStep, FullAuth, FullAuthFails, BackoffEnds, Settle,
     Cli, CliFallsThrough, CliGivesUp, Advance, Revoke, vars
<1>3. cliRuns = 0 /\ ~CliStarts
  BY <1>1, <1>2 DEF CliStarts
<1>4. pc["cli"] = "idle"
  BY <1>3
<1>5. ~Cli /\ ~FullAuth("cli") /\ ~ExchangeOk("cli") /\ ~Save("cli")
  BY <1>3, <1>4 DEF Cli, CliFallsThrough, CliGivesUp, FullAuth, ExchangeOk,
     Save, SaveOpen, SaveWrite, SaveReplace, SaveLosesFile, SaveRaises
<1>6. QED
  BY <1>3, <1>4, <1>5, CliStays DEF Next

LEMMA NewestNext ==
    ASSUME TInv, SingleFlight, CopiesTruthful, Young, CliCounted, [Next]_vars
    PROVE  CliCounted'
<1> SUFFICES ASSUME cliRuns' = 0  PROVE pc'["cli"] = "idle" /\ Newest'
  BY DEF CliCounted
<1>1. /\ cliRuns = 0 /\ pc'["cli"] = "idle"
      /\ ~Cli /\ ~FullAuth("cli") /\ ~ExchangeOk("cli") /\ ~Save("cli")
  BY CliSteps DEF CliCounted
<1>2. Newest
  BY <1>1 DEF CliCounted
<1>3. ASSUME NEW p \in Exchangers, Exchanger(p)  PROVE Newest'
  BY <1>2, <1>3, NewestExchange, NewestPublish, NewestWoken, SteadyExchanger, CopiesExchanger, NewestSteady
<1>4. ASSUME RefreshTrack  PROVE Newest'
  <2>1. Steady
    BY <1>4, SteadyOthers
  <2>2. FullAuth("refresh") \/ Moved
    BY <1>4, CopiesRefresh
  <2>3. QED
    BY <1>2, <2>1, <2>2, NewestLogin, NewestSteady
<1>5. ASSUME Advance \/ (\E t \in Tokens : Revoke(t)) \/ UNCHANGED vars  PROVE Newest'
  <2>1. Steady /\ Moved
    BY <1>5, SteadyOthers, CopiesStill
  <2>2. QED
    BY <1>2, <2>1, NewestSteady
<1>6. QED
  BY <1>1, <1>3, <1>4, <1>5 DEF Next

-----------------------------------------------------------------------------
(* The results.                                                             *)

IInv == TInv /\ SingleFlight /\ CopiesTruthful /\ Young /\ CliCounted

LEMMA IInvInit == Init => IInv
BY TInvInit, CopiesInit, NewestInit, Processes DEF IInv, Init, SingleFlight, InFlight

LEMMA Invariance == Spec => []IInv
<1>1. IInv /\ [Next]_vars => IInv'
  BY TInvNext, FlightNext, CopiesNext, YoungNext, NewestNext DEF IInv
<1>2. QED
  BY <1>1, IInvInit, PTL DEF Spec

\* Every variable keeps its type, whatever the callers, lifetimes and bounds.
THEOREM TypeCorrect == Spec => []TypeOK
BY Invariance, PTL DEF IInv, TInv

\* _xch_inflight is the one round trip under way, however many threads ask for one
\* and however their saves fail.
THEOREM FlightsAreSingle == Spec => []SingleFlight
BY Invariance, PTL DEF IInv

\* Whatever exchanges, logins and interleaved saves do to session.json, a session
\* that can be read there tells when its refresh token really expires.
THEOREM ExpiryIsTruthful == Spec => []ExpiryTruthful
<1>1. IInv => ExpiryTruthful
  BY DEF IInv, CopiesTruthful, Copies, Truthful, ExpiryTruthful
<1>2. QED
  BY <1>1, Invariance, PTL

\* A forced exchange, led or followed, hands out no older access token of the same login than
\* its caller started from, until the CLI is run (_exchange_single_flight).
THEOREM ForcedIsNotOlder == Spec => []ForcedNotOlder
<1>1. IInv => ForcedNotOlder
  <2> SUFFICES ASSUME IInv, cliRuns = 0, NEW p \in Exchangers, pc[p] = "result", out[p] = "success",
                      fresh[p].rt = s[p].rt
               PROVE  fresh[p].exp >= s[p].exp
    BY DEF ForcedNotOlder
  <2>1. s[p].exp <= fresh[p].exp
    BY DEF IInv, CliCounted, Newest, ResultNewest, Brings
  <2>2. s[p] \in Sessions /\ fresh[p] \in Sessions
    BY DEF IInv, TInv, LocalsPresent, ExchangerLocals, Exchanging
  <2>3. QED
    BY <2>1, <2>2, SessionFields
<1>2. QED
  BY <1>1, Invariance, PTL
=============================================================================

--------------------------- MODULE VolatilityUpdate ---------------------------
(***************************************************************************)
(* `schwab dataset update --group volatility` (dataset/update.py) and      *)
(* `schwab dataset accounts snapshot`, processes that share one SQLite     *)
(* file in WAL mode (storage/vol_history.py).  Readers see the committed   *)
(* database `db`; the one writer holds `lock` and sees its own transaction *)
(* `work`.  A volatility run opens its transaction with the first identity *)
(* row and commits after every Batch samples, so the lock is held across   *)
(* the chain fetches in between; a writer that waits while Patience of     *)
(* them go by gets "database is locked".                                   *)
(*                                                                         *)
(* A day is a day in New York.  What the market data say is left out: the  *)
(* samples of a run are counted, and apart from that the full ones, which  *)
(* have an atm_iv_30d; the partial snapshots of `schwab vol` are the       *)
(* constant Queried, a company stands for the CUSIPs of one issuer, and    *)
(* the candles a run caches on the way are not kept.  Subscriptions do not *)
(* change: members of an index count as subscribed.                        *)
(***************************************************************************)
EXTENDS Naturals, FiniteSets, FiniteSetsExt

CONSTANTS
    None,
    NumSymbols,     \* the symbols are 1 .. NumSymbols, visited in this order
    Equity,         \* the symbols subscribed by hand; the others are followed while held
    Companies,      \* the issuers a ticker may belong to
    Turnover,       \* tickers that may change hands
    Sparse,         \* tickers whose chain may be too thin for a 30-day volatility
    Queried,        \* tickers `schwab vol` is asked about every day: each has a partial snapshot
    Runners,        \* process slots for volatility runs
    Batch,          \* _COMMIT_BATCH
    Patience,       \* chain fetches within the busy timeout
    Holidays,       \* the days that are no trading days
    Mondays,        \* the days a WATCH symbol is sampled on
    WatchAfter, FrozenAfter,    \* days since the last close
    MaxDay, MaxFaults       \* bounds of the model; what may fail draws on MaxFaults

ASSUME UpdateAssumption ==
    /\ NumSymbols \in Nat \ {0} /\ Equity \subseteq 1 .. NumSymbols
    /\ Turnover \subseteq 1 .. NumSymbols /\ Queried \subseteq 1 .. NumSymbols
    /\ Sparse \subseteq 1 .. NumSymbols /\ Holidays \subseteq 1 .. MaxDay
    /\ Batch \in Nat \ {0} /\ Patience \in Nat /\ MaxDay \in Nat \ {0}
    /\ Mondays \subseteq 1 .. MaxDay /\ WatchAfter \in Nat /\ FrozenAfter \in Nat
    /\ MaxFaults \in Nat
    /\ Companies # {} /\ None \notin Companies
    /\ None \notin Runners /\ "accounts" \notin Runners

VARIABLES
    day,        \* today in New York
    session,    \* whether Schwab accepts the session and its refresh token
    company,    \* the company that trades under each symbol
    db,         \* the committed database
    work,       \* the open write transaction, of the process in lock
    lock,       \* the process with an open write transaction
    run,        \* the volatility run in each slot
    acct,       \* the accounts snapshot process
    waited,     \* chain fetches each process has waited through for the lock
    overlapped, \* history: the days on which two volatility runs were active at once
    blind,      \* history: tickers of Turnover a run passed the identity guard for without an identity
    faults

worldVars == <<day, session, company>>
dbVars == <<db, work, lock>>
updateVars == <<worldVars, dbVars, run, acct, waited, overlapped, blind, faults>>

Symbols == 1 .. NumSymbols
Days == 1 .. MaxDay
Procs == Runners \cup {"accounts"}

IdleRun == [pc |-> "idle", today |-> 0, todo |-> {}, recorded |-> {}, quotes |-> FALSE,
            got |-> FALSE, errors |-> {}, since |-> 0, rc |-> None]
Done(rc) == [IdleRun EXCEPT !.pc = "done", !.rc = rc]
IdleAcct == [pc |-> "idle", rc |-> None]

\* n of the faults the model allows happen.
Fault(n) == faults' = faults + n /\ faults' <= MaxFaults

Active(p) == run[p].pc \notin {"idle", "done"}

-----------------------------------------------------------------------------
(* The database and its lock. *)

EmptyDb ==
    [rows |-> [s \in Symbols |-> [d \in Days |-> 0]],   \* samples of volatility runs
     full |-> [s \in Symbols |-> [d \in Days |-> 0]],   \* those with atm_iv_30d present
     firms |-> [s \in Symbols |-> {}],                  \* whose snapshots they are
     ident |-> [s \in Symbols |-> None],                \* underlying_identity.cusip
     quarantined |-> {},
     open |-> {},                                       \* open position rows
     closed |-> [s \in Symbols |-> 0],                  \* the day a position row was closed
     tier |-> [s \in Symbols |-> "GRACE"],
     nav |-> {}]                                        \* days of account_nav_daily

Free(p) == lock \in {None, p}

View(p) == IF lock = p THEN work ELSE db

\* p writes and leaves its transaction open.
Hold(p, d) == lock' = p /\ work' = d /\ UNCHANGED db

\* p writes and commits.
Commit(p, d) == db' = d /\ lock' = None /\ work' = None

Waiting(p) ==
    /\ ~Free(p)
    /\ IF p = "accounts" THEN acct.pc = "write"
       ELSE \/ run[p].pc = "prepare" /\ run[p].today \notin Holidays
            \/ run[p].pc = "guard" /\ run[p].todo # {}
            \/ run[p].pc = "record"

\* While p has the lock over an API call, everyone who wants it waits.
TimePasses(p) ==
    waited' = [q \in Procs |->
        IF lock = p /\ Waiting(q) /\ waited[q] < Patience THEN waited[q] + 1 ELSE waited[q]]

GotThrough(p) == waited' = [waited EXCEPT ![p] = 0]

-----------------------------------------------------------------------------
(* Pieces of run_volatility_update. *)

\* _symbols_with_daily_snapshot_on_ny_day: a partial snapshot does not count.
\* Bug variant: any observed snapshot of the day does.
Recorded_Partial(d, today) == Queried \cup {s \in Symbols : d.full[s][today] > 0}
Recorded(d, today) == {s \in Symbols : d.full[s][today] > 0}

\* sync_account_positions: rows open for what the account holds and close for the rest.
Reconciled(d, holdings, today) ==
    [d EXCEPT !.open = holdings,
              !.closed = [s \in Symbols |-> IF s \in d.open \ holdings THEN today ELSE @[s]]]

\* classify_identity: without a stored or a current identity there is no reuse to see.
\* Bug variant: every changed identity is taken for a corporate action.
Verdict_Lenient(stored, seen) == IF stored = None THEN "new" ELSE "ok"
Verdict(stored, seen) ==
    CASE stored = None -> "new"
      [] stored # None /\ seen \in {None, stored} -> "ok"
      [] OTHER -> "reuse"

\* check_and_record_identity: a reuse is flagged and keeps the old identity, and every
\* other verdict records the current one (a missing one too) and clears the flag.
Checked(d, s, seen) ==
    IF Verdict(d.ident[s], seen) = "reuse"
    THEN [d EXCEPT !.quarantined = @ \cup {s}]
    ELSE [d EXCEPT !.quarantined = @ \ {s}, !.ident[s] = seen]

Sources(d, s) == {src \in {"equity", "position"} :
                    IF src = "equity" THEN s \in Equity ELSE s \in d.open}

\* resolve_tier and transition_position_clock.  A close is a date only once no row is open.
Resolved(d, s, today) ==
    LET sources == Sources(d, s)
        age == today - d.closed[s]
    IN  CASE "equity" \in sources \/ ("position" \in sources /\ s \in d.open) -> "ACTIVE"
          [] sources = {} \/ d.closed[s] = 0 -> d.tier[s]
          [] OTHER -> IF age < WatchAfter THEN "ACTIVE" ELSE IF age < FrozenAfter THEN "WATCH" ELSE "FROZEN"

\* The volatility branch passes a symbol over.
Skips(r, d, s) ==
    \/ d.tier[s] = "FROZEN"
    \/ d.tier[s] = "WATCH" /\ r.today \notin Mondays
    \/ s \in r.recorded

\* record_extended_snapshot and the tier evaluation after it.  A chain with an ATM contract
\* and nothing to interpolate a 30-day volatility from makes a sample that is not whole.
Sampled(d, s, today, whole) ==
    LET d2 == [d EXCEPT !.rows[s][today] = @ + 1,
                        !.full[s][today] = IF whole THEN @ + 1 ELSE @,
                        !.firms[s] = @ \cup {company[s]}]
    IN  [d2 EXCEPT !.tier[s] = Resolved(d2, s, today)]

\* The exit code of `dataset update`: only a run that got nothing through fails.
ExitCode(r) ==
    CASE r.errors = {} \/ r.got -> "ok"
      [] r.errors = {"auth"} /\ ~r.got -> "auth"
      [] OTHER -> "error"

\* Every Batch samples are committed.
\* Bug variant: one sample too late.
BatchFull_Late(r) == r.since + 1 > Batch
BatchFull(r) == r.since + 1 >= Batch

-----------------------------------------------------------------------------
(* A volatility run. *)

Init ==
    /\ day = 1 /\ session = "alive"
    /\ company \in {[s \in Symbols |-> c] : c \in {CHOOSE c \in Companies : TRUE}}
    /\ db = EmptyDb /\ work = None /\ lock = None
    /\ run = [p \in Runners |-> IdleRun] /\ acct = IdleAcct
    /\ waited = [p \in Procs |-> 0]
    /\ overlapped = {} /\ blind = {} /\ faults = 0

\* The process starts, or its wait for the close of the market ends.
Begin(p) ==
    /\ run' = [run EXCEPT ![p] = [IdleRun EXCEPT !.pc = "prepare", !.today = day]]
    /\ overlapped' = overlapped \cup
          UNION {{day, run[q].today} : q \in {q \in Runners \ {p} : Active(q)}}

\* The trading-day gate: an empty summary, without errors.
NotTradingDay(p) ==
    /\ run[p].pc = "prepare" /\ run[p].today \in Holidays
    /\ run' = [run EXCEPT ![p] = Done(ExitCode(run[p]))]
    /\ UNCHANGED <<worldVars, dbVars, acct, waited, overlapped, blind, faults>>

\* The positions are reconciled and committed, the working set and what today already has
\* are read, and the identities are fetched.  A failed account fetch closes nothing.
Prepare(p) ==
    /\ run[p].pc = "prepare" /\ run[p].today \notin Holidays
    /\ \E holdings \in {None} \cup SUBSET (Symbols \ Equity), quotesOk \in BOOLEAN :
        LET d == IF holdings = None THEN db ELSE Reconciled(db, holdings, run[p].today)
        IN  /\ session = "dead" => holdings = None /\ ~quotesOk
            /\ Fault(IF session = "dead" THEN 0
                     ELSE (IF holdings = None THEN 1 ELSE 0) + (IF quotesOk THEN 0 ELSE 1))
            /\ IF d # db THEN Free(p) /\ Commit(p, d) ELSE UNCHANGED dbVars
            /\ run' = [run EXCEPT ![p].pc = "guard",
                                  ![p].todo = Equity \cup d.open,
                                  ![p].recorded = Recorded(d, run[p].today),
                                  ![p].quotes = quotesOk]
    /\ GotThrough(p)
    /\ UNCHANGED <<worldVars, acct, overlapped, blind>>

\* The identity guard of the next symbol, and whether it is to be sampled.
Guard(p) ==
    LET r == run[p]
        s == Min(r.todo)
        seen == IF r.quotes THEN company[s] ELSE None
    IN  /\ r.pc = "guard" /\ r.todo # {} /\ Free(p)
        /\ Hold(p, Checked(View(p), s, seen))
        /\ blind' = IF seen = None THEN blind \cup ({s} \cap Turnover) ELSE blind
        /\ run' = [run EXCEPT ![p] =
              IF Verdict(View(p).ident[s], seen) = "reuse"
              THEN [r EXCEPT !.todo = @ \ {s}, !.errors = @ \cup {"other"}]
              ELSE IF Skips(r, View(p), s)
              THEN [r EXCEPT !.todo = @ \ {s}, !.got = TRUE]
              ELSE [r EXCEPT !.pc = "fetch"]]
        /\ GotThrough(p)
        /\ UNCHANGED <<worldVars, acct, overlapped, faults>>

\* The snapshot, whole or not, and the tier are written, and the batch committed when it is
\* full.
Record(p) ==
    LET r == run[p]
        s == Min(r.todo)
    IN  /\ \E whole \in IF s \in Sparse THEN BOOLEAN ELSE {TRUE} :
              LET d == Sampled(View(p), s, r.today, whole)
              IN  IF BatchFull(r) THEN Commit(p, d) ELSE Hold(p, d)
        /\ run' = [run EXCEPT ![p] = [r EXCEPT !.pc = "guard", !.todo = @ \ {s}, !.got = TRUE,
                                               !.since = IF BatchFull(r) THEN 0 ELSE @ + 1]]

\* The chain arrives and is recorded, or the symbol is given up with an error.
Fetch(p) ==
    /\ run[p].pc = "fetch"
    /\ \/ /\ session = "alive"
          /\ IF Free(p) THEN Record(p)
             ELSE run' = [run EXCEPT ![p].pc = "record"] /\ UNCHANGED dbVars
          /\ UNCHANGED faults
       \/ /\ run' = [run EXCEPT ![p].pc = "guard", ![p].todo = @ \ {Min(@)},
                                ![p].errors = @ \cup {IF session = "dead" THEN "auth" ELSE "other"}]
          /\ Fault(IF session = "dead" THEN 0 ELSE 1)
          /\ UNCHANGED dbVars
    /\ TimePasses(p)
    /\ UNCHANGED <<worldVars, acct, overlapped, blind>>

\* The chain is there, and so is the lock at last.
RecordLate(p) ==
    /\ run[p].pc = "record" /\ Free(p)
    /\ Record(p)
    /\ GotThrough(p)
    /\ UNCHANGED <<worldVars, acct, overlapped, blind, faults>>

\* The last commit, on the way out of connect().
Finish(p) ==
    /\ run[p].pc = "guard" /\ run[p].todo = {}
    /\ IF lock = p THEN Commit(p, work) ELSE UNCHANGED dbVars
    /\ run' = [run EXCEPT ![p] = Done(ExitCode(run[p]))]
    /\ UNCHANGED <<worldVars, acct, waited, overlapped, blind, faults>>

\* "database is locked": caught in the identity guard, not elsewhere.
Starve(p) ==
    LET r == run[p]
        s == Min(r.todo)
    IN  /\ Waiting(p) /\ waited[p] >= Patience
        /\ IF r.pc # "guard"
           THEN /\ run' = [run EXCEPT ![p] = Done("error")]
                /\ UNCHANGED blind
           ELSE /\ blind' = blind \cup ({s} \cap Turnover)
                /\ run' = [run EXCEPT ![p] =
                     IF Skips(r, db, s)
                     THEN [r EXCEPT !.todo = @ \ {s}, !.errors = @ \cup {"other"}, !.got = TRUE]
                     ELSE [r EXCEPT !.pc = "fetch", !.errors = @ \cup {"other"}]]
        /\ GotThrough(p)
        /\ UNCHANGED <<worldVars, dbVars, acct, overlapped, faults>>

\* The process is gone; its open transaction is rolled back.
RolledBack(p) == IF lock = p THEN lock' = None /\ work' = None /\ UNCHANGED db ELSE UNCHANGED dbVars

Killed(p) ==
    /\ run' = [run EXCEPT ![p] = Done("killed")]
    /\ RolledBack(p)

RunStep(p) == NotTradingDay(p) \/ Prepare(p) \/ Guard(p) \/ Fetch(p) \/ RecordLate(p) \/ Finish(p) \/ Starve(p)

-----------------------------------------------------------------------------
(* The accounts snapshot: one request, one write per account in one transaction. *)

StoreNav ==
    /\ Commit("accounts", [db EXCEPT !.nav = @ \cup {day}])
    /\ acct' = [pc |-> "done", rc |-> "ok"]

FetchAccounts ==
    /\ acct.pc = "fetch"
    /\ \/ /\ session = "alive"
          /\ IF Free("accounts") THEN StoreNav
             ELSE acct' = [acct EXCEPT !.pc = "write"] /\ UNCHANGED dbVars
          /\ UNCHANGED faults
       \/ /\ acct' = [pc |-> "done", rc |-> IF session = "dead" THEN "auth" ELSE "error"]
          /\ Fault(IF session = "dead" THEN 0 ELSE 1)
          /\ UNCHANGED dbVars
    /\ UNCHANGED <<worldVars, run, waited, overlapped, blind>>

WriteNav ==
    /\ acct.pc = "write" /\ Free("accounts")
    /\ StoreNav
    /\ GotThrough("accounts")
    /\ UNCHANGED <<worldVars, run, overlapped, blind, faults>>

StarveAccounts ==
    /\ Waiting("accounts") /\ waited["accounts"] >= Patience
    /\ acct' = [pc |-> "done", rc |-> "error"]
    /\ GotThrough("accounts")
    /\ UNCHANGED <<worldVars, dbVars, run, overlapped, blind, faults>>

AcctStep == FetchAccounts \/ WriteNav \/ StarveAccounts

-----------------------------------------------------------------------------
(* The world. *)

\* Overnight a delisted ticker may go to another company.
NextDay ==
    /\ day < MaxDay /\ \A p \in Runners : ~Active(p)
    /\ day' = day + 1
    /\ company' \in {company} \cup {[company EXCEPT ![s] = c] : s \in Turnover, c \in Companies}
    /\ UNCHANGED <<session, dbVars, run, acct, waited, overlapped, blind, faults>>

\* The refresh token dies.
SessionDies ==
    /\ session = "alive"
    /\ session' = "dead" /\ Fault(1)
    /\ UNCHANGED <<day, company, dbVars, run, acct, waited, overlapped, blind>>

WorldStep == NextDay \/ SessionDies

=============================================================================

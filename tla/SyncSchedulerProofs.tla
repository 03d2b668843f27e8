-------------------------- MODULE SyncSchedulerProofs --------------------------
(***************************************************************************)
(* The safety of the dataset synchronisation, for any number of symbols,   *)
(* companies, process slots, days, faults and runs: SyncScheduler's types  *)
(* with the size of the open batch, one daily snapshot a day, no merge of  *)
(* two companies the identity guard could have seen, and a success report  *)
(* that stands for stored data.                                            *)
(***************************************************************************)
EXTENDS SyncScheduler, FiniteSetTheorems, NaturalsInduction, TLAPS

-----------------------------------------------------------------------------
(* The inductive invariant. *)

Stages == {"idle", "prepare", "guard", "fetch", "record", "done"}

RunType ==
    [pc : Stages, today : {0} \cup Days, todo : SUBSET Symbols, recorded : SUBSET Symbols,
     quotes : BOOLEAN, got : BOOLEAN, errors : SUBSET {"auth", "other"}, since : Nat,
     rc : Codes]

SyncType ==
    [pc : {"idle", "dispatch", "wait"}, started : {0} \cup Days, pass : {0, 1, 2},
     slot : Runners \cup {None}, jobs : SUBSET Jobs, waiting : SUBSET Jobs,
     results : UNION {[js -> Codes] : js \in SUBSET Jobs}]

LastType ==
    [ok : BOOLEAN, started : {0} \cup Days, finished : {0} \cup Days, jobs : SUBSET Jobs]

Typed ==
    /\ day \in Days /\ session \in {"alive", "dead"}
    /\ company \in [Symbols -> Companies]
    /\ db \in DbType /\ lock \in Runners \cup {None}
    /\ work \in IF lock = None THEN {None} ELSE DbType
    /\ run \in [Runners -> RunType]
    /\ acct \in [pc : {"idle", "fetch", "write", "done"}, rc : Codes]
    /\ overlapped \subseteq Days /\ blind \subseteq Turnover
    /\ sync \in SyncType
    /\ last \in LastType

\* The runs that are active began today: two of them make today a day of overlap.
Today ==
    /\ \A p \in Runners : Active(p) => run[p].today = day
    /\ \A p, q \in Runners : p # q /\ Active(p) /\ Active(q) => day \in overlapped

\* The writer is between the identity guard of a symbol and its sample, and has counted the
\* samples its transaction adds; none of them is of a symbol it has yet to visit.
Writing ==
    /\ \A p \in Runners :
          /\ run[p].since < Batch
          /\ lock # p => run[p].since = 0
          /\ lock = p => run[p].pc \in {"guard", "fetch"}
    /\ lock # None =>
          /\ work.nav = db.nav
          /\ \A s \in Symbols, d \in Days :
                work.full[s][d] >= db.full[s][d] /\ work.rows[s][d] >= db.rows[s][d]
          /\ Unsaved \cap run[lock].todo = {}
          /\ Cardinality(Unsaved) = run[lock].since

\* The company of every ticker that never changes hands.
Founder == CHOOSE c \in Companies : TRUE

\* What holds of each version of the database, after overlaps on the days over and blind
\* passes of the tickers unseen.
SoundAt(d, over, unseen) ==
    \A s \in Symbols :
        /\ d.tier[s] \in {"GRACE", "ACTIVE"}
        /\ \A x \in Days : d.full[s][x] <= d.rows[s][x] /\ (d.full[s][x] > 1 => x \in over)
        /\ s \notin Turnover => d.firms[s] \subseteq {Founder}
        /\ s \in Turnover \ unseen =>
              /\ d.firms[s] \subseteq {d.ident[s]}
              /\ d.ident[s] = None => d.firms[s] = {}

Sound(d) == SoundAt(d, overlapped, blind)

Versions ==
    /\ Sound(db) /\ (lock # None => Sound(work))
    /\ \A s \in Symbols \ Turnover : company[s] = Founder

\* What an active run knows of its symbols.
Knows(p) ==
    /\ \A s \in run[p].recorded : db.full[s][day] > 0
    /\ day \in overlapped \/ \A s \in run[p].todo \ run[p].recorded : View(p).full[s][day] = 0
    /\ run[p].errors = {} /\ ~run[p].got => Equity \subseteq run[p].todo
    /\ run[p].got => \E s \in Symbols : View(p).rows[s][day] > 0

\* The symbol it is about to sample was not sampled today, and its identity was compared in
\* the transaction that is still open, unless the guard was passed blind.
Cleared(p) ==
    /\ run[p].todo # {} /\ Min(run[p].todo) \notin run[p].recorded
    /\ Min(run[p].todo) \in Turnover \ blind =>
          lock = p /\ work.ident[Min(run[p].todo)] = company[Min(run[p].todo)]

Knowing ==
    \A p \in Runners :
        /\ run[p].pc = "prepare" => ~run[p].got /\ run[p].recorded = {}
        /\ run[p].pc \in {"guard", "fetch", "record"} => Knows(p)
        /\ run[p].pc \in {"fetch", "record"} => Cleared(p)

\* What the result "ok" of a job that began no earlier than on day n stands for on day u, in a
\* version d of the database: a market-data run succeeds without a sample on a day that is no
\* trading day, or where no symbol is subscribed.
NavIn(d, n) == \E x \in d.nav : x >= n
SampleIn(d, n, u) ==
    Equity # {} =>
        \/ \E s \in Symbols, x \in n .. MaxDay : d.rows[s][x] > 0
        \/ \E h \in Holidays : n <= h /\ h <= u
Meant(j, d, n, u) ==
    (j = "accounts" => NavIn(d, n)) /\ (j = "market-data" => SampleIn(d, n, u))

\* The results so far and the report stand for what is stored.
Told(d, u) ==
    /\ \A j \in DOMAIN sync.results : sync.results[j] = "ok" => Meant(j, d, sync.started, u)
    /\ last.ok => /\ last.started \in Days
                  /\ \A j \in last.jobs : Meant(j, d, last.started, last.finished)

\* Every scheduled job has a result or is waited for, and its process, if it succeeded,
\* stands for what is stored.
Awaited ==
    /\ sync.pc # "idle" => /\ sync.started \in 1 .. day
                           /\ DOMAIN sync.results \cup sync.waiting = sync.jobs
    /\ sync.pc = "idle" => DOMAIN sync.results = {}
    /\ sync.pc = "wait" =>
          /\ "accounts" \in sync.waiting /\ acct.rc = "ok" => NavIn(db, sync.started)
          /\ "market-data" \in sync.waiting =>
                /\ sync.slot \in Runners
                /\ run[sync.slot].rc = "ok" => SampleIn(db, sync.started, day)

Reporting == Told(db, day) /\ Awaited

IInv == Typed /\ Today /\ Writing /\ Versions /\ Knowing /\ Reporting

-----------------------------------------------------------------------------
(* The operators on a version of the database. *)

LEMMA MinIsMember ==
    ASSUME NEW T, T \subseteq Symbols, T # {}
    PROVE  Min(T) \in T
<1> DEFINE R == {ss \in Nat \X Nat : ss[1] < ss[2]}
<1>1. IsWellFoundedOn(R, Nat)
  BY NatLessThanWellFounded, Zenon DEF OpToRel
<1>2. T \subseteq Nat
  BY UpdateAssumption DEF Symbols
<1> HIDE DEF R
<1>3. PICK t \in T : \A x \in T : ~ (<<x, t>> \in R)
  BY <1>1, <1>2, WFMin, Zenon
<1>4. ASSUME NEW x \in T  PROVE t <= x
  <2>1. x \in Nat /\ t \in Nat
    BY <1>2, <1>3
  <2>2. <<x, t>> \in Nat \X Nat /\ <<x, t>>[1] = x /\ <<x, t>>[2] = t
    BY <2>1
  <2>3. ~ (x < t)
    BY <1>3, <2>2, Zenon DEF R
  <2>4. QED
    BY <2>1, <2>3, SMT
<1>5. QED
  BY <1>4 DEF Min

LEMMA ReconciledFacts ==
    ASSUME NEW d \in DbType, NEW holdings \in SUBSET Symbols, NEW today \in Days
    PROVE  LET r == Reconciled(d, holdings, today)
           IN  /\ r \in DbType /\ r.open = holdings
               /\ r.full = d.full /\ r.rows = d.rows /\ r.firms = d.firms /\ r.ident = d.ident
               /\ r.tier = d.tier /\ r.nav = d.nav
BY DEF Reconciled, DbType

LEMMA CheckedFacts ==
    ASSUME NEW d \in DbType, NEW s \in Symbols, NEW seen \in Companies \cup {None}
    PROVE  LET c == Checked(d, s, seen)
           IN  /\ c \in DbType
               /\ c.full = d.full /\ c.rows = d.rows /\ c.firms = d.firms
               /\ c.tier = d.tier /\ c.nav = d.nav
               /\ \A t \in Symbols : t # s => c.ident[t] = d.ident[t]
               /\ c.ident[s] = IF Verdict(d.ident[s], seen) = "reuse" THEN d.ident[s] ELSE seen
BY DEF Checked, DbType

\* Tiers below ACTIVE are never reached: a symbol without a source keeps its tier.
LEMMA ResolvedTier ==
    ASSUME NEW d, NEW s, NEW today, d.tier[s] \in {"GRACE", "ACTIVE"}
    PROVE  Resolved(d, s, today) \in {"GRACE", "ACTIVE"}
<1>1. \A src \in Sources(d, s) : src = "equity" \/ (src = "position" /\ s \in d.open)
  BY DEF Sources
<1>2. CASE "equity" \in Sources(d, s) \/ ("position" \in Sources(d, s) /\ s \in d.open)
  BY <1>2 DEF Resolved
<1>3. CASE ~("equity" \in Sources(d, s) \/ ("position" \in Sources(d, s) /\ s \in d.open))
  <2>1. Sources(d, s) = {}
    BY <1>1, <1>3
  <2>2. QED
    BY <1>3, <2>1 DEF Resolved
<1>4. QED
  BY <1>2, <1>3

LEMMA SampledFacts ==
    ASSUME NEW d \in DbType, NEW s \in Symbols, NEW today \in Days, NEW whole \in BOOLEAN,
           d.tier[s] \in {"GRACE", "ACTIVE"}, company \in [Symbols -> Companies]
    PROVE  LET m == Sampled(d, s, today, whole)
           IN  /\ m \in DbType
               /\ m.ident = d.ident /\ m.nav = d.nav
               /\ \A t \in Symbols : t # s =>
                     /\ m.full[t] = d.full[t] /\ m.rows[t] = d.rows[t]
                     /\ m.firms[t] = d.firms[t] /\ m.tier[t] = d.tier[t]
               /\ \A x \in Days :
                     /\ m.rows[s][x] = IF x = today THEN d.rows[s][x] + 1 ELSE d.rows[s][x]
                     /\ m.full[s][x] = IF x = today /\ whole THEN d.full[s][x] + 1 ELSE d.full[s][x]
               /\ m.firms[s] = d.firms[s] \cup {company[s]}
               /\ m.tier[s] \in {"GRACE", "ACTIVE"}
<1> DEFINE d2 == [d EXCEPT !.rows[s][today] = @ + 1,
                           !.full[s][today] = IF whole THEN @ + 1 ELSE @,
                           !.firms[s] = @ \cup {company[s]}]
<1>1. /\ d.rows \in [Symbols -> [Days -> Nat]] /\ d.full \in [Symbols -> [Days -> Nat]]
      /\ d.firms \in [Symbols -> SUBSET Companies]
  BY DEF DbType
<1>2. PICK nr : nr = [d.rows EXCEPT ![s][today] = @ + 1]
  OBVIOUS
<1>3. PICK nf : nf = [d.full EXCEPT ![s][today] = IF whole THEN @ + 1 ELSE @]
  OBVIOUS
<1>4. PICK nc : nc = [d.firms EXCEPT ![s] = @ \cup {company[s]}]
  OBVIOUS
<1>5. /\ nr \in [Symbols -> [Days -> Nat]]
      /\ \A t \in Symbols : t # s => nr[t] = d.rows[t]
      /\ \A x \in Days : nr[s][x] = IF x = today THEN d.rows[s][x] + 1 ELSE d.rows[s][x]
  BY <1>1, <1>2
<1>6. /\ nf \in [Symbols -> [Days -> Nat]]
      /\ \A t \in Symbols : t # s => nf[t] = d.full[t]
      /\ \A x \in Days : nf[s][x] = IF x = today /\ whole THEN d.full[s][x] + 1 ELSE d.full[s][x]
  <2>1. CASE whole
    <3>1. nf = [d.full EXCEPT ![s][today] = @ + 1]
      BY <1>3, <2>1
    <3>2. QED
      BY <1>1, <2>1, <3>1
  <2>2. CASE ~whole
    <3>1. nf = d.full
      BY <1>1, <1>3, <2>2
    <3>2. QED
      BY <1>1, <2>2, <3>1
  <2>3. QED
    BY <2>1, <2>2
<1>7. /\ nc \in [Symbols -> SUBSET Companies]
      /\ \A t \in Symbols : t # s => nc[t] = d.firms[t]
      /\ nc[s] = d.firms[s] \cup {company[s]}
  BY <1>1, <1>4
<1>8. d2 = [d EXCEPT !.rows = nr, !.full = nf, !.firms = nc]
  BY <1>2, <1>3, <1>4 DEF DbType
<1>9. Sampled(d, s, today, whole) = [d2 EXCEPT !.tier[s] = Resolved(d2, s, today)]
  BY DEF Sampled
<1> HIDE DEF d2
<1>10. /\ d2 \in DbType
       /\ d2.ident = d.ident /\ d2.nav = d.nav /\ d2.tier = d.tier
       /\ d2.rows = nr /\ d2.full = nf /\ d2.firms = nc
  BY <1>5, <1>6, <1>7, <1>8 DEF DbType
<1>11. PICK tr : tr = Resolved(d2, s, today)
  OBVIOUS
<1>12. tr \in {"GRACE", "ACTIVE"}
  BY <1>10, <1>11, ResolvedTier
<1>13. PICK m : m = [d2 EXCEPT !.tier[s] = tr]
  OBVIOUS
<1>14. /\ m \in DbType
       /\ m.ident = d2.ident /\ m.nav = d2.nav /\ m.firms = d2.firms
       /\ m.full = d2.full /\ m.rows = d2.rows
       /\ \A t \in Symbols : t # s => m.tier[t] = d2.tier[t]
       /\ m.tier[s] = tr
  BY <1>10, <1>12, <1>13 DEF DbType
<1>15. Sampled(d, s, today, whole) = m
  BY <1>9, <1>11, <1>13
<1> HIDE DEF Sampled
<1>16. QED
  BY <1>5, <1>6, <1>7, <1>10, <1>12, <1>14, <1>15

-----------------------------------------------------------------------------
(* What the steps of a volatility run do. *)

\* Only the run of p changes.
OnlyRun(p) == run' \in [Runners -> RunType] /\ \A q \in Runners \ {p} : run'[q] = run[q]

LEMMA RunFrame ==
    ASSUME Typed, NEW p \in Runners, NEW r \in RunType, run' = [run EXCEPT ![p] = r]
    PROVE  OnlyRun(p) /\ run'[p] = r
BY DEF Typed, OnlyRun

LEMMA Records ==
    /\ IdleRun \in RunType /\ \A rc \in Codes : Done(rc) \in RunType
    /\ \A d \in Days : [IdleRun EXCEPT !.pc = "prepare", !.today = d] \in RunType
BY DEF IdleRun, Done, RunType, Stages, Codes

\* A run works on Min of its list.
LEMMA Current ==
    ASSUME Typed, NEW p \in Runners, run[p].todo # {}
    PROVE  Min(run[p].todo) \in run[p].todo /\ Min(run[p].todo) \in Symbols
<1>1. run[p].todo \subseteq Symbols
  BY DEF Typed, RunType
<1>2. QED
  BY <1>1, MinIsMember

\* The version a run reads and writes on from.
LEMMA ViewFacts ==
    ASSUME IInv, NEW p \in Runners
    PROVE  /\ View(p) \in DbType /\ Sound(View(p)) /\ View(p).nav = db.nav
           /\ \A s \in Symbols, d \in Days :
                 /\ View(p).full[s][d] >= db.full[s][d] /\ View(p).rows[s][d] >= db.rows[s][d]
           /\ lock = p => View(p) = work
           /\ lock # p => View(p) = db
<1>1. CASE lock = p
  BY <1>1, UpdateAssumption DEF IInv, Typed, Versions, Writing, View
<1>2. CASE lock # p
  <2>1. \A s \in Symbols, d \in Days : db.full[s][d] \in Nat /\ db.rows[s][d] \in Nat
    BY DEF IInv, Typed, DbType
  <2>2. QED
    BY <1>2, <2>1 DEF IInv, Typed, Versions, View
<1>3. QED
  BY <1>1, <1>2

LEMMA ActiveStages ==
    ASSUME Typed, NEW p \in Runners
    PROVE  /\ run[p] \in RunType
           /\ Active(p) <=> run[p].pc \in {"prepare", "guard", "fetch", "record"}
BY DEF Typed, RunType, Stages, Active

\* On a day that is no trading day a run ends at once, and well.
LEMMA NotTradingDayEffect ==
    ASSUME IInv, NEW p \in Runners, NotTradingDay(p)
    PROVE  /\ OnlyRun(p) /\ UNCHANGED dbVars /\ lock # p
           /\ run[p].pc = "prepare" /\ day \in Holidays
           /\ run'[p].pc = "done" /\ run'[p].since = 0
           /\ UNCHANGED <<overlapped, blind>>
<1>1. run[p].pc = "prepare" /\ run[p].today \in Holidays /\ Active(p)
  BY DEF NotTradingDay, Active
<1>2. PICK rc : rc = ExitCode(run[p])
  OBVIOUS
<1>3. rc \in Codes
  BY <1>2 DEF ExitCode, Codes
<1>4. Done(rc) \in RunType /\ Done(rc).pc = "done" /\ Done(rc).since = 0
  BY <1>3, Records DEF Done, IdleRun
<1>5. run' = [run EXCEPT ![p] = Done(rc)]
  BY <1>2 DEF NotTradingDay
<1>6. OnlyRun(p) /\ run'[p] = Done(rc)
  BY <1>4, <1>5, RunFrame DEF IInv
<1>7. lock # p /\ run[p].today = day
  BY <1>1 DEF IInv, Writing, Today
<1>8. QED
  BY <1>1, <1>4, <1>6, <1>7 DEF NotTradingDay

LEMMA PrepareEffect ==
    ASSUME IInv, NEW p \in Runners, Prepare(p)
    PROVE  /\ OnlyRun(p) /\ db' \in DbType
           /\ db'.full = db.full /\ db'.rows = db.rows
           /\ db'.firms = db.firms /\ db'.ident = db.ident
           /\ db'.tier = db.tier /\ db'.nav = db.nav
           /\ lock' = lock /\ work' = work /\ lock # p
           /\ run'[p].pc = "guard" /\ run'[p].today = run[p].today /\ run'[p].rc = run[p].rc
           /\ Equity \subseteq run'[p].todo
           /\ run'[p].recorded = {s \in Symbols : db.full[s][day] > 0}
           /\ ~run'[p].got /\ run'[p].since = run[p].since
<1>1. run[p] \in RunType /\ Active(p) /\ run[p].pc = "prepare" /\ run[p].today = day
  BY ActiveStages DEF IInv, Prepare, Today
<1>2. lock # p /\ ~run[p].got
  BY <1>1 DEF IInv, Writing, Knowing
<1>3. PICK holdings \in {None} \cup SUBSET (Symbols \ Equity), quotesOk \in BOOLEAN :
        LET d == IF holdings = None THEN db ELSE Reconciled(db, holdings, run[p].today)
        IN  /\ IF d # db THEN Free(p) /\ Commit(p, d) ELSE UNCHANGED dbVars
            /\ run' = [run EXCEPT ![p].pc = "guard",
                                  ![p].todo = Equity \cup d.open,
                                  ![p].recorded = Recorded(d, run[p].today),
                                  ![p].quotes = quotesOk]
  BY DEF Prepare
<1>4. PICK d : d = IF holdings = None THEN db ELSE Reconciled(db, holdings, run[p].today)
  OBVIOUS
<1>5. db \in DbType /\ day \in Days
  BY DEF IInv, Typed
<1>6. /\ d \in DbType /\ d.full = db.full /\ d.rows = db.rows
      /\ d.firms = db.firms /\ d.ident = db.ident
      /\ d.tier = db.tier /\ d.nav = db.nav
  <2>1. CASE holdings = None
    BY <1>4, <1>5, <2>1
  <2>2. CASE holdings # None
    BY <1>1, <1>3, <1>4, <1>5, <2>2, ReconciledFacts
  <2>3. QED
    BY <2>1, <2>2
<1>7. db' = d /\ lock' = lock /\ work' = work
  <2>1. CASE d # db
    BY <1>2, <1>3, <1>4, <2>1 DEF Free, Commit, IInv, Typed
  <2>2. CASE d = db
    BY <1>3, <1>4, <2>2 DEF dbVars
  <2>3. QED
    BY <2>1, <2>2
<1>8. PICK r : r = [run[p] EXCEPT !.pc = "guard", !.todo = Equity \cup d.open,
                                  !.recorded = Recorded(d, run[p].today), !.quotes = quotesOk]
  OBVIOUS
<1>9. Equity \cup d.open \subseteq Symbols /\ Recorded(d, run[p].today) \subseteq Symbols
  BY <1>6, UpdateAssumption DEF DbType, Recorded, Symbols
<1>10. /\ r \in RunType /\ r.pc = "guard" /\ r.today = run[p].today /\ r.rc = run[p].rc
       /\ r.todo = Equity \cup d.open /\ r.recorded = Recorded(d, run[p].today)
       /\ r.got = run[p].got /\ r.since = run[p].since
  BY <1>1, <1>8, <1>9 DEF RunType, Stages
<1>11. run' = [run EXCEPT ![p] = r]
  BY <1>3, <1>4, <1>8 DEF IInv, Typed
<1>12. OnlyRun(p) /\ run'[p] = r
  BY <1>10, <1>11, RunFrame DEF IInv
<1>13. Recorded(d, run[p].today) = {s \in Symbols : db.full[s][day] > 0}
  BY <1>1, <1>6 DEF Recorded
<1>14. QED
  BY <1>2, <1>6, <1>7, <1>10, <1>12, <1>13

\* What a run remembers across a step.
Remembers(p) ==
    /\ run'[p].today = run[p].today /\ run'[p].recorded = run[p].recorded
    /\ run'[p].rc = run[p].rc

\* The current symbol is done with: passed over as sampled already, or given up.
Dropped(p) ==
    /\ run'[p].pc = "guard" /\ run'[p].todo = run[p].todo \ {Min(run[p].todo)}
    /\ \/ run'[p].got /\ Min(run[p].todo) \in run[p].recorded
       \/ run'[p].errors # {} /\ run'[p].got = run[p].got

\* The current symbol passed the guard.
Passed(p) ==
    /\ run'[p].pc = "fetch" /\ run'[p].todo = run[p].todo
    /\ Min(run[p].todo) \notin run[p].recorded
    /\ run'[p].got = run[p].got /\ run[p].errors \subseteq run'[p].errors

\* A run of sound versions skips only what was sampled already.
LEMMA SkipsRecorded ==
    ASSUME NEW r, NEW d \in DbType, NEW s \in Symbols, Sound(d)
    PROVE  Skips(r, d, s) <=> s \in r.recorded
BY DEF Skips, Sound, SoundAt

LEMMA GuardEffect ==
    ASSUME IInv, NEW p \in Runners, Guard(p)
    PROVE  LET s == Min(run[p].todo)
           IN  /\ OnlyRun(p) /\ run[p].pc = "guard" /\ s \in run[p].todo /\ s \in Symbols
               /\ Free(p) /\ Remembers(p) /\ run'[p].since = run[p].since
               /\ lock' = p /\ work' \in DbType /\ db' = db
               /\ work'.full = View(p).full /\ work'.rows = View(p).rows
               /\ work'.firms = View(p).firms
               /\ work'.tier = View(p).tier /\ work'.nav = View(p).nav
               /\ \A t \in Symbols : t # s => work'.ident[t] = View(p).ident[t]
               /\ blind \subseteq blind' /\ blind' \subseteq Turnover
               /\ s \in Turnover \ blind' =>
                     View(p).ident[s] = None \/ work'.ident[s] = View(p).ident[s]
               /\ \/ Dropped(p)
                  \/ Passed(p) /\ (s \in Turnover \ blind' => work'.ident[s] = company[s])
<1> DEFINE s == Min(run[p].todo)
<1> DEFINE seen == IF run[p].quotes THEN company[s] ELSE None
<1>1. /\ run[p].pc = "guard" /\ run[p].todo # {} /\ Free(p)
      /\ Hold(p, Checked(View(p), s, seen))
      /\ blind' = IF seen = None THEN blind \cup ({s} \cap Turnover) ELSE blind
      /\ run' = [run EXCEPT ![p] =
            IF Verdict(View(p).ident[s], seen) = "reuse"
            THEN [run[p] EXCEPT !.todo = @ \ {s}, !.errors = @ \cup {"other"}]
            ELSE IF Skips(run[p], View(p), s)
            THEN [run[p] EXCEPT !.todo = @ \ {s}, !.got = TRUE]
            ELSE [run[p] EXCEPT !.pc = "fetch"]]
  BY DEF Guard
<1>2. s \in run[p].todo /\ s \in Symbols
  BY <1>1, Current DEF IInv
<1>3. run[p] \in RunType
  BY ActiveStages DEF IInv
<1>4. seen \in Companies \cup {None} /\ (seen # None => seen = company[s])
  BY <1>2 DEF IInv, Typed
<1>5. View(p) \in DbType /\ Sound(View(p))
  BY ViewFacts
<1> HIDE DEF s, seen
<1>6. PICK c : c = Checked(View(p), s, seen)
  OBVIOUS
<1>7. /\ c \in DbType /\ c.full = View(p).full /\ c.rows = View(p).rows
      /\ c.firms = View(p).firms
      /\ c.tier = View(p).tier /\ c.nav = View(p).nav
      /\ \A t \in Symbols : t # s => c.ident[t] = View(p).ident[t]
      /\ c.ident[s] = IF Verdict(View(p).ident[s], seen) = "reuse" THEN View(p).ident[s] ELSE seen
  BY <1>2, <1>4, <1>5, <1>6, CheckedFacts
<1>8. lock' = p /\ work' = c /\ db' = db
  BY <1>1, <1>6 DEF Hold
<1>9. blind \subseteq blind' /\ blind' \subseteq Turnover
  BY <1>1 DEF IInv, Typed
<1>10. s \in Turnover \ blind' => seen # None /\ seen = company[s]
  BY <1>1, <1>4
<1>11. s \in Turnover \ blind' => View(p).ident[s] = None \/ c.ident[s] = View(p).ident[s]
  BY <1>7, <1>10 DEF Verdict
<1>12. Skips(run[p], View(p), s) <=> s \in run[p].recorded
  BY <1>2, <1>5, SkipsRecorded
<1>13. PICK r : r = IF Verdict(View(p).ident[s], seen) = "reuse"
            THEN [run[p] EXCEPT !.todo = @ \ {s}, !.errors = @ \cup {"other"}]
            ELSE IF Skips(run[p], View(p), s)
            THEN [run[p] EXCEPT !.todo = @ \ {s}, !.got = TRUE]
            ELSE [run[p] EXCEPT !.pc = "fetch"]
  OBVIOUS
<1>14. /\ r \in RunType
       /\ r.today = run[p].today /\ r.recorded = run[p].recorded /\ r.rc = run[p].rc
       /\ r.since = run[p].since
       /\ \/ /\ r.pc = "guard" /\ r.todo = run[p].todo \ {s}
             /\ (r.got /\ s \in run[p].recorded) \/ (r.errors # {} /\ r.got = run[p].got)
          \/ /\ Verdict(View(p).ident[s], seen) # "reuse"
             /\ r.pc = "fetch" /\ r.todo = run[p].todo /\ s \notin run[p].recorded
             /\ r.got = run[p].got /\ r.errors = run[p].errors
  <2>1. CASE Verdict(View(p).ident[s], seen) = "reuse"
    BY <1>1, <1>3, <1>13, <2>1 DEF RunType
  <2>2. CASE Verdict(View(p).ident[s], seen) # "reuse" /\ s \in run[p].recorded
    BY <1>1, <1>2, <1>3, <1>12, <1>13, <2>2 DEF RunType
  <2>3. CASE Verdict(View(p).ident[s], seen) # "reuse" /\ s \notin run[p].recorded
    BY <1>1, <1>3, <1>12, <1>13, <2>3 DEF RunType, Stages
  <2>4. QED
    BY <2>1, <2>2, <2>3
<1>15. OnlyRun(p) /\ run'[p] = r
  BY <1>1, <1>13, <1>14, RunFrame DEF IInv
<1>16. \/ Dropped(p)
       \/ Passed(p) /\ (s \in Turnover \ blind' => c.ident[s] = company[s])
  BY <1>7, <1>10, <1>14, <1>15 DEF Dropped, Passed, s
<1>17. Remembers(p) /\ run'[p].since = run[p].since
  BY <1>14, <1>15 DEF Remembers
<1>18. QED
  BY <1>1, <1>2, <1>7, <1>8, <1>9, <1>11, <1>15, <1>16, <1>17 DEF s

\* A sample is written by Record.
Recording(p) ==
    LET s == Min(run[p].todo)
    IN  /\ s \in run[p].todo /\ s \in Symbols /\ Free(p) /\ Remembers(p)
        /\ run'[p].pc = "guard" /\ run'[p].got /\ run'[p].todo = run[p].todo \ {s}
        /\ \E m \in DbType :
              /\ m.ident = View(p).ident /\ m.nav = View(p).nav
              /\ \A t \in Symbols : t # s =>
                    /\ m.full[t] = View(p).full[t] /\ m.rows[t] = View(p).rows[t]
                    /\ m.firms[t] = View(p).firms[t] /\ m.tier[t] = View(p).tier[t]
              /\ \A x \in Days :
                    /\ m.rows[s][x] = IF x = day THEN View(p).rows[s][x] + 1 ELSE View(p).rows[s][x]
                    /\ \/ m.full[s][x] = View(p).full[s][x]
                       \/ x = day /\ m.full[s][x] = View(p).full[s][x] + 1
              /\ m.firms[s] = View(p).firms[s] \cup {company[s]}
              /\ m.tier[s] \in {"GRACE", "ACTIVE"}
              /\ \/ db' = m /\ lock' = None /\ work' = None /\ run'[p].since = 0
                 \/ /\ db' = db /\ lock' = p /\ work' = m
                    /\ run'[p].since = run[p].since + 1 /\ run'[p].since < Batch

LEMMA RecordEffect ==
    ASSUME IInv, NEW p \in Runners, run[p].pc \in {"fetch", "record"}, Free(p), Record(p)
    PROVE  OnlyRun(p) /\ Recording(p)
<1> DEFINE s == Min(run[p].todo)
<1>1. run[p] \in RunType /\ run[p].today = day /\ run[p].todo # {} /\ day \in Days
  BY ActiveStages DEF IInv, Today, Knowing, Cleared, Typed
<1>2. s \in run[p].todo /\ s \in Symbols
  BY <1>1, Current DEF IInv
<1>3. View(p) \in DbType /\ Sound(View(p))
  BY ViewFacts
<1>4. PICK whole \in BOOLEAN :
        LET d == Sampled(View(p), s, day, whole)
        IN  IF BatchFull(run[p]) THEN Commit(p, d) ELSE Hold(p, d)
  BY <1>1 DEF Record
<1>4a. PICK m : m = Sampled(View(p), s, day, whole)
  OBVIOUS
<1>5. /\ IF BatchFull(run[p]) THEN Commit(p, m) ELSE Hold(p, m)
      /\ run' = [run EXCEPT ![p] =
            [run[p] EXCEPT !.pc = "guard", !.todo = @ \ {s}, !.got = TRUE,
                           !.since = IF BatchFull(run[p]) THEN 0 ELSE @ + 1]]
  BY <1>4, <1>4a DEF Record
<1>6. View(p).tier[s] \in {"GRACE", "ACTIVE"} /\ company \in [Symbols -> Companies]
  BY <1>2, <1>3 DEF Sound, SoundAt, IInv, Typed
<1> HIDE DEF s
<1>7. /\ m \in DbType
      /\ m.ident = View(p).ident /\ m.nav = View(p).nav
      /\ \A t \in Symbols : t # s =>
            /\ m.full[t] = View(p).full[t] /\ m.rows[t] = View(p).rows[t]
            /\ m.firms[t] = View(p).firms[t] /\ m.tier[t] = View(p).tier[t]
      /\ \A x \in Days :
            /\ m.rows[s][x] = IF x = day THEN View(p).rows[s][x] + 1 ELSE View(p).rows[s][x]
            /\ \/ m.full[s][x] = View(p).full[s][x]
               \/ x = day /\ m.full[s][x] = View(p).full[s][x] + 1
      /\ m.firms[s] = View(p).firms[s] \cup {company[s]}
      /\ m.tier[s] \in {"GRACE", "ACTIVE"}
  BY <1>1, <1>2, <1>3, <1>4a, <1>6, SampledFacts
<1>8. PICK n : n = IF BatchFull(run[p]) THEN 0 ELSE run[p].since + 1
  OBVIOUS
<1>9. run[p].since \in Nat /\ n \in Nat /\ (~BatchFull(run[p]) => n < Batch)
  BY <1>1, <1>8, UpdateAssumption DEF RunType, BatchFull
<1>10. PICK r : r = [run[p] EXCEPT !.pc = "guard", !.todo = @ \ {s}, !.got = TRUE, !.since = n]
  OBVIOUS
<1>11. /\ r \in RunType /\ r.pc = "guard" /\ r.todo = run[p].todo \ {s} /\ r.got /\ r.since = n
       /\ r.today = run[p].today /\ r.recorded = run[p].recorded /\ r.rc = run[p].rc
  BY <1>1, <1>9, <1>10 DEF RunType, Stages
<1>12. OnlyRun(p) /\ run'[p] = r
  BY <1>5, <1>8, <1>10, <1>11, RunFrame DEF IInv
<1>13. \/ db' = m /\ lock' = None /\ work' = None /\ run'[p].since = 0
       \/ /\ db' = db /\ lock' = p /\ work' = m
          /\ run'[p].since = run[p].since + 1 /\ run'[p].since < Batch
  BY <1>5, <1>8, <1>9, <1>11, <1>12 DEF Commit, Hold
<1>14. Remembers(p)
  BY <1>11, <1>12 DEF Remembers
<1>15. QED
  BY <1>2, <1>7, <1>11, <1>12, <1>13, <1>14 DEF Recording, s

LEMMA FetchEffect ==
    ASSUME IInv, NEW p \in Runners, Fetch(p)
    PROVE  /\ OnlyRun(p) /\ run[p].pc = "fetch"
           /\ \/ Recording(p)
              \/ /\ UNCHANGED dbVars /\ Remembers(p) /\ run'[p].since = run[p].since
                 /\ \/ /\ run'[p].pc = "record" /\ lock # p /\ run'[p].todo = run[p].todo
                       /\ run'[p].got = run[p].got /\ run'[p].errors = run[p].errors
                    \/ Dropped(p)
<1>1. run[p].pc = "fetch" /\ run[p] \in RunType
  BY ActiveStages DEF IInv, Fetch
<1>2. CASE Free(p) /\ Record(p)
  BY <1>1, <1>2, RecordEffect
<1>3. CASE ~Free(p) /\ run' = [run EXCEPT ![p].pc = "record"] /\ UNCHANGED dbVars
  <2>1. PICK r : r = [run[p] EXCEPT !.pc = "record"]
    OBVIOUS
  <2>2. /\ r \in RunType /\ r.pc = "record" /\ r.todo = run[p].todo /\ r.got = run[p].got
        /\ r.today = run[p].today /\ r.recorded = run[p].recorded /\ r.rc = run[p].rc
        /\ r.since = run[p].since /\ r.errors = run[p].errors
    BY <1>1, <2>1 DEF RunType, Stages
  <2>3. run' = [run EXCEPT ![p] = r]
    BY <1>3, <2>1 DEF IInv, Typed
  <2>4. OnlyRun(p) /\ run'[p] = r
    BY <2>2, <2>3, RunFrame DEF IInv
  <2>5. QED
    BY <1>1, <1>3, <2>2, <2>4 DEF Free, Remembers
<1>4. CASE /\ run' = [run EXCEPT ![p].pc = "guard", ![p].todo = @ \ {Min(@)},
                                 ![p].errors = @ \cup {IF session = "dead" THEN "auth" ELSE "other"}]
           /\ UNCHANGED dbVars
  <2> DEFINE s == Min(run[p].todo)
  <2> HIDE DEF s
  <2>1. PICK e \in {"auth", "other"} : e = IF session = "dead" THEN "auth" ELSE "other"
    OBVIOUS
  <2>2. PICK r : r = [run[p] EXCEPT !.pc = "guard", !.todo = @ \ {s}, !.errors = @ \cup {e}]
    OBVIOUS
  <2>3. /\ r \in RunType /\ r.pc = "guard" /\ r.todo = run[p].todo \ {s} /\ r.got = run[p].got
        /\ r.today = run[p].today /\ r.recorded = run[p].recorded /\ r.rc = run[p].rc
        /\ r.since = run[p].since /\ r.errors # {}
    BY <1>1, <2>2 DEF RunType, Stages
  <2>4. run' = [run EXCEPT ![p] = r]
    BY <1>4, <2>1, <2>2 DEF IInv, Typed, s
  <2>5. OnlyRun(p) /\ run'[p] = r
    BY <2>3, <2>4, RunFrame DEF IInv
  <2>6. QED
    BY <1>1, <1>4, <2>3, <2>5 DEF Remembers, Dropped, s
<1>5. QED
  BY <1>2, <1>3, <1>4 DEF Fetch

LEMMA FinishEffect ==
    ASSUME IInv, NEW p \in Runners, Finish(p)
    PROVE  /\ OnlyRun(p) /\ run[p].pc = "guard" /\ run[p].todo = {}
           /\ run'[p].pc = "done" /\ run'[p].since = 0
           /\ run'[p].rc = "ok" => run[p].errors = {} \/ run[p].got
           /\ db' = View(p)
           /\ IF lock = p THEN lock' = None /\ work' = None ELSE UNCHANGED dbVars
<1>1. PICK rc : rc = ExitCode(run[p])
  OBVIOUS
<1>2. rc \in Codes /\ (rc = "ok" => run[p].errors = {} \/ run[p].got)
  BY <1>1 DEF ExitCode, Codes
<1>3. run' = [run EXCEPT ![p] = Done(rc)]
  BY <1>1 DEF Finish
<1>4. /\ Done(rc) \in RunType /\ Done(rc).pc = "done" /\ Done(rc).since = 0
      /\ Done(rc).rc = rc
  BY <1>2, Records DEF Done, IdleRun
<1>5. OnlyRun(p) /\ run'[p] = Done(rc)
  BY <1>3, <1>4, RunFrame DEF IInv
<1>6. QED
  BY <1>2, <1>4, <1>5 DEF Finish, Commit, View, dbVars

LEMMA StarveEffect ==
    ASSUME IInv, NEW p \in Runners, Starve(p)
    PROVE  /\ OnlyRun(p) /\ UNCHANGED dbVars /\ lock # p
           /\ blind \subseteq blind' /\ blind' \subseteq Turnover
           /\ \/ run'[p].pc = "done" /\ run'[p].since = 0 /\ run'[p].rc = "error"
              \/ /\ run[p].pc = "guard" /\ Min(run[p].todo) \in run[p].todo
                 /\ Remembers(p) /\ run'[p].since = run[p].since
                 /\ \/ Dropped(p)
                    \/ Passed(p) /\ Min(run[p].todo) \notin Turnover \ blind'
<1> DEFINE s == Min(run[p].todo)
<1>1. lock # p /\ p # "accounts" /\ UNCHANGED dbVars /\ run[p] \in RunType
  BY UpdateAssumption, ActiveStages DEF IInv, Starve, Waiting, Free
<1>2. CASE run[p].pc # "guard"
  <2>1. run' = [run EXCEPT ![p] = Done("error")] /\ blind' = blind
    BY <1>2 DEF Starve
  <2>2. /\ Done("error") \in RunType /\ Done("error").pc = "done" /\ Done("error").since = 0
        /\ Done("error").rc = "error"
    BY Records DEF Codes, Done, IdleRun
  <2>3. OnlyRun(p) /\ run'[p] = Done("error")
    BY <2>1, <2>2, RunFrame DEF IInv
  <2>4. QED
    BY <1>1, <2>1, <2>2, <2>3 DEF IInv, Typed
<1>3. CASE run[p].pc = "guard"
  <2>1. /\ blind' = blind \cup ({s} \cap Turnover)
        /\ run' = [run EXCEPT ![p] =
              IF Skips(run[p], db, s)
              THEN [run[p] EXCEPT !.todo = @ \ {s}, !.errors = @ \cup {"other"}, !.got = TRUE]
              ELSE [run[p] EXCEPT !.pc = "fetch", !.errors = @ \cup {"other"}]]
    BY <1>3 DEF Starve
  <2>2. run[p].todo # {}
    BY <1>1, <1>3 DEF Starve, Waiting
  <2>3. s \in run[p].todo /\ s \in Symbols
    BY <2>2, Current DEF IInv
  <2> HIDE DEF s
  <2>4. Skips(run[p], db, s) <=> s \in run[p].recorded
    BY <2>3, SkipsRecorded DEF IInv, Typed, Versions
  <2>5. PICK r : r = IF Skips(run[p], db, s)
              THEN [run[p] EXCEPT !.todo = @ \ {s}, !.errors = @ \cup {"other"}, !.got = TRUE]
              ELSE [run[p] EXCEPT !.pc = "fetch", !.errors = @ \cup {"other"}]
    OBVIOUS
  <2>6. /\ r \in RunType
        /\ r.today = run[p].today /\ r.recorded = run[p].recorded /\ r.rc = run[p].rc
        /\ r.since = run[p].since
        /\ \/ /\ r.pc = "guard" /\ r.todo = run[p].todo \ {s}
              /\ r.got /\ s \in run[p].recorded
           \/ /\ r.pc = "fetch" /\ r.todo = run[p].todo /\ s \notin run[p].recorded
              /\ r.got = run[p].got /\ run[p].errors \subseteq r.errors
    <3>1. CASE s \in run[p].recorded
      BY <1>1, <1>3, <2>3, <2>4, <2>5, <3>1 DEF RunType, Stages
    <3>2. CASE s \notin run[p].recorded
      BY <1>1, <1>3, <2>4, <2>5, <3>2 DEF RunType, Stages
    <3>3. QED
      BY <3>1, <3>2
  <2>7. OnlyRun(p) /\ run'[p] = r
    BY <2>1, <2>5, <2>6, RunFrame DEF IInv
  <2>8. Dropped(p) \/ (Passed(p) /\ s \notin Turnover \ blind')
    BY <2>1, <2>6, <2>7 DEF Dropped, Passed, s
  <2>9. blind \subseteq blind' /\ blind' \subseteq Turnover
    BY <2>1 DEF IInv, Typed
  <2>10. Remembers(p) /\ run'[p].since = run[p].since
    BY <2>6, <2>7 DEF Remembers
  <2>11. QED
    BY <1>1, <1>3, <2>3, <2>7, <2>8, <2>9, <2>10 DEF s
<1>4. QED
  BY <1>2, <1>3

\* A run that is killed is rolled back.
LEMMA KilledEffect ==
    ASSUME IInv, NEW p \in Runners, Killed(p)
    PROVE  /\ OnlyRun(p) /\ run'[p].pc = "done" /\ run'[p].since = 0 /\ run'[p].rc = "killed"
           /\ db' = db
           /\ IF lock = p THEN lock' = None /\ work' = None ELSE UNCHANGED dbVars
<1>1. /\ Done("killed") \in RunType /\ Done("killed").pc = "done" /\ Done("killed").since = 0
      /\ Done("killed").rc = "killed"
  BY Records DEF Codes, Done, IdleRun
<1>2. OnlyRun(p) /\ run'[p] = Done("killed")
  BY <1>1, RunFrame DEF IInv, Killed
<1>3. QED
  BY <1>1, <1>2 DEF Killed, RolledBack, dbVars

\* A run begins in a slot that is idle: if another is active, today becomes a day of overlap.
LEMMA BeginEffect ==
    ASSUME IInv, NEW p \in Runners, run[p].pc = "idle", Begin(p)
    PROVE  /\ OnlyRun(p) /\ run'[p].pc = "prepare" /\ run'[p].today = day
           /\ run'[p].since = 0 /\ run'[p].rc = None /\ ~run'[p].got /\ lock # p
           /\ run'[p].recorded = {}
           /\ overlapped \subseteq overlapped' /\ overlapped' \subseteq Days
           /\ \A q \in Runners \ {p} : Active(q) => day \in overlapped'
<1>1. PICK r : r = [IdleRun EXCEPT !.pc = "prepare", !.today = day]
  OBVIOUS
<1>2. /\ r \in RunType /\ r.pc = "prepare" /\ r.today = day /\ r.since = 0 /\ r.rc = None /\ ~r.got
      /\ r.recorded = {}
  BY <1>1, Records DEF IInv, Typed, IdleRun
<1>3. OnlyRun(p) /\ run'[p] = r
  BY <1>1, <1>2, RunFrame DEF IInv, Begin
<1>4. lock # p
  BY DEF IInv, Writing
<1>5. \A q \in Runners : Active(q) => run[q].today = day
  BY DEF IInv, Today
<1>6. overlapped' = overlapped \cup UNION {{day, run[q].today} : q \in {q \in Runners \ {p} : Active(q)}}
  BY DEF Begin
<1>7. \A q \in Runners \ {p} : Active(q) => day \in overlapped'
  BY <1>6
<1>8. overlapped' \subseteq Days
  BY <1>5, <1>6 DEF IInv, Typed
<1>9. QED
  BY <1>2, <1>3, <1>4, <1>6, <1>7, <1>8

LEMMA SlotIsVacant ==
    ASSUME Vacant # {}
    PROVE  Slot \in Runners /\ run[Slot].pc = "idle"
BY DEF Slot, Vacant

-----------------------------------------------------------------------------
(* The kinds of steps, as the runs and the database see them. *)

Begins(p) ==
    run[p].pc = "idle" /\ Begin(p) /\ UNCHANGED <<day, company, dbVars, blind>>

Leaves(p) ==
    /\ run[p].pc = "done" /\ run' = [run EXCEPT ![p] = IdleRun]
    /\ UNCHANGED <<day, company, dbVars, overlapped, blind>>

IsKilled(p) == Killed(p) /\ UNCHANGED <<day, company, overlapped, blind>>

NavStored ==
    /\ lock = None /\ lock' = None /\ work' = None
    /\ db' = [db EXCEPT !.nav = @ \cup {day}]
    /\ UNCHANGED <<day, company, run, overlapped, blind>>

Quiet == UNCHANGED <<day, company, dbVars, run, overlapped, blind>>

LEMMA AccountsFree ==
    ASSUME IInv, Free("accounts")
    PROVE  lock = None
BY UpdateAssumption DEF IInv, Typed, Free

LEMMA Kinds ==
    ASSUME IInv, [Next]_vars
    PROVE  \/ \E p \in Runners : RunStep(p) /\ UNCHANGED syncVars
           \/ \E p \in Runners : Begins(p) \/ Leaves(p) \/ IsKilled(p)
           \/ NavStored \/ NextDay \/ Quiet
<1> USE DEF Quiet, worldVars
<1>1. ASSUME NEW p \in Runners, RunStep(p), UNCHANGED syncVars
      PROVE  \E q \in Runners : RunStep(q) /\ UNCHANGED syncVars
  BY <1>1
<1>2. CASE AcctStep
  <2>1. CASE FetchAccounts
    BY <2>1, AccountsFree DEF FetchAccounts, StoreNav, Commit, NavStored
  <2>2. CASE WriteNav
    BY <2>2, AccountsFree DEF WriteNav, StoreNav, Commit, NavStored
  <2>3. CASE StarveAccounts
    BY <2>3 DEF StarveAccounts
  <2>4. QED
    BY <1>2, <2>1, <2>2, <2>3 DEF AcctStep
<1>3. CASE WorldStep
  BY <1>3 DEF WorldStep, SessionDies
<1>4. CASE Start \/ Retry \/ Finished \/ Die \/ ExitAccounts \/ UNCHANGED vars
  BY <1>4 DEF Start, Retry, Finished, Die, ExitAccounts, vars, updateVars, dbVars
<1>5. CASE Dispatch
  <2>1. PICK bad \in SUBSET sync.waiting :
          LET good == sync.waiting \ bad
              p == IF "market-data" \in good THEN Slot ELSE None
          IN  /\ "market-data" \in good => Vacant # {}
              /\ IF p = None THEN UNCHANGED <<run, overlapped>> ELSE Begin(p)
    BY <1>5 DEF Dispatch
  <2>2. CASE "market-data" \in sync.waiting \ bad
    <3>1. Slot \in Runners /\ run[Slot].pc = "idle" /\ Slot # None
      BY <2>1, <2>2, SlotIsVacant, UpdateAssumption
    <3>2. Begin(Slot)
      BY <2>1, <2>2, <3>1
    <3>3. QED
      BY <1>5, <3>1, <3>2 DEF Dispatch, Begins
  <2>3. CASE "market-data" \notin sync.waiting \ bad
    BY <1>5, <2>1, <2>3 DEF Dispatch
  <2>4. QED
    BY <2>2, <2>3
<1>6. CASE Collect
  <2>1. CASE Turn(sync.waiting) = "accounts"
    BY <1>6, <2>1 DEF Collect
  <2>2. CASE Turn(sync.waiting) = "market-data"
    <3>1. "market-data" \in sync.waiting
      BY <2>2 DEF Turn
    <3>2. sync.slot \in Runners
      BY <1>6, <3>1 DEF Collect, IInv, Reporting, Awaited
    <3>3. Leaves(sync.slot)
      BY <1>6, <2>2 DEF Collect, Ended, Leaves
    <3>4. QED
      BY <3>2, <3>3
  <2>3. CASE Turn(sync.waiting) = "indices"
    BY <1>6, <2>3 DEF Collect
  <2>4. QED
    BY <2>1, <2>2, <2>3 DEF Turn
<1>7. CASE TimeOut
  <2>1. CASE Turn(sync.waiting) = "accounts"
    BY <1>7, <2>1 DEF TimeOut, dbVars
  <2>2. CASE Turn(sync.waiting) = "market-data"
    <3>1. "market-data" \in sync.waiting
      BY <2>2 DEF Turn
    <3>2. sync.slot \in Runners
      BY <1>7, <3>1 DEF TimeOut, IInv, Reporting, Awaited
    <3>3. IsKilled(sync.slot)
      BY <1>7, <2>2 DEF TimeOut, IsKilled
    <3>4. QED
      BY <3>2, <3>3
  <2>3. CASE Turn(sync.waiting) = "indices"
    BY <1>7, <2>3 DEF TimeOut, Ended
  <2>4. QED
    BY <2>1, <2>2, <2>3 DEF Turn
<1>8. CASE Manual
  <2>1. Slot \in Runners /\ run[Slot].pc = "idle"
    BY <1>8, SlotIsVacant DEF Manual
  <2>2. QED
    BY <1>8, <2>1 DEF Manual, Begins
<1>9. ASSUME NEW p \in Runners, Exit(p)
      PROVE  Leaves(p)
  BY <1>9 DEF Exit, Leaves
<1>10. QED
  BY <1>1, <1>2, <1>3, <1>4, <1>5, <1>6, <1>7, <1>8, <1>9 DEF Next, SchedulerStep

\* Everything but the current run: its steps leave the company and the day alone.
LEMMA RunStepFrame ==
    ASSUME NEW p \in Runners, RunStep(p)
    PROVE  UNCHANGED <<day, company, session, overlapped, acct>>
BY DEF RunStep, NotTradingDay, Prepare, Guard, Fetch, RecordLate, Finish, Starve, worldVars

\* The database grows, and a transaction of another process is left alone.
DbGrows(p) ==
    /\ db' \in DbType /\ db.nav \subseteq db'.nav
    /\ \A s \in Symbols, d \in Days :
          db'.full[s][d] >= db.full[s][d] /\ db'.rows[s][d] >= db.rows[s][d]
    /\ lock' \in Runners \cup {None} /\ work' \in IF lock' = None THEN {None} ELSE DbType
    /\ lock' \in {lock, p, None} /\ (lock \notin {p, None} => lock' = lock /\ work' = work)

LEMMA CountIsNat ==
    ASSUME NEW d \in DbType, NEW s \in Symbols, NEW x \in Days
    PROVE  d.full[s][x] \in Nat /\ d.rows[s][x] \in Nat
BY DEF DbType

LEMMA SameGrows ==
    ASSUME IInv, NEW p, UNCHANGED dbVars
    PROVE  DbGrows(p)
BY CountIsNat DEF IInv, Typed, DbGrows, dbVars

LEMMA CommitGrows ==
    ASSUME IInv, NEW p \in Runners, db' = View(p), IF lock = p THEN lock' = None /\ work' = None ELSE UNCHANGED dbVars
    PROVE  DbGrows(p)
<1>1. CASE lock = p
  BY <1>1, ViewFacts DEF DbGrows
<1>2. CASE lock # p
  BY <1>2, SameGrows
<1>3. QED
  BY <1>1, <1>2

LEMMA RecordingGrows ==
    ASSUME IInv, NEW p \in Runners, Recording(p)
    PROVE  DbGrows(p)
<1> DEFINE s == Min(run[p].todo)
<1>1. PICK m \in DbType :
              /\ m.nav = View(p).nav
              /\ \A t \in Symbols : t # s => m.full[t] = View(p).full[t] /\ m.rows[t] = View(p).rows[t]
              /\ \A x \in Days :
                    /\ m.rows[s][x] = IF x = day THEN View(p).rows[s][x] + 1 ELSE View(p).rows[s][x]
                    /\ \/ m.full[s][x] = View(p).full[s][x]
                       \/ x = day /\ m.full[s][x] = View(p).full[s][x] + 1
              /\ \/ db' = m /\ lock' = None /\ work' = None
                 \/ db' = db /\ lock' = p /\ work' = m
  BY DEF Recording
<1>2. Free(p) /\ s \in Symbols
  BY DEF Recording
<1>3. /\ View(p) \in DbType /\ View(p).nav = db.nav
      /\ \A t \in Symbols, d \in Days :
            View(p).full[t][d] >= db.full[t][d] /\ View(p).rows[t][d] >= db.rows[t][d]
  BY ViewFacts
<1>4. db \in DbType /\ p # None
  BY UpdateAssumption DEF IInv, Typed
<1> HIDE DEF s
<1>5. \A t \in Symbols, d \in Days :
         m.full[t][d] >= db.full[t][d] /\ m.rows[t][d] >= db.rows[t][d]
  <2>1. ASSUME NEW t \in Symbols, NEW d \in Days
        PROVE  m.full[t][d] >= db.full[t][d] /\ m.rows[t][d] >= db.rows[t][d]
    <3>1. /\ View(p).full[t][d] \in Nat /\ db.full[t][d] \in Nat /\ View(p).full[t][d] >= db.full[t][d]
          /\ View(p).rows[t][d] \in Nat /\ db.rows[t][d] \in Nat /\ View(p).rows[t][d] >= db.rows[t][d]
      BY <1>3, <1>4, CountIsNat
    <3>2. /\ m.full[t][d] = View(p).full[t][d] \/ m.full[t][d] = View(p).full[t][d] + 1
          /\ m.rows[t][d] = View(p).rows[t][d] \/ m.rows[t][d] = View(p).rows[t][d] + 1
      BY <1>1, <1>2
    <3>3. QED
      BY <3>1, <3>2
  <2>2. QED
    BY <2>1
<1>6. \A t \in Symbols, d \in Days :
         db.full[t][d] >= db.full[t][d] /\ db.rows[t][d] >= db.rows[t][d]
  BY <1>4, CountIsNat
<1>7. QED
  BY <1>1, <1>2, <1>3, <1>4, <1>5, <1>6 DEF DbGrows, Free

LEMMA RunStepGrows ==
    ASSUME IInv, NEW p \in Runners, RunStep(p)
    PROVE  DbGrows(p) /\ OnlyRun(p) /\ blind \subseteq blind' /\ blind' \subseteq Turnover
<1>0. blind \subseteq Turnover /\ db \in DbType /\ p # None
  BY UpdateAssumption DEF IInv, Typed
<1>1. CASE Prepare(p)
  <2>1. blind' = blind
    BY <1>1 DEF Prepare
  <2>2. \A s \in Symbols, d \in Days :
           db.full[s][d] >= db.full[s][d] /\ db.rows[s][d] >= db.rows[s][d]
    BY <1>0, CountIsNat
  <2>3. QED
    BY <1>0, <1>1, <2>1, <2>2, PrepareEffect DEF DbGrows, IInv, Typed
<1>2. CASE Guard(p)
  <2>1. /\ OnlyRun(p) /\ Free(p) /\ lock' = p /\ work' \in DbType /\ db' = db
        /\ blind \subseteq blind' /\ blind' \subseteq Turnover
    BY <1>2, GuardEffect
  <2>2. \A s \in Symbols, d \in Days :
           db.full[s][d] >= db.full[s][d] /\ db.rows[s][d] >= db.rows[s][d]
    BY <1>0, CountIsNat
  <2>3. QED
    BY <1>0, <2>1, <2>2 DEF DbGrows, Free
<1>3. CASE Fetch(p)
  BY <1>0, <1>3, FetchEffect, RecordingGrows, SameGrows DEF Fetch
<1>4. CASE RecordLate(p)
  BY <1>0, <1>4, RecordEffect, RecordingGrows DEF RecordLate
<1>5. CASE Finish(p)
  <2>1. blind' = blind
    BY <1>5 DEF Finish
  <2>2. QED
    BY <1>0, <1>5, <2>1, FinishEffect, CommitGrows
<1>6. CASE Starve(p)
  BY <1>6, StarveEffect, SameGrows
<1>7. CASE NotTradingDay(p)
  BY <1>0, <1>7, NotTradingDayEffect, SameGrows
<1>8. QED
  BY <1>1, <1>2, <1>3, <1>4, <1>5, <1>6, <1>7 DEF RunStep

LEMMA KilledGrows ==
    ASSUME IInv, NEW p \in Runners, IsKilled(p)
    PROVE  DbGrows(p) /\ OnlyRun(p)
<1>1. OnlyRun(p) /\ db' = db /\ (IF lock = p THEN lock' = None /\ work' = None ELSE UNCHANGED dbVars)
  BY KilledEffect DEF IsKilled
<1>2. /\ db \in DbType
      /\ \A s \in Symbols, d \in Days :
            db.full[s][d] >= db.full[s][d] /\ db.rows[s][d] >= db.rows[s][d]
  BY CountIsNat DEF IInv, Typed
<1>3. CASE lock = p
  BY <1>1, <1>2, <1>3 DEF DbGrows
<1>4. CASE lock # p
  BY <1>1, <1>4, SameGrows
<1>5. QED
  BY <1>1, <1>3, <1>4

LEMMA LeavesEffect ==
    ASSUME IInv, NEW p \in Runners, Leaves(p)
    PROVE  /\ OnlyRun(p) /\ run'[p].pc = "idle" /\ run'[p].since = 0 /\ run'[p].rc = None
           /\ lock # p
<1>1. OnlyRun(p) /\ run'[p] = IdleRun
  BY RunFrame, Records DEF Leaves, IInv
<1>2. QED
  BY <1>1 DEF IdleRun, IInv, Writing, Leaves

LEMMA NavStoredGrows ==
    ASSUME IInv, NavStored
    PROVE  /\ DbGrows(None) /\ day \in db'.nav
           /\ db'.full = db.full /\ db'.rows = db.rows
           /\ db'.firms = db.firms /\ db'.ident = db.ident /\ db'.tier = db.tier
<1>1. db \in DbType /\ day \in Days
  BY DEF IInv, Typed
<1>2. /\ db' \in DbType /\ db'.nav = db.nav \cup {day}
      /\ db'.full = db.full /\ db'.rows = db.rows
      /\ db'.firms = db.firms /\ db'.ident = db.ident /\ db'.tier = db.tier
  <2>1. PICK n : n = db.nav \cup {day}
    OBVIOUS
  <2>2. n \in SUBSET Days
    BY <1>1, <2>1 DEF DbType
  <2>3. db' = [db EXCEPT !.nav = n]
    BY <1>1, <2>1 DEF NavStored, DbType
  <2>4. QED
    BY <1>1, <2>1, <2>2, <2>3 DEF DbType
<1>3. \A s \in Symbols, d \in Days :
         db.full[s][d] >= db.full[s][d] /\ db.rows[s][d] >= db.rows[s][d]
  BY <1>1, CountIsNat
<1>4. QED
  BY <1>2, <1>3 DEF DbGrows, NavStored

LEMMA Grows ==
    ASSUME IInv, [Next]_vars
    PROVE  /\ \E p : DbGrows(p)
           /\ run' \in [Runners -> RunType] /\ blind' \subseteq Turnover /\ overlapped' \subseteq Days
<1>0. run \in [Runners -> RunType] /\ blind \subseteq Turnover /\ overlapped \subseteq Days
  BY DEF IInv, Typed
<1>1. ASSUME NEW p \in Runners, RunStep(p)
      PROVE  DbGrows(p) /\ OnlyRun(p) /\ blind' \subseteq Turnover /\ overlapped' = overlapped
  BY <1>1, RunStepGrows, RunStepFrame
<1>2. ASSUME NEW p \in Runners, Begins(p)
      PROVE  DbGrows(p) /\ OnlyRun(p) /\ blind' = blind /\ overlapped' \subseteq Days
  BY <1>2, BeginEffect, SameGrows DEF Begins
<1>3. ASSUME NEW p \in Runners, Leaves(p)
      PROVE  DbGrows(p) /\ OnlyRun(p) /\ blind' = blind /\ overlapped' = overlapped
  BY <1>3, LeavesEffect, SameGrows DEF Leaves
<1>4. ASSUME NEW p \in Runners, IsKilled(p)
      PROVE  DbGrows(p) /\ OnlyRun(p) /\ blind' = blind /\ overlapped' = overlapped
  BY <1>4, KilledGrows DEF IsKilled
<1>5. CASE NavStored
  BY <1>0, <1>5, NavStoredGrows DEF NavStored
<1>6. CASE NextDay \/ Quiet
  BY <1>0, <1>6, SameGrows DEF NextDay, Quiet
<1>7. QED
  BY <1>0, <1>1, <1>2, <1>3, <1>4, <1>5, <1>6, Kinds DEF OnlyRun

-----------------------------------------------------------------------------
(* The parts of the invariant, step by step. *)

\* The results of a run of the scheduler.
ResultType == UNION {[js -> Codes] : js \in SUBSET Jobs}

LEMMA ResultOf ==
    ASSUME NEW f \in ResultType
    PROVE  DOMAIN f \in SUBSET Jobs /\ f \in [DOMAIN f -> Codes]
BY DEF ResultType

\* g has what f has, and failures for bad.
WithFailed(g, f, bad) ==
    /\ g \in ResultType /\ DOMAIN g = DOMAIN f \cup bad
    /\ \A j \in DOMAIN g : g[j] = "ok" => j \in DOMAIN f /\ f[j] = "ok"

LEMMA SpawnFailedTyped ==
    ASSUME NEW f \in ResultType, NEW bad \in SUBSET Jobs
    PROVE  WithFailed(SpawnFailed(f, bad), f, bad)
<1>0. PICK g : g = SpawnFailed(f, bad)
  OBVIOUS
<1>1. DOMAIN f \in SUBSET Jobs /\ f \in [DOMAIN f -> Codes]
  BY ResultOf
<1>2. g \in [DOMAIN f \cup bad -> Codes] /\ DOMAIN f \cup bad \in SUBSET Jobs
  BY <1>0, <1>1 DEF SpawnFailed, Codes
<1>3. \A j \in DOMAIN g : g[j] = "ok" => j \in DOMAIN f /\ f[j] = "ok"
  BY <1>0 DEF SpawnFailed
<1>4. WithFailed(g, f, bad)
  BY <1>2, <1>3 DEF ResultType, WithFailed
<1>5. QED
  BY <1>0, <1>4

\* g has what f has, but the result rc for j.
WithResult(g, f, j, rc) ==
    /\ g \in ResultType /\ DOMAIN g = DOMAIN f \cup {j}
    /\ \A i \in DOMAIN g : g[i] = IF i = j THEN rc ELSE f[i]

LEMMA ReportedTyped ==
    ASSUME NEW f \in ResultType, NEW j \in Jobs, NEW rc \in Codes
    PROVE  WithResult(Reported(f, j, rc), f, j, rc)
<1>0. PICK g : g = Reported(f, j, rc)
  OBVIOUS
<1>1. DOMAIN f \in SUBSET Jobs /\ f \in [DOMAIN f -> Codes]
  BY ResultOf
<1>2. g \in [DOMAIN f \cup {j} -> Codes] /\ DOMAIN f \cup {j} \in SUBSET Jobs
  BY <1>0, <1>1 DEF Reported
<1>3. \A i \in DOMAIN g : g[i] = IF i = j THEN rc ELSE f[i]
  BY <1>0 DEF Reported
<1>4. WithResult(g, f, j, rc)
  BY <1>2, <1>3 DEF ResultType, WithResult
<1>5. QED
  BY <1>0, <1>4

\* The scheduler's step as a record: what becomes of each field.
LEMMA NoSyncTyped ==
    NoSync \in SyncType /\ NoSync.results = NoResults /\ DOMAIN NoResults = {}
<1>1. NoResults \in ResultType /\ DOMAIN NoResults = {}
  <2>1. NoResults \in [{} -> Codes] /\ {} \in SUBSET Jobs
    BY DEF NoResults
  <2>2. QED
    BY <2>1 DEF ResultType, NoResults
<1>2. QED
  BY <1>1 DEF NoSync, SyncType, ResultType

LEMMA StartEffect ==
    ASSUME IInv, Start
    PROVE  /\ sync' \in SyncType
           /\ \/ /\ sync'.pc = "dispatch" /\ sync'.started = day
                 /\ sync'.waiting = sync'.jobs /\ DOMAIN sync'.results = {}
                 /\ last' = last
              \/ sync' = sync /\ last' = NoLast
<1>1. ASSUME NEW jobs \in SUBSET Jobs, last' = last,
             sync' = [NoSync EXCEPT !.pc = "dispatch", !.started = day, !.pass = 1,
                                    !.jobs = jobs, !.waiting = jobs]
      PROVE  /\ sync' \in SyncType
             /\ sync'.pc = "dispatch" /\ sync'.started = day
             /\ sync'.waiting = sync'.jobs /\ DOMAIN sync'.results = {}
  <2>1. /\ sync'.pc = "dispatch" /\ sync'.started = day
        /\ sync'.waiting = sync'.jobs /\ sync'.results = NoResults
    BY <1>1 DEF NoSync
  <2>2. sync' \in SyncType
    BY <1>1, NoSyncTyped DEF SyncType, IInv, Typed
  <2>3. QED
    BY <2>1, <2>2, NoSyncTyped
<1>2. CASE sync' = sync /\ last' = NoLast
  BY <1>2 DEF IInv, Typed
<1>3. QED
  BY <1>1, <1>2 DEF Start

LEMMA DispatchEffect ==
    ASSUME IInv, Dispatch
    PROVE  /\ sync' \in SyncType /\ sync'.pc = "wait" /\ sync'.started = sync.started
           /\ sync.pc = "dispatch" /\ sync'.jobs = sync.jobs
           /\ DOMAIN sync'.results \cup sync'.waiting = DOMAIN sync.results \cup sync.waiting
           /\ \A j \in DOMAIN sync'.results :
                 sync'.results[j] = "ok" => j \in DOMAIN sync.results /\ sync.results[j] = "ok"
           /\ acct' \in [pc : {"idle", "fetch", "write", "done"}, rc : Codes]
           /\ "accounts" \in sync'.waiting => acct'.rc = None
           /\ "market-data" \in sync'.waiting =>
                 sync'.slot \in Runners /\ run'[sync'.slot].rc = None
<1>1. PICK bad \in SUBSET sync.waiting :
        LET good == sync.waiting \ bad
            results == SpawnFailed(sync.results, bad)
            p == IF "market-data" \in good THEN Slot ELSE None
        IN  /\ "market-data" \in good => Vacant # {}
            /\ sync' = [sync EXCEPT !.pc = "wait", !.slot = p, !.results = results, !.waiting = good]
            /\ IF p = None THEN UNCHANGED <<run, overlapped>> ELSE Begin(p)
            /\ acct' = IF "accounts" \in good THEN [pc |-> "fetch", rc |-> None] ELSE acct
  BY DEF Dispatch
<1>2. PICK good : good = sync.waiting \ bad
  OBVIOUS
<1>3. PICK f : f = SpawnFailed(sync.results, bad)
  OBVIOUS
<1>4. PICK p : p = IF "market-data" \in good THEN Slot ELSE None
  OBVIOUS
<1>5. /\ sync \in SyncType /\ sync.results \in ResultType /\ sync.waiting \in SUBSET Jobs
      /\ bad \in SUBSET Jobs /\ good \in SUBSET Jobs
  BY <1>2 DEF IInv, Typed, SyncType, ResultType
<1>6. /\ f \in ResultType /\ DOMAIN f = DOMAIN sync.results \cup bad
      /\ \A j \in DOMAIN f : f[j] = "ok" => j \in DOMAIN sync.results /\ sync.results[j] = "ok"
  <2>1. WithFailed(f, sync.results, bad)
    BY <1>3, <1>5, SpawnFailedTyped
  <2>2. QED
    BY <2>1 DEF WithFailed
<1>7. /\ p \in Runners \cup {None}
      /\ "market-data" \in good => p \in Runners /\ run[p].pc = "idle" /\ Begin(p)
  BY <1>1, <1>2, <1>4, SlotIsVacant, UpdateAssumption
<1>8. sync' = [sync EXCEPT !.pc = "wait", !.slot = p, !.results = f, !.waiting = good]
  BY <1>1, <1>2, <1>3, <1>4
<1>9. /\ sync' \in SyncType /\ sync'.pc = "wait" /\ sync'.started = sync.started
      /\ sync'.slot = p /\ sync'.results = f /\ sync'.waiting = good /\ sync'.jobs = sync.jobs
  BY <1>5, <1>6, <1>7, <1>8 DEF SyncType, ResultType
<1>10. "market-data" \in good => run'[p].rc = None
  BY <1>7, BeginEffect
<1>11. /\ acct' \in [pc : {"idle", "fetch", "write", "done"}, rc : Codes]
       /\ "accounts" \in good => acct'.rc = None
  BY <1>1, <1>2 DEF IInv, Typed, Codes
<1>12. DOMAIN f \cup good = DOMAIN sync.results \cup sync.waiting
  BY <1>2, <1>6
<1>13. QED
  BY <1>6, <1>7, <1>9, <1>10, <1>11, <1>12 DEF Dispatch

LEMMA CollectEffect ==
    ASSUME IInv, Collect
    PROVE  LET j == Turn(sync.waiting)
           IN  /\ sync' \in SyncType /\ sync'.pc = "wait" /\ sync'.started = sync.started
               /\ sync'.jobs = sync.jobs
               /\ sync.pc = "wait" /\ j \in sync.waiting
               /\ sync'.waiting = sync.waiting \ {j}
               /\ DOMAIN sync'.results = DOMAIN sync.results \cup {j}
               /\ sync'.results[j] \in Code(j)
               /\ \A i \in DOMAIN sync'.results : i # j => sync'.results[i] = sync.results[i]
               /\ acct' \in [pc : {"idle", "fetch", "write", "done"}, rc : Codes]
               /\ j # "accounts" => acct' = acct
               /\ "market-data" \notin sync'.waiting
<1>1. PICK j : j = Turn(sync.waiting)
  OBVIOUS
<1>2. PICK sl : sl = IF j = "market-data" THEN None ELSE sync.slot
  OBVIOUS
<1>3. PICK rc \in Code(j) :
        sync' = [sync EXCEPT !.waiting = @ \ {j}, !.results = Reported(@, j, rc),
                             !.slot = IF j = "market-data" THEN None ELSE @]
  BY <1>1 DEF Collect
<1>4. PICK f : f = Reported(sync.results, j, rc)
  OBVIOUS
<1>5. sync \in SyncType /\ sync.results \in ResultType /\ sync.waiting \in SUBSET Jobs
  BY DEF IInv, Typed, SyncType, ResultType
<1>6. /\ sync.pc = "wait" /\ sync.waiting # {}
      /\ sync' = [sync EXCEPT !.waiting = @ \ {j}, !.results = f, !.slot = sl]
      /\ acct' = IF j = "accounts" THEN IdleAcct ELSE acct
  BY <1>1, <1>2, <1>3, <1>4, <1>5 DEF Collect, SyncType
<1>7. j \in sync.waiting /\ j \in Jobs /\ "market-data" \notin sync.waiting \ {j}
  BY <1>1, <1>5, <1>6 DEF Turn, Jobs
<1>8. rc \in Codes
  <2>1. CASE j = "accounts"
    BY <1>3, <2>1 DEF Code, IInv, Typed
  <2>2. CASE j = "market-data"
    <3>1. sync.slot \in Runners
      BY <1>6, <1>7, <2>2 DEF IInv, Reporting, Awaited
    <3>2. QED
      BY <1>3, <2>2, <3>1 DEF Code, IInv, Typed, RunType
  <2>3. CASE j = "indices"
    BY <1>3, <2>3 DEF Code, Codes
  <2>4. QED
    BY <1>7, <2>1, <2>2, <2>3 DEF Jobs
<1>9. /\ f \in ResultType /\ DOMAIN f = DOMAIN sync.results \cup {j}
      /\ \A i \in DOMAIN f : f[i] = IF i = j THEN rc ELSE sync.results[i]
  <2>1. WithResult(f, sync.results, j, rc)
    BY <1>4, <1>5, <1>7, <1>8, ReportedTyped
  <2>2. QED
    BY <2>1 DEF WithResult
<1>10. sl \in Runners \cup {None}
  BY <1>2, <1>5 DEF SyncType
<1>11. /\ sync' \in SyncType /\ sync'.pc = "wait" /\ sync'.started = sync.started
       /\ sync'.jobs = sync.jobs
       /\ sync'.waiting = sync.waiting \ {j} /\ sync'.results = f
  BY <1>5, <1>6, <1>9, <1>10 DEF SyncType, ResultType
<1>12. acct' \in [pc : {"idle", "fetch", "write", "done"}, rc : Codes]
  BY <1>6 DEF IInv, Typed, IdleAcct, Codes
<1>13. QED
  BY <1>1, <1>3, <1>6, <1>7, <1>9, <1>11, <1>12

\* The other steps that set the scheduler's variables.
LEMMA RetryEffect ==
    ASSUME IInv, Retry
    PROVE  /\ sync' \in SyncType /\ sync'.started = sync.started /\ sync'.jobs = sync.jobs
           /\ sync'.results = sync.results
           /\ sync.pc = "wait" /\ sync.waiting = {}
           /\ sync'.pc \in {"dispatch", "wait"}
           /\ sync'.waiting \subseteq DOMAIN sync.results
           /\ sync'.pc = "wait" => sync'.waiting = {}
<1>1. sync \in SyncType /\ sync.results \in ResultType
  BY DEF IInv, Typed, SyncType, ResultType
<1>2. AuthFailed \subseteq DOMAIN sync.results /\ AuthFailed \in SUBSET Jobs
  BY <1>1, ResultOf DEF AuthFailed
<1>3. sync.pc = "wait" /\ sync.waiting = {}
  BY DEF Retry
<1>4. CASE sync' = [sync EXCEPT !.pc = "dispatch", !.pass = 2, !.waiting = AuthFailed]
  BY <1>1, <1>2, <1>3, <1>4 DEF SyncType
<1>5. CASE sync' = [sync EXCEPT !.pass = 2]
  BY <1>1, <1>3, <1>5 DEF SyncType
<1>6. QED
  BY <1>4, <1>5 DEF Retry

LEMMA NoLastTyped == NoLast \in LastType /\ ~NoLast.ok
  BY DEF NoLast, LastType

LEMMA TypedStep ==
    ASSUME IInv, [Next]_vars
    PROVE  Typed'
<1>1. /\ db' \in DbType /\ lock' \in Runners \cup {None}
      /\ work' \in IF lock' = None THEN {None} ELSE DbType
      /\ run' \in [Runners -> RunType] /\ blind' \subseteq Turnover /\ overlapped' \subseteq Days
  BY Grows DEF DbGrows
<1>2. /\ day \in Days /\ session \in {"alive", "dead"} /\ company \in [Symbols -> Companies]
      /\ acct \in [pc : {"idle", "fetch", "write", "done"}, rc : Codes]
      /\ sync \in SyncType /\ last \in LastType
  BY DEF IInv, Typed
<1> DEFINE Rest == /\ day' \in Days /\ session' \in {"alive", "dead"}
                   /\ company' \in [Symbols -> Companies]
                   /\ acct' \in [pc : {"idle", "fetch", "write", "done"}, rc : Codes]
                   /\ sync' \in SyncType /\ last' \in LastType
<1> SUFFICES Rest
  BY <1>1 DEF Typed
<1>3. ASSUME NEW p \in Runners, RunStep(p), UNCHANGED syncVars
      PROVE  Rest
  BY <1>2, <1>3, RunStepFrame DEF syncVars
<1>4. CASE AcctStep /\ UNCHANGED syncVars
  <2>1. /\ {"ok", "error", "auth", "killed"} \subseteq Codes
        /\ acct'.pc \in {"write", "done"} => TRUE
    BY DEF Codes
  <2>2. acct' \in [pc : {"idle", "fetch", "write", "done"}, rc : Codes]
    <3>1. CASE FetchAccounts
      BY <1>2, <2>1, <3>1 DEF FetchAccounts, StoreNav
    <3>2. CASE WriteNav
      BY <1>2, <2>1, <3>2 DEF WriteNav, StoreNav
    <3>3. CASE StarveAccounts
      BY <1>2, <2>1, <3>3 DEF StarveAccounts
    <3>4. QED
      BY <1>4, <3>1, <3>2, <3>3 DEF AcctStep
  <2>3. UNCHANGED worldVars
    BY <1>4 DEF AcctStep, FetchAccounts, WriteNav, StarveAccounts
  <2>4. QED
    BY <1>2, <1>4, <2>2, <2>3 DEF syncVars, worldVars
<1>5. CASE NextDay /\ UNCHANGED syncVars
  <2>1. day' \in Days
    BY <1>2, <1>5, UpdateAssumption DEF NextDay, Days
  <2>2. company' \in [Symbols -> Companies]
    <3>1. PICK c \in {company} \cup {[company EXCEPT ![s] = c] : s \in Turnover, c \in Companies} :
            company' = c
      BY <1>5 DEF NextDay
    <3>2. QED
      BY <1>2, <3>1
  <2>3. QED
    BY <1>2, <1>5, <2>1, <2>2 DEF NextDay, syncVars
<1>6. CASE SessionDies /\ UNCHANGED syncVars
  BY <1>2, <1>6 DEF SessionDies, syncVars
<1>7. CASE Start
  <2>1. sync' \in SyncType /\ last' \in LastType
    BY <1>2, <1>7, StartEffect, NoLastTyped
  <2>2. session' \in {"alive", "dead"}
    BY <1>2, <1>7 DEF Start, LoginIfDue
  <2>3. QED
    BY <1>2, <1>7, <2>1, <2>2 DEF Start
<1>8. CASE Dispatch
  BY <1>2, <1>8, DispatchEffect DEF Dispatch, worldVars
<1>9. CASE Collect
  BY <1>2, <1>9, CollectEffect DEF Collect, worldVars
<1>10. CASE TimeOut
  <2>1. acct' \in [pc : {"idle", "fetch", "write", "done"}, rc : Codes]
    BY <1>2, <1>10 DEF TimeOut, Codes
  <2>2. QED
    BY <1>2, <1>10, <2>1 DEF TimeOut, worldVars, syncVars
<1>11. CASE Retry
  BY <1>2, <1>11, RetryEffect DEF Retry
<1>12. CASE Finished
  <2>1. last' \in LastType
    <3>1. sync.started \in {0} \cup Days /\ sync.jobs \in SUBSET Jobs
      BY <1>2 DEF SyncType
    <3>2. [ok |-> TRUE, started |-> sync.started, finished |-> day, jobs |-> sync.jobs] \in LastType
      BY <1>2, <3>1 DEF LastType
    <3>3. QED
      BY <1>2, <1>12, <3>2, NoLastTyped DEF Finished
  <2>2. QED
    BY <1>2, <1>12, <2>1, NoSyncTyped DEF Finished, worldVars
<1>13. CASE Die
  BY <1>2, <1>13, NoSyncTyped DEF Die, worldVars
<1>14. CASE Manual
  BY <1>2, <1>14 DEF Manual, worldVars
<1>15. CASE ExitAccounts
  BY <1>2, <1>15 DEF ExitAccounts, worldVars, syncVars, IdleAcct, Codes
<1>16. ASSUME NEW p \in Runners, Exit(p)
       PROVE  Rest
  BY <1>2, <1>16 DEF Exit, worldVars, syncVars
<1>17. CASE UNCHANGED vars
  BY <1>2, <1>17 DEF vars, updateVars, worldVars, syncVars
<1>18. QED
  BY <1>3, <1>4, <1>5, <1>6, <1>7, <1>8, <1>9, <1>10, <1>11, <1>12, <1>13, <1>14, <1>15, <1>16,
     <1>17 DEF Next, SchedulerStep, WorldStep

LEMMA TodayStep ==
    ASSUME IInv, [Next]_vars
    PROVE  Today'
<1>1. /\ Typed /\ Typed'
      /\ \A p \in Runners : Active(p) => run[p].today = day
      /\ \A p, q \in Runners : p # q /\ Active(p) /\ Active(q) => day \in overlapped
  BY TypedStep DEF IInv, Today
<1>2. ASSUME NEW p \in Runners, OnlyRun(p), day' = day, overlapped' = overlapped,
             Active(p)' => Active(p) /\ run'[p].today = run[p].today
      PROVE  Today'
  BY <1>1, <1>2 DEF OnlyRun, Today, Active
<1>3. ASSUME NEW p \in Runners, RunStep(p)
      PROVE  Today'
  <2>1. OnlyRun(p) /\ day' = day /\ overlapped' = overlapped
    BY <1>3, RunStepGrows, RunStepFrame
  <2>2. CASE run'[p].pc = "done"
    BY <1>2, <2>1, <2>2 DEF Active
  <2>3. CASE run'[p].pc # "done"
    <3>1. CASE Prepare(p)
      BY <1>2, <2>1, <3>1, PrepareEffect DEF Prepare, Active
    <3>2. CASE Guard(p)
      BY <1>2, <2>1, <3>2, GuardEffect DEF Remembers, Active
    <3>3. CASE Fetch(p)
      BY <1>2, <2>1, <3>3, FetchEffect DEF Remembers, Recording, Active
    <3>4. CASE RecordLate(p)
      BY <1>2, <2>1, <3>4, RecordEffect DEF RecordLate, Remembers, Recording, Active
    <3>5. CASE Starve(p)
      BY <1>2, <2>1, <2>3, <3>5, StarveEffect DEF Remembers, Active
    <3>6. QED
      BY <1>3, <2>3, <3>1, <3>2, <3>3, <3>4, <3>5, FinishEffect, NotTradingDayEffect DEF RunStep
  <2>4. QED
    BY <2>2, <2>3
<1>4. ASSUME NEW p \in Runners, Begins(p)
      PROVE  Today'
  <2>1. OnlyRun(p) /\ day' = day /\ run'[p].today = day /\ overlapped \subseteq overlapped'
    BY <1>4, BeginEffect DEF Begins
  <2>2. \A q \in Runners \ {p} : Active(q) => day \in overlapped'
    BY <1>4, BeginEffect DEF Begins
  <2>3. \A q \in Runners \ {p} : run'[q] = run[q]
    BY <2>1 DEF OnlyRun
  <2>4. QED
    BY <1>1, <2>1, <2>2, <2>3 DEF Today, Active
<1>5. ASSUME NEW p \in Runners, Leaves(p)
      PROVE  Today'
  BY <1>2, <1>5, LeavesEffect DEF Leaves, Active
<1>6. ASSUME NEW p \in Runners, IsKilled(p)
      PROVE  Today'
  BY <1>2, <1>6, KilledEffect DEF IsKilled, Active
<1>7. CASE NextDay
  BY <1>7 DEF NextDay, Today, Active
<1>8. CASE NavStored \/ Quiet
  BY <1>1, <1>8 DEF NavStored, Quiet, Today, Active
<1>9. QED
  BY <1>3, <1>4, <1>5, <1>6, <1>7, <1>8, Kinds

\* The symbols a version has samples of that the committed database does not.
Ahead(d) == {s \in Symbols : d.rows[s] # db.rows[s]}

LEMMA AheadFinite ==
    ASSUME NEW d
    PROVE  IsFiniteSet(Ahead(d))
<1>1. IsFiniteSet(Symbols)
  BY UpdateAssumption, FS_Interval DEF Symbols
<1>2. Ahead(d) \in SUBSET Symbols
  BY DEF Ahead
<1>3. QED
  BY <1>1, <1>2, FS_Subset

\* What the samples of a run are, whether it holds the transaction or not.
LEMMA AheadOfView ==
    ASSUME IInv, NEW p \in Runners, Free(p)
    PROVE  /\ Ahead(View(p)) \cap run[p].todo = {}
           /\ Cardinality(Ahead(View(p))) = run[p].since /\ run[p].since < Batch
<1>1. CASE lock = p
  BY <1>1, UpdateAssumption DEF IInv, Writing, View, Ahead, Unsaved
<1>2. CASE lock # p
  <2>1. Ahead(View(p)) = {}
    BY <1>2 DEF View, Ahead
  <2>2. QED
    BY <1>2, <2>1, FS_EmptySet DEF IInv, Writing
<1>3. QED
  BY <1>1, <1>2

\* The part of Writing about one run.
Counts(p) ==
    /\ run[p].since < Batch
    /\ lock # p => run[p].since = 0
    /\ lock = p => run[p].pc \in {"guard", "fetch"}

\* The part of Writing about the open transaction.
Adds ==
    /\ work.nav = db.nav
    /\ \A s \in Symbols, d \in Days :
          work.full[s][d] >= db.full[s][d] /\ work.rows[s][d] >= db.rows[s][d]
    /\ Unsaved \cap run[lock].todo = {}
    /\ Cardinality(Unsaved) = run[lock].since

LEMMA WritingParts == Writing <=> (\A p \in Runners : Counts(p)) /\ (lock # None => Adds)
  BY DEF Writing, Counts, Adds

\* A transaction is held over a step of its owner that samples nothing.
LEMMA AddsKept ==
    ASSUME IInv, NEW p \in Runners, Free(p), lock' = p, db' = db,
           work'.full = View(p).full, work'.rows = View(p).rows, work'.nav = View(p).nav,
           run'[p].todo \subseteq run[p].todo, run'[p].since = run[p].since
    PROVE  Adds'
<1>1. Unsaved' = Ahead(View(p))
  BY DEF Unsaved, Ahead
<1>2. Ahead(View(p)) \cap run'[p].todo = {} /\ Cardinality(Ahead(View(p))) = run'[p].since
  BY AheadOfView
<1>3. /\ View(p).nav = db.nav
      /\ \A s \in Symbols, d \in Days :
            View(p).full[s][d] >= db.full[s][d] /\ View(p).rows[s][d] >= db.rows[s][d]
  BY ViewFacts
<1>4. QED
  BY <1>1, <1>2, <1>3 DEF Adds

LEMMA AddsSample ==
    ASSUME IInv, NEW p \in Runners, Recording(p), DbGrows(p), lock' = p
    PROVE  Adds' /\ run'[p].since < Batch
<1> DEFINE s == Min(run[p].todo)
<1>1. PICK m \in DbType :
              /\ m.nav = View(p).nav
              /\ \A t \in Symbols : t # s => m.full[t] = View(p).full[t] /\ m.rows[t] = View(p).rows[t]
              /\ \A x \in Days :
                    /\ m.rows[s][x] = IF x = day THEN View(p).rows[s][x] + 1 ELSE View(p).rows[s][x]
                    /\ \/ m.full[s][x] = View(p).full[s][x]
                       \/ x = day /\ m.full[s][x] = View(p).full[s][x] + 1
              /\ db' = db /\ work' = m
              /\ run'[p].since = run[p].since + 1 /\ run'[p].since < Batch
  BY UpdateAssumption DEF Recording
<1>2. Free(p) /\ s \in Symbols /\ s \in run[p].todo /\ run'[p].todo = run[p].todo \ {s}
  BY DEF Recording
<1>3. /\ View(p) \in DbType /\ View(p).nav = db.nav
      /\ \A t \in Symbols, d \in Days :
            View(p).full[t][d] >= db.full[t][d] /\ View(p).rows[t][d] >= db.rows[t][d]
  BY ViewFacts
<1>4. day \in Days /\ db \in DbType
  BY DEF IInv, Typed
<1> HIDE DEF s
<1>5. s \notin Ahead(View(p))
  BY <1>2, AheadOfView
<1>6. m.rows[s][day] = db.rows[s][day] + 1 /\ db.rows[s][day] \in Nat
  BY <1>1, <1>2, <1>4, <1>5, CountIsNat DEF Ahead
<1>7. Unsaved' = Ahead(View(p)) \cup {s}
  BY <1>1, <1>2, <1>6 DEF Unsaved, Ahead
<1>8. Cardinality(Unsaved') = run[p].since + 1
  <2>1. PICK A : A = Ahead(View(p))
    OBVIOUS
  <2>2. IsFiniteSet(A) /\ s \notin A /\ Cardinality(A) = run[p].since
    BY <1>2, <1>5, <2>1, AheadFinite, AheadOfView
  <2>3. Cardinality(A \cup {s}) = Cardinality(A) + 1
    BY <2>2, FS_AddElement
  <2>4. QED
    BY <1>7, <2>1, <2>2, <2>3
<1>9. Unsaved' \cap run'[p].todo = {}
  BY <1>2, <1>7, AheadOfView
<1>10. \A t \in Symbols, d \in Days :
          m.full[t][d] >= db.full[t][d] /\ m.rows[t][d] >= db.rows[t][d]
  <2>1. ASSUME NEW t \in Symbols, NEW d \in Days
        PROVE  m.full[t][d] >= db.full[t][d] /\ m.rows[t][d] >= db.rows[t][d]
    <3>1. /\ View(p).full[t][d] \in Nat /\ db.full[t][d] \in Nat /\ View(p).full[t][d] >= db.full[t][d]
          /\ View(p).rows[t][d] \in Nat /\ db.rows[t][d] \in Nat /\ View(p).rows[t][d] >= db.rows[t][d]
      BY <1>3, <1>4, CountIsNat
    <3>2. /\ m.full[t][d] = View(p).full[t][d] \/ m.full[t][d] = View(p).full[t][d] + 1
          /\ m.rows[t][d] = View(p).rows[t][d] \/ m.rows[t][d] = View(p).rows[t][d] + 1
      BY <1>1
    <3>3. QED
      BY <3>1, <3>2
  <2>2. QED
    BY <2>1
<1>11. QED
  BY <1>1, <1>3, <1>8, <1>9, <1>10 DEF Adds

\* The transaction of another process is as it was.
LEMMA AddsForeign ==
    ASSUME IInv, NEW p \in Runners, OnlyRun(p), DbGrows(p), lock' # p, lock' # None,
           db'.full = db.full, db'.rows = db.rows, db'.nav = db.nav
    PROVE  Adds' /\ lock' = lock /\ work' = work
<1>1. lock' = lock /\ lock \in Runners \ {p} /\ work' = work
  BY DEF DbGrows, IInv, Typed
<1>2. run'[lock] = run[lock]
  BY <1>1 DEF OnlyRun
<1>3. Adds
  BY <1>1, UpdateAssumption, WritingParts DEF IInv
<1>4. Unsaved' = Unsaved
  BY <1>1 DEF Unsaved
<1>5. QED
  BY <1>1, <1>2, <1>3, <1>4 DEF Adds

LEMMA WritingStep ==
    ASSUME IInv, [Next]_vars
    PROVE  Writing'
<1>1. Typed /\ Typed' /\ \A p \in Runners : Counts(p)
  BY TypedStep, WritingParts DEF IInv
<1>2. lock # None => Adds
  BY WritingParts DEF IInv
<1>3. \A p \in Runners : p # None
  BY UpdateAssumption
\* The runs of the other processes count as before.
<1>4. ASSUME NEW p \in Runners, OnlyRun(p), DbGrows(p), Counts(p)', lock' # None => Adds'
      PROVE  Writing'
  <2>1. ASSUME NEW q \in Runners, q # p
        PROVE  Counts(q)'
    <3>1. run'[q] = run[q] /\ (lock' = q <=> lock = q)
      BY <1>3, <1>4, <2>1 DEF OnlyRun, DbGrows
    <3>2. QED
      BY <1>1, <3>1 DEF Counts
  <2>2. QED
    BY <1>4, <2>1 DEF Writing, Counts, Adds
<1>5. ASSUME NEW p \in Runners, OnlyRun(p), DbGrows(p), lock' # p, run'[p].since = 0,
             db'.full = db.full, db'.rows = db.rows, db'.nav = db.nav
      PROVE  Writing'
  <2>1. Counts(p)'
    BY <1>5, UpdateAssumption DEF Counts
  <2>2. lock' # None => Adds'
    BY <1>5, AddsForeign
  <2>3. QED
    BY <1>4, <1>5, <2>1, <2>2
<1>6. ASSUME NEW p \in Runners, RunStep(p)
      PROVE  Writing'
  <2>1. OnlyRun(p) /\ DbGrows(p)
    BY <1>6, RunStepGrows
  <2>2. run[p].since < Batch /\ (lock # p => run[p].since = 0)
    BY <1>1 DEF Counts
  <2>3. CASE Prepare(p)
    BY <1>5, <2>1, <2>2, <2>3, PrepareEffect
  <2>4. CASE Guard(p)
    <3>1. /\ Free(p) /\ lock' = p /\ db' = db /\ run'[p].since = run[p].since
          /\ work'.full = View(p).full /\ work'.rows = View(p).rows
          /\ work'.nav = View(p).nav
          /\ run'[p].todo \subseteq run[p].todo /\ run'[p].pc \in {"guard", "fetch"}
      BY <2>4, GuardEffect DEF Dropped, Passed
    <3>2. Adds'
      BY <3>1, AddsKept
    <3>3. Counts(p)'
      BY <2>2, <3>1 DEF Counts
    <3>4. QED
      BY <1>4, <2>1, <3>2, <3>3
  <2>5. ASSUME Recording(p)
        PROVE  Writing'
    <3>1. CASE lock' = p
      BY <1>4, <2>1, <2>5, <3>1, AddsSample DEF Counts, Recording
    <3>2. CASE lock' = None
      <4>1. run'[p].since = 0
        BY <1>3, <2>5, <3>2 DEF Recording
      <4>2. Counts(p)'
        BY <1>3, <3>2, <4>1, UpdateAssumption DEF Counts
      <4>3. QED
        BY <1>4, <2>1, <3>2, <4>2
    <3>3. QED
      BY <2>5, <3>1, <3>2 DEF Recording
  <2>6. CASE Fetch(p)
    <3>1. CASE Recording(p)
      BY <2>5, <3>1
    <3>2. CASE /\ UNCHANGED dbVars /\ run'[p].since = run[p].since
               /\ run'[p].todo \subseteq run[p].todo
               /\ run'[p].pc = "guard" \/ lock # p
      <4>1. lock' = lock /\ work' = work /\ db' = db
        BY <3>2 DEF dbVars
      <4>2. CASE lock = p
        <5>1. Free(p) /\ View(p) = work
          BY <4>2 DEF Free, View
        <5>2. Adds'
          BY <3>2, <4>1, <4>2, <5>1, AddsKept
        <5>3. Counts(p)'
          BY <2>2, <3>2, <4>1, <4>2 DEF Counts
        <5>4. QED
          BY <1>4, <2>1, <5>2, <5>3
      <4>3. CASE lock # p
        BY <1>5, <2>1, <2>2, <3>2, <4>1, <4>3
      <4>4. QED
        BY <4>2, <4>3
    <3>3. QED
      BY <2>6, <3>1, <3>2, FetchEffect DEF Dropped
  <2>7. CASE RecordLate(p)
    BY <2>5, <2>7, RecordEffect DEF RecordLate
  <2>8. CASE Finish(p)
    <3>1. CASE lock = p
      BY <1>3, <1>4, <2>1, <2>8, <3>1, FinishEffect, UpdateAssumption DEF Counts
    <3>2. CASE lock # p
      BY <1>5, <2>1, <2>8, <3>2, FinishEffect DEF dbVars
    <3>3. QED
      BY <3>1, <3>2
  <2>9. CASE Starve(p)
    BY <1>5, <2>1, <2>2, <2>9, StarveEffect DEF dbVars
  <2>10. CASE NotTradingDay(p)
    BY <1>5, <2>1, <2>10, NotTradingDayEffect DEF dbVars
  <2>11. QED
    BY <1>6, <2>3, <2>4, <2>6, <2>7, <2>8, <2>9, <2>10 DEF RunStep
<1>7. ASSUME NEW p \in Runners, Begins(p)
      PROVE  Writing'
  BY <1>5, <1>7, BeginEffect, SameGrows DEF Begins, dbVars
<1>8. ASSUME NEW p \in Runners, Leaves(p)
      PROVE  Writing'
  BY <1>5, <1>8, LeavesEffect, SameGrows DEF Leaves, dbVars
<1>9. ASSUME NEW p \in Runners, IsKilled(p)
      PROVE  Writing'
  <2>1. lock' # p
    BY <1>3, <1>9, KilledEffect DEF IsKilled, dbVars
  <2>2. QED
    BY <1>5, <1>9, <2>1, KilledEffect, KilledGrows DEF IsKilled
<1>10. CASE NavStored
  BY <1>1, <1>10, WritingParts DEF NavStored, Counts, Writing
<1>11. CASE NextDay \/ Quiet
  <2>1. UNCHANGED <<db, work, lock, run>>
    BY <1>11 DEF NextDay, Quiet, dbVars
  <2>2. Unsaved' = Unsaved
    BY <2>1 DEF Unsaved
  <2>3. QED
    BY <2>1, <2>2 DEF IInv, Writing
<1>12. QED
  BY <1>6, <1>7, <1>8, <1>9, <1>10, <1>11, Kinds

\* A version stays sound as overlaps and blind passes are added.
LEMMA SoundMore ==
    ASSUME NEW d, NEW e, NEW o1, NEW o2, NEW b1, NEW b2, SoundAt(d, o1, b1),
           o1 \subseteq o2, b1 \subseteq b2,
           e.full = d.full, e.rows = d.rows, e.firms = d.firms, e.tier = d.tier, e.ident = d.ident
    PROVE  SoundAt(e, o2, b2)
BY DEF SoundAt

\* The guard keeps the version sound: a ticker it did not pass blind has the company's
\* identity, the stored one if there was one.
LEMMA SoundGuard ==
    ASSUME IInv, NEW p \in Runners, Guard(p)
    PROVE  SoundAt(work', overlapped, blind')
<1> DEFINE s == Min(run[p].todo)
<1>1. /\ s \in Symbols /\ work'.full = View(p).full /\ work'.rows = View(p).rows
      /\ work'.firms = View(p).firms
      /\ work'.tier = View(p).tier
      /\ \A t \in Symbols : t # s => work'.ident[t] = View(p).ident[t]
      /\ blind \subseteq blind'
      /\ s \in Turnover \ blind' => View(p).ident[s] = None \/ work'.ident[s] = View(p).ident[s]
  BY GuardEffect
<1>2. SoundAt(View(p), overlapped, blind)
  BY ViewFacts DEF Sound
<1> HIDE DEF s
<1>3. QED
  BY <1>1, <1>2 DEF SoundAt

LEMMA SoundSample ==
    ASSUME IInv, NEW p \in Runners, run[p].pc \in {"fetch", "record"}, Recording(p)
    PROVE  \/ SoundAt(db', overlapped, blind) /\ lock' = None
           \/ SoundAt(work', overlapped, blind) /\ db' = db
<1> DEFINE s == Min(run[p].todo)
<1>1. PICK m \in DbType :
              /\ m.ident = View(p).ident
              /\ \A t \in Symbols : t # s =>
                    /\ m.full[t] = View(p).full[t] /\ m.rows[t] = View(p).rows[t]
                    /\ m.firms[t] = View(p).firms[t] /\ m.tier[t] = View(p).tier[t]
              /\ \A x \in Days :
                    /\ m.rows[s][x] = IF x = day THEN View(p).rows[s][x] + 1 ELSE View(p).rows[s][x]
                    /\ \/ m.full[s][x] = View(p).full[s][x]
                       \/ x = day /\ m.full[s][x] = View(p).full[s][x] + 1
              /\ m.firms[s] = View(p).firms[s] \cup {company[s]}
              /\ m.tier[s] \in {"GRACE", "ACTIVE"}
              /\ (db' = m /\ lock' = None) \/ (work' = m /\ db' = db)
  BY DEF Recording
<1>2. SoundAt(View(p), overlapped, blind) /\ View(p) \in DbType
  BY ViewFacts DEF Sound
<1>3. s \in Symbols /\ s \in run[p].todo \ run[p].recorded
  BY DEF Recording, IInv, Knowing, Cleared
<1>4. /\ day \in overlapped \/ View(p).full[s][day] = 0
      /\ s \in Turnover \ blind => lock = p /\ work.ident[s] = company[s]
  BY <1>3 DEF IInv, Knowing, Knows, Cleared
<1>5. s \notin Turnover => company[s] = Founder
  BY <1>3 DEF IInv, Versions
<1>6. s \in Turnover \ blind => View(p).ident[s] = company[s] /\ company[s] # None
  BY <1>3, <1>4, UpdateAssumption DEF View, IInv, Typed
<1> HIDE DEF s
<1>7. \A x \in Days : m.full[s][x] <= m.rows[s][x] /\ (m.full[s][x] > 1 => x \in overlapped)
  <2>1. ASSUME NEW x \in Days
        PROVE  m.full[s][x] <= m.rows[s][x] /\ (m.full[s][x] > 1 => x \in overlapped)
    <3>1. /\ View(p).full[s][x] \in Nat /\ View(p).rows[s][x] \in Nat
          /\ View(p).full[s][x] <= View(p).rows[s][x]
          /\ View(p).full[s][x] > 1 => x \in overlapped
      BY <1>2, <1>3, CountIsNat DEF SoundAt
    <3>2. CASE x = day
      BY <1>1, <1>4, <3>1, <3>2
    <3>3. CASE x # day
      BY <1>1, <3>1, <3>3
    <3>4. QED
      BY <3>2, <3>3
  <2>2. QED
    BY <2>1
<1>8. /\ s \notin Turnover => m.firms[s] \subseteq {Founder}
      /\ s \in Turnover \ blind => m.firms[s] \subseteq {m.ident[s]} /\ m.ident[s] # None
  BY <1>1, <1>2, <1>3, <1>5, <1>6 DEF SoundAt
<1>9. SoundAt(m, overlapped, blind)
  BY <1>1, <1>2, <1>3, <1>7, <1>8 DEF SoundAt
<1>10. QED
  BY <1>1, <1>9

LEMMA VersionsStep ==
    ASSUME IInv, [Next]_vars
    PROVE  Versions'
<1>1. /\ SoundAt(db, overlapped, blind) /\ (lock # None => SoundAt(work, overlapped, blind))
      /\ \A s \in Symbols \ Turnover : company[s] = Founder
      /\ \A p \in Runners : p # None
  BY UpdateAssumption DEF IInv, Versions, Sound
<1> SUFFICES /\ SoundAt(db', overlapped', blind')
             /\ lock' # None => SoundAt(work', overlapped', blind')
             /\ \A s \in Symbols \ Turnover : company'[s] = Founder
  BY DEF Versions, Sound
\* Steps that add no samples and record no identity.
<1>2. ASSUME NEW p, DbGrows(p), overlapped \subseteq overlapped', blind \subseteq blind', company' = company,
             db'.full = db.full, db'.rows = db.rows, db'.firms = db.firms, db'.ident = db.ident, db'.tier = db.tier,
             lock' # None => lock' = lock /\ work' = work
      PROVE  /\ SoundAt(db', overlapped', blind')
             /\ lock' # None => SoundAt(work', overlapped', blind')
             /\ \A s \in Symbols \ Turnover : company'[s] = Founder
  BY <1>1, <1>2, SoundMore
<1>3. ASSUME NEW p \in Runners, RunStep(p)
      PROVE  /\ SoundAt(db', overlapped', blind')
             /\ lock' # None => SoundAt(work', overlapped', blind')
             /\ \A s \in Symbols \ Turnover : company'[s] = Founder
  <2>1. DbGrows(p) /\ blind \subseteq blind' /\ company' = company /\ overlapped' = overlapped
    BY <1>3, RunStepGrows, RunStepFrame
  <2>2. CASE Prepare(p)
    BY <1>2, <2>1, <2>2, PrepareEffect
  <2>3. CASE Guard(p)
    <3>1. SoundAt(work', overlapped, blind') /\ db' = db
      BY <2>3, SoundGuard, GuardEffect
    <3>2. QED
      BY <1>1, <2>1, <3>1, SoundMore
  <2>4. ASSUME run[p].pc \in {"fetch", "record"}, Recording(p), blind' = blind
        PROVE  /\ SoundAt(db', overlapped', blind')
               /\ lock' # None => SoundAt(work', overlapped', blind')
    BY <1>1, <2>1, <2>4, SoundSample
  <2>5. CASE Fetch(p)
    <3>1. blind' = blind
      BY <2>5 DEF Fetch
    <3>2. CASE Recording(p)
      BY <1>1, <2>1, <2>4, <2>5, <3>1, <3>2, FetchEffect
    <3>3. CASE UNCHANGED dbVars
      BY <1>2, <2>1, <3>3 DEF dbVars
    <3>4. QED
      BY <2>5, <3>2, <3>3, FetchEffect
  <2>6. CASE RecordLate(p)
    BY <1>1, <2>1, <2>4, <2>6, RecordEffect DEF RecordLate
  <2>7. CASE Finish(p)
    <3>1. blind' = blind
      BY <2>7 DEF Finish
    <3>2. CASE lock = p
      BY <1>1, <2>1, <2>7, <3>1, <3>2, FinishEffect, ViewFacts DEF Sound
    <3>3. CASE lock # p
      BY <1>2, <2>1, <2>7, <3>3, FinishEffect DEF dbVars
    <3>4. QED
      BY <3>2, <3>3
  <2>8. CASE Starve(p)
    BY <1>2, <2>1, <2>8, StarveEffect DEF dbVars
  <2>9. CASE NotTradingDay(p)
    BY <1>2, <2>1, <2>9, NotTradingDayEffect DEF dbVars
  <2>10. QED
    BY <1>3, <2>2, <2>3, <2>5, <2>6, <2>7, <2>8, <2>9 DEF RunStep
<1>4. ASSUME NEW p \in Runners, Begins(p)
      PROVE  /\ SoundAt(db', overlapped', blind')
             /\ lock' # None => SoundAt(work', overlapped', blind')
             /\ \A s \in Symbols \ Turnover : company'[s] = Founder
  BY <1>2, <1>4, BeginEffect, SameGrows DEF Begins, dbVars
<1>5. ASSUME NEW p \in Runners, Leaves(p)
      PROVE  /\ SoundAt(db', overlapped', blind')
             /\ lock' # None => SoundAt(work', overlapped', blind')
             /\ \A s \in Symbols \ Turnover : company'[s] = Founder
  BY <1>2, <1>5, SameGrows DEF Leaves, dbVars
<1>6. ASSUME NEW p \in Runners, IsKilled(p)
      PROVE  /\ SoundAt(db', overlapped', blind')
             /\ lock' # None => SoundAt(work', overlapped', blind')
             /\ \A s \in Symbols \ Turnover : company'[s] = Founder
  BY <1>2, <1>6, KilledEffect, KilledGrows DEF IsKilled, dbVars
<1>7. CASE NavStored
  BY <1>2, <1>7, NavStoredGrows DEF NavStored
<1>8. CASE NextDay
  <2>1. \A s \in Symbols \ Turnover : company'[s] = company[s]
    <3>1. PICK c \in {company} \cup {[company EXCEPT ![s] = c] : s \in Turnover, c \in Companies} :
            company' = c
      BY <1>8 DEF NextDay
    <3>2. QED
      BY <3>1 DEF IInv, Typed
  <2>2. QED
    BY <1>1, <1>8, <2>1 DEF NextDay, dbVars
<1>9. CASE Quiet
  BY <1>1, <1>9 DEF Quiet, dbVars
<1>10. QED
  BY <1>3, <1>4, <1>5, <1>6, <1>7, <1>8, <1>9, Kinds

\* The part of Knowing about one run.
KnowsAll(p) ==
    /\ run[p].pc = "prepare" => ~run[p].got /\ run[p].recorded = {}
    /\ run[p].pc \in {"guard", "fetch", "record"} => Knows(p)
    /\ run[p].pc \in {"fetch", "record"} => Cleared(p)

LEMMA ViewGrows ==
    ASSUME IInv, NEW p, NEW q \in Runners, q # p, DbGrows(p), p # None
    PROVE  /\ \A s \in Symbols, d \in Days :
                 /\ View(q)'.full[s][d] >= View(q).full[s][d]
                 /\ View(q)'.rows[s][d] >= View(q).rows[s][d]
           /\ lock = q => lock' = q /\ work' = work
<1>1. CASE lock = q
  <2>1. lock' = q /\ work' = work
    BY <1>1, UpdateAssumption DEF DbGrows
  <2>2. View(q) \in DbType
    BY ViewFacts
  <2>3. QED
    BY <1>1, <2>1, <2>2, CountIsNat DEF View
<1>2. CASE lock # q
  <2>1. lock' # q
    BY <1>2, UpdateAssumption DEF DbGrows
  <2>2. QED
    BY <1>2, <2>1 DEF View, DbGrows
<1>3. QED
  BY <1>1, <1>2

\* A run that does not step keeps what it knows: what it saw sampled stays sampled, and
\* where the step is another active run's, today is a day of overlap.
LEMMA KnowsForeign ==
    ASSUME IInv, NEW p, NEW q \in Runners, q # p, p # None, DbGrows(p), run'[q] = run[q],
           day' = day, company' = company, overlapped \subseteq overlapped', blind \subseteq blind',
           Active(q) => day \in overlapped' \/ View(q)'.full = View(q).full
    PROVE  KnowsAll(q)'
<1>1. /\ \A s \in Symbols, d \in Days : db'.full[s][d] >= db.full[s][d]
      /\ \A s \in Symbols, d \in Days : View(q)'.rows[s][d] >= View(q).rows[s][d]
      /\ lock = q => lock' = q /\ work' = work
  <2>1. \A s \in Symbols, d \in Days : db'.full[s][d] >= db.full[s][d]
    BY DEF DbGrows
  <2>2. /\ \A s \in Symbols, d \in Days : View(q)'.rows[s][d] >= View(q).rows[s][d]
        /\ lock = q => lock' = q /\ work' = work
    BY ViewGrows
  <2>3. QED
    BY <2>1, <2>2
<1>2. /\ day \in Days /\ db \in DbType /\ db' \in DbType /\ run[q] \in RunType /\ View(q) \in DbType
      /\ run[q].recorded \subseteq Symbols
  BY ViewFacts DEF IInv, Typed, DbGrows, RunType
<1>2a. View(q)' \in DbType
  BY UpdateAssumption DEF DbGrows, View
<1>3. CASE run[q].pc \in {"guard", "fetch", "record"}
  <2>1. Knows(q) /\ Active(q)
    BY <1>3 DEF IInv, Knowing, Active
  <2>2. \A s \in run[q].recorded : db'.full[s][day] > 0
    <3>1. ASSUME NEW s \in run[q].recorded
          PROVE  db'.full[s][day] > 0
      <4>1. s \in Symbols /\ db.full[s][day] > 0 /\ db'.full[s][day] >= db.full[s][day]
        BY <1>1, <1>2, <2>1 DEF Knows
      <4>2. db.full[s][day] \in Nat /\ db'.full[s][day] \in Nat
        BY <1>2, <4>1, CountIsNat
      <4>3. QED
        BY <4>1, <4>2
    <3>2. QED
      BY <3>1
  <2>3. day \in overlapped' \/ \A s \in run[q].todo \ run[q].recorded : View(q)'.full[s][day] = 0
    BY <2>1 DEF Knows
  <2>4. run[q].got => \E s \in Symbols : View(q)'.rows[s][day] > 0
    <3>1. ASSUME run[q].got
          PROVE  \E s \in Symbols : View(q)'.rows[s][day] > 0
      <4>1. PICK s \in Symbols : View(q).rows[s][day] > 0
        BY <2>1, <3>1 DEF Knows
      <4>2. /\ View(q)'.rows[s][day] >= View(q).rows[s][day]
            /\ View(q)'.rows[s][day] \in Nat /\ View(q).rows[s][day] \in Nat
        BY <1>1, <1>2, <1>2a, CountIsNat
      <4>3. QED
        BY <4>1, <4>2
    <3>2. QED
      BY <3>1
  <2>5. Knows(q)'
    BY <2>1, <2>2, <2>3, <2>4 DEF Knows
  <2>6. run[q].pc \in {"fetch", "record"} => Cleared(q)'
    BY <1>1 DEF IInv, Knowing, Cleared
  <2>7. QED
    BY <1>3, <2>5, <2>6 DEF KnowsAll
<1>4. CASE run[q].pc \notin {"guard", "fetch", "record"}
  BY <1>4 DEF KnowsAll, IInv, Knowing
<1>5. QED
  BY <1>3, <1>4

\* A symbol passed over or given up.
LEMMA KnowsDropped ==
    ASSUME IInv, NEW p \in Runners, run[p].pc \in {"guard", "fetch"}, run[p].todo # {},
           Dropped(p), Remembers(p), db' = db,
           View(p)'.full = View(p).full, View(p)'.rows = View(p).rows,
           day' = day, overlapped' = overlapped
    PROVE  KnowsAll(p)'
<1> DEFINE s == Min(run[p].todo)
<1>1. Knows(p) /\ s \in Symbols /\ run[p] \in RunType /\ day \in Days
  BY Current, ActiveStages DEF IInv, Knowing, Typed
<1>2. /\ run'[p].pc = "guard" /\ run'[p].todo = run[p].todo \ {s}
      /\ run'[p].recorded = run[p].recorded
      /\ (run'[p].got /\ s \in run[p].recorded) \/ (run'[p].errors # {} /\ run'[p].got = run[p].got)
  BY DEF Dropped, Remembers
<1> HIDE DEF s
<1>3. run'[p].got => \E t \in Symbols : View(p).rows[t][day] > 0
  <2>1. CASE s \in run[p].recorded
    <3>1. /\ db.full[s][day] > 0 /\ View(p).full[s][day] >= db.full[s][day]
          /\ View(p).rows[s][day] >= View(p).full[s][day]
      BY <1>1, <2>1, ViewFacts DEF Knows, Sound, SoundAt
    <3>2. /\ db.full[s][day] \in Nat /\ View(p).full[s][day] \in Nat
          /\ View(p).rows[s][day] \in Nat
      BY <1>1, CountIsNat, ViewFacts DEF IInv, Typed
    <3>3. QED
      BY <1>1, <3>1, <3>2
  <2>2. CASE s \notin run[p].recorded
    BY <1>1, <1>2, <2>2 DEF Knows
  <2>3. QED
    BY <2>1, <2>2
<1>4. Knows(p)'
  BY <1>1, <1>2, <1>3 DEF Knows
<1>5. QED
  BY <1>2, <1>4 DEF KnowsAll

LEMMA KnowsSampled ==
    ASSUME IInv, NEW p \in Runners, run[p].pc \in {"fetch", "record"}, Recording(p), DbGrows(p),
           day' = day, overlapped' = overlapped
    PROVE  KnowsAll(p)'
<1> DEFINE s == Min(run[p].todo)
<1>1. PICK m \in DbType :
              /\ \A t \in Symbols : t # s => m.full[t] = View(p).full[t] /\ m.rows[t] = View(p).rows[t]
              /\ \A x \in Days :
                    /\ m.rows[s][x] = IF x = day THEN View(p).rows[s][x] + 1 ELSE View(p).rows[s][x]
                    /\ \/ m.full[s][x] = View(p).full[s][x]
                       \/ x = day /\ m.full[s][x] = View(p).full[s][x] + 1
              /\ \/ db' = m /\ lock' = None
                 \/ lock' = p /\ work' = m
  BY DEF Recording
<1>2. /\ s \in Symbols /\ s \in run[p].todo
      /\ run'[p].pc = "guard" /\ run'[p].got /\ run'[p].todo = run[p].todo \ {s}
      /\ run'[p].recorded = run[p].recorded
  BY DEF Recording, Remembers
<1>3. Knows(p) /\ day \in Days /\ db \in DbType /\ db' \in DbType /\ View(p) \in DbType
  BY ViewFacts DEF IInv, Knowing, Typed, DbGrows
<1>4. View(p)' = m
  BY <1>1, UpdateAssumption DEF View
<1>5. run[p].recorded \subseteq Symbols /\ run[p].todo \subseteq Symbols
  BY DEF IInv, Typed, RunType
<1> HIDE DEF s
<1>6. m.rows[s][day] > 0
  <2>1. m.rows[s][day] = View(p).rows[s][day] + 1 /\ View(p).rows[s][day] \in Nat
    BY <1>1, <1>2, <1>3, CountIsNat
  <2>2. QED
    BY <2>1
<1>7. \A t \in run[p].recorded : db'.full[t][day] > 0
  <2>1. ASSUME NEW t \in run[p].recorded
        PROVE  db'.full[t][day] > 0
    <3>1. t \in Symbols /\ db.full[t][day] > 0 /\ db'.full[t][day] >= db.full[t][day]
      BY <1>3, <1>5 DEF Knows, DbGrows
    <3>2. db.full[t][day] \in Nat /\ db'.full[t][day] \in Nat
      BY <1>3, <3>1, CountIsNat
    <3>3. QED
      BY <3>1, <3>2
  <2>2. QED
    BY <2>1
<1>8. day \in overlapped \/ \A t \in (run[p].todo \ {s}) \ run[p].recorded : m.full[t][day] = 0
  BY <1>1, <1>3, <1>5 DEF Knows
<1>9. Knows(p)'
  BY <1>2, <1>4, <1>6, <1>7, <1>8 DEF Knows
<1>10. QED
  BY <1>2, <1>9 DEF KnowsAll

LEMMA KnowsPrepared ==
    ASSUME IInv, NEW p \in Runners, Prepare(p)
    PROVE  KnowsAll(p)'
<1>1. /\ db'.full = db.full /\ lock' # p /\ day' = day
      /\ run'[p].pc = "guard" /\ Equity \subseteq run'[p].todo
      /\ run'[p].recorded = {s \in Symbols : db.full[s][day] > 0} /\ ~run'[p].got
      /\ run' \in [Runners -> RunType]
  BY PrepareEffect, RunStepFrame DEF RunStep, OnlyRun
<1>2. View(p)' = db' /\ db \in DbType /\ day \in Days
  BY <1>1 DEF View, IInv, Typed
<1>3. \A s \in run'[p].todo \ run'[p].recorded : db.full[s][day] = 0
  <2>1. ASSUME NEW s \in run'[p].todo \ run'[p].recorded
        PROVE  db.full[s][day] = 0
    <3>1. s \in Symbols /\ ~ (db.full[s][day] > 0)
      BY <1>1 DEF RunType
    <3>2. db.full[s][day] \in Nat
      BY <1>2, <3>1, CountIsNat
    <3>3. QED
      BY <3>1, <3>2
  <2>2. QED
    BY <2>1
<1>4. Knows(p)'
  BY <1>1, <1>2, <1>3 DEF Knows
<1>5. QED
  BY <1>1, <1>4 DEF KnowsAll

LEMMA KnowsOwn ==
    ASSUME IInv, NEW p \in Runners, RunStep(p)
    PROVE  KnowsAll(p)'
<1>1. /\ OnlyRun(p) /\ DbGrows(p) /\ blind \subseteq blind'
      /\ day' = day /\ company' = company /\ overlapped' = overlapped
  BY RunStepGrows, RunStepFrame
<1>2. CASE run'[p].pc = "done"
  BY <1>2 DEF KnowsAll
<1>3. CASE Prepare(p)
  BY <1>3, KnowsPrepared
\* A symbol that passed the guard.
<1>4. ASSUME run[p].pc = "guard", Passed(p), Remembers(p), run[p].todo # {},
             View(p)'.full = View(p).full, View(p)'.rows = View(p).rows, db' = db,
             Min(run[p].todo) \in Turnover \ blind' =>
                lock' = p /\ work'.ident[Min(run[p].todo)] = company[Min(run[p].todo)]
      PROVE  KnowsAll(p)'
  <2>1. Knows(p)
    BY <1>4 DEF IInv, Knowing
  <2>2. Knows(p)'
    BY <1>1, <1>4, <2>1 DEF Knows, Passed, Remembers
  <2>3. Cleared(p)'
    BY <1>1, <1>4 DEF Cleared, Passed, Remembers
  <2>4. QED
    BY <1>4, <2>2, <2>3 DEF KnowsAll, Passed
<1>5. CASE Guard(p)
  <2>1. /\ run[p].pc = "guard" /\ run[p].todo # {} /\ Remembers(p) /\ db' = db /\ lock' = p
        /\ work'.full = View(p).full /\ work'.rows = View(p).rows
        /\ \/ Dropped(p)
           \/ /\ Passed(p)
              /\ Min(run[p].todo) \in Turnover \ blind' =>
                    work'.ident[Min(run[p].todo)] = company[Min(run[p].todo)]
    BY <1>5, GuardEffect
  <2>2. View(p)'.full = View(p).full /\ View(p)'.rows = View(p).rows
    BY <2>1 DEF View
  <2>3. QED
    BY <1>1, <1>4, <2>1, <2>2, KnowsDropped
<1>6. CASE Fetch(p)
  <2>1. run[p].pc = "fetch" /\ Knows(p) /\ Cleared(p) /\ blind' = blind
    BY <1>6 DEF Fetch, IInv, Knowing
  <2>2. CASE Recording(p)
    BY <1>1, <2>1, <2>2, KnowsSampled
  <2>3. CASE UNCHANGED dbVars /\ Remembers(p) /\ Dropped(p)
    BY <1>1, <2>1, <2>3, KnowsDropped DEF Cleared, dbVars, View
  <2>4. CASE /\ UNCHANGED dbVars /\ Remembers(p) /\ run'[p].pc = "record" /\ lock # p
             /\ run'[p].todo = run[p].todo
             /\ run'[p].got = run[p].got /\ run'[p].errors = run[p].errors
    <3>1. Knows(p)' /\ Cleared(p)'
      BY <1>1, <2>1, <2>4 DEF Knows, Cleared, Remembers, dbVars, View
    <3>2. QED
      BY <2>4, <3>1 DEF KnowsAll
  <2>5. QED
    BY <1>6, <2>2, <2>3, <2>4, FetchEffect
<1>7. CASE RecordLate(p)
  BY <1>1, <1>7, RecordEffect, KnowsSampled DEF RecordLate
<1>8. CASE Finish(p)
  BY <1>2, <1>8, FinishEffect
<1>9. CASE Starve(p) /\ run'[p].pc # "done"
  <2>1. /\ UNCHANGED dbVars /\ run[p].pc = "guard" /\ run[p].todo # {} /\ Remembers(p)
        /\ Dropped(p) \/ (Passed(p) /\ Min(run[p].todo) \notin Turnover \ blind')
    BY <1>9, StarveEffect
  <2>2. View(p)'.full = View(p).full /\ View(p)'.rows = View(p).rows /\ db' = db
    BY <2>1 DEF dbVars, View
  <2>3. QED
    BY <1>1, <1>4, <2>1, <2>2, KnowsDropped
<1>10. CASE NotTradingDay(p)
  BY <1>2, <1>10, NotTradingDayEffect
<1>11. QED
  BY <1>2, <1>3, <1>5, <1>6, <1>7, <1>8, <1>9, <1>10 DEF RunStep

LEMMA KnowingStep ==
    ASSUME IInv, [Next]_vars
    PROVE  Knowing'
<1>1. \A p \in Runners : KnowsAll(p) /\ p # None
  BY UpdateAssumption DEF IInv, Knowing, KnowsAll
<1> SUFFICES ASSUME NEW q \in Runners  PROVE KnowsAll(q)'
  BY DEF Knowing, KnowsAll
<1>2. ASSUME NEW p \in Runners, RunStep(p)
      PROVE  KnowsAll(q)'
  <2>1. CASE q = p
    BY <1>2, <2>1, KnowsOwn
  <2>2. CASE q # p
    <3>1. /\ OnlyRun(p) /\ DbGrows(p) /\ blind \subseteq blind'
          /\ day' = day /\ company' = company /\ overlapped' = overlapped
      BY <1>2, RunStepGrows, RunStepFrame
    <3>2. Active(p)
      <4>1. CASE NotTradingDay(p) \/ Prepare(p) \/ Guard(p) \/ Fetch(p) \/ RecordLate(p) \/ Finish(p)
        BY <4>1 DEF NotTradingDay, Prepare, Guard, Fetch, RecordLate, Finish, Active
      <4>2. CASE Starve(p)
        BY <4>2, UpdateAssumption DEF Starve, Waiting, Active
      <4>3. QED
        BY <1>2, <4>1, <4>2 DEF RunStep
    <3>3. Active(q) => day \in overlapped'
      BY <2>2, <3>1, <3>2 DEF IInv, Today
    <3>4. run'[q] = run[q]
      BY <2>2, <3>1 DEF OnlyRun
    <3>5. QED
      BY <1>1, <2>2, <3>1, <3>3, <3>4, KnowsForeign
  <2>3. QED
    BY <2>1, <2>2
<1>3. ASSUME NEW p \in Runners, OnlyRun(p), DbGrows(p), UNCHANGED <<day, company, blind>>,
             overlapped \subseteq overlapped', db'.full = db.full, db'.rows = db.rows,
             (lock' = lock /\ work' = work) \/ (lock = p /\ lock' = None),
             run'[p].pc \in {"idle", "done"} \/ (run'[p].pc = "prepare" /\ ~run'[p].got /\ run'[p].recorded = {})
      PROVE  KnowsAll(q)'
  <2>1. CASE q = p
    BY <1>3, <2>1 DEF KnowsAll
  <2>2. CASE q # p
    <3>1. View(q)'.full = View(q).full
      BY <1>1, <1>3, <2>2 DEF View
    <3>2. run'[q] = run[q]
      BY <1>3, <2>2 DEF OnlyRun
    <3>3. QED
      BY <1>1, <1>3, <2>2, <3>1, <3>2, KnowsForeign
  <2>3. QED
    BY <2>1, <2>2
<1>4. ASSUME NEW p \in Runners, Begins(p)
      PROVE  KnowsAll(q)'
  BY <1>3, <1>4, BeginEffect, SameGrows DEF Begins, dbVars
<1>5. ASSUME NEW p \in Runners, Leaves(p)
      PROVE  KnowsAll(q)'
  BY <1>3, <1>5, LeavesEffect, SameGrows DEF Leaves, dbVars
<1>6. ASSUME NEW p \in Runners, IsKilled(p)
      PROVE  KnowsAll(q)'
  BY <1>3, <1>6, KilledEffect, KilledGrows DEF IsKilled, dbVars
<1>7. CASE NavStored
  <2>1. View(q)'.full = View(q).full /\ View(q)'.rows = View(q).rows /\ lock # q /\ lock' # q
    BY <1>1, <1>7, NavStoredGrows DEF NavStored, View
  <2>2. QED
    BY <1>1, <1>7, <2>1, NavStoredGrows DEF NavStored, KnowsAll, Knows, Cleared
<1>8. CASE NextDay
  BY <1>8 DEF NextDay, Active, KnowsAll, IInv, Typed
<1>9. CASE Quiet
  BY <1>1, <1>9 DEF Quiet, dbVars, KnowsAll, Knows, Cleared, View
<1>10. QED
  BY <1>2, <1>4, <1>5, <1>6, <1>7, <1>8, <1>9, Kinds

\* What is stored stays stored.
LEMMA StoredKept ==
    ASSUME IInv, NEW p, DbGrows(p), NEW n \in Days, NEW u \in Nat, NEW v \in Nat, u <= v
    PROVE  \A j : Meant(j, db, n, u) => Meant(j, db', n, v)
<1>1. NavIn(db, n) => NavIn(db', n)
  BY DEF DbGrows, NavIn
<1>2. ASSUME NEW s \in Symbols, NEW x \in n .. MaxDay, db.rows[s][x] > 0
      PROVE  db'.rows[s][x] > 0
  <2>1. x \in Days
    BY UpdateAssumption DEF Days
  <2>2. db.rows[s][x] \in Nat /\ db'.rows[s][x] \in Nat /\ db'.rows[s][x] >= db.rows[s][x]
    BY <2>1, CountIsNat DEF DbGrows, IInv, Typed
  <2>3. QED
    BY <1>2, <2>2
<1>3. \A h \in Holidays : h <= u => h <= v
  BY UpdateAssumption
<1>4. SampleIn(db, n, u) => SampleIn(db', n, v)
  BY <1>2, <1>3 DEF SampleIn
<1>5. QED
  BY <1>1, <1>4 DEF Meant

\* A sample of today counts for every start up to today.
LEMMA SampledToday ==
    ASSUME day \in Days, NEW n \in 1 .. day, NEW s \in Symbols, NEW d, d.rows[s][day] > 0
    PROVE  SampleIn(d, n, day)
BY UpdateAssumption DEF SampleIn, Days

\* A run that ends with "ok" sampled, or found sampled, a symbol of its day, unless that is
\* no trading day.
LEMMA FinishOk ==
    ASSUME IInv, NEW p \in Runners, Finish(p), run'[p].rc = "ok", NEW n \in 1 .. day
    PROVE  SampleIn(db', n, day)
<1>1. /\ run[p].pc = "guard" /\ run[p].todo = {} /\ db' = View(p)
      /\ run[p].errors = {} \/ run[p].got
  BY FinishEffect
<1>2. Knows(p) /\ day \in Days
  BY <1>1 DEF IInv, Knowing, Typed
<1>3. CASE Equity = {}
  BY <1>3 DEF SampleIn
<1>4. CASE Equity # {}
  <2>1. \E s \in Symbols : View(p).rows[s][day] > 0
    BY <1>1, <1>2, <1>4 DEF Knows
  <2>2. QED
    BY <1>1, <1>2, <2>1, SampledToday
<1>5. QED
  BY <1>3, <1>4

LEMMA HolidayOk ==
    ASSUME IInv, NEW p \in Runners, NotTradingDay(p), NEW n \in 1 .. day
    PROVE  SampleIn(db', n, day)
<1>1. day \in Holidays /\ day \in Nat /\ n <= day
  BY NotTradingDayEffect, UpdateAssumption DEF IInv, Typed, Days
<1>2. QED
  BY <1>1 DEF SampleIn

\* The exit code of the run in a slot is "ok" only once there is nothing more to sample today.
LEMMA RunOk ==
    ASSUME IInv, [Next]_vars, NEW p \in Runners, run'[p].rc = "ok", NEW n \in 1 .. day
    PROVE  run[p].rc = "ok" \/ SampleIn(db', n, day)
<1>1. ASSUME NEW q \in Runners, RunStep(q)
      PROVE  run[p].rc = "ok" \/ SampleIn(db', n, day)
  <2>1. CASE q # p
    BY <1>1, <2>1, RunStepGrows DEF OnlyRun
  <2>2. CASE q = p
    <3>1. CASE Finish(q)
      BY <2>2, <3>1, FinishOk
    <3>2. CASE Prepare(q)
      BY <2>2, <3>2, PrepareEffect
    <3>3. CASE Guard(q)
      BY <2>2, <3>3, GuardEffect DEF Remembers
    <3>4. CASE Fetch(q)
      BY <2>2, <3>4, FetchEffect DEF Remembers, Recording
    <3>5. CASE RecordLate(q)
      BY <2>2, <3>5, RecordEffect DEF RecordLate, Remembers, Recording
    <3>6. CASE Starve(q)
      BY <2>2, <3>6, StarveEffect DEF Remembers
    <3>7. CASE NotTradingDay(q)
      BY <2>2, <3>7, HolidayOk
    <3>8. QED
      BY <1>1, <3>1, <3>2, <3>3, <3>4, <3>5, <3>6, <3>7 DEF RunStep
  <2>3. QED
    BY <2>1, <2>2
<1>2. ASSUME NEW q \in Runners, OnlyRun(q), run'[q].rc # "ok"
      PROVE  run[p].rc = "ok"
  BY <1>2 DEF OnlyRun
<1>3. ASSUME NEW q \in Runners, Begins(q)
      PROVE  run[p].rc = "ok"
  <2>1. run'[q].rc # "ok"
    BY <1>3, BeginEffect, SyncAssumption DEF Begins
  <2>2. QED
    BY <1>2, <1>3, <2>1, BeginEffect DEF Begins
<1>4. ASSUME NEW q \in Runners, Leaves(q)
      PROVE  run[p].rc = "ok"
  BY <1>2, <1>4, LeavesEffect, SyncAssumption
<1>5. ASSUME NEW q \in Runners, IsKilled(q)
      PROVE  run[p].rc = "ok"
  BY <1>2, <1>5, KilledEffect DEF IsKilled
<1>6. CASE NavStored \/ NextDay \/ Quiet
  BY <1>6 DEF NavStored, NextDay, Quiet
<1>7. QED
  BY <1>1, <1>3, <1>4, <1>5, <1>6, Kinds

\* Days of a report.
LEMMA StartedDay ==
    ASSUME IInv, [Next]_vars
    PROVE  /\ sync.pc # "idle" => sync.started \in Days /\ sync.started \in 1 .. day
           /\ last.ok => last.started \in Days /\ last.finished \in Nat
           /\ day \in Nat /\ day' \in {day, day + 1} /\ day' \in Nat /\ day <= day'
<1>1. day' \in {day, day + 1}
  <2>1. \A p \in Runners : RunStep(p) => day' = day
    BY RunStepFrame
  <2>2. CASE NextDay
    BY <2>2 DEF NextDay
  <2>3. QED
    BY <2>1, <2>2, Kinds DEF Begins, Leaves, IsKilled, NavStored, Quiet
<1>2. day \in Nat /\ day \in Days
  BY UpdateAssumption DEF IInv, Typed, Days
<1>3. last.finished \in Nat
  BY UpdateAssumption DEF IInv, Typed, LastType, Days
<1>4. sync.pc # "idle" => sync.started \in Days /\ sync.started \in 1 .. day
  BY <1>2, UpdateAssumption DEF IInv, Reporting, Awaited, Days
<1>5. last.ok => last.started \in Days
  BY DEF IInv, Reporting, Told
<1>6. QED
  BY <1>1, <1>2, <1>3, <1>4, <1>5

\* No step takes back what the results and the report stand for.
LEMMA ToldKept ==
    ASSUME IInv, [Next]_vars
    PROVE  Told(db', day')
<1>1. PICK p : DbGrows(p)
  BY Grows
<1>2. Told(db, day) /\ Awaited
  BY DEF IInv, Reporting
<1>3. /\ day \in Nat /\ day' \in Nat /\ day <= day'
      /\ sync.pc # "idle" => sync.started \in Days
      /\ last.ok => last.started \in Days /\ last.finished \in Nat
  BY StartedDay
<1>4. ASSUME last.ok, NEW j \in last.jobs
      PROVE  Meant(j, db', last.started, last.finished)
  <2>1. Meant(j, db, last.started, last.finished) /\ last.finished <= last.finished
    BY <1>2, <1>3, <1>4 DEF Told
  <2>2. QED
    BY <1>1, <1>3, <1>4, <2>1, StoredKept
<1>5. ASSUME NEW j \in DOMAIN sync.results, sync.results[j] = "ok"
      PROVE  Meant(j, db', sync.started, day')
  <2>1. sync.pc # "idle" /\ Meant(j, db, sync.started, day)
    BY <1>2, <1>5 DEF Told, Awaited
  <2>2. QED
    BY <1>1, <1>3, <2>1, StoredKept
<1>6. QED
  BY <1>3, <1>4, <1>5 DEF Told

\* The scheduler's variables stay as they are.
LEMMA ReportingKept ==
    ASSUME IInv, [Next]_vars, UNCHANGED <<sync, last>>,
           sync.pc = "wait" /\ "accounts" \in sync.waiting /\ acct'.rc = "ok" =>
              acct.rc = "ok" \/ day \in db'.nav
    PROVE  Reporting'
<1>1. PICK p : DbGrows(p)
  BY Grows
<1>2. Told(db', day') /\ Awaited
  BY ToldKept DEF IInv, Reporting
<1>3. Told(db, day)'
  BY <1>2 DEF Told, Meant, NavIn, SampleIn
<1>4. CASE sync.pc # "wait"
  <2>1. Awaited'
    BY <1>2, <1>4, StartedDay DEF Awaited
  <2>2. QED
    BY <1>3, <2>1 DEF Reporting
<1>5. CASE sync.pc = "wait"
  <2>1. /\ sync.started \in Days /\ sync.started \in 1 .. day /\ sync.started \in 1 .. day'
        /\ day \in Nat /\ day' \in Nat /\ day <= day'
    BY <1>5, StartedDay
  <2>2. "accounts" \in sync.waiting /\ acct'.rc = "ok" => NavIn(db', sync.started)
    <3>1. ASSUME "accounts" \in sync.waiting, acct'.rc = "ok"
          PROVE  NavIn(db', sync.started)
      <4>1. CASE acct.rc = "ok"
        <5>1. NavIn(db, sync.started)
          BY <1>2, <1>5, <3>1, <4>1 DEF Awaited
        <5>2. QED
          BY <1>1, <5>1 DEF DbGrows, NavIn
      <4>2. CASE day \in db'.nav
        BY <2>1, <4>2 DEF NavIn, Days
      <4>3. QED
        BY <1>5, <3>1, <4>1, <4>2
    <3>2. QED
      BY <3>1
  <2>3. "market-data" \in sync.waiting /\ run'[sync.slot].rc = "ok" => SampleIn(db', sync.started, day')
    <3>1. ASSUME "market-data" \in sync.waiting, run'[sync.slot].rc = "ok"
          PROVE  SampleIn(db', sync.started, day')
      <4>1. sync.slot \in Runners
        BY <1>2, <1>5, <3>1 DEF Awaited
      <4>2. ASSUME SampleIn(db', sync.started, day)
            PROVE  SampleIn(db', sync.started, day')
        BY <2>1, <4>2, UpdateAssumption DEF SampleIn
      <4>3. CASE run[sync.slot].rc = "ok"
        <5>1. Meant("market-data", db, sync.started, day)
          BY <1>2, <1>5, <3>1, <4>3 DEF Awaited, Meant
        <5>2. QED
          BY <1>1, <2>1, <5>1, StoredKept DEF Meant
      <4>4. QED
        BY <2>1, <3>1, <4>1, <4>2, <4>3, RunOk
    <3>2. QED
      BY <3>1
  <2>4. Awaited'
    BY <1>2, <1>5, <2>1, <2>2, <2>3 DEF Awaited, NavIn, SampleIn
  <2>5. QED
    BY <1>3, <2>4 DEF Reporting
<1>6. QED
  BY <1>4, <1>5

LEMMA ReportingStep ==
    ASSUME IInv, [Next]_vars
    PROVE  Reporting'
<1>1. Told(db, day) /\ Awaited /\ Told(db', day') /\ \E p : DbGrows(p)
  BY ToldKept, Grows DEF IInv, Reporting
<1>2. Typed /\ Typed'
  BY TypedStep DEF IInv
\* It is enough to look at the scheduler's variables.
<1>3. ASSUME /\ \A j \in DOMAIN sync'.results : sync'.results[j] = "ok" =>
                   Meant(j, db', sync'.started, day')
             /\ last'.ok => /\ last'.started \in Days
                            /\ \A j \in last'.jobs : Meant(j, db', last'.started, last'.finished),
             sync'.pc # "idle" => /\ sync'.started \in 1 .. day'
                                  /\ DOMAIN sync'.results \cup sync'.waiting = sync'.jobs,
             sync'.pc = "idle" => DOMAIN sync'.results = {},
             sync'.pc = "wait" =>
                /\ "accounts" \in sync'.waiting /\ acct'.rc = "ok" => NavIn(db', sync'.started)
                /\ "market-data" \in sync'.waiting =>
                      /\ sync'.slot \in Runners
                      /\ run'[sync'.slot].rc = "ok" => SampleIn(db', sync'.started, day')
      PROVE  Reporting'
  BY <1>3 DEF Reporting, Told, Awaited, Meant, NavIn, SampleIn
<1>4. ASSUME NEW p \in Runners, RunStep(p), UNCHANGED syncVars
      PROVE  Reporting'
  BY <1>4, RunStepFrame, ReportingKept DEF syncVars
<1>5. CASE AcctStep /\ UNCHANGED syncVars
  <2>1. day' = day /\ UNCHANGED <<sync, last>>
    BY <1>5 DEF AcctStep, FetchAccounts, WriteNav, StarveAccounts, worldVars, syncVars
  <2>2. acct'.rc = "ok" => acct.rc = "ok" \/ day \in db'.nav
    <3>1. ASSUME StoreNav
          PROVE  day \in db'.nav
      <4>1. db' = [db EXCEPT !.nav = @ \cup {day}]
        BY <3>1 DEF StoreNav, Commit
      <4>2. QED
        BY <1>2, <4>1 DEF Typed, DbType
    <3>2. CASE FetchAccounts
      BY <1>2, <3>1, <3>2 DEF FetchAccounts, Typed
    <3>3. CASE WriteNav
      BY <3>1, <3>3 DEF WriteNav
    <3>4. CASE StarveAccounts
      BY <3>4 DEF StarveAccounts
    <3>5. QED
      BY <1>5, <3>2, <3>3, <3>4 DEF AcctStep
  <2>3. QED
    BY <2>1, <2>2, ReportingKept
<1>6. CASE WorldStep /\ UNCHANGED syncVars
  BY <1>6, ReportingKept DEF WorldStep, NextDay, SessionDies, syncVars
<1>7. CASE Start
  <2>1. /\ day' = day /\ db' = db /\ acct' = acct /\ run' = run /\ sync.pc = "idle"
        /\ day \in 1 .. day
    <3>1. day \in 1 .. day
      BY <1>2, UpdateAssumption DEF Typed, Days
    <3>2. QED
      BY <1>7, <3>1 DEF Start, dbVars
  <2>2. CASE sync'.pc = "dispatch" /\ sync'.started = day /\ sync'.waiting = sync'.jobs
             /\ DOMAIN sync'.results = {} /\ last' = last
    BY <1>1, <1>3, <2>1, <2>2 DEF Told
  <2>3. CASE sync' = sync /\ last' = NoLast
    BY <1>1, <1>3, <2>1, <2>3, NoLastTyped DEF Told, Awaited
  <2>4. QED
    BY <1>7, <2>2, <2>3, StartEffect
<1>8. CASE Dispatch
  <2>1. day' = day /\ last' = last
    BY <1>8 DEF Dispatch, worldVars
  <2>2. /\ sync'.pc = "wait" /\ sync'.started = sync.started /\ sync.pc = "dispatch"
        /\ sync'.jobs = sync.jobs
        /\ DOMAIN sync'.results \cup sync'.waiting = DOMAIN sync.results \cup sync.waiting
        /\ \A j \in DOMAIN sync'.results :
              sync'.results[j] = "ok" => j \in DOMAIN sync.results /\ sync.results[j] = "ok"
        /\ "accounts" \in sync'.waiting => acct'.rc = None
        /\ "market-data" \in sync'.waiting =>
              sync'.slot \in Runners /\ run'[sync'.slot].rc = None
    BY <1>8, DispatchEffect
  <2>3. QED
    BY <1>1, <1>3, <2>1, <2>2, SyncAssumption DEF Told, Awaited
<1>9. CASE Collect
  <2>1. day' = day /\ last' = last /\ db' = db
    BY <1>9 DEF Collect, worldVars, dbVars
  <2>2. PICK j : j = Turn(sync.waiting)
    OBVIOUS
  <2>3. /\ sync'.pc = "wait" /\ sync'.started = sync.started /\ sync.pc = "wait"
        /\ j \in sync.waiting /\ sync'.waiting = sync.waiting \ {j}
        /\ DOMAIN sync'.results = DOMAIN sync.results \cup {j}
        /\ sync'.results[j] \in Code(j) /\ sync'.jobs = sync.jobs
        /\ \A i \in DOMAIN sync'.results : i # j => sync'.results[i] = sync.results[i]
        /\ j # "accounts" => acct' = acct
        /\ "market-data" \notin sync'.waiting
    BY <1>9, <2>2, CollectEffect
  <2>4. "ok" \in Code(j) => Meant(j, db', sync.started, day')
    <3>1. CASE j = "accounts"
      BY <1>1, <2>1, <2>3, <3>1 DEF Code, Awaited, Meant
    <3>2. CASE j = "market-data"
      BY <1>1, <2>1, <2>3, <3>2 DEF Code, Awaited, Meant
    <3>3. CASE j \notin {"accounts", "market-data"}
      BY <3>3 DEF Meant
    <3>4. QED
      BY <3>1, <3>2, <3>3
  <2>5. \A i \in DOMAIN sync'.results : sync'.results[i] = "ok" => Meant(i, db', sync'.started, day')
    BY <1>1, <2>3, <2>4 DEF Told
  <2>6. "accounts" \in sync'.waiting /\ acct'.rc = "ok" => NavIn(db', sync'.started)
    BY <1>1, <2>1, <2>3 DEF Awaited
  <2>7. QED
    BY <1>1, <1>3, <2>1, <2>3, <2>5, <2>6 DEF Told, Awaited
<1>10. CASE TimeOut
  <2>1. day' = day /\ UNCHANGED <<sync, last>> /\ (acct'.rc = "ok" => acct.rc = "ok")
    BY <1>10 DEF TimeOut, worldVars, syncVars
  <2>2. QED
    BY <2>1, ReportingKept
<1>11. CASE Retry
  <2>1. day' = day /\ last' = last /\ db' = db
    BY <1>11 DEF Retry, dbVars
  <2>2. QED
    BY <1>1, <1>3, <1>11, <2>1, RetryEffect DEF Told, Awaited
<1>12. CASE Finished
  <2>1. /\ sync' = NoSync /\ db' = db /\ day' = day /\ sync.pc = "wait" /\ sync.waiting = {}
        /\ \/ last' = NoLast \/ last' = last
           \/ /\ \A j \in DOMAIN sync.results : sync.results[j] = "ok"
              /\ last' = [ok |-> TRUE, started |-> sync.started, finished |-> day,
                          jobs |-> sync.jobs]
    BY <1>12 DEF Finished, dbVars, worldVars
  <2>2. sync'.pc = "idle" /\ DOMAIN sync'.results = {}
    BY <2>1, NoSyncTyped DEF NoSync
  <2>3. DOMAIN sync.results = sync.jobs /\ sync.started \in Days
    BY <1>1, <2>1, StartedDay DEF Awaited
  <2>4. last'.ok => /\ last'.started \in Days
                    /\ \A j \in last'.jobs : Meant(j, db', last'.started, last'.finished)
    <3>1. CASE last' = last
      BY <1>1, <2>1, <3>1 DEF Told
    <3>2. CASE /\ \A j \in DOMAIN sync.results : sync.results[j] = "ok"
               /\ last' = [ok |-> TRUE, started |-> sync.started, finished |-> day,
                           jobs |-> sync.jobs]
      BY <1>1, <2>1, <2>3, <3>2 DEF Told
    <3>3. QED
      BY <2>1, <3>1, <3>2, NoLastTyped
  <2>5. QED
    BY <1>3, <2>2, <2>4
<1>13. CASE Die
  <2>1. sync' = NoSync /\ last' = last /\ db' = db
    BY <1>13 DEF Die, dbVars
  <2>2. sync'.pc = "idle" /\ DOMAIN sync'.results = {}
    BY <2>1, NoSyncTyped DEF NoSync
  <2>3. QED
    BY <1>1, <1>3, <2>1, <2>2 DEF Told
<1>14. CASE Manual
  BY <1>14, ReportingKept DEF Manual, worldVars
<1>15. ASSUME NEW p \in Runners, Exit(p)
       PROVE  Reporting'
  BY <1>15, ReportingKept DEF Exit, worldVars, syncVars
<1>16. CASE ExitAccounts
  <2>1. acct'.rc = None /\ day' = day /\ UNCHANGED <<sync, last>>
    BY <1>16 DEF ExitAccounts, IdleAcct, worldVars, syncVars
  <2>2. QED
    BY <2>1, ReportingKept, SyncAssumption
<1>17. CASE UNCHANGED vars
  BY <1>17, ReportingKept DEF vars, updateVars, worldVars, syncVars
<1>18. QED
  BY <1>4, <1>5, <1>6, <1>7, <1>8, <1>9, <1>10, <1>11, <1>12, <1>13, <1>14, <1>15, <1>16, <1>17
     DEF Next, SchedulerStep

-----------------------------------------------------------------------------
(* The theorems. *)

LEMMA InitInv == SyncInit => IInv
<1> SUFFICES ASSUME SyncInit  PROVE IInv
  OBVIOUS
<1>1. /\ day = 1 /\ session = "alive" /\ db = EmptyDb /\ work = None /\ lock = None
      /\ run = [p \in Runners |-> IdleRun] /\ acct = IdleAcct
      /\ overlapped = {} /\ blind = {} /\ sync = NoSync /\ last = NoLast
      /\ company = [s \in Symbols |-> Founder]
  BY DEF SyncInit, Init, Founder
<1>2. 1 \in Days /\ Founder \in Companies
  BY UpdateAssumption DEF Days, Founder
<1>3. EmptyDb \in DbType /\ SoundAt(EmptyDb, {}, {})
  <2>1. EmptyDb \in DbType
    BY DEF EmptyDb, DbType
  <2>2. SoundAt(EmptyDb, {}, {})
    BY DEF EmptyDb, SoundAt
  <2>3. QED
    BY <2>1, <2>2
<1>4. \A p \in Runners : run[p] = IdleRun /\ p # None
  BY <1>1, UpdateAssumption
<1>5. Typed
  BY <1>1, <1>2, <1>3, Records, NoSyncTyped, NoLastTyped DEF Typed, IdleAcct, Codes
<1>6. Today
  BY <1>4 DEF Today, Active, IdleRun
<1>7. Writing
  BY <1>1, <1>4, UpdateAssumption DEF Writing, IdleRun
<1>8. Versions
  BY <1>1, <1>3 DEF Versions, Sound
<1>9. Knowing
  BY <1>4 DEF Knowing, IdleRun
<1>10. sync.pc = "idle" /\ DOMAIN sync.results = {} /\ ~last.ok
  BY <1>1, NoSyncTyped DEF NoSync, NoLast
<1>11. Reporting
  BY <1>10 DEF Reporting, Told, Awaited
<1>12. QED
  BY <1>5, <1>6, <1>7, <1>8, <1>9, <1>11 DEF IInv

LEMMA Invariance == Spec => []IInv
<1>1. IInv /\ [Next]_vars => IInv'
  BY TypedStep, TodayStep, WritingStep, VersionsStep, KnowingStep, ReportingStep DEF IInv
<1>2. QED
  BY InitInv, <1>1, PTL DEF Spec

\* For any number of symbols, slots, days, faults and runs: the variables have their types,
\* and a crash of the writer loses less than a batch.  The transaction that is open differs
\* from the committed database in as many symbols as the writer counted, because it visits
\* each symbol once and counts what it writes (run_volatility_update).
THEOREM LessThanABatchIsLost == Spec => []TypeOK
<1>1. IInv => TypeOK
  <2> SUFFICES ASSUME IInv  PROVE TypeOK
    OBVIOUS
  <2>1. /\ day \in Days /\ session \in {"alive", "dead"}
        /\ company \in [Symbols -> Companies]
        /\ db \in DbType /\ lock \in Runners \cup {None}
        /\ (IF lock = None THEN work = None ELSE work \in DbType)
    BY DEF IInv, Typed
  <2>2. /\ \A p \in Runners : run[p].rc \in Codes /\ run[p].todo \subseteq Symbols
        /\ acct.rc \in Codes
    BY DEF IInv, Typed, RunType
  <2>3. sync.slot \in Runners \cup {None} /\ sync.results \in ResultType
    BY DEF IInv, Typed, SyncType, ResultType
  <2>4. \A j \in DOMAIN sync.results : sync.results[j] \in Codes
    BY <2>3, ResultOf
  <2>5. lock # None => /\ Active(lock) /\ run[lock].since < Batch
                       /\ Cardinality(Unsaved) = run[lock].since
    BY <2>1 DEF IInv, Writing, Active
  <2>6. QED
    BY <2>1, <2>2, <2>3, <2>4, <2>5 DEF TypeOK
<1>2. QED
  BY Invariance, <1>1, PTL

\* Crashes, retries and repeated runs record no symbol twice a day in full, unless two runs
\* were active on that day, and what a run passes over as recorded is stored: what it has yet
\* to visit and did not find stored has no full snapshot of today, in its own transaction
\* either.  A sample without a 30-day volatility may be repeated.
THEOREM OnceADay == Spec => []OneDailyPoint
<1>1. IInv => OneDailyPoint
  <2> SUFFICES ASSUME IInv  PROVE OneDailyPoint
    OBVIOUS
  <2>1. \A s \in Symbols, d \in Days : db.full[s][d] > 1 => d \in overlapped
    BY DEF IInv, Versions, Sound, SoundAt
  <2>2. ASSUME NEW p \in Runners, Active(p), NEW s \in run[p].recorded
        PROVE  db.full[s][run[p].today] > 0
    <3>1. run[p].pc \in {"prepare", "guard", "fetch", "record"} /\ run[p].today = day
      BY <2>2, ActiveStages DEF IInv, Today
    <3>2. Knows(p)
      BY <2>2, <3>1 DEF IInv, Knowing
    <3>3. QED
      BY <2>2, <3>1, <3>2 DEF Knows
  <2>3. QED
    BY <2>1, <2>2 DEF OneDailyPoint
<1>2. QED
  BY Invariance, <1>1, PTL

\* Two companies' snapshots end up under one ticker only after a run that had no identity
\* to compare: in every version of the database the samples of a ticker that no run passed
\* blind are those of the company whose identity is stored, and nothing is sampled before
\* an identity is.
THEOREM MergesWereBlind == Spec => []MergeNeedsBlindRun
<1>1. IInv => MergeNeedsBlindRun
  <2> SUFFICES ASSUME IInv, NEW s \in Symbols, Cardinality(db.firms[s]) > 1, s \notin blind
               PROVE  FALSE
    BY DEF MergeNeedsBlindRun
  <2>1. \E c : db.firms[s] \subseteq {c}
    BY DEF IInv, Versions, Sound, SoundAt
  <2>2. PICK c : db.firms[s] \in SUBSET {c}
    BY <2>1
  <2>3. Cardinality(db.firms[s]) <= Cardinality({c}) /\ Cardinality({c}) = 1
    BY <2>2, FS_Singleton, FS_Subset
  <2>4. IsFiniteSet(db.firms[s])
    BY <2>2, FS_Singleton, FS_Subset
  <2>5. Cardinality(db.firms[s]) \in Nat
    BY <2>4, FS_CardinalityType
  <2>6. QED
    BY <2>3, <2>5
<1>2. QED
  BY Invariance, <1>1, PTL

\* Where some symbol is subscribed by hand, a report of success stands for the account values
\* and a sample stored since the run began: for the updaters that could be scheduled, and for
\* the sample unless a day that is no trading day lies between its start and its end.  With
\* nothing subscribed and nothing held, a run of nothing succeeds: the premise is needed, and
\* the code does not ensure it.
THEOREM SuccessMeansStored ==
    ASSUME Equity # {}
    PROVE  Spec => []SuccessIsStored
<1>1. IInv => SuccessIsStored
  <2> SUFFICES ASSUME IInv, last.ok  PROVE SuccessIsStored
    BY DEF SuccessIsStored
  <2>1. \A j \in last.jobs : Meant(j, db, last.started, last.finished)
    BY DEF IInv, Reporting, Told
  <2>2. QED
    BY <2>1 DEF Meant, NavIn, SampleIn, SuccessIsStored
<1>2. QED
  BY Invariance, <1>1, PTL
=============================================================================

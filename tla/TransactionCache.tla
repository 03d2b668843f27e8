-------------------------- MODULE TransactionCache --------------------------
(***************************************************************************)
(* api/transactions_cache.py over storage/transactions_history.py: the     *)
(* transactions of one account, cached in account.db next to a table of    *)
(* the ranges that have been fetched.  What is older than a cutoff is only *)
(* fetched where no range covers it; what is newer is fetched every time.  *)
(*                                                                         *)
(* Several processes use the file.  A process reads the coverage with no   *)
(* transaction open, asks Schwab chunk by chunk, and takes SQLite's writer *)
(* lock at its first write; it holds it through all further requests, up   *)
(* to its commit.                                                          *)
(*                                                                         *)
(* One instant is a day: the code counts milliseconds, and its chunks and  *)
(* rows meet at the next one.                                              *)
(***************************************************************************)
EXTENDS Integers, FiniteSetsExt

CONSTANTS
    Callers,        \* processes
    Txns,           \* activity ids
    Nobody,         \* no holder of the writer lock
    FirstDay,       \* today, at the start
    LastDay,        \* bound on time, and on the end of a range
    MonthLen,       \* days of a month
    FreshFloor,     \* _FRESH_FLOOR_DAYS
    Chunk,          \* _API_CHUNK
    Spans,          \* the ranges asked for: <<days back, days ahead>> of today
    MaxChanges      \* bound on what Schwab posts late or corrects

ASSUME CacheAssumption ==
    /\ FirstDay \in Nat /\ LastDay \in Nat /\ FirstDay <= LastDay
    /\ MonthLen \in Nat \ {0} /\ FreshFloor \in Nat
    /\ Chunk \in Nat /\ MaxChanges \in Nat
    /\ Spans \subseteq Nat \X Int
    /\ Nobody \notin Callers

Days == 0..LastDay
Ranges == Days \X Days
In(i, range) == range[1] <= i /\ i <= range[2]

VARIABLES
    today,
    ledger,     \* Schwab's transactions: sets of [id, day, version]
    rows,       \* table transactions
    coverage,   \* table transactions_coverage
    writer,     \* who holds the writer lock
    newRows,    \* the tables as the holder's open transaction sees them
    newCoverage,
    pc,         \* where each caller is
    request,    \* the range it was asked for, and its refresh flag
    chunks,     \* the chunks it has not fetched
    payload,    \* what the last request returned, not stored yet
    around,     \* rows of coverage that merge_coverage has read
    changes     \* late posts and corrections so far

\* History variables.
VARIABLES
    trusted,    \* the days a caller found old and covered
    fetched,    \* the days it has fetched and stored
    ripe,       \* those that were old when it asked Schwab for them
    asOf,       \* how a day stood when it was fetched, see Answer
    overtaken   \* a merge has deleted other rows than it had read

file == <<rows, coverage, writer, newRows, newCoverage>>
call == <<request, chunks, payload, around, trusted, fetched, ripe>>
schwab == <<ledger, changes>>
vars == <<today, schwab, file, pc, call, asOf, overtaken>>

-----------------------------------------------------------------------------
(* Ranges *)

\* _fresh_cutoff: the last day that is old.
FirstOfPreviousMonth(d) == (d \div MonthLen - 1) * MonthLen
fresh_cutoff(d) == Min({FirstOfPreviousMonth(d), d - FreshFloor})

\* The cursor of coverage_gaps when its loop, over the rows from left to
\* right, has come to the day at.
cursor(ranges, start, at) == Max({start} \cup {row[2] + 1 : row \in {r \in ranges : r[1] < at}})

GapsBefore(ranges, start, stops) ==
    {gap \in {<<cursor(ranges, start, at), at - 1>> : at \in stops} : gap[1] <= gap[2]}

Starts(ranges, start, end) == {row[1] : row \in ranges} \cap start..end

\* Bug variant: what lies after the last row is forgotten.
coverage_gaps_UpToLastRow(ranges, start, end) == GapsBefore(ranges, start, Starts(ranges, start, end))

\* What lies before a row, up to the cursor, and after the last one.
coverage_gaps(ranges, start, end) ==
    IF start > end THEN {}
    ELSE GapsBefore(ranges, start, Starts(ranges, start, end) \cup {end + 1})

\* _chunk_range: the next chunk starts right after the last.
chunk_range(range) ==
    LET from(k) == range[1] + k * (Chunk + 1)
    IN  {<<from(k), Min({from(k) + Chunk, range[2]})>> :
            k \in {n \in 0..(range[2] - range[1]) : from(n) <= range[2]}}

\* Bug variant: adjacent rows are left alone.
TouchingOverlapping(ranges, range) ==
    {row \in ranges : row[1] <= range[2] /\ row[2] >= range[1]}

\* The rows merge_coverage selects, and deletes: overlapping or adjacent.
Touching(ranges, range) ==
    {row \in ranges : row[1] <= range[2] + 1 /\ row[2] >= range[1] - 1}

Hull(ranges) == <<Min({row[1] : row \in ranges}), Max({row[2] : row \in ranges})>>

Covered(ranges) == {i \in Days : \E row \in ranges : In(i, row)}

\* _fetch_one_account: the gaps of the old part, all of the fresh part.
Gaps(req, cov) ==
    LET cutoff == fresh_cutoff(today)
        old == IF req.start <= cutoff
               THEN coverage_gaps(cov, req.start, Min({req.end, cutoff})) ELSE {}
        fresh == IF req.end > cutoff
                 THEN {<<Max({req.start, cutoff + 1}), req.end>>} ELSE {}
    IN  IF req.refresh THEN {<<req.start, req.end>>} ELSE old \cup fresh

-----------------------------------------------------------------------------
Requests == [start : Days, end : Days, refresh : BOOLEAN]
Records == [id : Txns, day : Days, version : 0..MaxChanges]
Of(records, i) == {r \in records : r.day = i}
Old(i) == i <= fresh_cutoff(today)

\* The rows neither overlap nor touch.
Apart(table) ==
    \A row, other \in table :
        row[1] <= row[2] /\ (row # other => row[1] > other[2] + 1 \/ row[2] < other[1] - 1)

\* Types; and the rows of coverage are apart, unless a merge was overtaken.
TypeOK ==
    /\ today \in FirstDay..LastDay
    /\ ledger \subseteq Records /\ rows \subseteq Records /\ newRows \subseteq Records
    /\ coverage \subseteq Ranges /\ newCoverage \subseteq Ranges
    /\ writer \in Callers \cup {Nobody}
    /\ pc \in [Callers -> {"idle", "calling", "storing", "merging"}]
    /\ request \in [Callers -> Requests]
    /\ chunks \in [Callers -> SUBSET Ranges] /\ around \in [Callers -> SUBSET Ranges]
    /\ payload \in [Callers -> SUBSET Records]
    /\ trusted \in [Callers -> SUBSET Days] /\ fetched \in [Callers -> SUBSET Days]
    /\ ripe \in [Callers -> SUBSET Days] /\ changes \in 0..MaxChanges
    /\ asOf \in [Days -> {"never", "young", "old", "stale"}] /\ overtaken \in BOOLEAN
    /\ overtaken \/ Apart(coverage)

Init ==
    /\ today = FirstDay
    /\ \E posted \in SUBSET Txns : \E day \in [posted -> 0..FirstDay] :
           ledger = {[id |-> x, day |-> day[x], version |-> 0] : x \in posted}
    /\ rows = {} /\ coverage = {} /\ newRows = {} /\ newCoverage = {}
    /\ writer = Nobody
    /\ pc = [p \in Callers |-> "idle"]
    /\ request = [p \in Callers |-> [start |-> 0, end |-> 0, refresh |-> FALSE]]
    /\ chunks = [p \in Callers |-> {}]
    /\ payload = [p \in Callers |-> {}] /\ around = [p \in Callers |-> {}]
    /\ trusted = [p \in Callers |-> {}] /\ fetched = [p \in Callers |-> {}]
    /\ ripe = [p \in Callers |-> {}] /\ changes = 0
    /\ asOf = [i \in Days |-> "never"] /\ overtaken = FALSE

-----------------------------------------------------------------------------
(* Schwab (as far as the cache relies on it) and the calendar.  What is old *)
(* does not change any more.                                                *)

Unposted == Txns \ {r.id : r \in ledger}

Post(new, day) == ledger \cup {[id |-> x, day |-> day, version |-> 0] : x \in new}

\* Midnight, and the day's transactions.
Tick ==
    /\ today < LastDay
    /\ today' = today + 1
    /\ \E new \in SUBSET Unposted : ledger' = Post(new, today + 1)
    /\ UNCHANGED <<changes, file, pc, call, asOf, overtaken>>

\* A transaction of an earlier day is posted late, or one is corrected.
Revise ==
    /\ changes < MaxChanges
    /\ changes' = changes + 1
    /\ \/ \E x \in Unposted, day \in Days :
              day <= today /\ ~Old(day) /\ ledger' = Post({x}, day)
       \/ \E r \in ledger :
              ~Old(r.day) /\ ledger' = (ledger \ {r}) \cup {[r EXCEPT !.version = @ + 1]}
    /\ UNCHANGED <<today, file, pc, call, asOf, overtaken>>

-----------------------------------------------------------------------------
(* fetch_cached, for one account *)

AllChunks(gaps) == UNION {chunk_range(gap) : gap \in gaps}

\* The chunks are fetched from left to right.
NextChunk(p) == CHOOSE chunk \in chunks[p] : \A other \in chunks[p] : chunk[1] <= other[1]

\* The tables as p sees them.
SeenRows(p) == IF writer = p THEN newRows ELSE rows
SeenCoverage(p) == IF writer = p THEN newCoverage ELSE coverage

\* parse_range: a range may end in the future, it does not begin there.  The
\* cutoff is computed here, once for the whole call.
Begin(p) ==
    /\ pc[p] = "idle"
    /\ \E span \in Spans, refresh \in BOOLEAN :
           LET req == [start |-> today - span[1], end |-> today + span[2], refresh |-> refresh] IN
           /\ req \in Requests /\ req.start <= req.end
           /\ request' = [request EXCEPT ![p] = req]
           /\ chunks' = [chunks EXCEPT ![p] = AllChunks(Gaps(req, coverage))]
           /\ trusted' = [trusted EXCEPT ![p] =
                 {i \in Covered(coverage) : Old(i) /\ In(i, <<req.start, req.end>>) /\ ~req.refresh}]
    /\ fetched' = [fetched EXCEPT ![p] = {}]
    /\ pc' = [pc EXCEPT ![p] = "calling"]
    /\ UNCHANGED <<today, schwab, file, payload, around, ripe, asOf, overtaken>>

\* get_transactions of the next chunk.
Fetch(p) ==
    /\ pc[p] = "calling" /\ chunks[p] # {}
    /\ payload' = [payload EXCEPT ![p] = {r \in ledger : In(r.day, NextChunk(p))}]
    /\ ripe' = [ripe EXCEPT ![p] = @ \cup {i \in Days : Old(i) /\ In(i, NextChunk(p))}]
    /\ pc' = [pc EXCEPT ![p] = "storing"]
    /\ UNCHANGED <<today, schwab, file, request, chunks, around, trusted, fetched, asOf, overtaken>>

\* A write: SQLite gives p the writer lock, or has given it before, and shows
\* it the tables as last committed.
Writes(p, newR, newC) ==
    /\ writer \in {Nobody, p}
    /\ writer' = p
    /\ newRows' = newR /\ newCoverage' = newC
    /\ UNCHANGED <<rows, coverage>>

\* Bug variant: a row that is there is not touched.
upserted_Ignoring(table, records) ==
    table \cup {r \in records : \A old \in table : old.id # r.id}

\* upsert_many: the last write wins.
upserted(table, records) ==
    records \cup {old \in table : \A r \in records : r.id # old.id}

Merged(table, near, chunk) ==
    (table \ Touching(table, chunk)) \cup {Hull(near \cup {chunk})}

Stored(p) ==
    /\ chunks' = [chunks EXCEPT ![p] = @ \ {NextChunk(p)}]
    /\ fetched' = [fetched EXCEPT ![p] = @ \cup {i \in Days : In(i, NextChunk(p))}]
    /\ pc' = [pc EXCEPT ![p] = "calling"]
    /\ UNCHANGED <<today, schwab, request, trusted, ripe, asOf>>

\* upsert_many and merge_coverage, in a transaction.
Store(p) ==
    /\ pc[p] = "storing"
    /\ payload[p] # {} \/ writer = p
    /\ LET chunk == NextChunk(p) IN
           Writes(p, upserted(SeenRows(p), payload[p]),
                     Merged(SeenCoverage(p), Touching(SeenCoverage(p), chunk), chunk))
    /\ payload' = [payload EXCEPT ![p] = {}]
    /\ UNCHANGED <<around, overtaken>>
    /\ Stored(p)

\* With nothing to store, merge_coverage's SELECT comes before the transaction
\* that its DELETE opens.
Select(p) ==
    /\ pc[p] = "storing"
    /\ payload[p] = {} /\ writer # p
    /\ around' = [around EXCEPT ![p] = Touching(coverage, NextChunk(p))]
    /\ pc' = [pc EXCEPT ![p] = "merging"]
    /\ UNCHANGED <<today, schwab, file, request, chunks, payload, trusted, fetched, ripe,
                   asOf, overtaken>>

\* The DELETE sees the table of now, the union is of the rows as read.  No two
\* rows start together (the primary key): the INSERT raises, and the call fails.
Merge(p) ==
    /\ pc[p] = "merging"
    /\ \A row \in coverage \ Touching(coverage, NextChunk(p)) :
           row[1] # Hull(around[p] \cup {NextChunk(p)})[1]
    /\ Writes(p, rows, Merged(coverage, around[p], NextChunk(p)))
    /\ around' = [around EXCEPT ![p] = {}]
    /\ overtaken' = (overtaken \/ around[p] # Touching(coverage, NextChunk(p)))
    /\ UNCHANGED payload
    /\ Stored(p)

Ends(p) ==
    /\ pc' = [pc EXCEPT ![p] = "idle"]
    /\ chunks' = [chunks EXCEPT ![p] = {}]
    /\ payload' = [payload EXCEPT ![p] = {}] /\ around' = [around EXCEPT ![p] = {}]
    /\ trusted' = [trusted EXCEPT ![p] = {}] /\ fetched' = [fetched EXCEPT ![p] = {}]
    /\ ripe' = [ripe EXCEPT ![p] = {}]
    /\ UNCHANGED <<today, schwab, request, overtaken>>

Unlock == writer' = Nobody /\ newRows' = {} /\ newCoverage' = {}

\* What asOf says of a day that p has fetched: that it was old, that it was young,
\* or that it was young although another call has fetched it as old since.
AsFetched(p, i) ==
    IF i \in ripe[p] THEN "old"
    ELSE IF asOf[i] \in {"old", "stale"} THEN "stale" ELSE "young"

\* read_range of the request, and the commit.
Answer(p) ==
    /\ pc[p] = "calling" /\ chunks[p] = {}
    /\ IF writer = p THEN rows' = newRows /\ coverage' = newCoverage /\ Unlock
       ELSE UNCHANGED file
    /\ asOf' = [i \in Days |-> IF i \in fetched[p] THEN AsFetched(p, i) ELSE asOf[i]]
    /\ Ends(p)

\* Bug variant: what was merged before the error stays.
RolledBackRowsOnly(p) == rows' = rows /\ coverage' = newCoverage /\ Unlock

RolledBack(p) == UNCHANGED <<rows, coverage>> /\ Unlock

\* Schwab's error, SQLite's busy timeout behind the other writer or its refusal
\* of a row, or a kill:
\* the connection closes without a commit.
Fail(p) ==
    /\ pc[p] # "idle"
    /\ IF writer = p THEN RolledBack(p) ELSE UNCHANGED file
    /\ Ends(p)
    /\ UNCHANGED asOf

Next ==
    \/ Tick \/ Revise
    \/ \E p \in Callers :
          \/ Begin(p) \/ Fetch(p) \/ Store(p) \/ Select(p) \/ Merge(p)
          \/ Answer(p) \/ Fail(p)

Spec == Init /\ [][Next]_vars
-----------------------------------------------------------------------------
(* Properties *)

\* The days a call fetches, or is going to, are exactly those of its range
\* that it does not trust: what is old and covered is never fetched again,
\* and no day of an answer is neither cached nor fetched.
FetchesTheRest ==
    \A p \in Callers : pc[p] # "idle" =>
        LET ahead == Covered(chunks[p])
        IN  /\ fetched[p] \cup ahead =
                  {i \in request[p].start .. request[p].end : i \notin trusted[p]}
            /\ trusted[p] \cap ahead = {}

\* Coverage never claims a day that no committed call has fetched, whichever
\* calls fail and however two of them interleave.
CoverageFetched == \A i \in Covered(coverage) : asOf[i] # "never"

\* A day that was fetched when it was old is right in the cache for ever, also
\* when another call had fetched it before it was last corrected, unless that call
\* goes on past midnight and commits its answer after all.
OldFetchRight == \A i \in Days : asOf[i] = "old" => Of(rows, i) = Of(ledger, i)

\* doc/transactions.md:64 "fetched once and cached forever": right, whoever commits last.
OldFetchStaysRight ==
    \A i \in Days : asOf[i] \in {"old", "stale"} => Of(rows, i) = Of(ledger, i)

\* doc/transactions.md:68-70 "data that was once fresh naturally becomes old -
\* already cached, so no special re-fetch needed": what is old and covered, and
\* will not be fetched again, is right.
AgedIsCached ==
    \A i \in Covered(coverage) : Old(i) => Of(rows, i) = Of(ledger, i)

\* read_coverage "Non-overlapping" (storage/transactions_history.py:281), with no exception
\* for a merge whose rows another process has changed since it read them.
RowsApart == Apart(coverage)
=============================================================================

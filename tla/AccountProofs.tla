----------------------------- MODULE AccountProofs -----------------------------
(*****************************************************************************)
(* Theorems about what is kept of an account and what is asked for it.       *)
(*                                                                           *)
(* TransactionCache, for any number of processes, transactions, days, ranges *)
(* and lengths of chunks and months: a call fetches exactly what it may not  *)
(* trust, coverage claims only what was fetched, and what was fetched when   *)
(* it was old is right.                                                      *)
(*                                                                           *)
(* The operators around an order: StrategyShapes, for every position of at   *)
(* most MaxLegs legs and every price of the underlying; OrderTicket, for     *)
(* every ticket and every order of at most MaxLegs option legs; and what the *)
(* fields of the order policy see of an order and of the account, for every  *)
(* order and every answer Schwab may give, with what the templates and the   *)
(* editor of `profile new` write.                                            *)
(*****************************************************************************)
EXTENDS OrderTicket, ProfileTemplates, TransactionCache,
        SequenceTheorems, NaturalsInduction, WellFoundedInduction, TLAPS

-----------------------------------------------------------------------------
(* The cache of transactions: the inductive invariant. *)

Typed ==
    /\ today \in FirstDay..LastDay
    /\ ledger \subseteq Records /\ rows \subseteq Records /\ newRows \subseteq Records
    /\ coverage \subseteq Ranges /\ newCoverage \subseteq Ranges
    /\ writer \in Callers \cup {Nobody}
    /\ pc \in [Callers -> {"idle", "calling", "storing", "merging"}]
    /\ request \in [Callers -> Requests]
    /\ chunks \in [Callers -> SUBSET Ranges] /\ around \in [Callers -> SUBSET Ranges]
    /\ payload \in [Callers -> SUBSET Records]
    /\ trusted \in [Callers -> SUBSET Days] /\ fetched \in [Callers -> SUBSET Days]
    /\ ripe \in [Callers -> SUBSET Days] /\ changes \in 0..MaxChanges
    /\ asOf \in [Days -> {"never", "young", "old", "stale"}] /\ overtaken \in BOOLEAN

\* Who has fetched something has the writer lock, and its call is under way.
Calling ==
    \A p \in Callers :
        /\ pc[p] = "idle" => writer # p
        /\ \A chunk \in chunks[p] : chunk[1] <= chunk[2]
        /\ pc[p] \in {"storing", "merging"} => chunks[p] # {}
        /\ pc[p] = "merging" => writer # p
        /\ fetched[p] # {} => writer = p

\* The rows of coverage, committed or not, are apart unless a merge was overtaken.
Shaped ==
    overtaken \/ (Apart(coverage) /\ (writer # Nobody => Apart(newCoverage)))

\* What coverage claims was fetched, by the open transaction or by one that is committed;
\* and so for the rows that a merge has read, which all lie at its chunk.
Known(i) == asOf[i] # "never"

Claiming ==
    /\ \A i \in Covered(coverage) : Known(i)
    /\ writer # Nobody => \A i \in Covered(newCoverage) : (Known(i) \/ i \in fetched[writer])
    /\ \A p \in Callers : pc[p] = "merging" =>
          /\ \A i \in Covered(around[p]) : Known(i)
          /\ around[p] = Touching(around[p], NextChunk(p))

\* Schwab lists no transaction twice, and what is on file is listed on the same day.
Listed(r) == \E s \in ledger : s.id = r.id /\ s.day = r.day

Right(table, i) == Of(table, i) = Of(ledger, i)

Listing ==
    /\ \A r, s \in ledger : r.id = s.id => r = s
    /\ \A r \in ledger : r.version <= changes
    /\ \A r \in rows \cup newRows : Listed(r)
    /\ \A p \in Callers : \A r \in payload[p] : Listed(r)

\* What was fetched when it was old is right: in the file, in the open transaction unless
\* its holder fetched it when it was young, and in an answer that is not stored yet.
FileAgrees == \A i \in Days : asOf[i] = "old" => Old(i) /\ Right(rows, i)

\* A day of the chunk whose answer p has not stored.
InHand(p, i) == pc[p] \in {"storing", "merging"} /\ In(i, NextChunk(p))

\* What p's transaction has to show rightly: what p has fetched as old, and of the rest
\* what others did.
Claims(p, i) ==
    IF i \in fetched[p] THEN i \in ripe[p] /\ ~ InHand(p, i) ELSE asOf[i] = "old"

OpenAgrees ==
    writer # Nobody =>
        \A i \in Days : Claims(writer, i) => Right(newRows, i)

AnswerAgrees(p) ==
    /\ pc[p] \in {"storing", "merging"} =>
          /\ \A r \in payload[p] : In(r.day, NextChunk(p))
          /\ \A i \in Days : i \in ripe[p] /\ In(i, NextChunk(p)) => Right(payload[p], i)
    /\ pc[p] = "merging" => payload[p] = {}
    /\ \A i \in ripe[p] : Old(i)

Agreeing == FileAgrees /\ OpenAgrees /\ \A p \in Callers : AnswerAgrees(p)

IInv == Typed /\ Calling /\ FetchesTheRest /\ Shaped /\ Claiming /\ Listing /\ Agreeing

-----------------------------------------------------------------------------
(* Smallest and largest of a set of days. *)

LEMMA Least ==
    ASSUME NEW T \in SUBSET Nat, T # {}
    PROVE  \E t \in T : \A x \in T : t <= x
<1> DEFINE R == {ss \in Nat \X Nat : ss[1] < ss[2]}
<1>1. IsWellFoundedOn(R, Nat)
  BY NatLessThanWellFounded, Zenon DEF OpToRel
<1> HIDE DEF R
<1>2. PICK t \in T : \A x \in T : ~ (<<x, t>> \in R)
  BY <1>1, WFMin, Zenon
<1>3. ASSUME NEW x \in T  PROVE t <= x
  <2>1. x \in Nat /\ t \in Nat
    OBVIOUS
  <2>2. <<x, t>> \in Nat \X Nat /\ <<x, t>>[1] = x /\ <<x, t>>[2] = t
    BY <2>1
  <2>3. ~ (x < t)
    BY <1>2, <2>2, Zenon DEF R
  <2>4. QED
    BY <2>1, <2>3, SMT
<1>4. QED
  BY <1>3

LEMMA MinOf ==
    ASSUME NEW T \in SUBSET Nat, T # {}
    PROVE  Min(T) \in T /\ \A x \in T : Min(T) <= x
<1>1. \E t \in T : \A x \in T : t <= x
  BY Least
<1>2. QED
  BY <1>1 DEF Min

LEMMA MaxOf ==
    ASSUME NEW bound \in Nat, NEW T \in SUBSET (0..bound), T # {}
    PROVE  Max(T) \in T /\ \A x \in T : x <= Max(T)
<1> DEFINE D == {bound - x : x \in T}
<1>1. D \in SUBSET Nat /\ D # {}
  <2>1. PICK x : x \in T
    OBVIOUS
  <2>2. bound - x \in D
    BY <2>1
  <2>3. \A y \in T : bound - y \in Nat
    OBVIOUS
  <2>4. QED
    BY <2>2, <2>3
<1>2. PICK d \in D : \A x \in D : d <= x
  BY <1>1, Least, Zenon
<1>3. PICK t \in T : d = bound - t
  BY <1>2
<1>4. ASSUME NEW x \in T  PROVE x <= t
  BY <1>2, <1>3
<1>5. QED
  BY <1>4 DEF Max

LEMMA MinPair ==
    ASSUME NEW a \in Int, NEW b \in Int
    PROVE  Min({a, b}) = IF a <= b THEN a ELSE b
BY DEF Min

LEMMA MaxPair ==
    ASSUME NEW a \in Int, NEW b \in Int
    PROVE  Max({a, b}) = IF a <= b THEN b ELSE a
BY DEF Max

LEMMA MonthIsDay == ASSUME NEW d \in Int  PROVE FirstOfPreviousMonth(d) \in Int
BY CacheAssumption DEF FirstOfPreviousMonth

LEMMA CutoffIs ==
    ASSUME NEW d \in Int
    PROVE  fresh_cutoff(d) = IF FirstOfPreviousMonth(d) <= d - FreshFloor
                             THEN FirstOfPreviousMonth(d) ELSE d - FreshFloor
<1>1. d - FreshFloor \in Int
  BY CacheAssumption
<1>2. QED
  BY <1>1, MonthIsDay, MinPair DEF fresh_cutoff

LEMMA CutoffIsDay == ASSUME NEW d \in Int  PROVE fresh_cutoff(d) \in Int /\ fresh_cutoff(d) < d
<1>1. FirstOfPreviousMonth(d) < d
  BY CacheAssumption, SMTT(30) DEF FirstOfPreviousMonth
<1>2. QED
  BY <1>1, MonthIsDay, CutoffIs, CacheAssumption

\* Time makes old, and never young.
LEMMA CutoffMoves == ASSUME NEW d \in Nat  PROVE fresh_cutoff(d) <= fresh_cutoff(d + 1)
<1>1. d \div MonthLen <= (d + 1) \div MonthLen
  BY CacheAssumption, SMTT(30)
<1>2. FirstOfPreviousMonth(d) <= FirstOfPreviousMonth(d + 1)
  BY <1>1, CacheAssumption, SMTT(30) DEF FirstOfPreviousMonth
<1>3. FirstOfPreviousMonth(d) \in Int /\ FirstOfPreviousMonth(d + 1) \in Int
  BY MonthIsDay
<1>4. d \in Int /\ d + 1 \in Int /\ FreshFloor \in Nat
  BY CacheAssumption
<1>5. /\ fresh_cutoff(d) = IF FirstOfPreviousMonth(d) <= d - FreshFloor
                            THEN FirstOfPreviousMonth(d) ELSE d - FreshFloor
      /\ fresh_cutoff(d + 1) = IF FirstOfPreviousMonth(d + 1) <= d + 1 - FreshFloor
                                THEN FirstOfPreviousMonth(d + 1) ELSE d + 1 - FreshFloor
  BY <1>4, CutoffIs
<1>6. QED
  BY <1>2, <1>3, <1>4, <1>5

-----------------------------------------------------------------------------
(* Gaps and chunks. *)

LEMMA DaysAreNat == LastDay \in Nat /\ Days \subseteq Nat /\ Days = 0..LastDay
BY CacheAssumption DEF Days

LEMMA RangeParts ==
    ASSUME NEW range \in Ranges
    PROVE  range[1] \in Days /\ range[2] \in Days /\ range = <<range[1], range[2]>>
BY DEF Ranges

LEMMA CursorFact ==
    ASSUME NEW ranges \in SUBSET Ranges, NEW start \in Days, NEW at \in Int
    PROVE  LET c == cursor(ranges, start, at) IN
           /\ c \in Nat /\ start <= c
           /\ \A row \in ranges : row[1] < at => row[2] < c
           /\ c = start \/ \E row \in ranges : row[1] < at /\ c = row[2] + 1
<1> DEFINE S == {start} \cup {row[2] + 1 : row \in {r \in ranges : r[1] < at}}
<1>1. S \in SUBSET (0..(LastDay + 1)) /\ S # {}
  BY RangeParts, DaysAreNat
<1>2. LastDay + 1 \in Nat
  BY DaysAreNat
<1>3. Max(S) \in S /\ \A x \in S : x <= Max(S)
  <2> HIDE DEF S
  <2>1. QED
    BY <1>1, <1>2, MaxOf
<1>4. cursor(ranges, start, at) = Max(S)
  BY DEF cursor
<1>5. Max(S) \in Nat
  BY <1>1, <1>3
<1>6. \A row \in ranges : row[1] < at => row[2] < Max(S)
  <2>1. SUFFICES ASSUME NEW row \in ranges, row[1] < at  PROVE row[2] < Max(S)
    OBVIOUS
  <2>2. row[2] + 1 \in S
    BY <2>1
  <2>3. row[2] \in Nat
    BY RangeParts, DaysAreNat
  <2>4. row[2] + 1 <= Max(S)
    <3> HIDE DEF S
    <3>1. QED
      BY <1>3, <2>2
  <2>5. QED
    <3> HIDE DEF S
    <3>1. QED
      BY <1>5, <2>3, <2>4
<1>7. start <= Max(S)
  BY <1>3
<1>8. Max(S) = start \/ \E row \in ranges : row[1] < at /\ Max(S) = row[2] + 1
  BY <1>3
<1> HIDE DEF S
<1>9. QED
  BY <1>4, <1>5, <1>6, <1>7, <1>8

\* The gaps are the days of the range that no row covers.
LEMMA GapsFact ==
    ASSUME NEW ranges \in SUBSET Ranges, NEW start \in Days, NEW end \in Days
    PROVE  /\ coverage_gaps(ranges, start, end) \subseteq Ranges
           /\ Covered(coverage_gaps(ranges, start, end)) = (start..end) \ Covered(ranges)
<1> DEFINE Stops == Starts(ranges, start, end) \cup {end + 1}
           Gaps0 == coverage_gaps(ranges, start, end)
<1>0. start \in Nat /\ end \in Nat /\ end <= LastDay /\ LastDay \in Nat
  BY DaysAreNat
<1>1. CASE start > end
  <2>1. Gaps0 = {} /\ start..end = {}
    BY <1>0, <1>1 DEF coverage_gaps
  <2>2. QED
    BY <2>1 DEF Covered
<1>2. CASE ~ (start > end)
  <2>1. \A gap : gap \in Gaps0 <=>
            \E at \in Stops : gap = <<cursor(ranges, start, at), at - 1>> /\ cursor(ranges, start, at) <= at - 1
    BY <1>2 DEF coverage_gaps, GapsBefore
  <2>2. \A at \in Stops : at \in Nat /\ start <= at /\ at <= end + 1
    BY <1>0, <1>2 DEF Starts
  <2>3. Gaps0 \subseteq Ranges
    <3>1. SUFFICES ASSUME NEW gap \in Gaps0  PROVE gap \in Ranges
      OBVIOUS
    <3>2. PICK at \in Stops : gap = <<cursor(ranges, start, at), at - 1>> /\ cursor(ranges, start, at) <= at - 1
      BY <2>1
    <3>3. at \in Nat /\ at <= end + 1 /\ at \in Int
      BY <2>2
    <3>4. cursor(ranges, start, at) \in Nat
      BY <3>3, CursorFact
    <3>5. cursor(ranges, start, at) \in Days /\ at - 1 \in Days
      BY <1>0, <3>2, <3>3, <3>4 DEF Days
    <3>6. QED
      BY <3>2, <3>5 DEF Ranges
  <2>4. ASSUME NEW i \in Covered(Gaps0)  PROVE i \in (start..end) \ Covered(ranges)
    <3>1. PICK gap \in Gaps0 : In(i, gap)
      BY DEF Covered
    <3>2. PICK at \in Stops : gap = <<cursor(ranges, start, at), at - 1>>
      BY <2>1
    <3>3. at \in Nat /\ at <= end + 1 /\ at \in Int
      BY <2>2
    <3>4. i \in Nat
      BY DaysAreNat DEF Covered
    <3>5. cursor(ranges, start, at) <= i /\ i <= at - 1
      BY <3>1, <3>2 DEF In
    <3>6. /\ cursor(ranges, start, at) \in Nat /\ start <= cursor(ranges, start, at)
          /\ \A row \in ranges : row[1] < at => row[2] < cursor(ranges, start, at)
      BY <3>3, CursorFact
    <3>7. i \in start..end
      BY <1>0, <3>3, <3>4, <3>5, <3>6
    <3>8. ASSUME NEW row \in ranges, In(i, row)  PROVE FALSE
      <4>1. row[1] \in Nat /\ row[2] \in Nat /\ row[1] <= i /\ i <= row[2]
        BY <3>8, RangeParts, DaysAreNat DEF In
      <4>2. QED
        BY <3>3, <3>4, <3>5, <3>6, <4>1
    <3>9. QED
      BY <3>7, <3>8 DEF Covered
  <2>5. ASSUME NEW i \in (start..end) \ Covered(ranges)  PROVE i \in Covered(Gaps0)
    <3>1. i \in Nat /\ start <= i /\ i <= end /\ i \in Days
      BY <1>0, <2>5 DEF Days
    <3> DEFINE Later == {at \in Stops : i < at}
    <3>2. end + 1 \in Later /\ Later \in SUBSET Nat
      BY <1>0, <2>2, <3>1
    <3>3. PICK at \in Later : \A x \in Later : at <= x
      <4> HIDE DEF Later
      <4>1. QED
        BY <3>2, Least
    <3>4. at \in Stops /\ i < at /\ at \in Nat /\ at \in Int /\ at <= end + 1
      BY <2>2
    <3> DEFINE c == cursor(ranges, start, at)
    <3>5. c \in Nat /\ (c = start \/ \E row \in ranges : row[1] < at /\ c = row[2] + 1)
      BY <3>4, CursorFact
    <3>6. ASSUME NEW row \in ranges, row[1] < at  PROVE row[2] < i
      <4>1. row[1] \in Nat /\ row[2] \in Nat
        BY RangeParts, DaysAreNat
      <4>2. ~ In(i, row)
        BY <2>5, <3>1 DEF Covered
      <4>3. row[1] <= i
        <5>1. SUFFICES ASSUME i < row[1]  PROVE FALSE
          BY <3>1, <4>1
        <5>2. row[1] \in Starts(ranges, start, end)
          BY <1>0, <3>1, <3>4, <3>6, <4>1, <5>1 DEF Starts
        <5>3. row[1] \in Later
          BY <5>1, <5>2
        <5>4. QED
          BY <3>3, <3>4, <3>6, <4>1, <5>3
      <4>4. QED
        BY <3>1, <4>1, <4>2, <4>3 DEF In
    <3>7. c <= i
      <4>1. CASE c = start
        BY <3>1, <4>1
      <4>2. ASSUME NEW row \in ranges, row[1] < at, c = row[2] + 1  PROVE c <= i
        BY <3>1, <3>6, <4>2, RangeParts, DaysAreNat
      <4>3. QED
        BY <3>5, <4>1, <4>2
    <3>8. <<c, at - 1>> \in Gaps0 /\ In(i, <<c, at - 1>>)
      <4>1. c <= at - 1 /\ i <= at - 1
        BY <3>1, <3>4, <3>5, <3>7
      <4>2. In(i, <<c, at - 1>>)
        BY <3>7, <4>1 DEF In
      <4>3. QED
        BY <2>1, <3>4, <4>1, <4>2
    <3>9. QED
      BY <3>1, <3>8 DEF Covered
  <2>6. QED
    BY <2>3, <2>4, <2>5
<1>3. QED
  BY <1>1, <1>2

\* The chunks of a range are its days.
LEMMA ChunksFact ==
    ASSUME NEW range \in Ranges
    PROVE  /\ chunk_range(range) \subseteq Ranges
           /\ \A chunk \in chunk_range(range) : chunk[1] <= chunk[2]
           /\ Covered(chunk_range(range)) = {i \in Days : In(i, range)}
<1> DEFINE s == range[1]
           e == range[2]
           m == Chunk + 1
           from(k) == s + k * m
<1>0. s \in Nat /\ e \in Nat /\ e <= LastDay /\ LastDay \in Nat /\ m \in Nat /\ m > 0 /\ Chunk \in Nat
  BY RangeParts, DaysAreNat, CacheAssumption
<1>1. ASSUME NEW k \in Nat  PROVE from(k) \in Nat /\ s <= from(k) /\ from(k + 1) = from(k) + m
  BY <1>0
<1> HIDE DEF s, e, m
<1>2. \A chunk : chunk \in chunk_range(range) <=>
          \E k \in 0..(e - s) : from(k) <= e /\ chunk = <<from(k), Min({from(k) + Chunk, e})>>
  BY DEF chunk_range, s, e, m
<1> HIDE DEF from
<1>3. ASSUME NEW k \in Nat, from(k) <= e
      PROVE  /\ Min({from(k) + Chunk, e}) \in Nat /\ Min({from(k) + Chunk, e}) <= e
             /\ from(k) <= Min({from(k) + Chunk, e})
             /\ Min({from(k) + Chunk, e}) = IF from(k) + Chunk <= e THEN from(k) + Chunk ELSE e
  <2>1. from(k) + Chunk \in Int /\ e \in Int /\ from(k) \in Nat
    BY <1>0, <1>1
  <2>2. Min({from(k) + Chunk, e}) = IF from(k) + Chunk <= e THEN from(k) + Chunk ELSE e
    BY <2>1, MinPair
  <2>3. QED
    BY <1>0, <1>3, <2>1, <2>2
<1>4. \A chunk \in chunk_range(range) : chunk \in Ranges /\ chunk[1] <= chunk[2]
  <2>1. SUFFICES ASSUME NEW chunk \in chunk_range(range)  PROVE chunk \in Ranges /\ chunk[1] <= chunk[2]
    OBVIOUS
  <2>2. PICK k \in 0..(e - s) : from(k) <= e /\ chunk = <<from(k), Min({from(k) + Chunk, e})>>
    BY <1>2
  <2>3. k \in Nat
    BY <1>0
  <2>4. /\ from(k) \in Nat /\ Min({from(k) + Chunk, e}) \in Nat
        /\ from(k) <= Min({from(k) + Chunk, e}) /\ Min({from(k) + Chunk, e}) <= e
    BY <1>1, <1>3, <2>2, <2>3
  <2>5. from(k) \in Days /\ Min({from(k) + Chunk, e}) \in Days
    BY <1>0, <2>2, <2>4 DEF Days
  <2>6. QED
    BY <2>2, <2>4, <2>5 DEF Ranges
<1>5. ASSUME NEW i \in Covered(chunk_range(range))  PROVE In(i, range)
  <2>1. PICK chunk \in chunk_range(range) : In(i, chunk)
    BY DEF Covered
  <2>2. PICK k \in 0..(e - s) : from(k) <= e /\ chunk = <<from(k), Min({from(k) + Chunk, e})>>
    BY <1>2
  <2>3. k \in Nat /\ i \in Nat
    BY <1>0, DaysAreNat DEF Covered
  <2>4. from(k) <= i /\ i <= Min({from(k) + Chunk, e})
    BY <2>1, <2>2 DEF In
  <2>5. s <= i /\ i <= e
    BY <1>0, <1>1, <1>3, <2>2, <2>3, <2>4
  <2>6. QED
    BY <2>5 DEF In, s, e
<1>6. ASSUME NEW i \in Days, In(i, range)  PROVE i \in Covered(chunk_range(range))
  <2>1. i \in Nat /\ s <= i /\ i <= e
    BY <1>6, DaysAreNat DEF In, s, e
  <2> DEFINE K == {k \in 0..(i - s) : from(k) <= i}
  <2>2. K \in SUBSET (0..(i - s)) /\ i - s \in Nat /\ 0 \in K
    BY <1>0, <2>1 DEF from
  <2>3. PICK k \in K : \A x \in K : x <= k
    <3> HIDE DEF K
    <3>1. QED
      BY <2>2, MaxOf
  <2>4. k \in Nat /\ from(k) <= i /\ from(k) \in Nat /\ from(k) <= e /\ k \in 0..(e - s)
    BY <1>0, <1>1, <2>1, <2>2
  <2>5. i < from(k + 1)
    <3>1. SUFFICES ASSUME from(k + 1) <= i  PROVE FALSE
      BY <1>1, <2>1, <2>4
    <3>2. k + 1 <= (k + 1) * m
      BY <1>0, <2>4, SMTT(30)
    <3>3. k + 1 <= i - s
      BY <1>0, <2>1, <2>4, <3>1, <3>2 DEF from
    <3>4. k + 1 \in K
      BY <2>2, <2>4, <3>1, <3>3
    <3>5. QED
      BY <2>3, <2>4, <3>4
  <2>6. i <= from(k) + Chunk
    BY <1>0, <1>1, <2>1, <2>4, <2>5 DEF m
  <2>7. In(i, <<from(k), Min({from(k) + Chunk, e})>>)
    BY <1>3, <2>1, <2>4, <2>6 DEF In
  <2>8. QED
    BY <1>2, <2>4, <2>7 DEF Covered
<1>7. QED
  BY <1>4, <1>5, <1>6 DEF Covered

\* What a call is going to fetch is what it may not trust.
LEMMA AheadFact ==
    ASSUME NEW req \in Requests, NEW cov \in SUBSET Ranges, today \in Int, req.start <= req.end
    PROVE  /\ AllChunks(Gaps(req, cov)) \subseteq Ranges
           /\ \A chunk \in AllChunks(Gaps(req, cov)) : chunk[1] <= chunk[2]
           /\ Covered(AllChunks(Gaps(req, cov))) =
                 {i \in req.start .. req.end : req.refresh \/ ~ Old(i) \/ i \notin Covered(cov)}
<1> DEFINE cutoff == fresh_cutoff(today)
           G == Gaps(req, cov)
<1>1. /\ req.start \in Nat /\ req.end \in Nat /\ req.end <= LastDay /\ LastDay \in Nat
      /\ req.start \in Days /\ req.end \in Days /\ req.refresh \in BOOLEAN
  BY DaysAreNat DEF Requests
<1>2. cutoff \in Int
  BY CutoffIsDay
<1>3. Min({req.end, cutoff}) = (IF req.end <= cutoff THEN req.end ELSE cutoff)
  BY <1>1, <1>2, MinPair
<1>4. Max({req.start, cutoff + 1}) = (IF req.start <= cutoff + 1 THEN cutoff + 1 ELSE req.start)
  BY <1>1, <1>2, MaxPair
<1> HIDE DEF cutoff, G
<1>5. /\ G \subseteq Ranges
      /\ Covered(G) = {i \in req.start .. req.end : req.refresh \/ i > cutoff \/ i \notin Covered(cov)}
  <2>1. CASE req.refresh
    <3>1. G = {<<req.start, req.end>>}
      BY <2>1 DEF G, Gaps
    <3>2. Covered(G) = req.start .. req.end
      BY <1>1, <3>1 DEF Covered, In, Days
    <3>3. QED
      BY <1>1, <2>1, <3>1, <3>2 DEF Ranges
  <2>2. CASE ~ req.refresh
    <3> DEFINE last == Min({req.end, cutoff})
               old == IF req.start <= cutoff THEN coverage_gaps(cov, req.start, last) ELSE {}
               fresh == IF req.end > cutoff THEN {<<Max({req.start, cutoff + 1}), req.end>>} ELSE {}
    <3>1. G = old \cup fresh
      BY <2>2 DEF G, Gaps, cutoff
    <3>2. /\ old \subseteq Ranges
          /\ Covered(old) = {i \in req.start .. req.end : i <= cutoff /\ i \notin Covered(cov)}
      <4>1. CASE req.start <= cutoff
        <5>1. last \in Nat /\ last <= LastDay /\ last <= cutoff /\ (last = req.end \/ last = cutoff) /\ last <= req.end
          BY <1>1, <1>2, <1>3, <4>1
        <5>2. last \in Days
          BY <1>1, <5>1 DEF Days
        <5>3. old = coverage_gaps(cov, req.start, last)
          BY <4>1
        <5> HIDE DEF last, old
        <5>4. old \subseteq Ranges /\ Covered(old) = (req.start .. last) \ Covered(cov)
          BY <1>1, <5>2, <5>3, GapsFact
        <5>5. \A i : i \in req.start .. last <=> i \in req.start .. req.end /\ i <= cutoff
          BY <1>1, <1>2, <5>1
        <5>6. QED
          BY <5>4, <5>5
      <4>2. CASE ~ (req.start <= cutoff)
        <5>1. old = {}
          BY <4>2
        <5>2. \A i \in req.start .. req.end : ~ (i <= cutoff)
          BY <1>1, <1>2, <4>2
        <5>3. QED
          BY <5>1, <5>2 DEF Covered
      <4>3. QED
        BY <4>1, <4>2
    <3>3. /\ fresh \subseteq Ranges
          /\ Covered(fresh) = {i \in req.start .. req.end : i > cutoff}
      <4>1. CASE req.end > cutoff
        <5> DEFINE first == Max({req.start, cutoff + 1})
        <5>1. /\ first \in Nat /\ first <= LastDay /\ first > cutoff /\ req.start <= first
              /\ (first = req.start \/ first = cutoff + 1)
          BY <1>1, <1>2, <1>4, <4>1
        <5>2. fresh = {<<first, req.end>>}
          BY <4>1
        <5> HIDE DEF first, fresh
        <5>3. fresh \subseteq Ranges
          BY <1>1, <5>1, <5>2 DEF Ranges, Days
        <5>4. \A i : i \in Covered(fresh) <=> i \in Days /\ first <= i /\ i <= req.end
          BY <5>2 DEF Covered, In
        <5>5. \A i : i \in Days /\ first <= i /\ i <= req.end <=> i \in req.start .. req.end /\ i > cutoff
          BY <1>1, <1>2, <5>1 DEF Days
        <5>6. QED
          BY <5>3, <5>4, <5>5
      <4>2. CASE ~ (req.end > cutoff)
        <5>1. fresh = {}
          BY <4>2
        <5>2. \A i \in req.start .. req.end : ~ (i > cutoff)
          BY <1>1, <1>2, <4>2
        <5>3. QED
          BY <5>1, <5>2 DEF Covered
      <4>3. QED
        BY <4>1, <4>2
    <3> HIDE DEF old, fresh
    <3>4. Covered(G) = Covered(old) \cup Covered(fresh)
      BY <3>1 DEF Covered
    <3>5. \A i \in req.start .. req.end : i <= cutoff \/ i > cutoff
      BY <1>1, <1>2
    <3>6. QED
      BY <2>2, <3>1, <3>2, <3>3, <3>4, <3>5
  <2>3. QED
    BY <1>1, <2>1, <2>2
<1>6. \A range \in G : /\ chunk_range(range) \subseteq Ranges
                       /\ \A chunk \in chunk_range(range) : chunk[1] <= chunk[2]
                       /\ Covered(chunk_range(range)) = {i \in Days : In(i, range)}
  BY <1>5, ChunksFact
<1>7. AllChunks(G) \subseteq Ranges /\ \A chunk \in AllChunks(G) : chunk[1] <= chunk[2]
  BY <1>6 DEF AllChunks
<1>8. Covered(AllChunks(G)) = Covered(G)
  BY <1>6 DEF AllChunks, Covered
<1>9. \A i \in req.start .. req.end : Old(i) <=> ~ (i > cutoff)
  BY <1>1, <1>2 DEF Old, cutoff
<1>10. QED
  BY <1>5, <1>7, <1>8, <1>9 DEF G

\* The next chunk is one of them.
LEMMA NextIsChunk ==
    ASSUME Typed, NEW p \in Callers, chunks[p] # {}
    PROVE  NextChunk(p) \in chunks[p] /\ NextChunk(p) \in Ranges
<1> DEFINE C == chunks[p]
           T == {chunk[1] : chunk \in C}
<1>1. C \subseteq Ranges
  BY DEF Typed
<1>2. T \in SUBSET Nat /\ T # {}
  BY <1>1, RangeParts, DaysAreNat
<1>3. PICK t \in T : \A x \in T : t <= x
  <2> HIDE DEF T
  <2>1. QED
    BY <1>2, Least
<1>4. PICK chunk \in C : t = chunk[1]
  BY <1>3
<1>5. \A other \in C : chunk[1] <= other[1]
  BY <1>3, <1>4
<1>6. QED
  BY <1>1, <1>4, <1>5 DEF NextChunk

-----------------------------------------------------------------------------
(* The rows of coverage. *)

\* The union of a chunk and rows at it has no hole.
LEMMA HullFact ==
    ASSUME NEW chunk \in Ranges, NEW near \in SUBSET Ranges, near = Touching(near, chunk)
    PROVE  LET h == Hull(near \cup {chunk}) IN
           /\ h \in Ranges
           /\ h[1] <= chunk[1] /\ chunk[2] <= h[2]
           /\ \A row \in near : h[1] <= row[1] /\ row[2] <= h[2]
           /\ \E row \in near \cup {chunk} : h[1] = row[1]
           /\ \E row \in near \cup {chunk} : h[2] = row[2]
           /\ \A i \in Days : In(i, h) => In(i, chunk) \/ i \in Covered(near)
<1> DEFINE all == near \cup {chunk}
           B == {row[1] : row \in all}
           E == {row[2] : row \in all}
           h == Hull(all)
<1>1. all \subseteq Ranges
  OBVIOUS
<1>2. B \in SUBSET Nat /\ B # {} /\ E \in SUBSET (0..LastDay) /\ E # {}
  BY <1>1, RangeParts, DaysAreNat
<1>3. Min(B) \in B /\ (\A x \in B : Min(B) <= x) /\ Max(E) \in E /\ (\A x \in E : x <= Max(E))
  <2> HIDE DEF B, E
  <2>1. QED
    BY <1>2, MinOf, MaxOf, DaysAreNat
<1>4. h = <<Min(B), Max(E)>>
  BY DEF Hull
<1> HIDE DEF h
<1>5. PICK b \in all : Min(B) = b[1]
  BY <1>3
<1>6. PICK e \in all : Max(E) = e[2]
  BY <1>3
<1>7. h[1] = b[1] /\ h[2] = e[2] /\ h \in Ranges
  BY <1>1, <1>4, <1>5, <1>6, RangeParts DEF Ranges
<1>8. \A row \in all : h[1] <= row[1] /\ row[2] <= h[2]
  BY <1>3, <1>4
<1>9. ASSUME NEW i \in Days, In(i, h)  PROVE In(i, chunk) \/ i \in Covered(near)
  <2>1. i \in Nat /\ chunk[1] \in Nat /\ chunk[2] \in Nat /\ h[1] <= i /\ i <= h[2]
    BY <1>9, RangeParts, DaysAreNat DEF In
  <2>2. CASE i < chunk[1]
    <3>1. b # chunk
      BY <1>7, <2>1, <2>2
    <3>2. b \in near /\ b[2] >= chunk[1] - 1 /\ b[2] \in Nat
      BY <1>1, <3>1, RangeParts, DaysAreNat DEF Touching
    <3>3. In(i, b)
      BY <1>7, <2>1, <2>2, <3>2 DEF In
    <3>4. QED
      BY <3>2, <3>3 DEF Covered
  <2>3. CASE chunk[2] < i
    <3>1. e # chunk
      BY <1>7, <2>1, <2>3
    <3>2. e \in near /\ e[1] <= chunk[2] + 1 /\ e[1] \in Nat
      BY <1>1, <3>1, RangeParts, DaysAreNat DEF Touching
    <3>3. In(i, e)
      BY <1>7, <2>1, <2>3, <3>2 DEF In
    <3>4. QED
      BY <3>2, <3>3 DEF Covered
  <2>4. QED
    BY <2>1, <2>2, <2>3 DEF In
<1>10. QED
  BY <1>5, <1>6, <1>7, <1>8, <1>9 DEF h

LEMMA TouchingTwice ==
    ASSUME NEW table, NEW chunk
    PROVE  /\ Touching(table, chunk) \subseteq table
           /\ Touching(table, chunk) = Touching(Touching(table, chunk), chunk)
BY DEF Touching

\* A merge claims the chunk and what was claimed by the table or by the rows it had read.
LEMMA MergedClaims ==
    ASSUME NEW table \in SUBSET Ranges, NEW chunk \in Ranges, NEW near \in SUBSET Ranges,
           near = Touching(near, chunk)
    PROVE  /\ Merged(table, near, chunk) \subseteq Ranges
           /\ \A i \in Covered(Merged(table, near, chunk)) :
                 i \in Covered(table) \/ i \in Covered(near) \/ In(i, chunk)
<1> DEFINE h == Hull(near \cup {chunk})
<1>1. h \in Ranges /\ \A i \in Days : In(i, h) => In(i, chunk) \/ i \in Covered(near)
  BY HullFact
<1> HIDE DEF h
<1>2. Merged(table, near, chunk) = (table \ Touching(table, chunk)) \cup {h}
  BY DEF Merged, h
<1>3. QED
  BY <1>1, <1>2 DEF Covered

\* A merge that deletes the rows it has read leaves the rows apart.
LEMMA MergedApart ==
    ASSUME NEW table \in SUBSET Ranges, NEW chunk \in Ranges, Apart(table), chunk[1] <= chunk[2]
    PROVE  Apart(Merged(table, Touching(table, chunk), chunk))
<1> DEFINE near == Touching(table, chunk)
           h == Hull(near \cup {chunk})
<1>1. near \in SUBSET Ranges /\ near = Touching(near, chunk) /\ near \subseteq table
  BY TouchingTwice
<1>2. /\ h \in Ranges /\ h[1] <= chunk[1] /\ chunk[2] <= h[2]
      /\ \E row \in near \cup {chunk} : h[1] = row[1]
      /\ \E row \in near \cup {chunk} : h[2] = row[2]
  BY <1>1, HullFact
<1> HIDE DEF h
<1>3. Merged(table, near, chunk) = (table \ near) \cup {h}
  BY DEF Merged, h
<1>4. h[1] \in Nat /\ h[2] \in Nat /\ chunk[1] \in Nat /\ chunk[2] \in Nat /\ h[1] <= h[2]
  BY <1>2, RangeParts, DaysAreNat
<1>5. \A row \in table : row[1] \in Nat /\ row[2] \in Nat /\ row[1] <= row[2]
  BY RangeParts, DaysAreNat DEF Apart
<1>6. ASSUME NEW r \in table, NEW s \in table, r # s
      PROVE  r[1] > s[2] + 1 \/ r[2] < s[1] - 1
  BY <1>6 DEF Apart
<1>7. ASSUME NEW r \in table \ near  PROVE r[1] > h[2] + 1 \/ r[2] < h[1] - 1
  <2>1. r[1] > chunk[2] + 1 \/ r[2] < chunk[1] - 1
    BY <1>4, <1>5 DEF Touching
  <2>2. \A n \in near : n[1] <= chunk[2] + 1 /\ n[2] >= chunk[1] - 1 /\ n # r /\ n \in table
    BY DEF Touching
  <2> HIDE DEF near
  <2>3. CASE r[1] > chunk[2] + 1
    <3>1. PICK n \in near \cup {chunk} : h[2] = n[2]
      BY <1>2
    <3>2. CASE n = chunk
      BY <2>3, <3>1, <3>2
    <3>3. CASE n \in near
      <4>1. r[1] > n[2] + 1 \/ r[2] < n[1] - 1
        BY <1>6, <2>2, <3>3
      <4>2. n[1] \in Nat /\ n[1] <= chunk[2] + 1
        BY <1>5, <2>2, <3>3
      <4>3. QED
        BY <1>4, <1>5, <2>3, <3>1, <4>1, <4>2
    <3>4. QED
      BY <3>1, <3>2, <3>3
  <2>4. CASE r[2] < chunk[1] - 1
    <3>1. PICK n \in near \cup {chunk} : h[1] = n[1]
      BY <1>2
    <3>2. CASE n = chunk
      BY <2>4, <3>1, <3>2
    <3>3. CASE n \in near
      <4>1. r[1] > n[2] + 1 \/ r[2] < n[1] - 1
        BY <1>6, <2>2, <3>3
      <4>2. n[2] \in Nat /\ n[2] >= chunk[1] - 1
        BY <1>5, <2>2, <3>3
      <4>3. QED
        BY <1>4, <1>5, <2>4, <3>1, <4>1, <4>2
    <3>4. QED
      BY <3>1, <3>2, <3>3
  <2>5. QED
    BY <2>1, <2>3, <2>4
<1> DEFINE new == (table \ near) \cup {h}
<1>8. ASSUME NEW r \in new, NEW s \in new, r # s
      PROVE  r[1] > s[2] + 1 \/ r[2] < s[1] - 1
  <2>1. CASE r = h
    <3>1. s \in table \ near
      BY <1>8, <2>1
    <3>2. s[1] > h[2] + 1 \/ s[2] < h[1] - 1
      BY <1>7, <3>1
    <3>3. s[1] \in Nat /\ s[2] \in Nat
      BY <1>5, <3>1
    <3>4. QED
      BY <1>4, <2>1, <3>2, <3>3
  <2>2. CASE r # h /\ s = h
    BY <1>7, <1>8, <2>2
  <2>3. CASE r # h /\ s # h
    BY <1>6, <1>8, <2>3
  <2>4. QED
    BY <2>1, <2>2, <2>3
<1>9. \A row \in new : row[1] \in Nat /\ row[2] \in Nat /\ row[1] <= row[2]
  BY <1>4, <1>5
<1> HIDE DEF new
<1>10. Apart(new)
  BY <1>8, <1>9 DEF Apart
<1>11. QED
  BY <1>3, <1>10 DEF new

-----------------------------------------------------------------------------
(* The table of transactions. *)

\* An upsert of what Schwab lists on some days settles those days and leaves the others.
LEMMA UpsertedFact ==
    ASSUME Listing, NEW table, NEW records, NEW i \in Days,
           \A r \in table \cup records : Listed(r)
    PROVE  /\ \A r \in upserted(table, records) : Listed(r)
           /\ Right(records, i) => Right(upserted(table, records), i)
           /\ Of(records, i) = {} /\ Right(table, i) => Right(upserted(table, records), i)
<1>1. \A r \in upserted(table, records) : Listed(r)
  BY DEF upserted
<1>2. ASSUME Right(records, i)  PROVE Right(upserted(table, records), i)
  <2>1. ASSUME NEW old \in table, old.day = i  PROVE \E r \in records : r.id = old.id
    <3>1. PICK s \in ledger : s.id = old.id /\ s.day = old.day
      BY DEF Listed
    <3>2. s \in Of(ledger, i)
      BY <2>1, <3>1 DEF Of
    <3>3. QED
      BY <1>2, <3>1, <3>2 DEF Right, Of
  <2>2. Of(upserted(table, records), i) = Of(records, i)
    BY <2>1 DEF upserted, Of
  <2>3. QED
    BY <1>2, <2>2 DEF Right
<1>3. ASSUME Of(records, i) = {}, Right(table, i)  PROVE Right(upserted(table, records), i)
  <2>1. ASSUME NEW old \in table, old.day = i, NEW r \in records, r.id = old.id  PROVE FALSE
    <3>1. PICK s \in ledger : s.id = old.id /\ s.day = old.day
      BY DEF Listed
    <3>2. PICK u \in ledger : u.id = r.id /\ u.day = r.day
      BY DEF Listed
    <3>3. s = u
      BY <2>1, <3>1, <3>2 DEF Listing
    <3>4. r \in Of(records, i)
      BY <2>1, <3>1, <3>2, <3>3 DEF Of
    <3>5. QED
      BY <1>3, <3>4
  <2>2. Of(upserted(table, records), i) = Of(table, i)
    BY <1>3, <2>1 DEF upserted, Of
  <2>3. QED
    BY <1>3, <2>2 DEF Right
<1>4. QED
  BY <1>1, <1>2, <1>3

-----------------------------------------------------------------------------
(* Every step preserves the invariant. *)

\* The request that a call begins with.
LEMMA BeginFact ==
    ASSUME Typed, NEW p \in Callers, Begin(p)
    PROVE  \E req \in Requests :
              /\ req.start <= req.end
              /\ request' = [request EXCEPT ![p] = req]
              /\ chunks' = [chunks EXCEPT ![p] = AllChunks(Gaps(req, coverage))]
              /\ trusted' = [trusted EXCEPT ![p] =
                    {i \in req.start .. req.end : ~ req.refresh /\ Old(i) /\ i \in Covered(coverage)}]
              /\ AllChunks(Gaps(req, coverage)) \subseteq Ranges
              /\ \A chunk \in AllChunks(Gaps(req, coverage)) : chunk[1] <= chunk[2]
              /\ Covered(AllChunks(Gaps(req, coverage))) =
                    {i \in req.start .. req.end : req.refresh \/ ~ Old(i) \/ i \notin Covered(coverage)}
<1>1. PICK req \in Requests :
              /\ req.start <= req.end
              /\ request' = [request EXCEPT ![p] = req]
              /\ chunks' = [chunks EXCEPT ![p] = AllChunks(Gaps(req, coverage))]
              /\ trusted' = [trusted EXCEPT ![p] =
                    {i \in Covered(coverage) : Old(i) /\ In(i, <<req.start, req.end>>) /\ ~req.refresh}]
  BY DEF Begin
<1>2. today \in Int /\ coverage \in SUBSET Ranges
  BY CacheAssumption DEF Typed
<1>3. /\ AllChunks(Gaps(req, coverage)) \subseteq Ranges
      /\ \A chunk \in AllChunks(Gaps(req, coverage)) : chunk[1] <= chunk[2]
      /\ Covered(AllChunks(Gaps(req, coverage))) =
            {i \in req.start .. req.end : req.refresh \/ ~ Old(i) \/ i \notin Covered(coverage)}
  BY <1>1, <1>2, AheadFact
<1>4. req.start \in Nat /\ req.end \in Nat /\ req.end <= LastDay
  BY DaysAreNat DEF Requests
<1>5. {i \in Covered(coverage) : Old(i) /\ In(i, <<req.start, req.end>>) /\ ~req.refresh}
        = {i \in req.start .. req.end : ~ req.refresh /\ Old(i) /\ i \in Covered(coverage)}
  BY <1>4, DaysAreNat DEF In, Covered
<1>6. QED
  BY <1>1, <1>3, <1>5

\* A call stores into the tables as it sees them, which are the committed ones up to its first write.
LEMMA SeenTyped ==
    ASSUME Typed, NEW p \in Callers
    PROVE  SeenRows(p) \subseteq Records /\ SeenCoverage(p) \in SUBSET Ranges
BY DEF Typed, SeenRows, SeenCoverage

LEMMA StoreFact ==
    ASSUME IInv, NEW p \in Callers, Store(p)
    PROVE  LET chunk == NextChunk(p) IN
           /\ chunk \in chunks[p] /\ chunk \in Ranges /\ chunk[1] <= chunk[2]
           /\ writer \in {Nobody, p} /\ writer' = p /\ pc[p] = "storing"
           /\ newRows' = upserted(SeenRows(p), payload[p])
           /\ newCoverage' = Merged(SeenCoverage(p), Touching(SeenCoverage(p), chunk), chunk)
           /\ newCoverage' \subseteq Ranges
           /\ payload' = [payload EXCEPT ![p] = {}]
           /\ chunks' = [chunks EXCEPT ![p] = @ \ {chunk}]
           /\ fetched' = [fetched EXCEPT ![p] = @ \cup {i \in Days : In(i, chunk)}]
           /\ pc' = [pc EXCEPT ![p] = "calling"]
           /\ UNCHANGED <<today, schwab, rows, coverage, request, trusted, ripe, asOf, around, overtaken>>
<1> DEFINE chunk == NextChunk(p)
<1>1. Typed /\ pc[p] = "storing" /\ chunks[p] # {}
  BY DEF IInv, Calling, Store
<1>2. chunk \in chunks[p] /\ chunk \in Ranges
  BY <1>1, NextIsChunk
<1>3. chunk[1] <= chunk[2]
  BY <1>2 DEF IInv, Calling
<1>4. SeenCoverage(p) \in SUBSET Ranges
  BY <1>1, SeenTyped
<1>5. Merged(SeenCoverage(p), Touching(SeenCoverage(p), chunk), chunk) \subseteq Ranges
  BY <1>2, <1>4, TouchingTwice, MergedClaims, Zenon
<1> HIDE DEF chunk
<1>6. QED
  BY <1>1, <1>2, <1>3, <1>5 DEF Store, Stored, Writes, chunk

LEMMA MergeFact ==
    ASSUME IInv, NEW p \in Callers, Merge(p)
    PROVE  LET chunk == NextChunk(p) IN
           /\ chunk \in chunks[p] /\ chunk \in Ranges /\ chunk[1] <= chunk[2]
           /\ writer = Nobody /\ writer' = p /\ pc[p] = "merging"
           /\ newRows' = rows
           /\ newCoverage' = Merged(coverage, around[p], chunk)
           /\ newCoverage' \subseteq Ranges
           /\ around' = [around EXCEPT ![p] = {}]
           /\ chunks' = [chunks EXCEPT ![p] = @ \ {chunk}]
           /\ fetched' = [fetched EXCEPT ![p] = @ \cup {i \in Days : In(i, chunk)}]
           /\ pc' = [pc EXCEPT ![p] = "calling"]
           /\ overtaken' = (overtaken \/ around[p] # Touching(coverage, chunk))
           /\ UNCHANGED <<today, schwab, rows, coverage, request, trusted, ripe, asOf, payload>>
<1> DEFINE chunk == NextChunk(p)
<1>1. Typed /\ pc[p] = "merging" /\ chunks[p] # {} /\ writer # p
  BY DEF IInv, Calling, Merge
<1>2. chunk \in chunks[p] /\ chunk \in Ranges
  BY <1>1, NextIsChunk
<1>3. chunk[1] <= chunk[2]
  BY <1>2 DEF IInv, Calling
<1>4. coverage \in SUBSET Ranges /\ around[p] \in SUBSET Ranges /\ around[p] = Touching(around[p], chunk)
  BY <1>1 DEF IInv, Typed, Claiming
<1>5. Merged(coverage, around[p], chunk) \subseteq Ranges
  BY <1>2, <1>4, MergedClaims, Zenon
<1> HIDE DEF chunk
<1>6. QED
  BY <1>1, <1>2, <1>3, <1>5 DEF Merge, Stored, Writes, chunk

\* How a call ends: its transaction is committed or dropped.
LEMMA EndsFact ==
    ASSUME IInv, NEW p \in Callers, Answer(p) \/ Fail(p)
    PROVE  /\ pc[p] # "idle" /\ pc' = [pc EXCEPT ![p] = "idle"]
           /\ chunks' = [chunks EXCEPT ![p] = {}]
           /\ payload' = [payload EXCEPT ![p] = {}] /\ around' = [around EXCEPT ![p] = {}]
           /\ trusted' = [trusted EXCEPT ![p] = {}] /\ fetched' = [fetched EXCEPT ![p] = {}]
           /\ ripe' = [ripe EXCEPT ![p] = {}]
           /\ UNCHANGED <<today, schwab, request, overtaken>>
           /\ \/ writer # p /\ UNCHANGED file
              \/ writer = p /\ writer' = Nobody /\ newRows' = {} /\ newCoverage' = {}
           /\ \/ UNCHANGED <<rows, coverage, asOf>>
              \/ /\ rows' = newRows /\ coverage' = newCoverage /\ writer = p
                 /\ asOf' = [i \in Days |-> IF i \in fetched[p] THEN AsFetched(p, i) ELSE asOf[i]]
<1>1. CASE Answer(p)
  <2>1. pc[p] # "idle"
    BY <1>1 DEF Answer
  <2>2. CASE writer = p
    BY <1>1, <2>1, <2>2 DEF Answer, Ends, Unlock
  <2>3. CASE writer # p
    <3>1. fetched[p] = {} /\ asOf \in [Days -> {"never", "young", "old", "stale"}]
      BY <2>3 DEF IInv, Calling, Typed
    <3>2. asOf' = asOf
      BY <1>1, <3>1 DEF Answer
    <3>3. QED
      BY <1>1, <2>1, <2>3, <3>2 DEF Answer, Ends, file
  <2>4. QED
    BY <2>2, <2>3
<1>2. CASE Fail(p)
  <2>1. CASE writer = p
    BY <1>2, <2>1 DEF Fail, Ends, Unlock, RolledBack
  <2>2. CASE writer # p
    BY <1>2, <2>2 DEF Fail, Ends, file
  <2>3. QED
    BY <2>1, <2>2
<1>3. QED
  BY <1>1, <1>2

LEMMA TypedStep == ASSUME IInv, [Next]_vars  PROVE Typed'
<1>0. Typed
  BY DEF IInv
<1>1. ASSUME Tick  PROVE Typed'
  <2>1. today' = today + 1 /\ today' \in FirstDay..LastDay /\ today + 1 \in Days
    BY <1>0, <1>1, CacheAssumption DEF Tick, Typed, Days
  <2>2. PICK new \in SUBSET Unposted : ledger' = Post(new, today + 1)
    BY <1>1 DEF Tick
  <2>3. ledger' \subseteq Records
    BY <1>0, <2>1, <2>2, CacheAssumption DEF Typed, Post, Unposted, Records
  <2>4. QED
    BY <1>0, <1>1, <2>1, <2>3 DEF Tick, Typed, file, call
<1>2. ASSUME Revise  PROVE Typed'
  <2>1. changes' = changes + 1 /\ changes' \in 0..MaxChanges /\ changes \in Nat
    BY <1>0, <1>2, CacheAssumption DEF Revise, Typed
  <2>2. ledger' \subseteq Records
    <3>1. CASE \E x \in Unposted, day \in Days : ledger' = Post({x}, day)
      BY <1>0, <3>1, CacheAssumption DEF Typed, Post, Unposted, Records
    <3>2. ASSUME NEW r \in ledger, ledger' = (ledger \ {r}) \cup {[r EXCEPT !.version = @ + 1]}
          PROVE  ledger' \subseteq Records
      <4>1. r \in Records /\ r.version \in Nat
        BY <1>0, CacheAssumption DEF Typed, Records
      <4>2. r.version + 1 \in 0..MaxChanges
        BY <2>1, <4>1, CacheAssumption DEF IInv, Listing
      <4>3. [r EXCEPT !.version = @ + 1] \in Records
        BY <4>1, <4>2 DEF Records
      <4>4. QED
        BY <1>0, <3>2, <4>3 DEF Typed
    <3>3. QED
      BY <1>2, <3>1, <3>2 DEF Revise
  <2>3. QED
    BY <1>0, <1>2, <2>1, <2>2 DEF Revise, Typed, file, call
<1>3. ASSUME NEW p \in Callers, Begin(p)  PROVE Typed'
  <2>1. PICK req \in Requests :
              /\ request' = [request EXCEPT ![p] = req]
              /\ chunks' = [chunks EXCEPT ![p] = AllChunks(Gaps(req, coverage))]
              /\ trusted' = [trusted EXCEPT ![p] =
                    {i \in req.start .. req.end : ~ req.refresh /\ Old(i) /\ i \in Covered(coverage)}]
              /\ AllChunks(Gaps(req, coverage)) \subseteq Ranges
    BY <1>0, <1>3, BeginFact
  <2>2. {i \in req.start .. req.end : ~ req.refresh /\ Old(i) /\ i \in Covered(coverage)} \subseteq Days
    BY DEF Covered
  <2>3. QED
    BY <1>0, <1>3, <2>1, <2>2 DEF Begin, Typed, file, schwab
<1>4. ASSUME NEW p \in Callers, Fetch(p)  PROVE Typed'
  BY <1>0, <1>4 DEF Fetch, Typed, file, schwab
<1>5. ASSUME NEW p \in Callers, Store(p)  PROVE Typed'
  <2>1. payload[p] \subseteq Records /\ SeenRows(p) \subseteq Records
    BY <1>0, SeenTyped DEF Typed
  <2>2. upserted(SeenRows(p), payload[p]) \subseteq Records
    BY <2>1 DEF upserted
  <2>3. QED
    BY <1>0, <1>5, <2>2, StoreFact DEF Typed, schwab
<1>6. ASSUME NEW p \in Callers, Select(p)  PROVE Typed'
  BY <1>0, <1>6, TouchingTwice DEF Select, Typed, file, schwab
<1>7. ASSUME NEW p \in Callers, Merge(p)  PROVE Typed'
  <2>1. /\ writer' \in Callers \cup {Nobody} /\ newRows' \subseteq Records /\ newCoverage' \subseteq Ranges
        /\ UNCHANGED <<today, ledger, changes, rows, coverage, request, trusted, ripe, asOf, payload>>
        /\ overtaken' \in BOOLEAN
    BY <1>0, <1>7, MergeFact DEF Typed, schwab
  <2>2. /\ chunks' \in [Callers -> SUBSET Ranges] /\ around' \in [Callers -> SUBSET Ranges]
        /\ fetched' \in [Callers -> SUBSET Days]
        /\ pc' \in [Callers -> {"idle", "calling", "storing", "merging"}]
    BY <1>0, <1>7, MergeFact DEF Typed
  <2>3. QED
    BY <1>0, <2>1, <2>2 DEF Typed
<1>8. ASSUME NEW p \in Callers, Answer(p) \/ Fail(p)  PROVE Typed'
  <2>1. asOf' \in [Days -> {"never", "young", "old", "stale"}]
    BY <1>0, <1>8, EndsFact DEF Typed, AsFetched
  <2>2. rows' \subseteq Records /\ coverage' \subseteq Ranges
    BY <1>0, <1>8, EndsFact DEF Typed
  <2>3. writer' \in Callers \cup {Nobody} /\ newRows' \subseteq Records /\ newCoverage' \subseteq Ranges
    BY <1>0, <1>8, EndsFact DEF Typed, file
  <2>4. QED
    BY <1>0, <1>8, <2>1, <2>2, <2>3, EndsFact DEF Typed, schwab
<1>9. ASSUME UNCHANGED vars  PROVE Typed'
  BY <1>0, <1>9 DEF Typed, vars, schwab, file, call
<1>10. QED
  BY <1>1, <1>2, <1>3, <1>4, <1>5, <1>6, <1>7, <1>8, <1>9 DEF Next

\* Who has fetched something has the writer lock.
LEMMA CallingStep == ASSUME IInv, [Next]_vars  PROVE Calling'
<1>0. Typed /\ Calling
  BY DEF IInv
<1>a. Nobody \notin Callers
  BY CacheAssumption
<1>1. ASSUME Tick \/ Revise \/ UNCHANGED vars  PROVE Calling'
  BY <1>0, <1>1 DEF Tick, Revise, Calling, file, call, vars
<1>3. ASSUME NEW p \in Callers, Begin(p)  PROVE Calling'
  <2>1. PICK cs : /\ chunks' = [chunks EXCEPT ![p] = cs] /\ \A chunk \in cs : chunk[1] <= chunk[2]
    BY <1>0, <1>3, BeginFact
  <2>2. QED
    BY <1>0, <1>3, <2>1 DEF Begin, Calling, Typed, file
<1>4. ASSUME NEW p \in Callers, Fetch(p)  PROVE Calling'
  BY <1>0, <1>4 DEF Fetch, Calling, Typed, file
<1>5. ASSUME NEW p \in Callers, Store(p)  PROVE Calling'
  BY <1>0, <1>a, <1>5, StoreFact DEF Calling, Typed
<1>6. ASSUME NEW p \in Callers, Select(p)  PROVE Calling'
  BY <1>0, <1>6 DEF Select, Calling, Typed, file
<1>7. ASSUME NEW p \in Callers, Merge(p)  PROVE Calling'
  BY <1>0, <1>a, <1>7, MergeFact DEF Calling, Typed
<1>8. ASSUME NEW p \in Callers, Answer(p) \/ Fail(p)  PROVE Calling'
  <2>1. ASSUME NEW q \in Callers
        PROVE  /\ pc'[q] = IF q = p THEN "idle" ELSE pc[q]
               /\ chunks'[q] = IF q = p THEN {} ELSE chunks[q]
               /\ fetched'[q] = IF q = p THEN {} ELSE fetched[q]
               /\ (writer' = q <=> q # p /\ writer = q)
    <3>1. writer' = (IF writer = p THEN Nobody ELSE writer)
      BY <1>8, EndsFact DEF file
    <3>2. writer' = q <=> q # p /\ writer = q
      BY <1>a, <3>1
    <3>3. /\ pc' = [pc EXCEPT ![p] = "idle"] /\ chunks' = [chunks EXCEPT ![p] = {}]
          /\ fetched' = [fetched EXCEPT ![p] = {}]
      BY <1>8, EndsFact
    <3>4. QED
      BY <1>0, <3>2, <3>3 DEF Typed
  <2>2. QED
    BY <1>0, <2>1 DEF Calling
<1>9. QED
  BY <1>1, <1>3, <1>4, <1>5, <1>6, <1>7, <1>8 DEF Next

\* The days that a chunk takes out of those ahead are those it adds to the fetched.
LEMMA StoredRest ==
    ASSUME Typed, FetchesTheRest, NEW p \in Callers, NEW chunk \in chunks[p], pc[p] # "idle",
           chunks' = [chunks EXCEPT ![p] = @ \ {chunk}],
           fetched' = [fetched EXCEPT ![p] = @ \cup {i \in Days : In(i, chunk)}],
           pc' = [pc EXCEPT ![p] = "calling"], UNCHANGED <<request, trusted>>
    PROVE  FetchesTheRest'
<1>1. /\ Covered(chunks[p]) = Covered(chunks[p] \ {chunk}) \cup {i \in Days : In(i, chunk)}
      /\ Covered(chunks[p] \ {chunk}) \subseteq Covered(chunks[p])
  BY DEF Covered
<1>2. /\ chunks'[p] = chunks[p] \ {chunk}
      /\ fetched'[p] = fetched[p] \cup {i \in Days : In(i, chunk)}
      /\ \A q \in Callers \ {p} : chunks'[q] = chunks[q] /\ fetched'[q] = fetched[q] /\ pc'[q] = pc[q]
  BY DEF Typed
<1>3. SUFFICES ASSUME NEW q \in Callers, pc'[q] # "idle"
               PROVE  /\ fetched'[q] \cup Covered(chunks'[q]) =
                            {i \in request[q].start .. request[q].end : i \notin trusted[q]}
                      /\ trusted[q] \cap Covered(chunks'[q]) = {}
  BY DEF FetchesTheRest, Covered, In
<1>4. CASE q = p
  BY <1>1, <1>2, <1>4 DEF FetchesTheRest
<1>5. CASE q # p
  BY <1>2, <1>3, <1>5 DEF FetchesTheRest
<1>6. QED
  BY <1>4, <1>5

LEMMA FetchesTheRestStep == ASSUME IInv, [Next]_vars  PROVE FetchesTheRest'
<1>0. Typed /\ FetchesTheRest
  BY DEF IInv
<1>1. ASSUME Tick \/ Revise \/ UNCHANGED vars  PROVE FetchesTheRest'
  BY <1>0, <1>1 DEF Tick, Revise, FetchesTheRest, Covered, In, call, vars
<1>3. ASSUME NEW p \in Callers, Begin(p)  PROVE FetchesTheRest'
  <2>1. PICK req \in Requests :
              /\ request' = [request EXCEPT ![p] = req]
              /\ chunks' = [chunks EXCEPT ![p] = AllChunks(Gaps(req, coverage))]
              /\ trusted' = [trusted EXCEPT ![p] =
                    {i \in req.start .. req.end : ~ req.refresh /\ Old(i) /\ i \in Covered(coverage)}]
              /\ Covered(AllChunks(Gaps(req, coverage))) =
                    {i \in req.start .. req.end : req.refresh \/ ~ Old(i) \/ i \notin Covered(coverage)}
    BY <1>0, <1>3, BeginFact
  <2> DEFINE cs == AllChunks(Gaps(req, coverage))
             tr == {i \in req.start .. req.end : ~ req.refresh /\ Old(i) /\ i \in Covered(coverage)}
  <2>2. /\ Covered(cs) = {i \in req.start .. req.end : i \notin tr}
        /\ tr \cap Covered(cs) = {}
    BY <2>1 DEF Requests
  <2>3. /\ request' = [request EXCEPT ![p] = req] /\ chunks' = [chunks EXCEPT ![p] = cs]
        /\ trusted' = [trusted EXCEPT ![p] = tr] /\ fetched' = [fetched EXCEPT ![p] = {}]
        /\ pc' = [pc EXCEPT ![p] = "calling"]
    BY <1>3, <2>1 DEF Begin
  <2> HIDE DEF cs, tr
  <2>4. SUFFICES ASSUME NEW q \in Callers, pc'[q] # "idle"
                 PROVE  /\ fetched'[q] \cup Covered(chunks'[q]) =
                              {i \in request'[q].start .. request'[q].end : i \notin trusted'[q]}
                        /\ trusted'[q] \cap Covered(chunks'[q]) = {}
    BY DEF FetchesTheRest, Covered, In
  <2>5. CASE q = p
    BY <1>0, <2>2, <2>3, <2>5 DEF Typed
  <2>6. CASE q # p
    BY <1>0, <2>3, <2>4, <2>6 DEF Typed, FetchesTheRest
  <2>7. QED
    BY <2>5, <2>6
<1>4. ASSUME NEW p \in Callers, Fetch(p) \/ Select(p)  PROVE FetchesTheRest'
  <2>1. UNCHANGED <<chunks, fetched, trusted, request>> /\ \A q \in Callers : pc'[q] # "idle" => pc[q] # "idle"
    BY <1>0, <1>4 DEF Fetch, Select, Typed
  <2>2. QED
    BY <1>0, <2>1 DEF FetchesTheRest, Covered, In
<1>5. ASSUME NEW p \in Callers, Store(p)  PROVE FetchesTheRest'
  BY <1>0, <1>5, StoreFact, StoredRest
<1>7. ASSUME NEW p \in Callers, Merge(p)  PROVE FetchesTheRest'
  BY <1>0, <1>7, MergeFact, StoredRest
<1>8. ASSUME NEW p \in Callers, Answer(p) \/ Fail(p)  PROVE FetchesTheRest'
  <2>1. \A q \in Callers : pc'[q] # "idle" =>
            /\ pc[q] # "idle" /\ chunks'[q] = chunks[q] /\ fetched'[q] = fetched[q] /\ trusted'[q] = trusted[q]
            /\ request'[q] = request[q]
    BY <1>0, <1>8, EndsFact DEF Typed
  <2>2. QED
    BY <1>0, <2>1 DEF FetchesTheRest, Covered, In
<1>9. QED
  BY <1>1, <1>3, <1>4, <1>5, <1>7, <1>8 DEF Next

LEMMA ShapedStep == ASSUME IInv, [Next]_vars  PROVE Shaped'
<1>0. Typed /\ Shaped
  BY DEF IInv
<1>1. ASSUME UNCHANGED <<coverage, newCoverage, writer, overtaken>>  PROVE Shaped'
  BY <1>0, <1>1 DEF Shaped, Apart
<1>2. ASSUME Tick \/ Revise \/ UNCHANGED vars \/ \E p \in Callers : Begin(p) \/ Fetch(p) \/ Select(p)  PROVE Shaped'
  BY <1>1, <1>2 DEF Tick, Revise, Begin, Fetch, Select, vars, file
<1>3. ASSUME NEW p \in Callers, Store(p)  PROVE Shaped'
  <2> DEFINE chunk == NextChunk(p)
             seen == SeenCoverage(p)
  <2>1. /\ chunk \in Ranges /\ chunk[1] <= chunk[2] /\ writer \in {Nobody, p}
        /\ newCoverage' = Merged(seen, Touching(seen, chunk), chunk)
        /\ UNCHANGED <<coverage, overtaken>>
    BY <1>3, StoreFact
  <2>2. seen \in SUBSET Ranges
    BY <1>0, SeenTyped
  <2>3. ASSUME ~ overtaken  PROVE Apart(seen) /\ Apart(coverage)
    BY <1>0, <2>1, <2>3, CacheAssumption DEF Shaped, SeenCoverage
  <2> HIDE DEF chunk, seen
  <2>4. ASSUME ~ overtaken  PROVE Apart(Merged(seen, Touching(seen, chunk), chunk))
    BY <2>1, <2>2, <2>3, <2>4, MergedApart
  <2>5. ASSUME ~ overtaken  PROVE Apart(coverage)' /\ Apart(newCoverage)'
    BY <2>1, <2>3, <2>4, <2>5 DEF Apart
  <2>6. QED
    BY <2>1, <2>5 DEF Shaped
<1>4. ASSUME NEW p \in Callers, Merge(p)  PROVE Shaped'
  <2> DEFINE chunk == NextChunk(p)
  <2>1. /\ chunk \in Ranges /\ chunk[1] <= chunk[2]
        /\ newCoverage' = Merged(coverage, around[p], chunk)
        /\ overtaken' = (overtaken \/ around[p] # Touching(coverage, chunk))
        /\ UNCHANGED coverage
    BY <1>4, MergeFact
  <2>2. coverage \in SUBSET Ranges /\ overtaken \in BOOLEAN
    BY <1>0 DEF Typed
  <2> HIDE DEF chunk
  <2>3. CASE overtaken'
    BY <2>3 DEF Shaped
  <2>4. CASE ~ overtaken'
    <3>1. ~ overtaken /\ around[p] = Touching(coverage, chunk) /\ Apart(coverage)
      BY <1>0, <2>1, <2>4 DEF Shaped
    <3>2. Apart(Merged(coverage, Touching(coverage, chunk), chunk))
      BY <2>1, <2>2, <3>1, MergedApart
    <3>3. Apart(coverage)' /\ Apart(newCoverage)'
      BY <2>1, <3>1, <3>2 DEF Apart
    <3>4. QED
      BY <3>3 DEF Shaped
  <2>5. QED
    BY <2>3, <2>4
<1>5. ASSUME NEW p \in Callers, Answer(p) \/ Fail(p)  PROVE Shaped'
  <2>1. /\ UNCHANGED overtaken
        /\ coverage' = coverage \/ (coverage' = newCoverage /\ writer = p)
        /\ writer' = Nobody \/ UNCHANGED <<writer, newCoverage>>
    BY <1>5, EndsFact DEF file
  <2>2. p # Nobody
    BY CacheAssumption
  <2>3. ASSUME ~ overtaken
        PROVE  Apart(coverage)' /\ (writer' # Nobody => Apart(newCoverage)')
    BY <1>0, <2>1, <2>2, <2>3 DEF Shaped, Apart
  <2>4. QED
    BY <2>1, <2>3 DEF Shaped
<1>6. QED
  BY <1>2, <1>3, <1>4, <1>5 DEF Next

\* Coverage claims nothing that was not fetched.
LEMMA ClaimingStep == ASSUME IInv, [Next]_vars  PROVE Claiming'
<1>0. Typed /\ Calling /\ Claiming
  BY DEF IInv
<1>a. Nobody \notin Callers
  BY CacheAssumption
<1>1. ASSUME UNCHANGED <<coverage, newCoverage, writer, asOf, fetched>>,
             \A p \in Callers : pc'[p] = "merging" =>
                 pc[p] = "merging" /\ around'[p] = around[p] /\ chunks'[p] = chunks[p]
      PROVE  Claiming'
  BY <1>0, <1>1 DEF Claiming, Covered, In, Known, Touching, NextChunk
<1>2. ASSUME Tick \/ Revise \/ UNCHANGED vars  PROVE Claiming'
  BY <1>0, <1>2, <1>1 DEF Tick, Revise, file, call, vars
<1>3. ASSUME NEW p \in Callers, Begin(p)  PROVE Claiming'
  <2>1. fetched[p] = {}
    BY <1>0, <1>3 DEF Begin, Calling
  <2>2. UNCHANGED <<coverage, newCoverage, writer, asOf, fetched>>
    BY <1>0, <1>3, <2>1 DEF Begin, Typed, file
  <2>3. \A q \in Callers : pc'[q] = "merging" =>
            pc[q] = "merging" /\ around'[q] = around[q] /\ chunks'[q] = chunks[q]
    BY <1>0, <1>3 DEF Begin, Typed
  <2>4. QED
    BY <1>1, <2>2, <2>3
<1>4. ASSUME NEW p \in Callers, Fetch(p)  PROVE Claiming'
  BY <1>0, <1>4, <1>1 DEF Fetch, Typed, file
<1>5. ASSUME NEW p \in Callers, Store(p)  PROVE Claiming'
  <2> DEFINE chunk == NextChunk(p)
             seen == SeenCoverage(p)
  <2>1. /\ chunk \in Ranges /\ writer \in {Nobody, p} /\ writer' = p
        /\ newCoverage' = Merged(seen, Touching(seen, chunk), chunk)
        /\ fetched'[p] = fetched[p] \cup {i \in Days : In(i, chunk)}
        /\ UNCHANGED <<coverage, asOf, around>>
        /\ pc' = [pc EXCEPT ![p] = "calling"]
        /\ \A q \in Callers : q # p => chunks'[q] = chunks[q]
    BY <1>0, <1>5, StoreFact DEF Typed
  <2>2. seen \in SUBSET Ranges /\ \A i \in Covered(seen) : Known(i) \/ i \in fetched[p]
    BY <1>0, <1>a, <2>1, SeenTyped DEF Claiming, SeenCoverage
  <2> HIDE DEF chunk, seen
  <2>3. Touching(seen, chunk) \in SUBSET Ranges /\ Touching(seen, chunk) \subseteq seen
        /\ Touching(seen, chunk) = Touching(Touching(seen, chunk), chunk)
    BY <2>2, TouchingTwice
  <2>4. ASSUME NEW i \in Covered(Merged(seen, Touching(seen, chunk), chunk))
        PROVE  Known(i) \/ i \in fetched'[p]
    <3>1. i \in Covered(seen) \/ i \in Covered(Touching(seen, chunk)) \/ In(i, chunk)
      BY <2>1, <2>2, <2>3, MergedClaims
    <3>2. i \in Covered(seen) \/ In(i, chunk)
      BY <2>3, <3>1 DEF Covered
    <3>3. i \in Days
      BY DEF Covered
    <3>4. QED
      BY <2>1, <2>2, <3>2, <3>3
  <2>5. Covered(newCoverage)' = Covered(Merged(seen, Touching(seen, chunk), chunk))
    BY <2>1 DEF Covered, In
  <2>6. writer' # Nobody => \A i \in Covered(newCoverage)' : Known(i)' \/ i \in fetched'[writer']
    BY <2>1, <2>4, <2>5 DEF Known
  <2>7. \A i \in Covered(coverage)' : Known(i)'
    BY <1>0, <2>1 DEF Claiming, Covered, In, Known
  <2>8. ASSUME NEW q \in Callers, pc'[q] = "merging"
        PROVE  /\ \A i \in Covered(around'[q]) : Known(i)'
               /\ around'[q] = Touching(around'[q], NextChunk(q)')
    <3>1. q # p /\ pc[q] = "merging" /\ around'[q] = around[q] /\ NextChunk(q)' = NextChunk(q)
      BY <1>0, <2>1, <2>8 DEF Typed, NextChunk
    <3>2. QED
      BY <1>0, <2>1, <3>1 DEF Claiming, Known
  <2>9. QED
    BY <2>6, <2>7, <2>8 DEF Claiming, Covered, In, Touching
<1>6. ASSUME NEW p \in Callers, Select(p)  PROVE Claiming'
  <2>1. UNCHANGED <<coverage, newCoverage, writer, asOf, fetched, chunks>>
    BY <1>6 DEF Select, file
  <2>2. \A q \in Callers : q # p => pc'[q] = pc[q] /\ around'[q] = around[q]
    BY <1>6 DEF Select
  <2>3. around'[p] = Touching(coverage, NextChunk(p))
    BY <1>0, <1>6 DEF Select, Typed
  <2>4. \A q \in Callers : NextChunk(q)' = NextChunk(q)
    BY <2>1 DEF NextChunk
  <2>5. ASSUME NEW q \in Callers, pc'[q] = "merging"
        PROVE  /\ \A i \in Covered(around'[q]) : Known(i)
               /\ around'[q] = Touching(around'[q], NextChunk(q)')
    <3>1. CASE q = p
      <4>1. around'[q] \subseteq coverage /\ around'[q] = Touching(around'[q], NextChunk(q)')
        BY <2>3, <2>4, <3>1, TouchingTwice
      <4>2. QED
        BY <1>0, <4>1 DEF Claiming, Covered
    <3>2. CASE q # p
      BY <1>0, <2>2, <2>4, <2>5, <3>2 DEF Claiming
    <3>3. QED
      BY <3>1, <3>2
  <2>6. QED
    BY <1>0, <2>1, <2>5 DEF Claiming, Covered, In, Known, Touching
<1>7. ASSUME NEW p \in Callers, Merge(p)  PROVE Claiming'
  <2> DEFINE chunk == NextChunk(p)
             new == Merged(coverage, around[p], chunk)
  <2>1. /\ chunk \in Ranges /\ writer = Nobody /\ writer' = p /\ pc[p] = "merging"
        /\ newCoverage' = new
        /\ fetched'[p] = fetched[p] \cup {i \in Days : In(i, chunk)}
        /\ UNCHANGED <<coverage, asOf>>
        /\ pc' = [pc EXCEPT ![p] = "calling"]
        /\ \A q \in Callers : q # p => chunks'[q] = chunks[q] /\ around'[q] = around[q]
    BY <1>0, <1>7, MergeFact DEF Typed
  <2>2. /\ coverage \in SUBSET Ranges /\ around[p] \in SUBSET Ranges
        /\ around[p] = Touching(around[p], chunk)
        /\ \A i \in Covered(coverage) : Known(i)
        /\ \A i \in Covered(around[p]) : Known(i)
    BY <1>0, <2>1 DEF Typed, Claiming
  <2> HIDE DEF chunk
  <2>3. ASSUME NEW i \in Covered(new)  PROVE Known(i) \/ i \in fetched'[p]
    <3>1. i \in Covered(coverage) \/ i \in Covered(around[p]) \/ In(i, chunk)
      BY <2>1, <2>2, MergedClaims
    <3>2. i \in Days
      BY DEF Covered
    <3>3. QED
      BY <2>1, <2>2, <3>1, <3>2
  <2> HIDE DEF new
  <2>4. Covered(newCoverage)' = Covered(new)
    BY <2>1 DEF Covered, In
  <2>5. writer' # Nobody => \A i \in Covered(newCoverage)' : Known(i)' \/ i \in fetched'[writer']
    BY <2>1, <2>3, <2>4 DEF Known
  <2>6. \A i \in Covered(coverage)' : Known(i)'
    BY <1>0, <2>1 DEF Claiming, Covered, In, Known
  <2>7. ASSUME NEW q \in Callers, pc'[q] = "merging"
        PROVE  /\ \A i \in Covered(around'[q]) : Known(i)'
               /\ around'[q] = Touching(around'[q], NextChunk(q)')
    <3>1. q # p /\ pc[q] = "merging" /\ around'[q] = around[q] /\ NextChunk(q)' = NextChunk(q)
      BY <1>0, <2>1, <2>7 DEF Typed, NextChunk
    <3>2. QED
      BY <1>0, <2>1, <3>1 DEF Claiming, Known
  <2>8. QED
    BY <2>5, <2>6, <2>7 DEF Claiming, Covered, In, Touching
<1>8. ASSUME NEW p \in Callers, Answer(p) \/ Fail(p)  PROVE Claiming'
  <2>1. /\ pc' = [pc EXCEPT ![p] = "idle"]
        /\ \A q \in Callers : q # p => chunks'[q] = chunks[q] /\ fetched'[q] = fetched[q] /\ around'[q] = around[q]
    BY <1>0, <1>8, EndsFact DEF Typed
  <2>2. \A i \in Days : /\ Known(i) => Known(i)'
                        /\ coverage' # coverage /\ i \in fetched[p] => Known(i)'
    BY <1>0, <1>8, EndsFact DEF Typed, Known, AsFetched
  <2>3. \A i \in Covered(coverage)' : Known(i)'
    <3>1. CASE coverage' = coverage
      BY <1>0, <2>2, <3>1 DEF Claiming, Covered, In
    <3>2. CASE coverage' # coverage
      <4>1. coverage' = newCoverage /\ writer = p
        BY <1>8, <3>2, EndsFact
      <4>2. QED
        BY <1>0, <1>a, <2>2, <3>2, <4>1 DEF Claiming, Covered, In
    <3>3. QED
      BY <3>1, <3>2
  <2>4. writer' # Nobody => writer' = writer /\ writer # p /\ newCoverage' = newCoverage /\ coverage' = coverage
    BY <1>8, EndsFact DEF file
  <2>5. writer' # Nobody => \A i \in Covered(newCoverage)' : Known(i)' \/ i \in fetched'[writer']
    <3>1. SUFFICES ASSUME writer' # Nobody, NEW i \in Covered(newCoverage)'
                   PROVE  Known(i)' \/ i \in fetched'[writer']
      OBVIOUS
    <3>2. i \in Covered(newCoverage) /\ i \in Days
      BY <2>4, <3>1 DEF Covered, In
    <3>3. writer \in Callers /\ writer # p
      BY <1>0, <2>4, <3>1 DEF Typed
    <3>4. QED
      BY <1>0, <2>1, <2>2, <2>4, <3>1, <3>2, <3>3 DEF Claiming
  <2>6. ASSUME NEW q \in Callers, pc'[q] = "merging"
        PROVE  /\ \A i \in Covered(around'[q]) : Known(i)'
               /\ around'[q] = Touching(around'[q], NextChunk(q)')
    <3>1. q # p /\ pc[q] = "merging" /\ around'[q] = around[q] /\ NextChunk(q)' = NextChunk(q)
      BY <1>0, <2>1, <2>6 DEF Typed, NextChunk
    <3>2. Covered(around[q]) \subseteq Days
      BY DEF Covered
    <3>3. QED
      BY <1>0, <2>2, <3>1, <3>2 DEF Claiming
  <2>7. QED
    BY <2>3, <2>5, <2>6 DEF Claiming, Covered, In, Touching
<1>9. QED
  BY <1>2, <1>3, <1>4, <1>5, <1>6, <1>7, <1>8 DEF Next

\* What Schwab lists stays listed, and so does what is on file.
LEMMA ListedKept ==
    ASSUME IInv, NEW r,
           \/ \E new, day : Post(new, day) = ledger' /\ new \in SUBSET Unposted
           \/ \E s \in ledger : ledger' = (ledger \ {s}) \cup {[s EXCEPT !.version = @ + 1]}
           \/ UNCHANGED ledger,
           Listed(r)
    PROVE  Listed(r)'
<1>1. PICK s \in ledger : s.id = r.id /\ s.day = r.day
  BY DEF Listed
<1>2. CASE \E new, day : Post(new, day) = ledger' /\ new \in SUBSET Unposted
  BY <1>1, <1>2 DEF Post, Listed
<1>3. ASSUME NEW u \in ledger, ledger' = (ledger \ {u}) \cup {[u EXCEPT !.version = @ + 1]}
      PROVE  Listed(r)'
  <2>1. CASE s # u
    BY <1>1, <1>3, <2>1 DEF Listed
  <2>2. CASE s = u
    <3>1. u \in Records
      BY DEF IInv, Typed
    <3>2. [u EXCEPT !.version = @ + 1].id = u.id /\ [u EXCEPT !.version = @ + 1].day = u.day
      BY <3>1 DEF Records
    <3>3. QED
      BY <1>1, <1>3, <2>2, <3>2 DEF Listed
  <2>3. QED
    BY <2>1, <2>2
<1>4. CASE UNCHANGED ledger
  BY <1>1, <1>4 DEF Listed
<1>5. QED
  BY <1>2, <1>3, <1>4

LEMMA PostedOnce ==
    ASSUME IInv, NEW new \in SUBSET Unposted, NEW day
    PROVE  /\ \A r, s \in Post(new, day) : r.id = s.id => r = s
           /\ \A r \in Post(new, day) : r.version <= changes
<1>1. /\ \A r, s \in ledger : r.id = s.id => r = s
      /\ \A r \in ledger : r.version <= changes
      /\ changes \in Nat
  BY CacheAssumption DEF IInv, Listing, Typed
<1>2. \A r \in ledger : r.id \notin new
  BY DEF Unposted
<1>3. QED
  BY <1>1, <1>2 DEF Post

LEMMA ListingStep == ASSUME IInv, [Next]_vars  PROVE Listing'
<1>0. Typed /\ Listing
  BY DEF IInv
<1>1. ASSUME Tick \/ Revise  PROVE Listing'
  <2>1. /\ UNCHANGED <<rows, newRows, payload>>
        /\ \/ \E new \in SUBSET Unposted, day \in Days \cup {today + 1} : ledger' = Post(new, day)
           \/ \E s \in ledger : ledger' = (ledger \ {s}) \cup {[s EXCEPT !.version = @ + 1]}
        /\ changes' = changes \/ changes' = changes + 1
        /\ (changes' = changes + 1 \/ \E new \in SUBSET Unposted, day \in Days \cup {today + 1} : ledger' = Post(new, day))
    BY <1>1 DEF Tick, Revise, file, call
  <2>2. /\ \A r, s \in ledger' : r.id = s.id => r = s
        /\ \A r \in ledger' : r.version <= changes'
    <3>a. changes \in Nat /\ \A r \in ledger : r.version \in Nat
      BY <1>0, CacheAssumption DEF Typed, Records
    <3>1. ASSUME NEW new \in SUBSET Unposted, NEW day, ledger' = Post(new, day)
          PROVE  /\ \A r, s \in ledger' : r.id = s.id => r = s
                 /\ \A r \in ledger' : r.version <= changes'
      <4>1. /\ \A r, s \in ledger' : r.id = s.id => r = s
            /\ \A r \in ledger' : r.version <= changes
        BY <3>1, PostedOnce
      <4>2. \A r \in ledger' : r.version \in Nat
        BY <3>a, <3>1 DEF Post
      <4>3. QED
        BY <2>1, <3>a, <4>1, <4>2
    <3>2. ASSUME NEW u \in ledger, ledger' = (ledger \ {u}) \cup {[u EXCEPT !.version = @ + 1]},
                 changes' = changes + 1
          PROVE  /\ \A r, s \in ledger' : r.id = s.id => r = s
                 /\ \A r \in ledger' : r.version <= changes'
      <4> DEFINE w == [u EXCEPT !.version = @ + 1]
      <4>1. u \in Records
        BY <1>0 DEF Typed
      <4>2. w.id = u.id /\ w.version = u.version + 1
        BY <4>1 DEF Records
      <4>3. \A r \in ledger : r.version <= changes
        BY <1>0 DEF Listing
      <4> HIDE DEF w
      <4>4. \A r \in ledger' : r = w \/ (r \in ledger /\ r # u)
        BY <3>2 DEF w
      <4>5. \A r, s \in ledger' : r.id = s.id => r = s
        BY <1>0, <4>2, <4>4 DEF Listing
      <4>6. \A r \in ledger' : r.version <= changes'
        BY <3>a, <3>2, <4>2, <4>3, <4>4
      <4>7. QED
        BY <4>5, <4>6
    <3>3. QED
      <4>1. CASE \E new \in SUBSET Unposted, day \in Days \cup {today + 1} : ledger' = Post(new, day)
        BY <3>1, <4>1
      <4>2. CASE ~ \E new \in SUBSET Unposted, day \in Days \cup {today + 1} : ledger' = Post(new, day)
        BY <2>1, <3>2, <4>2
      <4>3. QED
        BY <4>1, <4>2
  <2>3. \A r : Listed(r) => Listed(r)'
    BY <2>1, ListedKept
  <2>4. QED
    BY <1>0, <2>1, <2>2, <2>3 DEF Listing
<1>2. ASSUME UNCHANGED schwab, \A r \in rows' \cup newRows' : Listed(r),
             \A p \in Callers : \A r \in payload'[p] : Listed(r)
      PROVE  Listing'
  BY <1>0, <1>2 DEF Listing, Listed, schwab
<1>3. ASSUME UNCHANGED <<schwab, rows, newRows, payload>>  PROVE Listing'
  BY <1>0, <1>3 DEF Listing, Listed, schwab
<1>4. ASSUME UNCHANGED vars \/ \E p \in Callers : Begin(p) \/ Select(p)  PROVE Listing'
  BY <1>3, <1>4 DEF vars, Begin, Select, file, call
<1>5. ASSUME NEW p \in Callers, Fetch(p)  PROVE Listing'
  <2>1. UNCHANGED <<schwab, rows, newRows>> /\ \A q \in Callers : payload'[q] \subseteq ledger \cup payload[q]
    BY <1>0, <1>5 DEF Fetch, file, Typed
  <2>2. \A r \in ledger : Listed(r)
    BY DEF Listed
  <2>3. QED
    BY <1>0, <1>2, <2>1, <2>2 DEF Listing
<1>6. ASSUME NEW p \in Callers, Store(p)  PROVE Listing'
  <2>1. /\ UNCHANGED <<schwab, rows>> /\ newRows' = upserted(SeenRows(p), payload[p])
        /\ \A q \in Callers : payload'[q] \subseteq payload[q]
    BY <1>0, <1>6, StoreFact DEF Typed
  <2>2. \A r \in newRows' : Listed(r)
    BY <1>0, <2>1 DEF upserted, SeenRows, Listing
  <2>3. QED
    BY <1>0, <1>2, <2>1, <2>2 DEF Listing
<1>7. ASSUME NEW p \in Callers, Merge(p)  PROVE Listing'
  <2>1. UNCHANGED <<schwab, rows, payload>> /\ newRows' = rows
    BY <1>7, MergeFact
  <2>2. QED
    BY <1>0, <1>2, <2>1 DEF Listing
<1>8. ASSUME NEW p \in Callers, Answer(p) \/ Fail(p)  PROVE Listing'
  <2>1. /\ UNCHANGED schwab /\ rows' \subseteq rows \cup newRows /\ newRows' \subseteq newRows
        /\ \A q \in Callers : payload'[q] \subseteq payload[q]
    BY <1>0, <1>8, EndsFact DEF Typed, file
  <2>2. QED
    BY <1>0, <1>2, <2>1 DEF Listing
<1>9. QED
  BY <1>1, <1>4, <1>5, <1>6, <1>7, <1>8 DEF Next

\* What is old does not change any more.
LEMMA OldStays ==
    ASSUME IInv, Tick \/ Revise, NEW i \in Days, Old(i)
    PROVE  Of(ledger, i)' = Of(ledger, i) /\ Old(i)'
<1>0. today \in Nat /\ i \in Nat /\ ledger \subseteq Records
  BY CacheAssumption, DaysAreNat DEF IInv, Typed
<1>1. CASE Tick
  <2>1. PICK new \in SUBSET Unposted : ledger' = Post(new, today + 1)
    BY <1>1 DEF Tick
  <2>2. today' = today + 1
    BY <1>1 DEF Tick
  <2>3. i < today + 1 /\ Old(i)'
    BY <1>0, <2>2, CutoffIsDay, CutoffMoves DEF Old
  <2>4. \A r \in ledger' : r.day = i => r \in ledger
    BY <1>0, <2>1, <2>3 DEF Post
  <2>5. ledger \subseteq ledger'
    BY <2>1 DEF Post
  <2>6. QED
    BY <2>3, <2>4, <2>5 DEF Of
<1>2. CASE Revise
  <2>1. Old(i)'
    BY <1>2 DEF Revise, Old
  <2>2. CASE \E x \in Unposted, day \in Days : ~ Old(day) /\ ledger' = Post({x}, day)
    BY <2>1, <2>2 DEF Post, Of
  <2>3. ASSUME NEW u \in ledger, ~ Old(u.day), ledger' = (ledger \ {u}) \cup {[u EXCEPT !.version = @ + 1]}
        PROVE  Of(ledger, i)' = Of(ledger, i)
    <3> DEFINE w == [u EXCEPT !.version = @ + 1]
    <3>1. w.day = u.day
      BY <1>0 DEF Records
    <3>2. u.day # i
      BY <2>3
    <3> HIDE DEF w
    <3>3. ledger' = (ledger \ {u}) \cup {w}
      BY <2>3 DEF w
    <3>4. QED
      BY <3>1, <3>2, <3>3 DEF Of
  <2>4. QED
    BY <1>2, <2>1, <2>2, <2>3 DEF Revise
<1>3. QED
  BY <1>1, <1>2

\* What is on file, and what is claimed of it, moves with nothing but the file.
LEMMA FileKept ==
    ASSUME FileAgrees, UNCHANGED <<rows, asOf>>,
           \A i \in Days : Old(i) => Of(ledger, i)' = Of(ledger, i) /\ Old(i)'
    PROVE  FileAgrees'
BY DEF FileAgrees, Right, Of

\* An open transaction stays right while its holder, the ledger and the file do not move.
LEMMA OpenKept ==
    ASSUME OpenAgrees, UNCHANGED <<newRows, writer, asOf>>,
           writer # Nobody => /\ fetched'[writer] = fetched[writer] /\ ripe'[writer] = ripe[writer]
                              /\ pc'[writer] = pc[writer] /\ chunks'[writer] = chunks[writer],
           \A i \in Days : writer # Nobody /\ Claims(writer, i) => Of(ledger, i)' = Of(ledger, i)
    PROVE  OpenAgrees'
<1>1. SUFFICES ASSUME writer # Nobody, NEW i \in Days, Claims(writer, i)'
               PROVE  Right(newRows, i)'
  BY DEF OpenAgrees
<1>2. Claims(writer, i)
  BY <1>1 DEF Claims, InHand, NextChunk, In
<1>3. QED
  BY <1>1, <1>2 DEF OpenAgrees, Right, Of

\* An answer stays right while its caller stands still, and Schwab leaves what is old alone.
LEMMA AnswerKept ==
    ASSUME NEW q \in Callers, AnswerAgrees(q),
           \A i \in Days : Old(i) => Of(ledger, i)' = Of(ledger, i) /\ Old(i)',
           ripe[q] \subseteq Days,
           pc'[q] = pc[q], chunks'[q] = chunks[q], payload'[q] = payload[q], ripe'[q] = ripe[q]
    PROVE  AnswerAgrees(q)'
<1>1. NextChunk(q)' = NextChunk(q)
  BY DEF NextChunk
<1>2. \A i \in ripe[q] : Old(i) /\ Old(i)' /\ Of(ledger, i)' = Of(ledger, i)
  BY DEF AnswerAgrees
<1>3. \A i \in ripe[q] : Right(payload[q], i) => Right(payload[q], i)'
  BY <1>2 DEF Right, Of
<1>4. QED
  BY <1>1, <1>2, <1>3 DEF AnswerAgrees, In

LEMMA AgreeingStep == ASSUME IInv, [Next]_vars  PROVE Agreeing'
<1>0. Typed /\ Calling /\ FileAgrees /\ OpenAgrees /\ \A p \in Callers : AnswerAgrees(p)
  BY DEF IInv, Agreeing
<1>a. Nobody \notin Callers /\ \A q \in Callers : q # Nobody
  BY CacheAssumption
<1>b. ASSUME UNCHANGED <<today, ledger>>
      PROVE  \A i : Of(ledger, i)' = Of(ledger, i) /\ Old(i)' = Old(i)
  BY <1>b DEF Of, Old
<1>d. \A q \in Callers : ripe[q] \subseteq Days
  BY <1>0 DEF Typed
<1>1. ASSUME UNCHANGED <<rows, newRows, writer, asOf>>,
             \A i \in Days : Old(i) => Of(ledger, i)' = Of(ledger, i) /\ Old(i)',
             \A p \in Callers : p = writer => /\ fetched'[p] = fetched[p] /\ ripe'[p] = ripe[p]
                                             /\ pc'[p] = pc[p] /\ chunks'[p] = chunks[p]
      PROVE  FileAgrees' /\ OpenAgrees'
  <2>1. writer # Nobody => writer \in Callers
    BY <1>0 DEF Typed
  <2>2. \A i \in Days : writer # Nobody /\ Claims(writer, i) => Old(i)
    BY <1>0, <2>1 DEF Claims, FileAgrees, AnswerAgrees
  <2>3. QED
    BY <1>0, <1>1, <2>1, <2>2, FileKept, OpenKept
<1>2. CASE Tick \/ Revise \/ UNCHANGED vars
  <2>1. UNCHANGED <<rows, newRows, writer, pc, chunks, payload, fetched, ripe, asOf>>
    BY <1>2 DEF Tick, Revise, vars, file, call
  <2>2. \A i \in Days : Old(i) => Of(ledger, i)' = Of(ledger, i) /\ Old(i)'
    <3>1. CASE UNCHANGED vars
      BY <1>b, <3>1 DEF vars, schwab
    <3>2. QED
      BY <1>2, <3>1, OldStays
  <2>3. \A p \in Callers : AnswerAgrees(p)'
    BY <1>0, <1>d, <2>1, <2>2, AnswerKept
  <2>4. QED
    BY <1>1, <2>1, <2>2, <2>3 DEF Agreeing
<1>4. ASSUME NEW p \in Callers, Begin(p)  PROVE Agreeing'
  <2>1. UNCHANGED <<today, ledger, rows, newRows, writer, asOf, payload, ripe>> /\ pc' = [pc EXCEPT ![p] = "calling"]
    BY <1>4 DEF Begin, schwab, file
  <2>2. writer # p /\ \A q \in Callers : q # p => fetched'[q] = fetched[q]
    BY <1>0, <1>4 DEF Begin, Typed, Calling
  <2>3. \A q \in Callers : q # p => pc'[q] = pc[q] /\ chunks'[q] = chunks[q]
    BY <1>0, <1>4 DEF Begin, Typed
  <2>4. AnswerAgrees(p)'
    BY <1>0, <1>b, <1>d, <2>1 DEF AnswerAgrees, Typed
  <2>5. \A q \in Callers : q # p => AnswerAgrees(q)'
    BY <1>0, <1>b, <1>d, <2>1, <2>3, AnswerKept
  <2>6. QED
    BY <1>b, <1>1, <2>1, <2>2, <2>3, <2>4, <2>5 DEF Agreeing
<1>5. ASSUME NEW p \in Callers, Fetch(p)  PROVE Agreeing'
  <2>1. /\ UNCHANGED <<today, ledger, rows, newRows, writer, asOf, fetched, chunks>>
        /\ pc[p] = "calling" /\ pc' = [pc EXCEPT ![p] = "storing"]
        /\ payload' = [payload EXCEPT ![p] = {r \in ledger : In(r.day, NextChunk(p))}]
        /\ ripe' = [ripe EXCEPT ![p] = @ \cup {i \in Days : Old(i) /\ In(i, NextChunk(p))}]
    BY <1>5 DEF Fetch, schwab, file
  <2> DEFINE asked == {i \in Days : Old(i) /\ In(i, NextChunk(p))}
  <2>2. /\ ripe'[p] = ripe[p] \cup asked
        /\ \A q \in Callers : q # p => ripe'[q] = ripe[q] /\ pc'[q] = pc[q] /\ payload'[q] = payload[q]
    BY <1>0, <2>1 DEF Typed
  <2>3. \A i \in ripe'[p] : Old(i)
    BY <1>0, <2>2 DEF AnswerAgrees
  <2>4. AnswerAgrees(p)'
    <3>1. payload'[p] = {r \in ledger : In(r.day, NextChunk(p))} /\ pc'[p] = "storing"
      BY <1>0, <2>1 DEF Typed
    <3>2. NextChunk(p)' = NextChunk(p)
      BY <2>1 DEF NextChunk
    <3>3. \A i \in Days : In(i, NextChunk(p)) => Of(payload'[p], i) = Of(ledger, i)
      BY <3>1 DEF Of
    <3>4. \A i \in Days : In(i, NextChunk(p)) => Right(payload[p], i)'
      BY <1>b, <2>1, <3>3 DEF Right, Of
    <3>5. \A i \in ripe'[p] : Old(i)'
      BY <1>b, <2>1, <2>3
    <3>6. \A r \in payload'[p] : In(r.day, NextChunk(p)')
      BY <3>1, <3>2
    <3>7. QED
      BY <3>1, <3>2, <3>4, <3>5, <3>6 DEF AnswerAgrees, In
  <2>5. \A q \in Callers : q # p => AnswerAgrees(q)'
    BY <1>0, <1>b, <1>d, <2>1, <2>2, AnswerKept
  <2>6. FileAgrees'
    BY <1>0, <1>b, <2>1, FileKept
  <2>7. OpenAgrees'
    <3>1. CASE writer # p
      BY <1>0, <1>b, <1>1, <2>1, <2>2, <3>1
    <3>2. CASE writer = p
      <4>1. \A i \in Days : Claims(p, i)' => Claims(p, i)
        BY <1>0, <2>1, <2>2 DEF Claims, InHand, NextChunk, In, Typed
      <4>2. QED
        BY <1>0, <1>a, <1>b, <2>1, <3>2, <4>1 DEF OpenAgrees, Right, Of
    <3>3. QED
      BY <3>1, <3>2
  <2>8. QED
    BY <2>4, <2>5, <2>6, <2>7 DEF Agreeing
<1>6. ASSUME NEW p \in Callers, Select(p)  PROVE Agreeing'
  <2>1. /\ UNCHANGED <<today, ledger, rows, newRows, writer, asOf, fetched, ripe, chunks, payload>>
        /\ pc' = [pc EXCEPT ![p] = "merging"]
        /\ pc[p] = "storing" /\ payload[p] = {} /\ writer # p
    BY <1>6 DEF Select, schwab, file
  <2>2. AnswerAgrees(p)'
    <3>1. NextChunk(p)' = NextChunk(p)
      BY <2>1 DEF NextChunk
    <3>2. /\ \A i \in Days : i \in ripe[p] /\ In(i, NextChunk(p)) => Right(payload[p], i)
          /\ \A i \in ripe[p] : Old(i)
      BY <1>0, <2>1 DEF AnswerAgrees
    <3>3. QED
      BY <1>b, <2>1, <3>1, <3>2 DEF AnswerAgrees, Right, Of, In
  <2>3. \A q \in Callers : q # p => AnswerAgrees(q)'
    BY <1>0, <1>b, <1>d, <2>1, AnswerKept DEF Typed
  <2>4. \A q \in Callers : q = writer => pc'[q] = pc[q]
    BY <1>0, <2>1 DEF Typed
  <2>5. QED
    BY <1>b, <1>1, <2>1, <2>2, <2>3, <2>4 DEF Agreeing
<1>7. ASSUME NEW p \in Callers, Store(p)  PROVE Agreeing'
  <2> DEFINE chunk == NextChunk(p)
             seen == SeenRows(p)
             new == upserted(seen, payload[p])
  <2>1. /\ writer \in {Nobody, p} /\ writer' = p /\ newRows' = new /\ pc[p] = "storing"
        /\ UNCHANGED <<today, ledger, rows, ripe, asOf>>
        /\ pc' = [pc EXCEPT ![p] = "calling"]
        /\ fetched'[p] = fetched[p] \cup {i \in Days : In(i, chunk)}
        /\ \A q \in Callers : q # p => chunks'[q] = chunks[q] /\ payload'[q] = payload[q] /\ pc'[q] = pc[q]
    BY <1>0, <1>7, StoreFact DEF Typed, schwab
  <2>2. /\ \A r \in payload[p] : In(r.day, chunk)
        /\ \A i \in Days : i \in ripe[p] /\ In(i, chunk) => Right(payload[p], i)
    BY <1>0, <2>1 DEF AnswerAgrees
  <2>3. Listing /\ \A r \in seen \cup payload[p] : Listed(r)
    BY DEF IInv, Listing, SeenRows
  <2>d. \A i \in Days : ~ In(i, chunk) => ~ InHand(p, i)
    BY DEF InHand
  <2> HIDE DEF chunk
  <2>4. ASSUME NEW i \in Days, IF i \in fetched'[p] THEN i \in ripe[p] ELSE asOf[i] = "old"
        PROVE  Right(new, i)
    <3>1. CASE In(i, chunk)
      <4>1. i \in ripe[p]
        BY <2>1, <2>4, <3>1
      <4>2. QED
        BY <2>2, <2>3, <3>1, <4>1, UpsertedFact
    <3>2. CASE ~ In(i, chunk)
      <4>1. Of(payload[p], i) = {}
        BY <2>2, <3>2 DEF Of
      <4>2. IF i \in fetched[p] THEN i \in ripe[p] ELSE asOf[i] = "old"
        BY <2>1, <2>4, <3>2
      <4>3. Right(seen, i)
        <5>1. CASE writer = p
          BY <1>0, <1>a, <2>d, <3>2, <4>2, <5>1 DEF OpenAgrees, Claims, SeenRows
        <5>2. CASE writer # p
          BY <1>0, <4>2, <5>2 DEF FileAgrees, SeenRows, Calling
        <5>3. QED
          BY <5>1, <5>2
      <4>4. QED
        BY <2>3, <4>1, <4>3, UpsertedFact
    <3>3. QED
      BY <3>1, <3>2
  <2> HIDE DEF new, seen
  <2>5. FileAgrees'
    BY <1>0, <1>b, <2>1, FileKept
  <2>6. OpenAgrees'
    <3>1. \A i \in Days : Claims(p, i)' => IF i \in fetched'[p] THEN i \in ripe[p] ELSE asOf[i] = "old"
      BY <2>1 DEF Claims
    <3>2. QED
      BY <1>b, <2>1, <2>4, <3>1 DEF OpenAgrees, Right, Of
  <2>7. AnswerAgrees(p)'
    BY <1>0, <1>b, <1>d, <2>1 DEF AnswerAgrees, Typed
  <2>8. \A q \in Callers : q # p => AnswerAgrees(q)'
    BY <1>0, <1>b, <1>d, <2>1, AnswerKept
  <2>9. QED
    BY <2>5, <2>6, <2>7, <2>8 DEF Agreeing
<1>8. ASSUME NEW p \in Callers, Merge(p)  PROVE Agreeing'
  <2> DEFINE chunk == NextChunk(p)
  <2>1. /\ writer = Nobody /\ writer' = p /\ newRows' = rows /\ pc[p] = "merging"
        /\ UNCHANGED <<today, ledger, rows, ripe, asOf, payload>>
        /\ pc' = [pc EXCEPT ![p] = "calling"]
        /\ fetched'[p] = fetched[p] \cup {i \in Days : In(i, chunk)}
        /\ \A q \in Callers : q # p => chunks'[q] = chunks[q] /\ pc'[q] = pc[q]
    BY <1>0, <1>8, MergeFact DEF Typed, schwab
  <2>2. /\ payload[p] = {} /\ fetched[p] = {}
        /\ \A i \in Days : i \in ripe[p] /\ In(i, chunk) => Right(payload[p], i)
    BY <1>0, <1>a, <2>1 DEF AnswerAgrees, Calling
  <2> HIDE DEF chunk
  <2>3. ASSUME NEW i \in Days, IF i \in fetched'[p] THEN i \in ripe[p] ELSE asOf[i] = "old"
        PROVE  Right(rows, i)
    <3>1. CASE i \notin fetched'[p]
      BY <1>0, <2>3, <3>1 DEF FileAgrees
    <3>2. CASE i \in fetched'[p]
      <4>1. In(i, chunk) /\ i \in ripe[p]
        BY <2>1, <2>2, <2>3, <3>2
      <4>2. Of(ledger, i) = {}
        BY <2>2, <4>1 DEF Right, Of
      <4>3. Of(rows, i) = {}
        BY <4>2 DEF IInv, Listing, Listed, Of
      <4>4. QED
        BY <4>2, <4>3 DEF Right
    <3>3. QED
      BY <3>1, <3>2
  <2>5. FileAgrees'
    BY <1>0, <1>b, <2>1, FileKept
  <2>6. OpenAgrees'
    <3>1. \A i \in Days : Claims(p, i)' => IF i \in fetched'[p] THEN i \in ripe[p] ELSE asOf[i] = "old"
      BY <2>1 DEF Claims
    <3>2. QED
      BY <1>b, <2>1, <2>3, <3>1 DEF OpenAgrees, Right, Of
  <2>7. AnswerAgrees(p)'
    BY <1>0, <1>b, <1>d, <2>1 DEF AnswerAgrees, Typed
  <2>8. \A q \in Callers : q # p => AnswerAgrees(q)'
    BY <1>0, <1>b, <1>d, <2>1, AnswerKept
  <2>9. QED
    BY <2>5, <2>6, <2>7, <2>8 DEF Agreeing
<1>9. ASSUME NEW p \in Callers, Answer(p) \/ Fail(p)  PROVE Agreeing'
  <2>1. /\ UNCHANGED <<today, ledger>> /\ pc' = [pc EXCEPT ![p] = "idle"] /\ ripe'[p] = {}
        /\ \A q \in Callers : q # p => /\ chunks'[q] = chunks[q] /\ payload'[q] = payload[q]
                                       /\ pc'[q] = pc[q] /\ fetched'[q] = fetched[q]
                                       /\ ripe'[q] = ripe[q]
    BY <1>0, <1>9, EndsFact DEF Typed, schwab
  <2>2. FileAgrees'
    <3>1. CASE UNCHANGED <<rows, asOf>>
      BY <1>0, <1>b, <2>1, <3>1, FileKept
    <3>2. CASE ~ UNCHANGED <<rows, asOf>>
      <4>1. /\ rows' = newRows /\ writer = p /\ pc[p] = "calling"
            /\ asOf' = [i \in Days |-> IF i \in fetched[p] THEN AsFetched(p, i) ELSE asOf[i]]
        BY <1>9, <3>2, EndsFact DEF Answer, Fail, RolledBack
      <4>2. ASSUME NEW i \in Days, asOf'[i] = "old"  PROVE Old(i) /\ Right(newRows, i)
        <5>1. IF i \in fetched[p] THEN i \in ripe[p] ELSE asOf[i] = "old"
          BY <4>1, <4>2 DEF AsFetched
        <5>2. Old(i)
          BY <1>0, <5>1 DEF FileAgrees, AnswerAgrees
        <5>3. Claims(p, i)
          BY <4>1, <5>1 DEF Claims, InHand
        <5>4. QED
          BY <1>0, <1>a, <4>1, <5>2, <5>3 DEF OpenAgrees
      <4>3. QED
        BY <1>b, <2>1, <4>1, <4>2 DEF FileAgrees, Right, Of
    <3>3. QED
      BY <3>1, <3>2
  <2>3. OpenAgrees'
    <3>1. CASE writer' = Nobody
      BY <3>1 DEF OpenAgrees
    <3>2. CASE writer' # Nobody
      <4>1. writer # p /\ UNCHANGED <<rows, newRows, writer>>
        BY <1>9, <3>2, EndsFact DEF file
      <4>2. UNCHANGED asOf
        BY <1>9, <4>1, EndsFact
      <4>3. QED
        BY <1>1, <1>b, <2>1, <4>1, <4>2
    <3>3. QED
      BY <3>1, <3>2
  <2>4. AnswerAgrees(p)'
    BY <1>0, <2>1 DEF AnswerAgrees, Typed
  <2>5. \A q \in Callers : q # p => AnswerAgrees(q)'
    BY <1>0, <1>b, <1>d, <2>1, AnswerKept
  <2>6. QED
    BY <2>2, <2>3, <2>4, <2>5 DEF Agreeing
<1>10. QED
  BY <1>2, <1>4, <1>5, <1>6, <1>7, <1>8, <1>9 DEF Next

-----------------------------------------------------------------------------
LEMMA InitInv == Init => IInv
<1>1. SUFFICES ASSUME Init  PROVE IInv
  OBVIOUS
<1>2. PICK posted \in SUBSET Txns : \E day0 \in [posted -> 0..FirstDay] :
         ledger = {[id |-> x, day |-> day0[x], version |-> 0] : x \in posted}
  BY <1>1 DEF Init
<1>3. ledger \subseteq Records
  BY <1>2, CacheAssumption DEF Records, Days
<1>4. Typed
  <2>1. today \in FirstDay..LastDay /\ changes \in 0..MaxChanges /\ 0 \in Days
    BY <1>1, CacheAssumption DEF Init, Days
  <2>2. request \in [Callers -> Requests]
    BY <1>1, <2>1 DEF Init, Requests
  <2>3. QED
    BY <1>1, <1>3, <2>1, <2>2 DEF Init, Typed
<1>5. Calling /\ FetchesTheRest /\ Shaped
  BY <1>1, CacheAssumption DEF Init, Calling, FetchesTheRest, Shaped, Apart
<1>6. Claiming
  BY <1>1 DEF Init, Claiming, Covered
<1>7. Listing
  BY <1>1, <1>2, CacheAssumption DEF Init, Listing
<1>8. Agreeing
  BY <1>1 DEF Init, Agreeing, FileAgrees, OpenAgrees, AnswerAgrees
<1>9. QED
  BY <1>4, <1>5, <1>6, <1>7, <1>8 DEF IInv

LEMMA Invariance == Spec => []IInv
<1>1. IInv /\ [Next]_vars => IInv'
  BY TypedStep, CallingStep, FetchesTheRestStep, ShapedStep, ClaimingStep, ListingStep, AgreeingStep DEF IInv
<1>2. QED
  BY <1>1, InitInv, PTL DEF Spec

\* The rows of coverage neither overlap nor touch, unless a merge deleted rows that another
\* process had put there after it read (merge_coverage's SELECT precedes its transaction).
THEOREM RowsAreApart == Spec => []TypeOK
<1>1. IInv => TypeOK
  BY DEF IInv, Typed, Shaped, TypeOK
<1>2. QED
  BY <1>1, Invariance, PTL

\* A call asks Schwab for exactly the days that it may not trust: those that are fresh, those
\* that no row covers, and all of them on a refresh (coverage_gaps, _chunk_range).
THEOREM OnlyTheRestIsFetched == Spec => []FetchesTheRest
<1>1. IInv => FetchesTheRest
  BY DEF IInv
<1>2. QED
  BY <1>1, Invariance, PTL

\* Coverage claims no day that was not fetched and committed, whichever calls fail and
\* however many of them merge at once (merge_coverage).
THEOREM CoverageIsEarned == Spec => []CoverageFetched
<1>1. IInv => CoverageFetched
  BY DEF IInv, Claiming, CoverageFetched, Known
<1>2. QED
  BY <1>1, Invariance, PTL

\* A day that was fetched when it was old is right in the cache for ever (upsert_many),
\* unless a call that asked for it while it was young commits after midnight.
THEOREM OldStaysRight == Spec => []OldFetchRight
<1>1. IInv => OldFetchRight
  BY DEF IInv, Agreeing, FileAgrees, OldFetchRight, Right
<1>2. QED
  BY <1>1, Invariance, PTL

-----------------------------------------------------------------------------
(* Positions and tickets. *)

Index == 1 .. 4
Slots == Leg \cup {NoLeg}
Worth(l, S) == l.qty * (_leg_intrinsic(l, S) - l.premium)
CallQty(l) == IF l.side = "C" THEN l.qty ELSE 0

LEMMA SlotTypes ==
    ASSUME NEW legs \in Legs, NEW i \in Index
    PROVE  /\ At(legs, i) \in Slots
           /\ At(legs, i).qty \in Int /\ At(legs, i).premium \in Int
           /\ At(legs, i).strike \in Nat /\ At(legs, i).side \in Sides
BY DEF Legs, At, Leg, NoLeg, MaxLegs, Slots, Index, Sides

LEMMA IntrinsicType ==
    ASSUME NEW l, l.strike \in Nat, l.side \in Sides, NEW S \in Nat
    PROVE  _leg_intrinsic(l, S) \in Nat
BY DEF _leg_intrinsic, Sides

\* Between two prices with no strike strictly between them a leg's value at
\* expiry is linear (strategy.py:90-94).
LEMMA Chord ==
    ASSUME NEW k \in Int, NEW a \in Int, NEW b \in Int, NEW S \in Int
    PROVE  /\ (S - k) * (b - a) = (a - k) * (b - S) + (b - k) * (S - a)
           /\ (k - S) * (b - a) = (k - a) * (b - S) + (k - b) * (S - a)
OBVIOUS

LEMMA IntrinsicChord ==
    ASSUME NEW l, l.strike \in Nat, l.side \in Sides,
           NEW a \in Nat, NEW b \in Nat, NEW S \in Nat, a <= S, S <= b,
           l.strike <= a \/ b <= l.strike
    PROVE  _leg_intrinsic(l, S) * (b - a)
              = _leg_intrinsic(l, a) * (b - S) + _leg_intrinsic(l, b) * (S - a)
<1>1. CASE l.side = "C" /\ l.strike <= a
  <2>1. /\ _leg_intrinsic(l, S) = S - l.strike
        /\ _leg_intrinsic(l, a) = a - l.strike
        /\ _leg_intrinsic(l, b) = b - l.strike
    BY <1>1 DEF _leg_intrinsic
  <2>2. (S - l.strike) * (b - a) = (a - l.strike) * (b - S) + (b - l.strike) * (S - a)
    BY Chord
  <2> QED
    BY <2>1, <2>2
<1>2. CASE l.side = "P" /\ b <= l.strike
  <2>1. /\ _leg_intrinsic(l, S) = l.strike - S
        /\ _leg_intrinsic(l, a) = l.strike - a
        /\ _leg_intrinsic(l, b) = l.strike - b
    BY <1>2 DEF _leg_intrinsic
  <2>2. (l.strike - S) * (b - a) = (l.strike - a) * (b - S) + (l.strike - b) * (S - a)
    BY Chord
  <2> QED
    BY <2>1, <2>2
<1>3. CASE \/ l.side = "C" /\ b <= l.strike
           \/ l.side = "P" /\ l.strike <= a
  <2>1. /\ _leg_intrinsic(l, S) = 0
        /\ _leg_intrinsic(l, a) = 0
        /\ _leg_intrinsic(l, b) = 0
    BY <1>3 DEF _leg_intrinsic
  <2> QED
    BY <2>1
<1> QED
  BY <1>1, <1>2, <1>3 DEF Sides

LEMMA Scale ==
    ASSUME NEW q \in Int, NEW p \in Int, NEW a \in Nat, NEW b \in Nat, NEW S \in Nat,
           NEW x \in Int, NEW y \in Int, NEW z \in Int,
           x * (b - a) = y * (b - S) + z * (S - a)
    PROVE  (q * (x - p)) * (b - a) = (q * (y - p)) * (b - S) + (q * (z - p)) * (S - a)
<1>1. (q * (x - p)) * (b - a) = q * (x * (b - a)) - q * (p * (b - a))
  OBVIOUS
<1>2. q * (x * (b - a)) = q * (y * (b - S) + z * (S - a))
  OBVIOUS
<1> QED
  BY <1>1, <1>2

LEMMA WorthType ==
    ASSUME NEW legs \in Legs, NEW i \in Index, NEW S \in Nat
    PROVE  Worth(At(legs, i), S) \in Int
<1>1. _leg_intrinsic(At(legs, i), S) \in Nat
  BY SlotTypes, IntrinsicType
<1> QED
  BY <1>1, SlotTypes DEF Worth

LEMMA PayoffSum ==
    ASSUME NEW legs \in Legs, NEW S \in Nat
    PROVE  /\ payoff_at_expiry(legs, S) = 100 * (Worth(At(legs, 1), S)
                + Worth(At(legs, 2), S) + Worth(At(legs, 3), S) + Worth(At(legs, 4), S))
           /\ payoff_at_expiry(legs, S) \in Int
<1>1. payoff_at_expiry(legs, S) = 100 * (Worth(At(legs, 1), S)
                + Worth(At(legs, 2), S) + Worth(At(legs, 3), S) + Worth(At(legs, 4), S))
  BY DEF payoff_at_expiry, Multiplier, Total, Worth
<1>2. \A i \in Index : Worth(At(legs, i), S) \in Int
  BY WorthType
<1> QED
  BY <1>1, <1>2 DEF Index

\* The payoff is linear between two prices with no strike between them
\* (strategy.py:97-111, 146-149).
LEMMA PayoffChord ==
    ASSUME NEW legs \in Legs, NEW a \in Nat, NEW b \in Nat, NEW S \in Nat, a <= S, S <= b,
           \A i \in Index : At(legs, i).strike <= a \/ b <= At(legs, i).strike
    PROVE  payoff_at_expiry(legs, S) * (b - a)
              = payoff_at_expiry(legs, a) * (b - S) + payoff_at_expiry(legs, b) * (S - a)
<1>1. ASSUME NEW i \in Index
      PROVE  Worth(At(legs, i), S) * (b - a)
                = Worth(At(legs, i), a) * (b - S) + Worth(At(legs, i), b) * (S - a)
  <2> DEFINE l == At(legs, i)
  <2>1. /\ _leg_intrinsic(l, S) \in Int /\ _leg_intrinsic(l, a) \in Int
        /\ _leg_intrinsic(l, b) \in Int /\ l.qty \in Int /\ l.premium \in Int
    BY SlotTypes, IntrinsicType
  <2>2. _leg_intrinsic(l, S) * (b - a)
              = _leg_intrinsic(l, a) * (b - S) + _leg_intrinsic(l, b) * (S - a)
    BY SlotTypes, IntrinsicChord
  <2> HIDE DEF l
  <2>3. (l.qty * (_leg_intrinsic(l, S) - l.premium)) * (b - a)
            = (l.qty * (_leg_intrinsic(l, a) - l.premium)) * (b - S)
              + (l.qty * (_leg_intrinsic(l, b) - l.premium)) * (S - a)
    <3>1. PICK q \in Int, p \in Int, x \in Int, y \in Int, z \in Int :
             /\ q = l.qty /\ p = l.premium /\ x = _leg_intrinsic(l, S)
             /\ y = _leg_intrinsic(l, a) /\ z = _leg_intrinsic(l, b)
      BY <2>1
    <3>2. x * (b - a) = y * (b - S) + z * (S - a)
      BY <2>2, <3>1
    <3>3. (q * (x - p)) * (b - a) = (q * (y - p)) * (b - S) + (q * (z - p)) * (S - a)
      BY <3>2, Scale
    <3> QED
      BY <3>1, <3>3
  <2>4. Worth(l, S) * (b - a) = Worth(l, a) * (b - S) + Worth(l, b) * (S - a)
    BY <2>3 DEF Worth
  <2> QED
    BY <2>4 DEF l
<1>2. \A i \in Index : /\ Worth(At(legs, i), S) \in Int
                       /\ Worth(At(legs, i), a) \in Int /\ Worth(At(legs, i), b) \in Int
  BY WorthType
<1> DEFINE w(i, x) == Worth(At(legs, i), x)
<1>3. /\ w(1, S) * (b - a) = w(1, a) * (b - S) + w(1, b) * (S - a)
      /\ w(2, S) * (b - a) = w(2, a) * (b - S) + w(2, b) * (S - a)
      /\ w(3, S) * (b - a) = w(3, a) * (b - S) + w(3, b) * (S - a)
      /\ w(4, S) * (b - a) = w(4, a) * (b - S) + w(4, b) * (S - a)
  BY <1>1 DEF Index
<1>4. \A x \in {a, b, S} : /\ w(1, x) \in Int /\ w(2, x) \in Int
                           /\ w(3, x) \in Int /\ w(4, x) \in Int
  BY <1>2 DEF Index
<1>5. \A x \in {a, b, S} : payoff_at_expiry(legs, x) = 100 * (w(1, x) + w(2, x) + w(3, x) + w(4, x))
  BY PayoffSum
<1> HIDE DEF w
<1>6. \A x \in {a, b, S}, d \in Int : (100 * (w(1, x) + w(2, x) + w(3, x) + w(4, x))) * d
          = 100 * (w(1, x) * d + w(2, x) * d + w(3, x) * d + w(4, x) * d)
  BY <1>4
<1>7. payoff_at_expiry(legs, S) * (b - a)
         = 100 * (w(1, S) * (b - a) + w(2, S) * (b - a) + w(3, S) * (b - a) + w(4, S) * (b - a))
  BY <1>5, <1>6
<1>8. payoff_at_expiry(legs, a) * (b - S)
         = 100 * (w(1, a) * (b - S) + w(2, a) * (b - S) + w(3, a) * (b - S) + w(4, a) * (b - S))
  BY <1>5, <1>6
<1>9. payoff_at_expiry(legs, b) * (S - a)
         = 100 * (w(1, b) * (S - a) + w(2, b) * (S - a) + w(3, b) * (S - a) + w(4, b) * (S - a))
  BY <1>5, <1>6
<1>10. /\ \A i \in Index, x \in {a, b, S} : w(i, x) \in Int
       /\ \A u, v \in Int : u * v \in Int
  BY <1>4 DEF Index
<1> QED
  BY <1>3, <1>7, <1>8, <1>9, <1>10 DEF Index

\* Past every strike only calls move the payoff (strategy.py:132-134).
LEMMA PayoffTail ==
    ASSUME NEW legs \in Legs, NEW a \in Nat, NEW S \in Nat, a <= S,
           \A i \in Index : At(legs, i).strike <= a
    PROVE  /\ _right_asymptote_slope(legs) \in Int
           /\ payoff_at_expiry(legs, S)
                 = payoff_at_expiry(legs, a) + 100 * (_right_asymptote_slope(legs) * (S - a))
<1> DEFINE c(i) == CallQty(At(legs, i))
<1> DEFINE w(i, x) == Worth(At(legs, i), x)
<1>1. _right_asymptote_slope(legs) = c(1) + c(2) + c(3) + c(4)
  BY DEF _right_asymptote_slope, Net, Total, CallQty
<1>2. ASSUME NEW i \in Index
      PROVE  /\ c(i) \in Int /\ w(i, S) \in Int /\ w(i, a) \in Int
             /\ w(i, S) = w(i, a) + c(i) * (S - a)
  <2> DEFINE l == At(legs, i)
  <2>1. /\ l.qty \in Int /\ l.premium \in Int /\ l.strike \in Nat /\ l.side \in Sides
        /\ _leg_intrinsic(l, S) \in Int /\ _leg_intrinsic(l, a) \in Int
        /\ l.strike <= a
    BY SlotTypes, IntrinsicType
  <2> HIDE DEF l
  <2>2. CASE l.side = "C"
    <3>1. _leg_intrinsic(l, S) = S - l.strike /\ _leg_intrinsic(l, a) = a - l.strike
      BY <2>1, <2>2 DEF _leg_intrinsic
    <3>2. l.qty * ((S - l.strike) - l.premium)
              = l.qty * ((a - l.strike) - l.premium) + l.qty * (S - a)
      BY <2>1
    <3>3. Worth(l, S) = Worth(l, a) + CallQty(l) * (S - a)
      BY <2>2, <3>1, <3>2 DEF Worth, CallQty
    <3> QED
      BY <3>3, <2>1, <2>2, WorthType DEF CallQty, l
  <2>3. CASE l.side = "P"
    <3>1. _leg_intrinsic(l, S) = 0 /\ _leg_intrinsic(l, a) = 0
      BY <2>1, <2>3 DEF _leg_intrinsic
    <3>2. Worth(l, S) = Worth(l, a) /\ CallQty(l) = 0
      BY <2>3, <3>1 DEF Worth, CallQty
    <3> QED
      BY <3>2, <2>1, WorthType DEF l
  <2> QED
    BY <2>1, <2>2, <2>3 DEF Sides
<1> HIDE DEF c, w
<1>3. /\ payoff_at_expiry(legs, S) = 100 * (w(1, S) + w(2, S) + w(3, S) + w(4, S))
      /\ payoff_at_expiry(legs, a) = 100 * (w(1, a) + w(2, a) + w(3, a) + w(4, a))
  BY PayoffSum DEF w
<1>4. \A i \in Index : c(i) \in Int /\ w(i, a) \in Int
  BY <1>2
<1>5. /\ c(1) \in Int /\ c(2) \in Int /\ c(3) \in Int /\ c(4) \in Int
      /\ w(1, a) \in Int /\ w(2, a) \in Int /\ w(3, a) \in Int /\ w(4, a) \in Int
      /\ w(1, S) = w(1, a) + c(1) * (S - a) /\ w(2, S) = w(2, a) + c(2) * (S - a)
      /\ w(3, S) = w(3, a) + c(3) * (S - a) /\ w(4, S) = w(4, a) + c(4) * (S - a)
  BY <1>2, <1>4 DEF Index
<1>6. (c(1) + c(2) + c(3) + c(4)) * (S - a)
          = c(1) * (S - a) + c(2) * (S - a) + c(3) * (S - a) + c(4) * (S - a)
  BY <1>5
<1>7. \A i \in Index : c(i) * (S - a) \in Int
  BY <1>4
<1> QED
  BY <1>1, <1>3, <1>5, <1>6, <1>7 DEF Index

-----------------------------------------------------------------------------
(* The strikes, zero and the last strike.                                    *)
LEMMA FourBounds ==
    ASSUME NEW f, \A i \in Index : f[i] \in Int
    PROVE  /\ \E i \in Index : \A j \in Index : f[j] <= f[i]
           /\ \E i \in Index : \A j \in Index : f[i] <= f[j]
<1>1. f[1] \in Int /\ f[2] \in Int /\ f[3] \in Int /\ f[4] \in Int
  BY DEF Index
<1>2. Index = {1, 2, 3, 4}
  BY DEF Index
<1>3. PICK u \in {1, 2}, v \in {3, 4} :
         f[1] <= f[u] /\ f[2] <= f[u] /\ f[3] <= f[v] /\ f[4] <= f[v]
  BY <1>1
<1>4. PICK w \in {1, 2}, x \in {3, 4} :
         f[w] <= f[1] /\ f[w] <= f[2] /\ f[x] <= f[3] /\ f[x] <= f[4]
  BY <1>1
<1>5. \E i \in Index : \A j \in Index : f[j] <= f[i]
  BY <1>1, <1>2, <1>3
<1>6. \E i \in Index : \A j \in Index : f[i] <= f[j]
  BY <1>1, <1>2, <1>4
<1> QED
  BY <1>5, <1>6

LEMMA KinkSlots ==
    ASSUME NEW legs \in Legs
    PROVE  /\ _kinks(legs) # {} /\ _kinks(legs) \subseteq Nat \ {0}
           /\ \A i \in Index : At(legs, i).strike \in {0} \cup _kinks(legs)
           /\ \A k \in _kinks(legs) : \E i \in Index : k = At(legs, i).strike
<1>1. PICK n \in 1 .. 4 : legs \in [1 .. n -> Leg]
  BY DEF Legs, MaxLegs
<1>2. \A i \in 1 .. n : legs[i] \in Leg /\ legs[i].strike \in Nat \ {0}
  BY <1>1 DEF Leg
<1>3. legs[1].strike \in _kinks(legs)
  BY <1>1 DEF _kinks
<1>4. _kinks(legs) \subseteq Nat \ {0}
  BY <1>1, <1>2 DEF _kinks
<1>5. \A i \in Index : At(legs, i).strike \in {0} \cup _kinks(legs)
  BY <1>1 DEF At, NoLeg, _kinks
<1>6. \A k \in _kinks(legs) : \E i \in Index : k = At(legs, i).strike
  BY <1>1 DEF At, _kinks, Index
<1> QED
  BY <1>3, <1>4, <1>5, <1>6

LEMMA LastKink ==
    ASSUME NEW legs \in Legs
    PROVE  /\ TopStrike(legs) \in _kinks(legs) /\ TopStrike(legs) \in Nat
           /\ \A i \in Index : At(legs, i).strike <= TopStrike(legs)
<1> DEFINE f == [i \in Index |-> At(legs, i).strike]
<1>1. \A i \in Index : f[i] \in Int /\ f[i] = At(legs, i).strike
  BY SlotTypes
<1>2. PICK i \in Index : \A j \in Index : f[j] <= f[i]
  <2> HIDE DEF f
  <2> QED
    BY <1>1, FourBounds
<1>3. PICK k \in _kinks(legs) : k > 0
  BY KinkSlots
<1>4. PICK j \in Index : k = At(legs, j).strike
  BY KinkSlots
<1>5. f[i] > 0
  BY <1>1, <1>2, <1>3, <1>4
<1>6. f[i] \in _kinks(legs)
  BY <1>1, <1>5, KinkSlots
<1>7. \A x \in _kinks(legs) : x <= f[i]
  BY <1>1, <1>2, KinkSlots
<1>8. /\ TopStrike(legs) \in _kinks(legs)
      /\ \A x \in _kinks(legs) : x <= TopStrike(legs)
  BY <1>6, <1>7 DEF TopStrike
<1> QED
  BY <1>8, KinkSlots

LEMMA Below ==
    ASSUME NEW legs \in Legs, NEW S \in Nat
    PROVE  \E a \in {0} \cup _kinks(legs) :
              /\ a \in Nat /\ a <= S
              /\ \A i \in Index : At(legs, i).strike <= S => At(legs, i).strike <= a
<1> DEFINE f == [i \in Index |-> IF At(legs, i).strike <= S THEN At(legs, i).strike ELSE 0]
<1>1. \A i \in Index : /\ f[i] \in Nat /\ f[i] <= S
                       /\ f[i] \in {0} \cup _kinks(legs)
                       /\ At(legs, i).strike <= S => At(legs, i).strike = f[i]
  BY SlotTypes, KinkSlots
<1>2. PICK i \in Index : \A j \in Index : f[j] <= f[i]
  <2> HIDE DEF f
  <2> QED
    BY <1>1, FourBounds
<1> HIDE DEF f
<1> QED
  BY <1>1, <1>2

LEMMA AboveSome ==
    ASSUME NEW legs \in Legs, NEW S \in Nat, S < TopStrike(legs)
    PROVE  \E b \in _kinks(legs) :
              /\ b \in Nat /\ S < b
              /\ \A i \in Index : S < At(legs, i).strike => b <= At(legs, i).strike
<1> DEFINE f == [i \in Index |-> IF S < At(legs, i).strike THEN At(legs, i).strike
                                 ELSE TopStrike(legs)]
<1>1. \A i \in Index : /\ f[i] \in Nat /\ S < f[i]
                       /\ f[i] \in _kinks(legs)
                       /\ S < At(legs, i).strike => At(legs, i).strike = f[i]
  BY SlotTypes, KinkSlots, LastKink
<1>2. PICK i \in Index : \A j \in Index : f[i] <= f[j]
  <2> HIDE DEF f
  <2> QED
    BY <1>1, FourBounds
<1> HIDE DEF f
<1> QED
  BY <1>1, <1>2

LEMMA OutcomeBounds ==
    ASSUME NEW legs \in Legs
    PROVE  /\ \E m \in Outcomes(legs) : \A x \in Outcomes(legs) : x <= m
           /\ \E m \in Outcomes(legs) : \A x \in Outcomes(legs) : m <= x
           /\ Outcomes(legs) \subseteq Int
<1> DEFINE pay(S) == payoff_at_expiry(legs, S)
<1> DEFINE f == [i \in Index |-> pay(At(legs, i).strike)]
<1> DEFINE far == IF _right_asymptote_slope(legs) = 0 THEN pay(TopStrike(legs) + 1) ELSE pay(0)
<1>1. \A S \in Nat : pay(S) \in Int
  BY PayoffSum
<1>2. \A i \in Index : f[i] \in Int
  BY <1>1, SlotTypes
<1>3. far \in Int /\ pay(0) \in Int
  BY <1>1, LastKink
<1>4. \A x \in Outcomes(legs) : x = pay(0) \/ x = far \/ \E i \in Index : x = f[i]
  BY KinkSlots DEF Outcomes, Vertices
<1>5. /\ pay(0) \in Outcomes(legs) /\ far \in Outcomes(legs)
      /\ \A i \in Index : f[i] \in Outcomes(legs)
  BY KinkSlots DEF Outcomes, Vertices
<1>6. PICK i \in Index : \A j \in Index : f[j] <= f[i]
  <2> HIDE DEF f
  <2> QED
    BY <1>2, FourBounds
<1>7. PICK k \in Index : \A j \in Index : f[k] <= f[j]
  <2> HIDE DEF f
  <2> QED
    BY <1>2, FourBounds
<1> HIDE DEF f, far, pay
<1>8. PICK m \in {pay(0), far, f[i]} : pay(0) <= m /\ far <= m /\ f[i] <= m
  BY <1>2, <1>3
<1>9. PICK l \in {pay(0), far, f[k]} : l <= pay(0) /\ l <= far /\ l <= f[k]
  BY <1>2, <1>3
<1>10. m \in Outcomes(legs) /\ m \in Int /\ l \in Outcomes(legs) /\ l \in Int
  BY <1>2, <1>3, <1>5
<1>11. \A x \in Outcomes(legs) : x <= m
  BY <1>2, <1>3, <1>4, <1>6, <1>8, <1>10
<1>12. \A x \in Outcomes(legs) : l <= x
  BY <1>2, <1>3, <1>4, <1>7, <1>9, <1>10
<1> QED
  BY <1>2, <1>3, <1>4, <1>10, <1>11, <1>12

-----------------------------------------------------------------------------
LEMMA ChordBounds ==
    ASSUME NEW a \in Int, NEW b \in Int, NEW S \in Int, a <= S, S < b,
           NEW x \in Int, NEW y \in Int, NEW z \in Int,
           x * (b - a) = y * (b - S) + z * (S - a)
    PROVE  /\ \A m \in Int : m <= y /\ m <= z => m <= x
           /\ \A m \in Int : y <= m /\ z <= m => x <= m
<1>1. ASSUME NEW m \in Int, m <= y, m <= z PROVE m <= x
  <2>1. (y - m) * (b - S) >= 0 /\ (z - m) * (S - a) >= 0
    BY <1>1
  <2>2. (x - m) * (b - a) = (y - m) * (b - S) + (z - m) * (S - a)
    OBVIOUS
  <2>3. (x - m) * (b - a) >= 0
    BY <2>1, <2>2
  <2> QED
    BY <2>3
<1>2. ASSUME NEW m \in Int, y <= m, z <= m PROVE x <= m
  <2>1. (m - y) * (b - S) >= 0 /\ (m - z) * (S - a) >= 0
    BY <1>2
  <2>2. (m - x) * (b - a) = (m - y) * (b - S) + (m - z) * (S - a)
    OBVIOUS
  <2>3. (m - x) * (b - a) >= 0
    BY <2>1, <2>2
  <2> QED
    BY <2>3
<1> QED
  BY <1>1, <1>2

LEMMA SlopeInt ==
    ASSUME NEW legs \in Legs
    PROVE  _right_asymptote_slope(legs) \in Int
BY LastKink, PayoffTail

(* Whatever the underlying does, no position loses more than the max_loss    *)
(* or earns more than the max_profit it is shown with: the vertices          *)
(* _vertex_max looks at are enough (strategy.py:212-251).                    *)
THEOREM ExtremesHold ==
    ASSUME NEW legs \in Legs, NEW S \in Nat
    PROVE  /\ \A m \in max_loss(legs) : m <= payoff_at_expiry(legs, S)
           /\ \A m \in max_profit(legs) : payoff_at_expiry(legs, S) <= m
<1> DEFINE pay(x) == payoff_at_expiry(legs, x)
<1> DEFINE slope == _right_asymptote_slope(legs)
<1> DEFINE Low(m) == m \in Int /\ \A x \in Outcomes(legs) : m <= x
<1> DEFINE High(m) == m \in Int /\ \A x \in Outcomes(legs) : x <= m
<1>1. /\ \A m \in max_loss(legs) : slope >= 0 /\ Low(m)
      /\ \A m \in max_profit(legs) : slope <= 0 /\ High(m)
  BY OutcomeBounds DEF max_loss, max_profit
<1>2. \A x \in {0} \cup _kinks(legs) : pay(x) \in Outcomes(legs)
  BY DEF Outcomes, Vertices
<1>3. CASE S < TopStrike(legs)
  <2>1. PICK a \in {0} \cup _kinks(legs) :
              /\ a \in Nat /\ a <= S
              /\ \A i \in Index : At(legs, i).strike <= S => At(legs, i).strike <= a
    BY Below
  <2>2. PICK b \in _kinks(legs) :
              /\ b \in Nat /\ S < b
              /\ \A i \in Index : S < At(legs, i).strike => b <= At(legs, i).strike
    BY <1>3, AboveSome
  <2>3. \A i \in Index : At(legs, i).strike <= a \/ b <= At(legs, i).strike
    BY <2>1, <2>2, SlotTypes
  <2>4. pay(S) * (b - a) = pay(a) * (b - S) + pay(b) * (S - a)
    BY <2>1, <2>2, <2>3, PayoffChord
  <2>5. pay(S) \in Int /\ pay(a) \in Int /\ pay(b) \in Int
    BY <2>1, <2>2, PayoffSum
  <2>6. pay(a) \in Outcomes(legs) /\ pay(b) \in Outcomes(legs)
    BY <1>2, <2>1, <2>2
  <2> HIDE DEF pay
  <2>7. /\ \A m \in Int : m <= pay(a) /\ m <= pay(b) => m <= pay(S)
        /\ \A m \in Int : pay(a) <= m /\ pay(b) <= m => pay(S) <= m
    BY <2>1, <2>2, <2>4, <2>5, ChordBounds
  <2> QED
    BY <1>1, <2>6, <2>7 DEF pay
<1>4. CASE TopStrike(legs) <= S
  <2>1. /\ slope \in Int
        /\ pay(S) = pay(TopStrike(legs)) + 100 * (slope * (S - TopStrike(legs)))
    BY <1>4, LastKink, PayoffTail
  <2>2. pay(S) \in Int /\ pay(TopStrike(legs)) \in Int
    BY LastKink, PayoffSum
  <2>3. pay(TopStrike(legs)) \in Outcomes(legs)
    BY <1>2, LastKink
  <2> HIDE DEF pay, slope
  <2>4. /\ slope >= 0 => slope * (S - TopStrike(legs)) >= 0
        /\ slope <= 0 => slope * (S - TopStrike(legs)) <= 0
        /\ slope * (S - TopStrike(legs)) \in Int
    BY <1>4, <2>1, LastKink
  <2>5. /\ slope >= 0 => pay(TopStrike(legs)) <= pay(S)
        /\ slope <= 0 => pay(S) <= pay(TopStrike(legs))
    BY <2>1, <2>2, <2>4
  <2> QED
    BY <1>1, <2>2, <2>3, <2>5 DEF pay
<1> QED
  BY <1>3, <1>4, LastKink

(* The figures are reached: some price of the underlying gives each, so a    *)
(* position is not shown with more risk than it has either.                  *)
THEOREM ExtremesAreReached ==
    ASSUME NEW legs \in Legs
    PROVE  \A m \in max_loss(legs) \cup max_profit(legs) :
              \E S \in Nat : payoff_at_expiry(legs, S) = m
<1>1. Vertices(legs) \subseteq Nat
  BY KinkSlots, LastKink DEF Vertices
<1> QED
  BY <1>1 DEF max_loss, max_profit, Outcomes

(* "unlimited" is said of the positions that can lose more than any amount,  *)
(* and of no other (strategy.py:227-232).                                    *)
THEOREM UnlimitedIsReal ==
    ASSUME NEW legs \in Legs
    PROVE  max_loss(legs) = {} <=> \A B \in Int : \E S \in Nat : payoff_at_expiry(legs, S) < B
<1> DEFINE slope == _right_asymptote_slope(legs)
<1>1. slope \in Int
  BY SlopeInt
<1>2. slope >= 0 => \E m \in Int : m \in max_loss(legs)
  BY OutcomeBounds DEF max_loss
<1>3. slope < 0 => max_loss(legs) = {}
  <2> HIDE DEF slope
  <2>1. slope < 0 => ~(slope >= 0)
    BY <1>1
  <2> QED
    BY <2>1 DEF max_loss, slope
<1>4. ASSUME slope < 0, NEW B \in Int
      PROVE  \E S \in Nat : payoff_at_expiry(legs, S) < B
  <2> DEFINE p == payoff_at_expiry(legs, TopStrike(legs))
  <2>1. p \in Int
    BY LastKink, PayoffSum
  <2>2. PICK d \in Nat : p - d < B
    <3> HIDE DEF p
    <3>1. CASE p < B
      BY <2>1, <3>1
    <3>2. CASE B <= p
      <4>1. (p - B) + 1 \in Nat /\ p - ((p - B) + 1) < B
        BY <2>1, <3>2
      <4> QED
        BY <4>1
    <3> QED
      BY <2>1, <3>1, <3>2
  <2>3. TopStrike(legs) + d \in Nat /\ TopStrike(legs) <= TopStrike(legs) + d
    BY LastKink
  <2>4. payoff_at_expiry(legs, TopStrike(legs) + d) = p + 100 * (slope * d)
    <3>1. payoff_at_expiry(legs, TopStrike(legs) + d)
             = p + 100 * (slope * ((TopStrike(legs) + d) - TopStrike(legs)))
      BY <2>3, LastKink, PayoffTail
    <3>2. (TopStrike(legs) + d) - TopStrike(legs) = d
      BY LastKink
    <3> QED
      BY <3>1, <3>2
  <2> HIDE DEF p, slope
  <2>5. slope * d <= -d
    BY <1>1, <1>4
  <2>6. p + 100 * (slope * d) <= p - d
    BY <1>1, <2>1, <2>5
  <2>7. payoff_at_expiry(legs, TopStrike(legs) + d) < B
    BY <1>1, <2>1, <2>2, <2>4, <2>6
  <2> QED
    BY <2>3, <2>7
<1>5. ASSUME NEW m \in Int, m \in max_loss(legs)
      PROVE  ~ \A B \in Int : \E S \in Nat : payoff_at_expiry(legs, S) < B
  <2>1. \A S \in Nat : payoff_at_expiry(legs, S) \in Int /\ m <= payoff_at_expiry(legs, S)
    BY <1>5, ExtremesHold, PayoffSum
  <2>2. ~ \E S \in Nat : payoff_at_expiry(legs, S) < m
    BY <2>1
  <2> QED
    BY <2>2
<1> HIDE DEF slope
<1>6. slope >= 0 \/ slope < 0
  BY <1>1
<1> QED
  BY <1>2, <1>3, <1>4, <1>5, <1>6

-----------------------------------------------------------------------------
(* The strategy command.                                                     *)
LEMMA PricedNet ==
    ASSUME NEW asked \in Legs, NEW priced \in Legs, NEW chain,
           IsPriced(priced, asked, chain), NEW side \in Sides
    PROVE  Net(priced, side) = Net(asked, side)
<1>1. DOMAIN priced = DOMAIN asked
  BY DEF IsPriced
<1>2. ASSUME NEW i \in DOMAIN asked
      PROVE  priced[i].qty = asked[i].qty /\ priced[i].side = asked[i].side
  <2>1. asked[i] \in Leg
    BY DEF Legs
  <2>2. PICK s, m : priced[i] = [asked[i] EXCEPT !.strike = s, !.premium = m]
    BY DEF IsPriced
  <2> QED
    BY <2>1, <2>2 DEF Leg
<1>3. \A i \in Index : /\ At(priced, i).qty = At(asked, i).qty
                       /\ At(priced, i).side = At(asked, i).side
  BY <1>1, <1>2 DEF At
<1> QED
  BY <1>3 DEF Net, Total, Index

(* When the chains anchor the figures, the warning of unlimited loss is      *)
(* given exactly to the positions that have it, although the shape is read   *)
(* off the legs as typed and the loss off the legs as priced; each of them   *)
(* is also warned of as a naked short call (commands/strategy.py:131-141).   *)
THEOREM WarningIsTrue ==
    ASSUME NEW asked \in Legs, NEW priced \in Legs, NEW chain,
           IsPriced(priced, asked, chain), ~MultiExpiry(asked)
    PROVE  LET warned == run(asked, priced, TRUE).warnings IN
           /\ "unlimited_loss" \in warned
                 <=> \A B \in Int : \E S \in Nat : payoff_at_expiry(priced, S) < B
           /\ "unlimited_loss" \in warned <=> "naked_short_call" \in warned
<1> DEFINE warned == run(asked, priced, TRUE).warnings
<1>1. classify(asked).supported = TRUE /\ classify(asked).naked = _is_naked(asked)
  BY DEF classify
<1>2. "unlimited_loss" \in warned <=> max_loss(priced) = {}
  BY <1>1 DEF run
<1>3. "naked_short_call" \in warned <=> _is_naked(asked) /\ Net(priced, "C") < 0
  BY <1>1 DEF run
<1>4. Net(priced, "C") < 0 => _is_naked(asked)
  BY PricedNet DEF _is_naked, Sides
<1>5. max_loss(priced) = {} <=> Net(priced, "C") < 0
  <2>1. Net(priced, "C") \in Int
    BY SlopeInt DEF _right_asymptote_slope
  <2>2. Net(priced, "C") >= 0 => max_loss(priced) # {}
    BY OutcomeBounds DEF max_loss, _right_asymptote_slope
  <2>3. Net(priced, "C") < 0 => max_loss(priced) = {}
    <3>1. Net(priced, "C") < 0 => ~(Net(priced, "C") >= 0)
      BY <2>1
    <3> QED
      BY <3>1 DEF max_loss, _right_asymptote_slope
  <2>4. Net(priced, "C") >= 0 \/ Net(priced, "C") < 0
    BY <2>1
  <2> QED
    BY <2>2, <2>3, <2>4
<1> QED
  BY <1>2, <1>3, <1>4, <1>5, UnlimitedIsReal

-----------------------------------------------------------------------------
(* Several of one spread.                                                    *)
Scaled(legs, k) == [i \in DOMAIN legs |-> [legs[i] EXCEPT !.qty = k * @]]

LEMMA ScaledLegs ==
    ASSUME NEW legs \in Legs, NEW k \in Nat \ {0}
    PROVE  /\ \A i \in Index : /\ At(Scaled(legs, k), i).qty = k * At(legs, i).qty
                               /\ At(Scaled(legs, k), i).premium = At(legs, i).premium
           /\ DOMAIN Scaled(legs, k) = DOMAIN legs
<1>1. DOMAIN Scaled(legs, k) = DOMAIN legs
  BY DEF Scaled
<1>2. \A i \in DOMAIN legs : /\ Scaled(legs, k)[i].qty = k * legs[i].qty
                             /\ Scaled(legs, k)[i].premium = legs[i].premium
  BY DEF Scaled, Legs, Leg
<1>3. k * 0 = 0
  OBVIOUS
<1> QED
  BY <1>1, <1>2, <1>3 DEF At, NoLeg

LEMMA ScaledPremium ==
    ASSUME NEW legs \in Legs, NEW k \in Nat \ {0}
    PROVE  /\ _net_premium(Scaled(legs, k)) = k * _net_premium(legs)
           /\ _net_premium(legs) \in Int
<1> DEFINE p(i) == At(legs, i).qty * At(legs, i).premium
<1>1. \A i \in Index : p(i) \in Int
  BY SlotTypes
<1>2. \A i \in Index :
         At(Scaled(legs, k), i).qty * At(Scaled(legs, k), i).premium = k * p(i)
  <2>1. \A q, m \in Int : (k * q) * m = k * (q * m)
    OBVIOUS
  <2> QED
    BY <2>1, ScaledLegs, SlotTypes
<1>3. _net_premium(legs) = -(p(1) + p(2) + p(3) + p(4))
  BY DEF _net_premium, Total
<1>4. _net_premium(Scaled(legs, k)) = -(k * p(1) + k * p(2) + k * p(3) + k * p(4))
  BY <1>2 DEF _net_premium, Total, Index
<1> HIDE DEF p
<1>5. \A a, b, c, d \in Int : -(k * a + k * b + k * c + k * d) = k * (-(a + b + c + d))
  OBVIOUS
<1> QED
  BY <1>1, <1>3, <1>4, <1>5 DEF Index

LEMMA UnitSpreads ==
    ASSUME NEW legs \in Legs, Units(legs), NEW k \in Nat \ {0}
    PROVE  Spreads(Scaled(legs, k)) = k
<1>1. 1 \in DOMAIN legs
  BY DEF Legs
<1>2. \A i \in DOMAIN legs : Absolute(Scaled(legs, k)[i].qty) = k
  BY DEF Scaled, Legs, Leg, Units, Absolute
<1>3. \A i \in DOMAIN legs : Divides(k, Scaled(legs, k)[i].qty)
  <2>1. 1 \in 1 .. k /\ k = k * 1
    OBVIOUS
  <2> QED
    BY <1>2, <2>1 DEF Divides
<1> DEFINE common == {g \in 1 .. Absolute(Scaled(legs, k)[1].qty) :
                         \A i \in DOMAIN Scaled(legs, k) : Divides(g, Scaled(legs, k)[i].qty)}
<1>4. k \in common /\ \A h \in common : h \in 1 .. k
  BY <1>1, <1>2, <1>3, ScaledLegs
<1>5. Spreads(Scaled(legs, k)) = CHOOSE g \in common : \A h \in common : h <= g
  BY DEF Spreads
<1> HIDE DEF common
<1>6. \A g \in common : (\A h \in common : h <= g) => g = k
  BY <1>4
<1>7. \A h \in common : h <= k
  BY <1>4
<1> QED
  BY <1>4, <1>5, <1>6, <1>7

(* The ticket for k of a spread names the quantity k and, instead of the     *)
(* price of one, the price of all k: whoever pastes it bids k times over.    *)
(* (strategy_ticket.py:60-72; the price of a ticket is per spread,           *)
(* output/orders.py:58.)                                                     *)
THEOREM TicketPricesAll ==
    ASSUME NEW legs \in Legs, Units(legs), NEW k \in Nat \ {0}, NEW name
    PROVE  LET one == render_ticket(legs, name)
               all == render_ticket(Scaled(legs, k), name)
           IN  /\ all.side = one.side
               /\ all.quantity = k
               /\ all.price = k * one.price
<1>1. /\ _net_premium(Scaled(legs, k)) = k * _net_premium(legs)
      /\ _net_premium(legs) \in Int
  BY ScaledPremium
<1>2. /\ k * _net_premium(legs) < 0 <=> _net_premium(legs) < 0
      /\ Absolute(k * _net_premium(legs)) = k * Absolute(_net_premium(legs))
  BY <1>1 DEF Absolute
<1> QED
  BY <1>1, <1>2, UnitSpreads DEF render_ticket

-----------------------------------------------------------------------------
(* The position of an order.                                                 *)
LEMMA PositionLegs ==
    ASSUME NEW legs \in OrderLegs
    PROVE  /\ Position(legs) \in Legs /\ DOMAIN Position(legs) = DOMAIN legs
           /\ \A i \in DOMAIN legs : /\ legs[i] \in OrderLeg
                                     /\ Position(legs)[i].side = legs[i].side
                                     /\ Position(legs)[i].expiry = legs[i].expiry
<1>1. PICK n \in 1 .. MaxLegs : legs \in [1 .. n -> OrderLeg]
  BY DEF OrderLegs
<1>2. \A i \in 1 .. n : Position(legs)[i] \in Leg
  BY <1>1 DEF Position, OrderLeg, Leg, Signed, Actions
<1>3. DOMAIN legs = 1 .. n /\ Position(legs) \in [1 .. n -> Leg]
  BY <1>1, <1>2 DEF Position
<1> QED
  BY <1>1, <1>3 DEF Legs, Position

\* What one leg adds to the contracts of a side, and of a side and an expiry.
OnSide(l, side) == IF l.side = side THEN l.qty ELSE 0
OnDate(l, side, expiry) == IF l.side = side /\ l.expiry = expiry THEN l.qty ELSE 0

\* Contracts short on a side are short on one of its dates.
LEMMA SomeDateShort ==
    ASSUME NEW legs \in Legs, NEW side \in Sides, Net(legs, side) < 0
    PROVE  \E i \in DOMAIN legs :
              legs[i].side = side /\ Dated(legs, side, legs[i].expiry) < 0
<1> DEFINE a == At(legs, 1)
<1> DEFINE b == At(legs, 2)
<1> DEFINE c == At(legs, 3)
<1> DEFINE d == At(legs, 4)
<1> DEFINE sum(e) == OnDate(a, side, e) + OnDate(b, side, e) + OnDate(c, side, e)
                       + OnDate(d, side, e)
<1>1. Net(legs, side) = OnSide(a, side) + OnSide(b, side) + OnSide(c, side) + OnSide(d, side)
  BY DEF Net, Total, OnSide
<1>2. \A e : Dated(legs, side, e) = sum(e)
  BY DEF Dated, Total, OnDate
<1>3. /\ a.qty \in Int /\ b.qty \in Int /\ c.qty \in Int /\ d.qty \in Int
  BY SlotTypes DEF Index
<1>4. PICK l \in {a, b, c, d} : l.side = side /\ l.qty # 0 /\ sum(l.expiry) < 0
  <2> HIDE DEF a, b, c, d
  <2>1. OnSide(a, side) + OnSide(b, side) + OnSide(c, side) + OnSide(d, side) < 0
    BY <1>1
  <2> QED
    BY <1>3, <2>1, Z3 DEF OnSide, OnDate
<1>5. \A i \in Index : At(legs, i).qty # 0 => i \in DOMAIN legs /\ At(legs, i) = legs[i]
  BY DEF At, NoLeg
<1>6. PICK i \in Index : l = At(legs, i)
  BY DEF Index
<1> HIDE DEF sum
<1> QED
  BY <1>2, <1>4, <1>5, <1>6

(* An order whose loss is unlimited is flagged is_naked_short, whatever the  *)
(* dates of its legs, so that the panel's naked-short warning is missing from*)
(* none of them, although the flag nets the legs of one date and the loss    *)
(* those of all dates (commands/order.py:509-562, analytics/strategy.py:227).*)
THEOREM UnlimitedIsFlagged ==
    ASSUME NEW legs \in OrderLegs, max_loss(Position(legs)) = {}
    PROVE  _is_naked_short_options(legs, 0)
<1> DEFINE held == Position(legs)
<1>1. held \in Legs
  BY PositionLegs
<1>2. Net(held, "C") < 0
  <2>1. Net(held, "C") \in Int
    BY <1>1, SlopeInt DEF _right_asymptote_slope
  <2>2. ~(Net(held, "C") >= 0)
    BY <1>1, OutcomeBounds DEF max_loss, _right_asymptote_slope
  <2> QED
    BY <2>1, <2>2
<1>3. PICK i \in DOMAIN held : /\ held[i].side = "C"
                               /\ Dated(held, "C", held[i].expiry) < 0
  BY <1>1, <1>2, SomeDateShort DEF Sides
<1>4. i \in DOMAIN legs /\ legs[i].side = "C" /\ legs[i].expiry = held[i].expiry
  BY <1>3, PositionLegs
<1> HIDE DEF held
<1>5. Dated(held, "C", held[i].expiry) + 0 < 0
  <2>1. \A j \in Index : OnDate(At(held, j), "C", held[i].expiry) \in Int
    BY <1>1, SlotTypes DEF OnDate
  <2>2. Dated(held, "C", held[i].expiry) \in Int
    BY <2>1 DEF Dated, Total, Index, OnDate
  <2> QED
    BY <1>3, <2>2
<1>6. held = Position(legs)
  BY DEF held
<1> QED
  BY <1>3, <1>4, <1>5, <1>6 DEF _is_naked_short_options
-----------------------------------------------------------------------------
(* The legs of a ticket.                                                     *)
Fresh(t, leg) ==
    \E a \in Actions, m \in {1, 2}, side \in Sides : \E k : leg = NewLeg(t, a, m, side, k)

LEMMA TicketTyped ==
    ASSUME NEW t \in Ticket, IsOptionTicket(t), Accepted(t)
    PROVE  /\ t.side \in Actions /\ t.quantity \in Nat \ {0}
           /\ t.dates[1] \in Nat /\ t.strategy \in Expanded \cup {"NONE"}
           /\ Len(t.strikes) = _STRIKE_COUNT(t.strategy)
           /\ t.strategy \in {"NONE", "VERTICAL", "BUTTERFLY", "CONDOR"}
                 => t.type \in {<<"C">>, <<"P">>}
           /\ t.strategy = "COLLAR" => t.type = <<"C", "P", "stock">>
<1>1. t.side \in Actions /\ t.quantity \in Nat /\ t.dates \in Seq(Nat)
  BY DEF Ticket
<1>2. t.quantity # 0 /\ Len(t.dates) = 1 /\ StrikesFit(t) /\ TypeFits(t)
  BY <1>1 DEF Accepted
<1>3. t.dates[1] \in Nat
  BY <1>1, <1>2
<1>4. t.strategy \in Expanded \cup {"NONE"} /\ Len(t.strikes) = _STRIKE_COUNT(t.strategy)
  BY <1>2 DEF StrikesFit
<1>5. t.strategy \in {"NONE", "VERTICAL", "BUTTERFLY", "CONDOR"} => t.type \in {<<"C">>, <<"P">>}
  BY <1>2 DEF TypeFits
<1>6. t.strategy = "COLLAR" => t.type = <<"C", "P", "stock">>
  BY <1>2 DEF TypeFits
<1> QED
  BY <1>1, <1>2, <1>3, <1>4, <1>5, <1>6

\* A mark changes neither the contract nor the direction nor the size of a leg.
LEMMA MarkedPosition ==
    ASSUME NEW t \in Ticket, NEW n \in 1 .. MaxLegs, NEW legs, DOMAIN legs = 1 .. n,
           Len(legs) = n, MarksFit(t, legs), \A i \in DOMAIN legs : Fresh(t, legs[i])
    PROVE  /\ Position(Marked(t, legs)) = Position(legs)
           /\ DOMAIN Marked(t, legs) = DOMAIN legs
           /\ \A i \in DOMAIN legs : /\ Marked(t, legs)[i].side = legs[i].side
                                     /\ Marked(t, legs)[i].expiry = legs[i].expiry
<1>1. ASSUME NEW i \in DOMAIN legs
      PROVE  \E e \in Effects, x \in BOOLEAN :
                Marked(t, legs)[i] = [legs[i] EXCEPT !.effect = e, !.explicit = x]
  <2>0. PICK a \in Actions, m \in {1, 2}, side \in Sides :
           \E k : legs[i] = NewLeg(t, a, m, side, k)
    BY DEF Fresh
  <2>1. legs[i].effect \in Effects /\ legs[i].explicit \in BOOLEAN
    BY <2>0 DEF NewLeg, Effects
  <2>2. legs[i] = [legs[i] EXCEPT !.effect = legs[i].effect, !.explicit = legs[i].explicit]
    BY <2>0 DEF NewLeg
  <2>3. \A mark \in {"open", "close", "auto"} :
           \E e \in Effects, x \in BOOLEAN :
              _replace_leg_effect(legs[i], mark) = [legs[i] EXCEPT !.effect = e, !.explicit = x]
    BY <2>1, <2>2 DEF _replace_leg_effect, Effects
  <2>4. t.marks \in Seq({"open", "close", "auto"})
    BY DEF Ticket
  <2>5. Len(t.marks) = 1 => t.marks[1] \in {"open", "close", "auto"}
    BY <2>4
  <2>6. Len(t.marks) = n => t.marks[i] \in {"open", "close", "auto"}
    BY <2>4
  <2>7. \/ Marked(t, legs)[i] = legs[i]
        \/ /\ Len(t.marks) = 1
           /\ Marked(t, legs)[i] = _replace_leg_effect(legs[i], t.marks[1])
        \/ /\ Len(t.marks) = n
           /\ Marked(t, legs)[i] = _replace_leg_effect(legs[i], t.marks[i])
    BY DEF Marked, MarksFit
  <2> DEFINE Kept(leg) == \E e \in Effects, x \in BOOLEAN :
                             leg = [legs[i] EXCEPT !.effect = e, !.explicit = x]
  <2>8. \A mark \in {"open", "close", "auto"} : Kept(_replace_leg_effect(legs[i], mark))
    BY <2>3
  <2>9. Kept(legs[i])
    BY <2>1, <2>2
  <2>10. Kept(Marked(t, legs)[i])
    <3> HIDE DEF Kept
    <3> QED
      BY <2>5, <2>6, <2>7, <2>8, <2>9
  <2> QED
    BY <2>10
<1>2. \A i \in DOMAIN legs :
         /\ Marked(t, legs)[i].side = legs[i].side
         /\ Marked(t, legs)[i].expiry = legs[i].expiry
         /\ Marked(t, legs)[i].strike = legs[i].strike
         /\ Marked(t, legs)[i].action = legs[i].action
         /\ Marked(t, legs)[i].quantity = legs[i].quantity
  BY <1>1 DEF Fresh, NewLeg
<1>3. DOMAIN Marked(t, legs) = DOMAIN legs
  BY DEF Marked
<1> QED
  BY <1>2, <1>3 DEF Position


\* The branches of _expand_legs, one for each strategy.
LEMMA Expansion ==
    ASSUME NEW t
    PROVE  LET on == t.side
               off == Opposite(t.side)
               legs == _expand_legs(t)
               k == t.strikes
               s == Sorted(t.strikes)
               new(a, m, side, x) == NewLeg(t, a, m, side, x)
           IN  /\ t.strategy = "NONE" => legs = <<new(on, 1, t.type[1], k[1])>>
               /\ t.strategy = "VERTICAL" /\ t.type = <<"C">>
                     => legs = <<new(on, 1, "C", k[1]), new(off, 1, "C", k[2])>>
               /\ t.strategy = "VERTICAL" /\ t.type # <<"C">>
                     => legs = <<new(off, 1, "P", k[1]), new(on, 1, "P", k[2])>>
               /\ t.strategy = "STRADDLE"
                     => legs = <<new(on, 1, "C", k[1]), new(on, 1, "P", k[1])>>
               /\ t.strategy = "STRANGLE"
                     => legs = <<new(on, 1, "P", s[1]), new(on, 1, "C", s[2])>>
               /\ t.strategy = "BUTTERFLY"
                     => legs = <<new(on, 1, t.type[1], s[1]), new(off, 2, t.type[1], s[2]),
                                 new(on, 1, t.type[1], s[3])>>
               /\ t.strategy = "CONDOR"
                     => legs = <<new(on, 1, t.type[1], s[1]), new(off, 1, t.type[1], s[2]),
                                 new(off, 1, t.type[1], s[3]), new(on, 1, t.type[1], s[4])>>
               /\ t.strategy = "IRON_CONDOR"
                     => legs = <<new(on, 1, "P", s[1]), new(off, 1, "P", s[2]),
                                 new(off, 1, "C", s[3]), new(on, 1, "C", s[4])>>
               /\ t.strategy = "COLLAR"
                     => legs = <<new(off, 1, "C", k[1]), new(on, 1, "P", k[2])>>
<1>1. CASE t.strategy = "NONE"
  BY <1>1 DEF _expand_legs
<1>2. CASE t.strategy = "VERTICAL"
  BY <1>2 DEF _expand_legs
<1>3. CASE t.strategy = "STRADDLE"
  BY <1>3 DEF _expand_legs
<1>4. CASE t.strategy = "STRANGLE"
  BY <1>4 DEF _expand_legs
<1>5. CASE t.strategy = "BUTTERFLY"
  BY <1>5 DEF _expand_legs
<1>6. CASE t.strategy = "CONDOR"
  BY <1>6 DEF _expand_legs
<1>7. CASE t.strategy = "IRON_CONDOR"
  BY <1>7 DEF _expand_legs
<1>8. CASE t.strategy = "COLLAR"
  BY <1>8 DEF _expand_legs
<1> QED
  BY <1>1, <1>2, <1>3, <1>4, <1>5, <1>6, <1>7, <1>8

LEMMA ExpandedForm ==
    ASSUME NEW t \in Ticket, IsOptionTicket(t), Accepted(t)
    PROVE  LET legs == _expand_legs(t) IN
           /\ \E n \in 1 .. MaxLegs : DOMAIN legs = 1 .. n /\ Len(legs) = n
           /\ \A i \in DOMAIN legs : Fresh(t, legs[i])
<1> DEFINE legs == _expand_legs(t)
<1> DEFINE Good == /\ \E n \in 1 .. MaxLegs : DOMAIN legs = 1 .. n /\ Len(legs) = n
                   /\ \A i \in DOMAIN legs : Fresh(t, legs[i])
<1> DEFINE new(a, m, side, k) == NewLeg(t, a, m, side, k)
<1>1. \A a \in Actions, m \in {1, 2}, side \in Sides : \A k : Fresh(t, new(a, m, side, k))
  BY DEF Fresh
<1>2. t.side \in Actions /\ Opposite(t.side) \in Actions
  BY TicketTyped DEF Opposite, Actions
<1>3. ASSUME NEW a, Fresh(t, a) PROVE legs = <<a>> => Good
  BY <1>3 DEF MaxLegs
<1>4. ASSUME NEW a, NEW b, Fresh(t, a), Fresh(t, b) PROVE legs = <<a, b>> => Good
  BY <1>4 DEF MaxLegs
<1>5. ASSUME NEW a, NEW b, NEW c, Fresh(t, a), Fresh(t, b), Fresh(t, c)
      PROVE  legs = <<a, b, c>> => Good
  BY <1>5 DEF MaxLegs
<1>6. ASSUME NEW a, NEW b, NEW c, NEW d, Fresh(t, a), Fresh(t, b), Fresh(t, c), Fresh(t, d)
      PROVE  legs = <<a, b, c, d>> => Good
  BY <1>6 DEF MaxLegs
<1> HIDE DEF Good
<1>7. t.type \in {<<"C">>, <<"P">>} => t.type[1] \in Sides
  BY DEF Sides
<1> DEFINE on(m, side, k) == NewLeg(t, t.side, m, side, k)
<1> DEFINE off(m, side, k) == NewLeg(t, Opposite(t.side), m, side, k)
<1>8. \A m \in {1, 2}, side \in Sides : \A k : Fresh(t, on(m, side, k)) /\ Fresh(t, off(m, side, k))
  BY <1>1, <1>2
<1>9. t.strategy = "NONE" => Good
  BY <1>1, <1>2, <1>3, <1>7, TicketTyped, Expansion
<1>10. t.strategy = "VERTICAL" => Good
  <2>1. \A j, k : /\ Fresh(t, on(1, "C", j)) /\ Fresh(t, off(1, "C", k))
                  /\ Fresh(t, off(1, "P", j)) /\ Fresh(t, on(1, "P", k))
    BY <1>8 DEF Sides
  <2>2. \A j, k : /\ legs = <<on(1, "C", j), off(1, "C", k)>> => Good
                  /\ legs = <<off(1, "P", j), on(1, "P", k)>> => Good
    <3> HIDE DEF legs, on, off
    <3> QED
      BY <1>4, <2>1
  <2> QED
    BY <2>2, Expansion
<1>11. t.strategy \in {"STRADDLE", "STRANGLE", "COLLAR"} => Good
  <2>1. \A j, k : /\ Fresh(t, on(1, "C", j)) /\ Fresh(t, off(1, "C", k))
                  /\ Fresh(t, on(1, "P", j)) /\ Fresh(t, on(1, "P", k))
    BY <1>8 DEF Sides
  <2>2. \A j, k : /\ legs = <<on(1, "C", j), on(1, "P", k)>> => Good
                  /\ legs = <<on(1, "P", j), on(1, "C", k)>> => Good
                  /\ legs = <<off(1, "C", j), on(1, "P", k)>> => Good
    <3> HIDE DEF legs, on, off
    <3> QED
      BY <1>4, <2>1
  <2> QED
    BY <2>2, Expansion
<1>12. t.strategy \in {"BUTTERFLY", "CONDOR", "IRON_CONDOR"} => Good
  <2>1. \A k : /\ Fresh(t, on(1, "C", k)) /\ Fresh(t, off(1, "C", k))
               /\ Fresh(t, on(1, "P", k)) /\ Fresh(t, off(1, "P", k))
    BY <1>8 DEF Sides
  <2>2. t.strategy \in {"BUTTERFLY", "CONDOR"}
           => \A k : /\ Fresh(t, on(1, t.type[1], k)) /\ Fresh(t, off(1, t.type[1], k))
                     /\ Fresh(t, off(2, t.type[1], k))
    BY <1>7, <1>8, TicketTyped
  <2> DEFINE x == t.type[1]
  <2>3. \A i, j, k : legs = <<on(1, x, i), off(2, x, j), on(1, x, k)>>
                        /\ t.strategy = "BUTTERFLY" => Good
    <3> HIDE DEF legs, on, off
    <3> QED
      BY <1>5, <2>2
  <2>4. \A i, j, k, l : legs = <<on(1, x, i), off(1, x, j), off(1, x, k), on(1, x, l)>>
                           /\ t.strategy = "CONDOR" => Good
    <3> HIDE DEF legs, on, off
    <3> QED
      BY <1>6, <2>2
  <2>5. \A i, j, k, l : legs = <<on(1, "P", i), off(1, "P", j), off(1, "C", k), on(1, "C", l)>>
                           => Good
    <3> HIDE DEF legs, on, off
    <3> QED
      BY <1>6, <2>1
  <2> QED
    BY <2>3, <2>4, <2>5, Expansion
<1>13. Good
  BY <1>9, <1>10, <1>11, <1>12, TicketTyped DEF Expanded
<1> QED
  BY <1>13 DEF Good

-----------------------------------------------------------------------------
(* The contracts a ticket's legs add to each side.                           *)
Adds(leg, side, expiry) ==
    IF leg.side = side /\ leg.expiry = expiry THEN Signed(leg.action, leg.quantity) ELSE 0

LEMMA DatedSums ==
    ASSUME NEW side, NEW e, NEW a, NEW b, NEW c, NEW d,
           Adds(a, side, e) \in Int, Adds(b, side, e) \in Int,
           Adds(c, side, e) \in Int, Adds(d, side, e) \in Int
    PROVE  /\ Dated(Position(<<a>>), side, e) = Adds(a, side, e)
           /\ Dated(Position(<<a, b>>), side, e) = Adds(a, side, e) + Adds(b, side, e)
           /\ Dated(Position(<<a, b, c>>), side, e)
                 = Adds(a, side, e) + Adds(b, side, e) + Adds(c, side, e)
           /\ Dated(Position(<<a, b, c, d>>), side, e)
                 = Adds(a, side, e) + Adds(b, side, e) + Adds(c, side, e) + Adds(d, side, e)
<1> DEFINE on(l) == OnDate(l, side, e)
<1>1. \A legs : Dated(Position(legs), side, e)
                   = on(At(Position(legs), 1)) + on(At(Position(legs), 2))
                     + on(At(Position(legs), 3)) + on(At(Position(legs), 4))
  BY DEF Dated, Total, OnDate
<1>2. \A legs, i : /\ i \in DOMAIN legs => on(At(Position(legs), i)) = Adds(legs[i], side, e)
                   /\ i \notin DOMAIN legs => on(At(Position(legs), i)) = 0
  BY DEF Position, At, NoLeg, OnDate, Adds
<1> HIDE DEF on
<1>3. Dated(Position(<<a>>), side, e) = Adds(a, side, e)
  BY <1>1, <1>2
<1>4. Dated(Position(<<a, b>>), side, e) = Adds(a, side, e) + Adds(b, side, e)
  BY <1>1, <1>2
<1>5. Dated(Position(<<a, b, c>>), side, e)
         = Adds(a, side, e) + Adds(b, side, e) + Adds(c, side, e)
  BY <1>1, <1>2
<1>6. Dated(Position(<<a, b, c, d>>), side, e)
         = Adds(a, side, e) + Adds(b, side, e) + Adds(c, side, e) + Adds(d, side, e)
  BY <1>1, <1>2
<1> QED
  BY <1>3, <1>4, <1>5, <1>6

LEMMA DatedTable ==
    ASSUME NEW t \in Ticket, IsOptionTicket(t), Accepted(t), NEW side \in Sides
    PROVE  LET net == Dated(Position(_expand_legs(t)), side, t.dates[1])
               all == Signed(t.side, t.quantity)
           IN  /\ t.strategy \in {"VERTICAL", "BUTTERFLY", "CONDOR", "IRON_CONDOR"} => net = 0
               /\ t.strategy \in {"STRADDLE", "STRANGLE"} => net = all
               /\ t.strategy = "NONE" => net = IF side = t.type[1] THEN all ELSE 0
               /\ t.strategy = "COLLAR" => net = IF side = "P" THEN all ELSE -all
<1> DEFINE legs == _expand_legs(t)
<1> DEFINE net == Dated(Position(legs), side, t.dates[1])
<1> DEFINE all == Signed(t.side, t.quantity)
<1> DEFINE on(m, x, k) == NewLeg(t, t.side, m, x, k)
<1> DEFINE off(m, x, k) == NewLeg(t, Opposite(t.side), m, x, k)
<1> DEFINE add(leg) == Adds(leg, side, t.dates[1])
<1>0. t.side \in Actions /\ t.quantity \in Nat
  BY TicketTyped
<1>1. all \in Int
  BY <1>0 DEF Signed
<1>2. \A a \in Actions, n \in Nat :
         /\ Signed(Opposite(a), 1 * n) = -Signed(a, n)
         /\ Signed(Opposite(a), 2 * n) = -2 * Signed(a, n)
         /\ Signed(a, 1 * n) = Signed(a, n)
  BY DEF Signed, Opposite, Actions
<1>3. t.side \in Actions /\ Opposite(t.side) \in Actions
  BY <1>0 DEF Opposite, Actions
<1>4. \A x, k : /\ add(on(1, x, k)) = IF x = side THEN all ELSE 0
                /\ add(off(1, x, k)) = IF x = side THEN -all ELSE 0
                /\ add(off(2, x, k)) = IF x = side THEN -2 * all ELSE 0
  <2>1. ASSUME NEW a \in Actions, NEW m \in {1, 2}, NEW x, NEW k
        PROVE  add(NewLeg(t, a, m, x, k)) = IF x = side THEN Signed(a, m * t.quantity) ELSE 0
    BY DEF Adds, NewLeg
  <2>2. /\ Signed(t.side, 1 * t.quantity) = all
        /\ Signed(Opposite(t.side), 1 * t.quantity) = -all
        /\ Signed(Opposite(t.side), 2 * t.quantity) = -2 * all
    BY <1>0, <1>2
  <2> HIDE DEF add, all
  <2>3. \A x, k : add(on(1, x, k)) = IF x = side THEN all ELSE 0
    BY <1>0, <2>1, <2>2
  <2>4. \A x, k : add(off(1, x, k)) = IF x = side THEN -all ELSE 0
    BY <1>3, <2>1, <2>2
  <2>5. \A x, k : add(off(2, x, k)) = IF x = side THEN -2 * all ELSE 0
    BY <1>3, <2>1, <2>2
  <2> QED
    BY <2>3, <2>4, <2>5
<1> HIDE DEF on, off, all
<1>5. \A x, k : add(on(1, x, k)) \in Int /\ add(off(1, x, k)) \in Int /\ add(off(2, x, k)) \in Int
  BY <1>1, <1>4
<1> HIDE DEF legs
<1>6. ASSUME NEW a, NEW b, NEW c, NEW d,
             add(a) \in Int, add(b) \in Int, add(c) \in Int, add(d) \in Int
      PROVE  /\ legs = <<a>> => net = add(a)
             /\ legs = <<a, b>> => net = add(a) + add(b)
             /\ legs = <<a, b, c>> => net = add(a) + add(b) + add(c)
             /\ legs = <<a, b, c, d>> => net = add(a) + add(b) + add(c) + add(d)
  <2> DEFINE of(x) == Dated(Position(x), side, t.dates[1])
  <2>1. /\ of(<<a>>) = add(a)
        /\ of(<<a, b>>) = add(a) + add(b)
        /\ of(<<a, b, c>>) = add(a) + add(b) + add(c)
        /\ of(<<a, b, c, d>>) = add(a) + add(b) + add(c) + add(d)
    BY <1>6, DatedSums
  <2>2. net = of(legs)
    OBVIOUS
  <2> HIDE DEF of, net, add
  <2> QED
    BY <2>1, <2>2
<1> HIDE DEF net, add
<1>7. t.strategy = "NONE" => net = IF side = t.type[1] THEN all ELSE 0
  <2>1. t.strategy = "NONE" => legs = <<on(1, t.type[1], t.strikes[1])>>
    BY Expansion DEF legs, on
  <2> QED
    BY <1>4, <1>5, <1>6, <2>1
<1>8. t.strategy = "VERTICAL" => net = 0
  <2>1. t.strategy = "VERTICAL" => \E x, j, k : \/ legs = <<on(1, x, j), off(1, x, k)>>
                                                \/ legs = <<off(1, x, j), on(1, x, k)>>
    BY Expansion DEF legs, on, off
  <2> QED
    BY <1>1, <1>4, <1>5, <1>6, <2>1
<1>9. t.strategy \in {"STRADDLE", "STRANGLE"} => net = all
  <2>1. t.strategy \in {"STRADDLE", "STRANGLE"}
           => \E j, k : \/ legs = <<on(1, "C", j), on(1, "P", k)>>
                        \/ legs = <<on(1, "P", j), on(1, "C", k)>>
    BY Expansion DEF legs, on
  <2> QED
    BY <1>1, <1>4, <1>5, <1>6, <2>1 DEF Sides
<1>10. t.strategy = "COLLAR" => net = IF side = "P" THEN all ELSE -all
  <2>1. t.strategy = "COLLAR" => \E j, k : legs = <<off(1, "C", j), on(1, "P", k)>>
    BY Expansion DEF legs, on, off
  <2> QED
    BY <1>1, <1>4, <1>5, <1>6, <2>1 DEF Sides
<1>11. t.strategy = "BUTTERFLY" => net = 0
  <2>1. t.strategy = "BUTTERFLY"
           => \E x, i, j, k : legs = <<on(1, x, i), off(2, x, j), on(1, x, k)>>
    BY Expansion DEF legs, on, off
  <2> QED
    BY <1>1, <1>4, <1>5, <1>6, <2>1
<1>12. t.strategy \in {"CONDOR", "IRON_CONDOR"} => net = 0
  <2>1. t.strategy \in {"CONDOR", "IRON_CONDOR"}
           => \E x, y, i, j, k, l :
                 legs = <<on(1, x, i), off(1, x, j), off(1, y, k), on(1, y, l)>>
    BY Expansion DEF legs, on, off
  <2> QED
    BY <1>1, <1>4, <1>5, <1>6, <2>1
<1> QED
  BY <1>7, <1>8, <1>9, <1>10, <1>11, <1>12 DEF net, legs, all

(* A ticket's order is flagged is_naked_short exactly when it sells a single *)
(* option, a straddle or a strangle: the legs of the other tickets cover each*)
(* other, and a collar's shares its option (commands/order.py:490-562).      *)
THEOREM NakedFlagExact ==
    ASSUME NEW t \in Ticket, IsOptionTicket(t), Accepted(t)
    PROVE  _spec_from_ticket(t).is_naked_short
              <=> t.side = "SELL" /\ t.strategy \in {"NONE", "STRADDLE", "STRANGLE"}
<1> DEFINE legs == _expand_legs(t)
<1> DEFINE held == Marked(t, legs)
<1> DEFINE shares == CASE t.strategy = "COLLAR" -> Signed(t.side, 100 * t.quantity)
                       [] OTHER                 -> 0
<1>0. t.side \in Actions /\ t.quantity \in Nat \ {0}
  BY TicketTyped
<1>1. _spec_from_ticket(t).is_naked_short <=> _is_naked_short_options(held, shares)
  BY DEF _spec_from_ticket
<1>2. PICK n \in 1 .. MaxLegs : DOMAIN legs = 1 .. n /\ Len(legs) = n
  BY ExpandedForm
<1>3. \A i \in DOMAIN legs : Fresh(t, legs[i])
  BY ExpandedForm
<1>4. /\ Position(held) = Position(legs) /\ DOMAIN held = DOMAIN legs
      /\ \A i \in DOMAIN legs : held[i].side = legs[i].side /\ held[i].expiry = legs[i].expiry
  BY <1>2, <1>3, MarkedPosition DEF Accepted
<1>5. \A i \in DOMAIN legs : legs[i].side \in Sides /\ legs[i].expiry = t.dates[1]
  BY <1>3 DEF Fresh, NewLeg
<1> DEFINE all == Signed(t.side, t.quantity)
<1> DEFINE cover(side) == IF side = "C" THEN (IF shares > 0 THEN shares \div 100 ELSE 0)
                          ELSE (IF shares < 0 THEN (-shares) \div 100 ELSE 0)
<1> DEFINE net(side) == Dated(Position(legs), side, t.dates[1])
<1> DEFINE Short(side) == net(side) < 0 /\ net(side) + cover(side) < 0
<1> DEFINE Has(side) == \E i \in DOMAIN legs : legs[i].side = side
<1>6. _is_naked_short_options(held, shares) <=> \E side \in Sides : Has(side) /\ Short(side)
  BY <1>4, <1>5 DEF _is_naked_short_options
<1>7. t.strategy \in {"VERTICAL", "BUTTERFLY", "CONDOR", "IRON_CONDOR"}
         => \A side \in Sides : ~Short(side)
  <2>1. t.strategy \in {"VERTICAL", "BUTTERFLY", "CONDOR", "IRON_CONDOR"}
           => \A side \in Sides : net(side) = 0
    BY DatedTable
  <2> HIDE DEF net, cover
  <2>2. \A side \in Sides : net(side) = 0 => ~Short(side)
    OBVIOUS
  <2> HIDE DEF Short
  <2> QED
    BY <2>1, <2>2
<1>8. all \in Int /\ (all < 0 <=> t.side = "SELL")
  BY <1>0 DEF Signed, Actions
<1>9. t.strategy = "COLLAR" => \A side \in Sides : ~Short(side)
  <2>1. t.strategy = "COLLAR" => shares = 100 * all
    BY <1>0 DEF Signed, Actions
  <2>2. t.strategy = "COLLAR" => cover("C") = (IF all > 0 THEN all ELSE 0)
                                 /\ cover("P") = (IF all < 0 THEN -all ELSE 0)
    <3> HIDE DEF all, shares
    <3> QED
      BY <1>8, <2>1
  <2>3. t.strategy = "COLLAR" => net("C") = -all /\ net("P") = all
    BY DatedTable DEF Sides
  <2> HIDE DEF all, net, cover
  <2> QED
    BY <1>8, <2>2, <2>3 DEF Sides
<1>10. t.strategy \in {"STRADDLE", "STRANGLE"} => Has("C") /\ \A side \in Sides : (Short(side) <=> all < 0)
  <2>1. t.strategy \in {"STRADDLE", "STRANGLE"} => Has("C")
    <3>1. t.strategy = "STRADDLE"
             => legs = <<NewLeg(t, t.side, 1, "C", t.strikes[1]),
                         NewLeg(t, t.side, 1, "P", t.strikes[1])>>
      BY Expansion
    <3>2. t.strategy = "STRANGLE"
             => legs = <<NewLeg(t, t.side, 1, "P", Sorted(t.strikes)[1]),
                         NewLeg(t, t.side, 1, "C", Sorted(t.strikes)[2])>>
      BY Expansion
    <3> HIDE DEF legs
    <3>3. t.strategy = "STRADDLE" => 1 \in DOMAIN legs /\ legs[1].side = "C"
      BY <3>1 DEF NewLeg
    <3>4. t.strategy = "STRANGLE" => 2 \in DOMAIN legs /\ legs[2].side = "C"
      BY <3>2 DEF NewLeg
    <3> QED
      BY <3>3, <3>4
  <2>2. t.strategy \in {"STRADDLE", "STRANGLE"} => \A side \in Sides : net(side) = all
    BY DatedTable
  <2>3. t.strategy \in {"STRADDLE", "STRANGLE"} => \A side \in Sides : cover(side) = 0
    OBVIOUS
  <2> HIDE DEF all, net, cover, Has
  <2> QED
    BY <1>8, <2>1, <2>2, <2>3
<1>11. t.strategy = "NONE" => /\ \E side \in Sides : side = t.type[1] /\ Has(side)
                          /\ \A side \in Sides : Has(side) => (Short(side) <=> all < 0)
  <2>1. t.strategy = "NONE" => /\ \A side : Has(side) <=> side = t.type[1]
                           /\ t.type[1] \in Sides
    <3>1. t.strategy = "NONE" => legs = <<NewLeg(t, t.side, 1, t.type[1], t.strikes[1])>>
      BY Expansion
    <3>2. t.strategy = "NONE" => t.type \in {<<"C">>, <<"P">>}
      BY TicketTyped
    <3> HIDE DEF legs
    <3>3. t.strategy = "NONE" => DOMAIN legs = {1} /\ legs[1].side = t.type[1]
      BY <3>1 DEF NewLeg
    <3>4. t.strategy = "NONE" => \A side : Has(side) <=> side = t.type[1]
      BY <3>3
    <3>5. t.strategy = "NONE" => t.type[1] \in Sides
      BY <3>2 DEF Sides
    <3> HIDE DEF Has
    <3> QED
      BY <3>4, <3>5
  <2>2. t.strategy = "NONE" => \A side \in Sides : Has(side) => net(side) = all
    <3>1. t.strategy = "NONE"
             => \A side \in Sides : net(side) = IF side = t.type[1] THEN all ELSE 0
      BY DatedTable
    <3> HIDE DEF net, all, Has
    <3> QED
      BY <2>1, <3>1
  <2>3. t.strategy = "NONE" => \A side \in Sides : cover(side) = 0
    <3>1. t.strategy = "NONE" => shares = 0
      OBVIOUS
    <3> HIDE DEF shares
    <3> QED
      BY <3>1
  <2> HIDE DEF all, net, cover, Has
  <2>4. t.strategy = "NONE" => \A side \in Sides : Has(side) => (Short(side) <=> all < 0)
    BY <1>8, <2>2, <2>3
  <2> HIDE DEF Short
  <2> QED
    BY <2>1, <2>4
<1> HIDE DEF Short, Has, all
<1> QED
  BY <1>1, <1>6, <1>7, <1>8, <1>9, <1>10, <1>11, TicketTyped DEF Expanded, Sides

-----------------------------------------------------------------------------
(* A vertical, as written and as rendered again.                             *)

\* The position of two legs of one expiry and side, of opposite directions.
Pair(q, u, side, d, j, k) ==
    <<[qty |-> q * u, side |-> side, expiry |-> d, strike |-> j, premium |-> 0],
      [qty |-> -(q * u), side |-> side, expiry |-> d, strike |-> k, premium |-> 0]>>

LEMMA OnePlace ==
    ASSUME NEW d \in Int, NEW S, S = {d}
    PROVE  InOrder(S, LAMBDA a, b : a < b) = <<d>>
<1> DEFINE seqs == UNION {[1 .. n -> S] : n \in 0 .. MaxLegs}
<1> DEFINE Fit(s) == /\ {s[i] : i \in DOMAIN s} = S
                     /\ \A i, j \in DOMAIN s : i < j => s[i] < s[j]
<1>1. InOrder(S, LAMBDA a, b : a < b) = CHOOSE s \in seqs : Fit(s)
  BY DEF InOrder
<1>2. <<d>> \in seqs /\ Fit(<<d>>)
  <2>1. <<d>> \in [1 .. 1 -> S] /\ 1 \in 0 .. MaxLegs
    BY DEF MaxLegs
  <2> QED
    BY <2>1
<1>3. ASSUME NEW s \in seqs, Fit(s) PROVE s = <<d>>
  <2>1. PICK n \in 0 .. MaxLegs : s \in [1 .. n -> S]
    BY <1>3
  <2>2. n # 0
    BY <1>3, <2>1
  <2>3. ~(n > 1)
    <3>1. n > 1 => 1 \in DOMAIN s /\ 2 \in DOMAIN s /\ s[1] = d /\ s[2] = d
      BY <2>1
    <3> QED
      BY <1>3, <3>1
  <2>4. n = 1
    BY <2>2, <2>3 DEF MaxLegs
  <2> QED
    BY <2>1, <2>4
<1> HIDE DEF seqs, Fit
<1> QED
  BY <1>1, <1>2, <1>3

LEMMA PairArranged ==
    ASSUME NEW q, NEW u, NEW side \in Sides, NEW d \in Nat, NEW j \in Nat, NEW k \in Nat,
           j # k
    PROVE  LET legs == Pair(q, u, side, d, j, k) IN
           Arranged(legs) = IF j < k THEN <<legs[2], legs[1]>> ELSE legs
<1> DEFINE legs == Pair(q, u, side, d, j, k)
<1> DEFINE seqs == UNION {[1 .. n -> {1, 2}] : n \in 0 .. MaxLegs}
<1> DEFINE Precedes(a, b) == IF legs[a].side # legs[b].side THEN legs[a].side = "C"
                          ELSE IF legs[a].strike # legs[b].strike
                          THEN legs[a].strike > legs[b].strike ELSE a < b
<1> DEFINE Fit(s) == /\ {s[i] : i \in DOMAIN s} = {1, 2}
                     /\ \A a, b \in DOMAIN s : a < b => Precedes(s[a], s[b])
<1> DEFINE order == CHOOSE s \in seqs : Fit(s)
<1>1. DOMAIN legs = {1, 2}
  BY DEF Pair
<1>2. Arranged(legs) = [i \in DOMAIN order |-> legs[order[i]]]
  <2> HIDE DEF legs
  <2> QED
    BY <1>1 DEF Arranged, InOrder
<1>3. /\ ~Precedes(1, 1) /\ ~Precedes(2, 2)
      /\ Precedes(1, 2) <=> j > k
      /\ Precedes(2, 1) <=> k > j
  BY DEF Pair
<1> DEFINE best == IF j < k THEN <<2, 1>> ELSE <<1, 2>>
<1> HIDE DEF Precedes
<1>4. best \in seqs /\ Fit(best)
  <2>1. <<2, 1>> \in [1 .. 2 -> {1, 2}] /\ <<1, 2>> \in [1 .. 2 -> {1, 2}] /\ 2 \in 0 .. MaxLegs
    BY DEF MaxLegs
  <2>2. best \in seqs
    BY <2>1
  <2>3. {best[i] : i \in DOMAIN best} = {1, 2} /\ DOMAIN best = {1, 2}
    OBVIOUS
  <2>4. Precedes(best[1], best[2])
    BY <1>3
  <2>5. \A a, b \in {1, 2} : a < b => a = 1 /\ b = 2
    OBVIOUS
  <2> HIDE DEF best, seqs
  <2> QED
    BY <2>2, <2>3, <2>4, <2>5
<1>5. ASSUME NEW s \in seqs, Fit(s) PROVE s = best
  <2>1. PICK n \in 0 .. MaxLegs : s \in [1 .. n -> {1, 2}]
    BY <1>5
  <2>2. \A a, b \in 1 .. n : a < b => Precedes(s[a], s[b]) /\ s[a] # s[b]
    BY <1>3, <1>5, <2>1
  <2>3. n # 0 /\ n # 1
    BY <1>5, <2>1
  <2>4. ~(n > 2)
    <3>1. n > 2 => /\ s[1] \in {1, 2} /\ s[2] \in {1, 2} /\ s[3] \in {1, 2}
                   /\ s[1] # s[2] /\ s[1] # s[3] /\ s[2] # s[3]
      BY <2>1, <2>2
    <3> QED
      BY <3>1
  <2>5. n = 2
    BY <2>3, <2>4 DEF MaxLegs
  <2>6. s[1] \in {1, 2} /\ s[2] \in {1, 2} /\ Precedes(s[1], s[2]) /\ s = <<s[1], s[2]>>
    BY <2>1, <2>2, <2>5
  <2> HIDE DEF Fit
  <2>7. \/ s[1] = 1 /\ s[2] = 2 /\ j > k
        \/ s[1] = 2 /\ s[2] = 1 /\ k > j
    BY <1>3, <2>6
  <2> QED
    BY <2>6, <2>7
<1> HIDE DEF seqs, Fit
<1>6. order = best
  BY <1>4, <1>5
<1> QED
  <2> HIDE DEF order
  <2>1. Arranged(legs) = [i \in DOMAIN best |-> legs[best[i]]]
    BY <1>2, <1>6
  <2>2. legs = <<legs[1], legs[2]>>
    BY DEF Pair
  <2> HIDE DEF legs
  <2>3. j < k => Arranged(legs) = <<legs[2], legs[1]>>
    BY <2>1
  <2>4. ~(j < k) => Arranged(legs) = <<legs[1], legs[2]>>
    BY <2>1
  <2> QED
    BY <2>2, <2>3, <2>4 DEF legs

LEMMA PairSpreads ==
    ASSUME NEW q \in Nat \ {0}, NEW u \in {1, -1}, NEW side \in Sides, NEW d \in Nat,
           NEW j \in Nat \ {0}, NEW k \in Nat \ {0}
    PROVE  /\ Spreads(Pair(q, u, side, d, j, k)) = q
           /\ _reduce_qtys(Pair(q, u, side, d, j, k)) = Pair(1, u, side, d, j, k)
<1> DEFINE unit == Pair(1, u, side, d, j, k)
<1> DEFINE legs == Pair(q, u, side, d, j, k)
<1>1. unit \in Legs /\ Units(unit)
  <2>1. unit \in [1 .. 2 -> Leg] /\ 2 \in 1 .. MaxLegs
    BY DEF Pair, Leg, MaxLegs
  <2> QED
    BY <2>1 DEF Legs, Units, Pair
<1>2. legs = Scaled(unit, q)
  <2>1. q * (-u) = -(q * u)
    OBVIOUS
  <2> QED
    BY <2>1 DEF Scaled, Pair
<1>3. Spreads(legs) = q
  <2> HIDE DEF unit
  <2> QED
    BY <1>1, <1>2, UnitSpreads
<1>4. (q * u) \div q = u /\ (-(q * u)) \div q = -u
  <2>1. q \div q = 1 /\ (-q) \div q = -1
    OBVIOUS
  <2> QED
    BY <2>1
<1>5. _reduce_qtys(legs) = [i \in {1, 2} |-> [legs[i] EXCEPT !.qty = @ \div q]]
  <2>1. DOMAIN legs = {1, 2}
    BY DEF Pair
  <2> HIDE DEF legs
  <2> QED
    BY <1>3, <2>1 DEF _reduce_qtys
<1>6. /\ [legs[1] EXCEPT !.qty = @ \div q] = unit[1]
      /\ [legs[2] EXCEPT !.qty = @ \div q] = unit[2]
  <2>1. \A x, y : [[qty |-> x, side |-> side, expiry |-> d, strike |-> y, premium |-> 0]
                      EXCEPT !.qty = @ \div q]
                  = [qty |-> x \div q, side |-> side, expiry |-> d, strike |-> y, premium |-> 0]
    OBVIOUS
  <2>2. /\ legs[1] = [qty |-> q * u, side |-> side, expiry |-> d, strike |-> j, premium |-> 0]
        /\ legs[2] = [qty |-> -(q * u), side |-> side, expiry |-> d, strike |-> k, premium |-> 0]
        /\ unit[1] = [qty |-> u, side |-> side, expiry |-> d, strike |-> j, premium |-> 0]
        /\ unit[2] = [qty |-> -u, side |-> side, expiry |-> d, strike |-> k, premium |-> 0]
    BY DEF Pair
  <2> HIDE DEF legs, unit
  <2> QED
    BY <1>4, <2>1, <2>2
<1>7. unit = <<unit[1], unit[2]>>
  BY DEF Pair
<1> HIDE DEF legs, unit
<1>8. _reduce_qtys(legs) = unit
  BY <1>5, <1>6, <1>7
<1> QED
  BY <1>3, <1>8 DEF legs, unit

LEMMA PairName ==
    ASSUME NEW q \in Nat \ {0}, NEW u \in {1, -1}, NEW side \in Sides, NEW d \in Nat,
           NEW j \in Nat \ {0}, NEW k \in Nat \ {0}, j # k
    PROVE  classify(Pair(q, u, side, d, j, k)).ticket_name = "VERTICAL"
<1> DEFINE legs == Pair(q, u, side, d, j, k)
<1> DEFINE unit == Pair(1, u, side, d, j, k)
<1>1. ~MultiExpiry(legs)
  BY DEF MultiExpiry, Pair
<1>2. IsVertical(unit) /\ Len(unit) = 2
  BY DEF IsVertical, Units, OneSide, Pair
<1>3. _reduce_qtys(legs) = unit
  BY PairSpreads
<1> HIDE DEF legs, unit
<1>4. SingleExpiryTicket(unit) = "VERTICAL"
  <2>1. /\ ~IsPair(unit) /\ ~IsButterfly(unit) /\ ~IsCondor(unit)
        /\ ~IsIron(unit, TRUE) /\ ~IsIron(unit, FALSE)
    BY <1>2 DEF IsVertical, IsPair, IsButterfly, IsCondor, IsIron
  <2> QED
    BY <1>2, <2>1 DEF SingleExpiryTicket
<1> QED
  BY <1>1, <1>3, <1>4 DEF classify, legs

\* The ticket of such a pair, but for its side and its price.
Written(r, q, side, d, j, k) ==
    \E onside, p : r = [side |-> onside, quantity |-> q, ratios |-> <<>>,
                        strategy |-> "VERTICAL", dates |-> <<d>>,
                        strikes |-> IF j < k THEN <<k, j>> ELSE <<j, k>>, type |-> <<side>>,
                        price |-> p, kind |-> "LMT", duration |-> "NONE", marks |-> <<>>]

LEMMA PairTicket ==
    ASSUME NEW q \in Nat \ {0}, NEW u \in {1, -1}, NEW side \in Sides, NEW d \in Nat,
           NEW j \in Nat \ {0}, NEW k \in Nat \ {0}, j # k
    PROVE  Written(render_ticket(Pair(q, u, side, d, j, k), "VERTICAL"), q, side, d, j, k)
<1> DEFINE legs == Pair(q, u, side, d, j, k)
<1>1. Spreads(legs) = q
  BY PairSpreads
<1>2. Arranged(legs) = IF j < k THEN <<legs[2], legs[1]>> ELSE legs
  BY PairArranged
<1> DEFINE days == {legs[i].expiry : i \in DOMAIN legs}
<1>3. InOrder(days, LAMBDA a, b : a < b) = <<d>>
  <2>1. days = {d} /\ d \in Int
    BY DEF Pair
  <2> HIDE DEF days
  <2> QED
    BY <2>1, OnePlace
<1>4. OneSide(legs) /\ legs[1].side = side /\ legs[1].strike = j /\ legs[2].strike = k
      /\ legs = <<legs[1], legs[2]>>
  BY DEF OneSide, Pair
<1> HIDE DEF legs
<1>5. [i \in DOMAIN Arranged(legs) |-> Arranged(legs)[i].strike]
         = IF j < k THEN <<k, j>> ELSE <<j, k>>
  BY <1>2, <1>4
<1>6. render_ticket(legs, "VERTICAL")
         = [side |-> IF _net_premium(legs) < 0 THEN "BUY" ELSE "SELL", quantity |-> q,
            ratios |-> <<>>, strategy |-> "VERTICAL", dates |-> <<d>>,
            strikes |-> IF j < k THEN <<k, j>> ELSE <<j, k>>, type |-> <<side>>,
            price |-> Absolute(_net_premium(legs)), kind |-> "LMT", duration |-> "NONE",
            marks |-> <<>>]
  BY <1>1, <1>3, <1>4, <1>5 DEF render_ticket
<1> QED
  BY <1>6 DEF legs, Written

\* The legs and the position of an accepted vertical: u is the direction of the
\* leg written first.
LEMMA VerticalLegs ==
    ASSUME NEW t \in Ticket, IsOptionTicket(t), Accepted(t), t.strategy = "VERTICAL"
    PROVE  /\ t.strikes[1] \in Nat \ {0} /\ t.strikes[2] \in Nat \ {0}
           /\ t.strikes[1] # t.strikes[2] /\ t.quantity \in Nat \ {0} /\ t.dates[1] \in Nat
           /\ t.marks = <<>> => _spec_from_ticket(t).legs = _expand_legs(t)
           /\ \E u \in {1, -1}, side \in Sides :
                 /\ t.type = <<side>>
                 /\ u = IF (t.side = "BUY") = (side = "C") THEN 1 ELSE -1
                 /\ Position(_expand_legs(t))
                       = Pair(t.quantity, u, side, t.dates[1], t.strikes[1], t.strikes[2])
<1> DEFINE legs == _expand_legs(t)
<1> DEFINE on(side, k) == NewLeg(t, t.side, 1, side, k)
<1> DEFINE off(side, k) == NewLeg(t, Opposite(t.side), 1, side, k)
<1>1. t.strikes \in Seq(Nat \ {0}) /\ Len(t.strikes) = 2
  <2>1. Len(t.strikes) = _STRIKE_COUNT("VERTICAL")
    BY TicketTyped
  <2>2. t.strikes \in Seq(Nat \ {0})
    BY DEF Ticket
  <2> QED
    BY <2>1, <2>2 DEF _STRIKE_COUNT
<1>2. t.strikes[1] \in Nat \ {0} /\ t.strikes[2] \in Nat \ {0}
  BY <1>1
<1>3. t.strikes[1] # t.strikes[2]
  BY DEF Accepted, StrikesFit
<1>4. t.quantity \in Nat \ {0} /\ t.dates[1] \in Nat /\ t.side \in Actions
      /\ t.type \in {<<"C">>, <<"P">>}
  BY TicketTyped
<1>5. \/ t.type = <<"C">> /\ legs = <<on("C", t.strikes[1]), off("C", t.strikes[2])>>
      \/ t.type = <<"P">> /\ legs = <<off("P", t.strikes[1]), on("P", t.strikes[2])>>
  <2>1. <<"P">> # <<"C">>
    OBVIOUS
  <2> QED
    BY <1>4, <2>1, Expansion
<1> HIDE DEF legs
<1>6. t.marks = <<>> => _spec_from_ticket(t).legs = legs
  <2>1. t.marks = <<>> => Marked(t, legs) = legs
    BY <1>5 DEF Marked
  <2> QED
    BY <2>1 DEF _spec_from_ticket, legs
<1> DEFINE q == t.quantity
<1>7. \A a, side, k :
         NewLeg(t, a, 1, side, k) = [action |-> a, effect |-> "OPEN", explicit |-> FALSE,
                                     quantity |-> q, side |-> side, expiry |-> t.dates[1],
                                     strike |-> k]
  <2>1. 1 * t.quantity = q
    BY <1>4
  <2> HIDE DEF q
  <2> QED
    BY <2>1 DEF NewLeg
<1>8. ASSUME NEW a \in Actions, NEW side \in Sides,
             legs = <<NewLeg(t, a, 1, side, t.strikes[1]),
                      NewLeg(t, Opposite(a), 1, side, t.strikes[2])>>
      PROVE  \E u \in {1, -1} :
                /\ u = IF a = "BUY" THEN 1 ELSE -1
                /\ Position(legs) = Pair(q, u, side, t.dates[1], t.strikes[1], t.strikes[2])
  <2> DEFINE u == IF a = "BUY" THEN 1 ELSE -1
  <2>1. Signed(a, q) = q * u /\ Signed(Opposite(a), q) = -(q * u)
    BY <1>4 DEF Signed, Opposite, Actions
  <2>2. Opposite(a) \in Actions
    BY DEF Opposite, Actions
  <2>3. /\ legs[1] = [action |-> a, effect |-> "OPEN", explicit |-> FALSE, quantity |-> q,
                      side |-> side, expiry |-> t.dates[1], strike |-> t.strikes[1]]
        /\ legs[2] = [action |-> Opposite(a), effect |-> "OPEN", explicit |-> FALSE,
                      quantity |-> q, side |-> side, expiry |-> t.dates[1],
                      strike |-> t.strikes[2]]
        /\ DOMAIN legs = 1 .. 2
    <3> DEFINE x == NewLeg(t, a, 1, side, t.strikes[1])
    <3> DEFINE y == NewLeg(t, Opposite(a), 1, side, t.strikes[2])
    <3>1. x = [action |-> a, effect |-> "OPEN", explicit |-> FALSE, quantity |-> q,
               side |-> side, expiry |-> t.dates[1], strike |-> t.strikes[1]]
      BY <1>7
    <3>2. y = [action |-> Opposite(a), effect |-> "OPEN", explicit |-> FALSE, quantity |-> q,
               side |-> side, expiry |-> t.dates[1], strike |-> t.strikes[2]]
      BY <1>7, <2>2
    <3>3. legs = <<x, y>>
      BY <1>8
    <3> HIDE DEF x, y
    <3> QED
      BY <3>1, <3>2, <3>3
  <2> HIDE DEF u
  <2>4. Position(legs) = Pair(q, u, side, t.dates[1], t.strikes[1], t.strikes[2])
    BY <2>1, <2>3 DEF Position, Pair
  <2>5. u \in {1, -1} /\ u = IF a = "BUY" THEN 1 ELSE -1
    BY DEF u
  <2> QED
    BY <2>4, <2>5
<1>9. Opposite(t.side) \in Actions /\ Opposite(Opposite(t.side)) = t.side
  BY <1>4 DEF Opposite, Actions
<1>10. t.type = <<"C">> /\ legs = <<on("C", t.strikes[1]), off("C", t.strikes[2])>>
         => \E u \in {1, -1} :
               /\ u = IF t.side = "BUY" THEN 1 ELSE -1
               /\ Position(legs) = Pair(q, u, "C", t.dates[1], t.strikes[1], t.strikes[2])
  BY <1>4, <1>8 DEF Sides
<1>11. t.type = <<"P">> /\ legs = <<off("P", t.strikes[1]), on("P", t.strikes[2])>>
         => \E u \in {1, -1} :
               /\ u = IF Opposite(t.side) = "BUY" THEN 1 ELSE -1
               /\ Position(legs) = Pair(q, u, "P", t.dates[1], t.strikes[1], t.strikes[2])
  BY <1>8, <1>9 DEF Sides
<1>12. \E u \in {1, -1}, side \in Sides :
          /\ t.type = <<side>>
          /\ u = IF (t.side = "BUY") = (side = "C") THEN 1 ELSE -1
          /\ Position(legs) = Pair(q, u, side, t.dates[1], t.strikes[1], t.strikes[2])
  <2>1. Opposite(t.side) = "BUY" <=> t.side # "BUY"
    BY <1>4 DEF Opposite, Actions
  <2>2. "C" \in Sides /\ "P" \in Sides
    BY DEF Sides
  <2> QED
    BY <1>5, <1>10, <1>11, <2>1, <2>2
<1> QED
  BY <1>2, <1>3, <1>4, <1>6, <1>12 DEF legs

LEMMA VerticalRendered ==
    ASSUME NEW t \in Ticket, IsOptionTicket(t), Accepted(t), t.strategy = "VERTICAL",
           t.marks = <<>>, t.kind = "LMT"
    PROVE  /\ HasTicket(_spec_from_ticket(t))
           /\ LET r == render_order_ticket(_spec_from_ticket(t)) IN
              /\ r.side = t.side /\ r.quantity = t.quantity /\ r.ratios = <<>>
              /\ r.strategy = "VERTICAL" /\ r.dates = <<t.dates[1]>> /\ r.type = t.type
              /\ r.strikes = IF t.strikes[1] < t.strikes[2]
                             THEN <<t.strikes[2], t.strikes[1]>>
                             ELSE <<t.strikes[1], t.strikes[2]>>
              /\ r.price = t.price /\ r.kind = "LMT" /\ r.duration = "NONE"
              /\ r.marks = <<>>
<1> DEFINE sent == _spec_from_ticket(t)
<1> DEFINE legs == _expand_legs(t)
<1>1. t.price > 0 /\ t.price \in Int /\ t.price # NoPrice /\ t.price # 0
  <2>1. t.price \in Int
    BY DEF Ticket
  <2>2. t.price > 0
    BY DEF Accepted, _parse_price_type_duration
  <2> QED
    BY <2>1, <2>2 DEF NoPrice
<1>2. sent.legs = legs /\ sent.shares = 0 /\ sent.price = t.price
  <2>1. sent.legs = legs
    BY VerticalLegs
  <2> QED
    BY <2>1 DEF _spec_from_ticket
<1>3. Len(legs) = 2 /\ legs # <<>>
      /\ \A i \in DOMAIN legs : legs[i].explicit = FALSE /\ legs[i].effect = "OPEN"
  <2>1. \A i \in DOMAIN legs : Fresh(t, legs[i])
    BY ExpandedForm
  <2>2. \A i \in DOMAIN legs : legs[i].explicit = FALSE /\ legs[i].effect = "OPEN"
    BY <2>1 DEF Fresh, NewLeg
  <2>3. \E x, y : legs = <<x, y>>
    BY Expansion
  <2> HIDE DEF legs
  <2>4. Len(legs) = 2 /\ legs # <<>>
    BY <2>3
  <2> QED
    BY <2>2, <2>4
<1>4. SideWord(sent) = t.side
  <2>1. sent.order_type = IF t.side = "BUY" THEN "NET_DEBIT" ELSE "NET_CREDIT"
    BY DEF _spec_from_ticket, _order_type
  <2>2. t.side = "BUY" \/ t.side = "SELL"
    BY TicketTyped DEF Actions
  <2> HIDE DEF sent
  <2> QED
    BY <1>1, <1>2, <2>1, <2>2 DEF SideWord
<1>5. _close_marker(legs) = <<>>
  <2>1. \A i \in DOMAIN legs : MarkOf(legs[i]) = "auto"
    BY <1>3 DEF MarkOf
  <2>2. 1 \in DOMAIN legs
    <3> HIDE DEF legs
    <3>1. t.strategy = "VERTICAL" => \E x, y : legs = <<x, y>>
      BY Expansion DEF legs
    <3> QED
      BY <3>1
  <2> HIDE DEF legs
  <2> QED
    BY <2>1, <2>2 DEF _close_marker
<1>6. PICK u \in {1, -1}, side \in Sides :
         /\ t.type = <<side>>
         /\ Position(legs) = Pair(t.quantity, u, side, t.dates[1], t.strikes[1], t.strikes[2])
  BY VerticalLegs
<1> DEFINE held == Position(legs)
<1>0. /\ t.strikes[1] \in Nat \ {0} /\ t.strikes[2] \in Nat \ {0}
      /\ t.strikes[1] # t.strikes[2] /\ t.quantity \in Nat \ {0} /\ t.dates[1] \in Nat
  BY VerticalLegs
<1> HIDE DEF legs
<1> DEFINE shape == Pair(t.quantity, u, side, t.dates[1], t.strikes[1], t.strikes[2])
<1> DEFINE strikes == IF t.strikes[1] < t.strikes[2] THEN <<t.strikes[2], t.strikes[1]>>
                      ELSE <<t.strikes[1], t.strikes[2]>>
<1>7. held = shape
  BY <1>6
<1> DEFINE j == t.strikes[1]
<1> DEFINE k == t.strikes[2]
<1> DEFINE q == t.quantity
<1> DEFINE d == t.dates[1]
<1>8. /\ classify(shape).ticket_name = "VERTICAL"
      /\ Written(render_ticket(shape, "VERTICAL"), q, side, d, j, k)
  <2>1. j \in Nat \ {0} /\ k \in Nat \ {0} /\ j # k /\ q \in Nat \ {0} /\ d \in Nat
    BY <1>0
  <2>2. u \in {1, -1} /\ side \in Sides
    OBVIOUS
  <2>3. shape = Pair(q, u, side, d, j, k)
    OBVIOUS
  <2> HIDE DEF j, k, q, d, shape
  <2>4. classify(Pair(q, u, side, d, j, k)).ticket_name = "VERTICAL"
    BY <2>1, <2>2, PairName
  <2>5. Written(render_ticket(Pair(q, u, side, d, j, k), "VERTICAL"), q, side, d, j, k)
    BY <2>1, <2>2, PairTicket
  <2> QED
    BY <2>3, <2>4, <2>5
<1>9. PICK onside, p :
         render_ticket(shape, "VERTICAL")
            = [side |-> onside, quantity |-> q, ratios |-> <<>>, strategy |-> "VERTICAL",
               dates |-> <<d>>, strikes |-> strikes, type |-> <<side>>, price |-> p,
               kind |-> "LMT", duration |-> "NONE", marks |-> <<>>]
  BY <1>8 DEF Written
<1> DEFINE r == render_order_ticket(sent)
<1> HIDE DEF sent, shape
<1>10. r = [render_ticket(shape, "VERTICAL") EXCEPT !.side = t.side, !.price = t.price,
                                                    !.marks = <<>>]
  BY <1>2, <1>3, <1>4, <1>5, <1>7, <1>8 DEF render_order_ticket
<1>11. HasTicket(sent)
  BY <1>1, <1>2, <1>3 DEF HasTicket
<1> HIDE DEF r, strikes
<1>12. /\ r.side = t.side /\ r.quantity = t.quantity /\ r.ratios = <<>>
       /\ r.strategy = "VERTICAL" /\ r.dates = <<t.dates[1]>> /\ r.type = <<side>>
       /\ r.strikes = strikes /\ r.price = t.price /\ r.kind = "LMT"
       /\ r.duration = "NONE" /\ r.marks = <<>>
  BY <1>9, <1>10
<1> QED
  BY <1>6, <1>11, <1>12 DEF sent, r, strikes

(* The ticket of a vertical is the inverse of parse_ticket only if the higher*)
(* strike was written first: the legs are sorted with the higher strike first*)
(* for display, and read in the order written, so that the ticket of an      *)
(* ascending vertical stands for the opposite trade at the same price        *)
(* (output/orders.py:655-784, strategy_ticket.py:156-200,                    *)
(* order_ticket.py:621-791).                                                 *)
THEOREM VerticalComesBack ==
    ASSUME NEW t \in Ticket, IsOptionTicket(t), Accepted(t), t.strategy = "VERTICAL",
           t.marks = <<>>, t.kind = "LMT"
    PROVE  LET sent == _spec_from_ticket(t).legs
               again == render_order_ticket(_spec_from_ticket(t))
               legs == _expand_legs(again)
           IN  /\ Accepted(again) /\ again.side = t.side /\ again.price = t.price
               /\ t.strikes[1] > t.strikes[2] => legs = sent
               /\ t.strikes[1] < t.strikes[2]
                     => \A i \in 1 .. 2 :
                           legs[i] = [sent[3 - i] EXCEPT !.action = Opposite(@)]
<1> DEFINE sent == _spec_from_ticket(t).legs
<1> DEFINE again == render_order_ticket(_spec_from_ticket(t))
<1> DEFINE legs == _expand_legs(again)
<1>1. /\ again.side = t.side /\ again.quantity = t.quantity /\ again.ratios = <<>>
      /\ again.strategy = "VERTICAL" /\ again.dates = <<t.dates[1]>> /\ again.type = t.type
      /\ again.strikes = IF t.strikes[1] < t.strikes[2]
                         THEN <<t.strikes[2], t.strikes[1]>>
                         ELSE <<t.strikes[1], t.strikes[2]>>
      /\ again.price = t.price /\ again.kind = "LMT" /\ again.duration = "NONE"
      /\ again.marks = <<>>
  BY VerticalRendered
<1> HIDE DEF again
<1>2. sent = _expand_legs(t) /\ t.strikes[1] \in Nat /\ t.strikes[2] \in Nat
      /\ t.strikes[1] # t.strikes[2]
  BY VerticalLegs
<1>3. t.type \in {<<"C">>, <<"P">>} /\ t.side \in Actions /\ t.quantity \in Nat \ {0}
  BY TicketTyped
<1>4. Accepted(again)
  <2>1. _parse_price_type_duration(again)
    BY <1>1 DEF Accepted, _parse_price_type_duration
  <2>2. StrikesFit(again)
    BY <1>1, <1>2 DEF StrikesFit, Expanded, _STRIKE_COUNT
  <2>3. TypeFits(again) /\ MarksFit(again, legs)
    BY <1>1, <1>3 DEF TypeFits, MarksFit
  <2> HIDE DEF legs
  <2>4. IsOptionTicket(again) /\ again.quantity > 0 /\ again.ratios = <<>> /\ Len(again.dates) = 1
    BY <1>1, <1>3 DEF IsOptionTicket
  <2> QED
    BY <2>1, <2>2, <2>3, <2>4 DEF Accepted, legs
<1>5. \A a, m, side, k : NewLeg(again, a, m, side, k) = NewLeg(t, a, m, side, k)
  BY <1>1 DEF NewLeg
<1> DEFINE on(side, k) == NewLeg(t, t.side, 1, side, k)
<1> DEFINE off(side, k) == NewLeg(t, Opposite(t.side), 1, side, k)
<1>6. \/ /\ t.type = <<"C">>
         /\ sent = <<on("C", t.strikes[1]), off("C", t.strikes[2])>>
         /\ legs = <<on("C", again.strikes[1]), off("C", again.strikes[2])>>
      \/ /\ t.type = <<"P">>
         /\ sent = <<off("P", t.strikes[1]), on("P", t.strikes[2])>>
         /\ legs = <<off("P", again.strikes[1]), on("P", again.strikes[2])>>
  <2>1. <<"P">> # <<"C">> /\ again.type = t.type /\ again.side = t.side
        /\ again.strategy = "VERTICAL"
    BY <1>1
  <2> QED
    BY <1>2, <1>3, <1>5, <2>1, Expansion
<1> HIDE DEF sent, legs
<1>7. t.strikes[1] > t.strikes[2] => legs = sent
  <2>1. t.strikes[1] > t.strikes[2]
           => again.strikes[1] = t.strikes[1] /\ again.strikes[2] = t.strikes[2]
    BY <1>1, <1>2
  <2> QED
    BY <1>6, <2>1
<1>8. t.strikes[1] < t.strikes[2]
         => \A i \in 1 .. 2 : legs[i] = [sent[3 - i] EXCEPT !.action = Opposite(@)]
  <2>1. t.strikes[1] < t.strikes[2]
           => again.strikes[1] = t.strikes[2] /\ again.strikes[2] = t.strikes[1]
    BY <1>1, <1>2
  <2>2. Opposite(Opposite(t.side)) = t.side
    BY <1>3 DEF Opposite, Actions
  <2>3. \A side, k : /\ [on(side, k) EXCEPT !.action = Opposite(@)] = off(side, k)
                     /\ [off(side, k) EXCEPT !.action = Opposite(@)] = on(side, k)
    <3>1. ASSUME NEW a, NEW n, NEW side, NEW e, NEW k, NEW x, NEW y
          PROVE  [[action |-> a, effect |-> y, explicit |-> x, quantity |-> n,
                   side |-> side, expiry |-> e, strike |-> k] EXCEPT !.action = Opposite(@)]
                 = [action |-> Opposite(a), effect |-> y, explicit |-> x,
                    quantity |-> n, side |-> side, expiry |-> e, strike |-> k]
      OBVIOUS
    <3>2. ASSUME NEW a, NEW side, NEW k
          PROVE  [NewLeg(t, a, 1, side, k) EXCEPT !.action = Opposite(@)]
                    = NewLeg(t, Opposite(a), 1, side, k)
      <4> DEFINE n == 1 * t.quantity
      <4> DEFINE x == FALSE
      <4>1. /\ NewLeg(t, a, 1, side, k)
                  = [action |-> a, effect |-> "OPEN", explicit |-> x, quantity |-> n,
                     side |-> side, expiry |-> t.dates[1], strike |-> k]
            /\ NewLeg(t, Opposite(a), 1, side, k)
                  = [action |-> Opposite(a), effect |-> "OPEN", explicit |-> x,
                     quantity |-> n, side |-> side, expiry |-> t.dates[1], strike |-> k]
        BY DEF NewLeg
      <4> HIDE DEF n, x
      <4> QED
        BY <3>1, <4>1
    <3> QED
      BY <2>2, <3>2
  <2> HIDE DEF on, off
  <2>4. t.strikes[1] < t.strikes[2]
           => /\ legs[1] = [sent[2] EXCEPT !.action = Opposite(@)]
              /\ legs[2] = [sent[1] EXCEPT !.action = Opposite(@)]
    BY <1>6, <2>1, <2>3
  <2> QED
    BY <2>4
<1> QED
  BY <1>1, <1>4, <1>7, <1>8 DEF sent, legs, again

-----------------------------------------------------------------------------
(* The figures of the panel.                                                 *)
LEMMA TicketPosition ==
    ASSUME NEW t \in Ticket, IsOptionTicket(t), Accepted(t)
    PROVE  Position(_spec_from_ticket(t).legs) = Position(_expand_legs(t))
<1> DEFINE legs == _expand_legs(t)
<1>1. PICK n \in 1 .. MaxLegs : DOMAIN legs = 1 .. n /\ Len(legs) = n
  BY ExpandedForm
<1>2. \A i \in DOMAIN legs : Fresh(t, legs[i])
  BY ExpandedForm
<1>3. Position(Marked(t, legs)) = Position(legs)
  BY <1>1, <1>2, MarkedPosition DEF Accepted
<1> QED
  BY <1>3 DEF _spec_from_ticket

\* What one option of a strike is worth when the underlying ends at S.
Value(side, k, S) == IF side = "C" THEN (IF S > k THEN S - k ELSE 0)
                     ELSE (IF S < k THEN k - S ELSE 0)

LEMMA ValueType ==
    ASSUME NEW side, NEW k \in Nat, NEW S \in Nat
    PROVE  Value(side, k, S) \in Nat
BY DEF Value

LEMMA IntrinsicValue ==
    ASSUME NEW l, l.side \in Sides, l.strike \in Nat, NEW S \in Nat
    PROVE  _leg_intrinsic(l, S) = Value(l.side, l.strike, S)
BY DEF _leg_intrinsic, Value, Sides

LEMMA PairPayoff ==
    ASSUME NEW q \in Nat, NEW u \in {1, -1}, NEW side \in Sides, NEW d \in Nat,
           NEW j \in Nat, NEW k \in Nat, NEW S \in Nat
    PROVE  payoff_at_expiry(Pair(q, u, side, d, j, k), S)
              = (100 * q) * (u * (Value(side, j, S) - Value(side, k, S)))
<1> DEFINE legs == Pair(q, u, side, d, j, k)
<1> DEFINE x == Value(side, j, S)
<1> DEFINE y == Value(side, k, S)
<1> DEFINE worth(l) == l.qty * (_leg_intrinsic(l, S) - l.premium)
<1>1. x \in Int /\ y \in Int
  BY ValueType
<1>2. /\ At(legs, 1).qty = q * u /\ At(legs, 1).premium = 0
      /\ At(legs, 1).side = side /\ At(legs, 1).strike = j
      /\ At(legs, 2).qty = -(q * u) /\ At(legs, 2).premium = 0
      /\ At(legs, 2).side = side /\ At(legs, 2).strike = k
      /\ At(legs, 3) = NoLeg /\ At(legs, 4) = NoLeg
  BY DEF At, Pair
<1>3. /\ _leg_intrinsic(At(legs, 1), S) = x
      /\ _leg_intrinsic(At(legs, 2), S) = y
  BY <1>2, IntrinsicValue
<1>4. worth(NoLeg) = 0
  <2>1. _leg_intrinsic(NoLeg, S) \in Nat
    BY IntrinsicType DEF NoLeg, Sides
  <2> QED
    BY <2>1 DEF NoLeg
<1> HIDE DEF legs, x, y
<1>5. payoff_at_expiry(legs, S)
         = 100 * (worth(At(legs, 1)) + worth(At(legs, 2)) + worth(At(legs, 3)) + worth(At(legs, 4)))
  BY DEF payoff_at_expiry, Total, Multiplier
<1>6. /\ worth(At(legs, 1)) = (q * u) * (x - 0) /\ worth(At(legs, 2)) = (-(q * u)) * (y - 0)
      /\ worth(At(legs, 3)) = 0 /\ worth(At(legs, 4)) = 0
  BY <1>2, <1>3, <1>4
<1>7. \A a, b \in Int : 100 * ((q * u) * (a - 0) + (-(q * u)) * (b - 0) + 0 + 0)
                           = (100 * q) * (u * (a - b))
  OBVIOUS
<1> HIDE DEF worth
<1>8. payoff_at_expiry(legs, S) = 100 * ((q * u) * (x - 0) + (-(q * u)) * (y - 0) + 0 + 0)
  BY <1>5, <1>6
<1> QED
  BY <1>1, <1>7, <1>8 DEF legs, x, y

\* Bought with the nearer strike first, a vertical is worth at most its width.
LEMMA GapBounds ==
    ASSUME NEW side \in Sides, NEW j \in Nat, NEW k \in Nat, NEW S \in Nat, NEW buys \in BOOLEAN,
           NEW u, u = IF buys = (side = "C") THEN 1 ELSE -1
    PROVE  LET x == u * (Value(side, j, S) - Value(side, k, S)) IN
           /\ x \in Int
           /\ j < k /\ buys  => 0 <= x /\ x <= k - j
           /\ j < k /\ ~buys => j - k <= x /\ x <= 0
           /\ k < j /\ buys /\ S = (IF side = "C" THEN j ELSE 0)  => x = k - j
           /\ k < j /\ ~buys /\ S = (IF side = "C" THEN k ELSE j) => x = 0
<1> DEFINE v == Value(side, j, S)
<1> DEFINE w == Value(side, k, S)
<1>1. v \in Nat /\ w \in Nat
  BY ValueType
<1>2. side = "C" => /\ j < k => w <= v /\ v <= w + (k - j)
                    /\ k < j /\ S = j => v = 0 /\ w = j - k
                    /\ k < j /\ S = k => v = 0 /\ w = 0
  BY DEF Value
<1>3. side = "P" => /\ j < k => v <= w /\ w <= v + (k - j)
                    /\ k < j /\ S = 0 => v = j /\ w = k
                    /\ k < j /\ S = j => v = 0 /\ w = 0
  BY DEF Value
<1>4. u = IF (side = "C" /\ buys) \/ (side = "P" /\ ~buys) THEN 1 ELSE -1
  BY DEF Sides
<1> DEFINE x == u * (v - w)
<1>5. x = IF (side = "C" /\ buys) \/ (side = "P" /\ ~buys) THEN v - w ELSE w - v
  <2> HIDE DEF v, w
  <2> QED
    BY <1>1, <1>4
<1> HIDE DEF v, w, x
<1>6. x \in Int
  BY <1>1, <1>5
<1>7. /\ j < k /\ buys  => 0 <= x /\ x <= k - j
      /\ j < k /\ ~buys => j - k <= x /\ x <= 0
  BY <1>1, <1>2, <1>3, <1>5 DEF Sides
<1>8. k < j /\ buys /\ S = (IF side = "C" THEN j ELSE 0) => x = k - j
  BY <1>1, <1>2, <1>3, <1>5 DEF Sides
<1>9. k < j /\ ~buys /\ S = (IF side = "C" THEN k ELSE j) => x = 0
  BY <1>1, <1>2, <1>3, <1>5 DEF Sides
<1> QED
  BY <1>6, <1>7, <1>8, <1>9 DEF x, v, w

LEMMA VerticalPanel ==
    ASSUME NEW t \in Ticket, IsOptionTicket(t), Accepted(t), t.strategy = "VERTICAL", t.kind = "LMT"
    PROVE  LET panel == compute_analytics(_spec_from_ticket(t))
               each == 100 * t.quantity
               width == t.strikes[2] - t.strikes[1]
           IN  /\ t.price \in Nat \ {0}
               /\ t.side = "BUY" => /\ panel.max_profit = {(width - t.price) * each}
                                    /\ panel.max_loss = {-(t.price * each)}
                                    /\ panel.cost = t.price * each
               /\ t.side = "SELL" => /\ panel.max_profit = {t.price * each}
                                     /\ panel.max_loss = {-((width - t.price) * each)}
                                     /\ panel.cost = -(t.price * each)
<1> DEFINE sent == _spec_from_ticket(t)
<1>1. t.price \in Nat \ {0}
  <2>1. t.price \in Int
    BY DEF Ticket
  <2>2. t.price > 0
    BY DEF Accepted, _parse_price_type_duration
  <2> QED
    BY <2>1, <2>2
<1>2. /\ sent.complex_strategy = "VERTICAL" /\ sent.price = t.price /\ sent.side = t.side
      /\ sent.strikes = t.strikes /\ sent.quantity = t.quantity
  BY DEF _spec_from_ticket
<1>3. sent.option_type # "NONE"
  <2>1. t.type \in {<<"C">>, <<"P">>}
    BY TicketTyped
  <2>2. t.type[1] \in {"C", "P"} /\ Len(t.type) = 1
    BY <2>1
  <2>3. sent.option_type = t.type[1]
    BY <2>2 DEF _spec_from_ticket
  <2> QED
    BY <2>2, <2>3
<1>4. sent.price # NoPrice
  BY <1>1, <1>2 DEF NoPrice
<1> HIDE DEF sent
<1> DEFINE each == 100 * t.quantity
<1> DEFINE width == t.strikes[2] - t.strikes[1]
<1>5. compute_analytics(sent)
         = IF t.side = "BUY"
           THEN [known |-> TRUE, max_profit |-> {(width - t.price) * each},
                 max_loss |-> {-(t.price * each)}, cost |-> Signed(t.side, t.price * each)]
           ELSE [known |-> TRUE, max_profit |-> {t.price * each},
                 max_loss |-> {-((width - t.price) * each)},
                 cost |-> Signed(t.side, t.price * each)]
  BY <1>2, <1>3, <1>4 DEF compute_analytics, Multiplier
<1>6. t.side \in Actions
  BY TicketTyped
<1> HIDE DEF each, width
<1>7. t.side = "BUY" => /\ compute_analytics(sent).max_profit = {(width - t.price) * each}
                        /\ compute_analytics(sent).max_loss = {-(t.price * each)}
                        /\ compute_analytics(sent).cost = t.price * each
  BY <1>5 DEF Signed
<1>8. t.side = "SELL" => /\ compute_analytics(sent).max_profit = {t.price * each}
                         /\ compute_analytics(sent).max_loss = {-((width - t.price) * each)}
                         /\ compute_analytics(sent).cost = -(t.price * each)
  BY <1>5 DEF Signed
<1> QED
  BY <1>1, <1>7, <1>8 DEF sent, each, width

LEMMA SpreadArithmetic ==
    ASSUME NEW each \in Nat \ {0}, NEW price \in Int, NEW width \in Int, NEW x \in Int
    PROVE  /\ 0 <= x => -(price * each) <= each * x - price * each
           /\ x <= width => each * x - price * each <= (width - price) * each
           /\ x <= 0 => each * x - (-(price * each)) <= price * each
           /\ -width <= x => -((width - price) * each) <= each * x - (-(price * each))
           /\ x = width /\ width < 0 => each * x - price * each < -(price * each)
           /\ x = 0 /\ width < 0
                 => each * x - (-(price * each)) < -((width - price) * each)
<1>1. /\ (width - price) * each = each * width - price * each
      /\ -((width - price) * each) = price * each - each * width
  OBVIOUS
<1>2. /\ 0 <= x => 0 <= each * x
      /\ x <= 0 => each * x <= 0
      /\ width < 0 => each * width < 0
  OBVIOUS
<1>3. /\ x <= width => each * x <= each * width
      /\ -width <= x => -(each * width) <= each * x
  <2>1. x <= width => 0 <= each * (width - x)
    OBVIOUS
  <2>2. -width <= x => 0 <= each * (x + width)
    OBVIOUS
  <2>3. each * (width - x) = each * width - each * x /\ each * (x + width) = each * x + each * width
    OBVIOUS
  <2> DEFINE a == each * x
  <2> DEFINE b == each * width
  <2>4. a \in Int /\ b \in Int
    OBVIOUS
  <2>5. (x <= width => 0 <= b - a) /\ (-width <= x => 0 <= a + b)
    BY <2>1, <2>2, <2>3
  <2> HIDE DEF a, b
  <2>6. (x <= width => a <= b) /\ (-width <= x => -b <= a)
    BY <2>4, <2>5
  <2> QED
    BY <2>6 DEF a, b
<1> DEFINE a == each * x
<1> DEFINE b == each * width
<1> DEFINE c == price * each
<1>4. a \in Int /\ b \in Int /\ c \in Int
  OBVIOUS
<1>5. (width - price) * each = b - c /\ -((width - price) * each) = c - b
  BY <1>1
<1>6. /\ 0 <= x => 0 <= a
      /\ x <= 0 => a <= 0
      /\ width < 0 => b < 0
      /\ x <= width => a <= b
      /\ -width <= x => -b <= a
      /\ x = width => a = b
      /\ x = 0 => a = 0
  BY <1>2, <1>3
<1> HIDE DEF a, b, c
<1> DEFINE top == (width - price) * each
<1>7. top = b - c /\ -top = c - b
  BY <1>5
<1> HIDE DEF top
<1>8. /\ 0 <= x => -c <= a - c
      /\ x <= width => a - c <= top
      /\ x <= 0 => a - (-c) <= c
      /\ -width <= x => -top <= a - (-c)
      /\ x = width /\ width < 0 => a - c < -c
      /\ x = 0 /\ width < 0 => a - (-c) < -top
  BY <1>4, <1>6, <1>7
<1> QED
  BY <1>8 DEF a, b, c, top

(* The panel's max_loss and max_profit of a vertical hold, for every price of*)
(* the underlying, when the lower strike was written first, and its max_loss *)
(* is exceeded otherwise: the order in which the ticket comes back unchanged *)
(* is the one the panel misjudges (output/orders.py:44-151).                 *)
THEOREM VerticalFigures ==
    ASSUME NEW t \in Ticket, IsOptionTicket(t), Accepted(t), t.strategy = "VERTICAL", t.kind = "LMT"
    PROVE  LET sent == _spec_from_ticket(t)
               panel == compute_analytics(sent)
               result(S) == payoff_at_expiry(Position(sent.legs), S) - panel.cost
           IN  /\ t.strikes[1] < t.strikes[2]
                     => \A S \in Nat : /\ \A m \in panel.max_loss : m <= result(S)
                                       /\ \A m \in panel.max_profit : result(S) <= m
               /\ t.strikes[1] > t.strikes[2]
                     => \A m \in panel.max_loss : \E S \in Nat : result(S) < m
<1> DEFINE sent == _spec_from_ticket(t)
<1> DEFINE panel == compute_analytics(sent)
<1> DEFINE result(S) == payoff_at_expiry(Position(sent.legs), S) - panel.cost
<1> DEFINE q == t.quantity
<1> DEFINE each == 100 * q
<1> DEFINE j == t.strikes[1]
<1> DEFINE k == t.strikes[2]
<1> DEFINE width == k - j
<1> DEFINE price == t.price
<1> DEFINE d == t.dates[1]
<1> DEFINE buys == (t.side = "BUY")
<1>1. /\ price \in Nat \ {0}
      /\ buys => /\ panel.max_profit = {(width - price) * each}
                 /\ panel.max_loss = {-(price * each)}
                 /\ panel.cost = price * each
      /\ ~buys => /\ panel.max_profit = {price * each}
                  /\ panel.max_loss = {-((width - price) * each)}
                  /\ panel.cost = -(price * each)
  <2>1. t.side = "BUY" \/ t.side = "SELL"
    BY TicketTyped DEF Actions
  <2> QED
    BY <2>1, VerticalPanel
<1>2. /\ q \in Nat \ {0} /\ d \in Nat /\ j \in Nat \ {0} /\ k \in Nat \ {0} /\ j # k
      /\ \E u \in {1, -1}, side \in Sides :
            /\ u = IF buys = (side = "C") THEN 1 ELSE -1
            /\ Position(_expand_legs(t)) = Pair(q, u, side, d, j, k)
  BY VerticalLegs
<1>3. PICK u \in {1, -1}, side \in Sides :
         /\ u = IF buys = (side = "C") THEN 1 ELSE -1
         /\ Position(_expand_legs(t)) = Pair(q, u, side, d, j, k)
  BY <1>2
<1> DEFINE x(S) == u * (Value(side, j, S) - Value(side, k, S))
<1>4. buys \in BOOLEAN
  OBVIOUS
<1>5. Position(sent.legs) = Pair(q, u, side, d, j, k)
  BY <1>3, TicketPosition
<1> HIDE DEF sent, panel, q, j, k, d, price, buys
<1>6. ASSUME NEW S \in Nat
      PROVE  result(S) = each * x(S) - panel.cost
  <2>1. q \in Nat /\ j \in Nat /\ k \in Nat /\ d \in Nat
    BY <1>2
  <2>2. payoff_at_expiry(Pair(q, u, side, d, j, k), S)
           = (100 * q) * (u * (Value(side, j, S) - Value(side, k, S)))
    BY <2>1, PairPayoff, SMTT(60)
  <2> QED
    BY <1>5, <2>2
<1>7. ASSUME NEW S \in Nat
      PROVE  /\ x(S) \in Int
             /\ j < k /\ buys  => 0 <= x(S) /\ x(S) <= k - j
             /\ j < k /\ ~buys => j - k <= x(S) /\ x(S) <= 0
             /\ k < j /\ buys /\ S = (IF side = "C" THEN j ELSE 0)  => x(S) = k - j
             /\ k < j /\ ~buys /\ S = (IF side = "C" THEN k ELSE j) => x(S) = 0
  <2>1. j \in Nat /\ k \in Nat /\ u = IF buys = (side = "C") THEN 1 ELSE -1
    BY <1>2, <1>3
  <2> QED
    BY <1>4, <2>1, GapBounds
<1>8. each \in Nat \ {0} /\ price \in Int /\ width \in Int
      /\ width = k - j /\ -width = j - k /\ (width < 0 <=> k < j)
  BY <1>1, <1>2
<1> HIDE DEF result, x, each, width
<1>9. ASSUME j < k, NEW S \in Nat
      PROVE  /\ \A m \in panel.max_loss : m <= result(S)
             /\ \A m \in panel.max_profit : result(S) <= m
  <2>1. CASE buys
    BY <1>1, <1>6, <1>7, <1>8, <1>9, <2>1, SpreadArithmetic
  <2>2. CASE ~buys
    BY <1>1, <1>6, <1>7, <1>8, <1>9, <2>2, SpreadArithmetic
  <2> QED
    BY <2>1, <2>2
<1>10. ASSUME k < j
       PROVE  \A m \in panel.max_loss : \E S \in Nat : result(S) < m
  <2>1. CASE buys
    <3> DEFINE S == IF side = "C" THEN j ELSE 0
    <3>1. S \in Nat
      BY <1>2
    <3>2. x(S) = width /\ result(S) = each * x(S) - price * each
      BY <1>1, <1>6, <1>7, <1>8, <1>10, <2>1, <3>1
    <3> HIDE DEF S
    <3>3. result(S) < -(price * each)
      BY <1>8, <1>10, <3>2, SpreadArithmetic
    <3> QED
      BY <1>1, <2>1, <3>1, <3>3
  <2>2. CASE ~buys
    <3> DEFINE S == IF side = "C" THEN k ELSE j
    <3>1. S \in Nat
      BY <1>2
    <3>2. x(S) = 0 /\ result(S) = each * x(S) - (-(price * each))
      BY <1>1, <1>6, <1>7, <1>8, <1>10, <2>2, <3>1
    <3> HIDE DEF S
    <3>3. result(S) < -((width - price) * each)
      BY <1>8, <1>10, <3>2, SpreadArithmetic
    <3> QED
      BY <1>1, <2>2, <3>1, <3>3
  <2> QED
    BY <2>1, <2>2
<1>11. j > k <=> k < j
  BY <1>2
<1> QED
  BY <1>9, <1>10, <1>11 DEF sent, panel, result, j, k

(* An order of one sold call given as --leg, with --side left at its default *)
(* BUY, is shown the limited loss of a bought call: the panel reads the side *)
(* of the order and not of the leg.  The loss of the position is unlimited,  *)
(* and the same panel flags it a naked short (commands/order.py:565-637, 844,*)
(* output/orders.py:80-95).                                                  *)
THEOREM SoldLegShownAsBought ==
    ASSUME NEW leg \in OrderLeg, leg.action = "SELL", leg.side = "C",
           NEW f, f.legs = <<leg>>, f.side = "BUY", f.complex_strategy = "AUTO",
           f.price \in Nat, f.quantity \in Nat \ {0}
    PROVE  LET sent == _spec_from_flags(f) IN
           /\ compute_analytics(sent).max_loss = {-(f.price * (100 * f.quantity))}
           /\ \A B \in Int : \E S \in Nat : payoff_at_expiry(Position(sent.legs), S) < B
           /\ sent.is_naked_short
<1> DEFINE sent == _spec_from_flags(f)
<1> DEFINE legs == <<leg>>
<1>1. legs \in OrderLegs
  <2>1. legs \in [1 .. 1 -> OrderLeg] /\ 1 \in 1 .. MaxLegs
    BY DEF MaxLegs
  <2> QED
    BY <2>1 DEF OrderLegs
<1>2. max_loss(Position(legs)) = {}
  <2> DEFINE held == Position(legs)
  <2>1. held \in Legs
    BY <1>1, PositionLegs
  <2>2. /\ At(held, 1).side = "C" /\ At(held, 1).qty = -leg.quantity
        /\ At(held, 2) = NoLeg /\ At(held, 3) = NoLeg /\ At(held, 4) = NoLeg
    BY DEF At, Position, Signed
  <2> HIDE DEF held
  <2>3. _right_asymptote_slope(held) = -leg.quantity + 0 + 0 + 0
    BY <2>2 DEF _right_asymptote_slope, Net, Total, NoLeg
  <2>4. leg.quantity \in Nat \ {0}
    BY DEF OrderLeg
  <2>5. ~(_right_asymptote_slope(held) >= 0)
    BY <2>3, <2>4
  <2>6. max_loss(held) = {}
    BY <2>5 DEF max_loss
  <2> QED
    BY <2>6 DEF held
<1>3. sent.legs = legs
  BY DEF _spec_from_flags
<1>4. sent.is_naked_short
  <2>1. _is_naked_short_options(legs, 0)
    BY <1>1, <1>2, UnlimitedIsFlagged
  <2>2. f.legs # <<>> /\ _is_naked_short_options(f.legs, 0)
    BY <2>1
  <2> QED
    BY <2>2, Zenon DEF _spec_from_flags
<1>5. \A B \in Int : \E S \in Nat : payoff_at_expiry(Position(sent.legs), S) < B
  BY <1>1, <1>2, <1>3, PositionLegs, UnlimitedIsReal
<1>6. /\ sent.side = "BUY" /\ sent.price = f.price /\ sent.quantity = f.quantity
      /\ sent.complex_strategy = "NONE" /\ sent.option_type = "C"
  <2>1. sent.side = "BUY" /\ sent.price = f.price /\ sent.quantity = f.quantity
    BY DEF _spec_from_flags
  <2>2. sent.complex_strategy = "NONE"
    BY DEF _spec_from_flags
  <2>3. f.legs # <<>> /\ \A i \in DOMAIN f.legs : f.legs[i].side = "C"
    OBVIOUS
  <2>4. sent.option_type = "C"
    BY <2>3 DEF _spec_from_flags
  <2> QED
    BY <2>1, <2>2, <2>4
<1> HIDE DEF sent
<1>7. compute_analytics(sent).max_loss = {-(f.price * (100 * f.quantity))}
  <2>1. sent.price # NoPrice
    BY <1>6 DEF NoPrice
  <2> QED
    BY <1>6, <2>1 DEF compute_analytics, Multiplier
<1> QED
  BY <1>4, <1>5, <1>7 DEF sent

-----------------------------------------------------------------------------
(* Policy fields and templates. *)

Sources == {"chain", "account", "preview", "calendar", "dividends", "counters", "transactions"}

\* The two whose table entry names one of the two payloads they need.
Percentages == {"bp_required_pct", "bp_after_pct"}

\* The families are disjoint.
LEMMA Families ==
  ASSUME NEW f \in Fields
  PROVE  /\ f \in ChainFields => f \notin CATEGORICAL_FIELDS \cup BodyFields
         /\ f \in MarketFields => f \notin StrikeFields \cup PriceFields
         /\ f \in StrikeFields => f \notin PriceFields
         /\ f \in AccountFields => f \notin CATEGORICAL_FIELDS \cup BodyFields \cup ChainFields
         /\ f \in ImpactFields =>
               f \notin CATEGORICAL_FIELDS \cup BodyFields \cup ChainFields \cup AccountFields
         /\ f \in TemporalFields =>
               f \notin CATEGORICAL_FIELDS \cup BodyFields \cup ChainFields
                         \cup AccountFields \cup ImpactFields
         /\ f \in CounterFields =>
               f \notin CATEGORICAL_FIELDS \cup BodyFields \cup ChainFields
                         \cup AccountFields \cup ImpactFields \cup TemporalFields
         /\ f \in {"days_to_ex_div", "consecutive_losing_closes_24h"} =>
               f \notin CATEGORICAL_FIELDS \cup BodyFields \cup ChainFields \cup CounterFields
                         \cup AccountFields \cup ImpactFields \cup TemporalFields
BY DEF CATEGORICAL_FIELDS, BodyFields, ChainFields, MarketFields, StrikeFields, PriceFields,
       AccountFields, BalanceFields, PositionFields, ImpactFields, TemporalFields, CounterFields

\* The slots each family reads, beside those every context has.
SameSlots(f, a, b) ==
    /\ a.body = b.body /\ a.account_number = b.account_number
    /\ a.order_source = b.order_source /\ a.today = b.today /\ a.now = b.now
    /\ f \in ChainFields => a.chain_data = b.chain_data /\ a.quote_data = b.quote_data
    /\ f \in AccountFields => a.account_data = b.account_data
    /\ f \in ImpactFields => a.preview_data = b.preview_data
    /\ f \in CounterFields => a.counters_data = b.counters_data
    /\ f = "days_to_ex_div" => a.dividend_data = b.dividend_data
    /\ f = "consecutive_losing_closes_24h" => a.transactions_data = b.transactions_data

LEMMA GetReads ==
  ASSUME NEW f \in Fields, f \notin Percentages, NEW a, NEW b, SameSlots(f, a, b)
  PROVE  get(f, a) = get(f, b)
<1>1. CASE f \in ChainFields
  BY <1>1, Families DEF get, SameSlots, ChainFields
<1>2. CASE f \in AccountFields
  <2>1. a.account_data = b.account_data /\ a.body = b.body
    BY <1>2 DEF SameSlots
  <2>2. f \notin CATEGORICAL_FIELDS \cup BodyFields \cup ChainFields \cup ImpactFields
                  \cup TemporalFields \cup CounterFields
    BY <1>2, Families
  <2>3. f \notin {"days_to_ex_div", "consecutive_losing_closes_24h"}
    BY <1>2, Families
  <2> QED
    BY <2>1, <2>2, <2>3 DEF get, ChainFields
<1>3. CASE f \in ImpactFields
  <2>1. f = "bp_required"
    BY <1>3 DEF ImpactFields, Percentages
  <2>2. _bp_impact(f, a.preview_data, a.account_data)
           = _bp_impact(f, b.preview_data, b.account_data)
    BY <1>3, <2>1 DEF _bp_impact, SameSlots
  <2> QED
    BY <1>3, <2>2, Families DEF get, ChainFields, AccountFields
<1>4. CASE f \in CounterFields
  BY <1>4, Families DEF get, SameSlots, ChainFields, AccountFields
<1>5. CASE f \in {"days_to_ex_div", "consecutive_losing_closes_24h"}
  BY <1>5, Families DEF get, SameSlots, ChainFields, AccountFields
<1>6. CASE f \in CATEGORICAL_FIELDS \cup BodyFields
  BY <1>6, Families DEF get, SameSlots
<1>7. CASE f \in TemporalFields
  BY <1>7, Families DEF get, SameSlots, ChainFields, AccountFields
<1> QED
  BY <1>1, <1>2, <1>3, <1>4, <1>5, <1>6, <1>7 DEF Fields

(* The table of sources is the one place that decides what is fetched for a  *)
(* profile (sources.py, _build_policy_context): for every field but the two  *)
(* percentages, fetching what the table names gives the value that fetching  *)
(* everything gives, whatever else is left out.                              *)
THEOREM FetchSuffices ==
  ASSUME NEW f \in Fields, f \notin Percentages, NEW needed,
         FIELD_SOURCE[f] \in needed \cup {"none"},
         NEW body, NEW account, NEW world
  PROVE  get(f, _build_policy_context(needed, body, account, world))
            = get(f, _build_policy_context(Sources, body, account, world))
<1> DEFINE b == _build_policy_context(needed, body, account, world)
           a == _build_policy_context(Sources, body, account, world)
<1>1. f \in ChainFields => FIELD_SOURCE[f] = "chain"
  BY DEF FIELD_SOURCE
<1>2. f \in AccountFields => FIELD_SOURCE[f] = "account"
  BY Families DEF FIELD_SOURCE
<1>3. f \in CounterFields => FIELD_SOURCE[f] = "counters"
  BY Families DEF FIELD_SOURCE
<1>4. f = "days_to_ex_div" => FIELD_SOURCE[f] = "dividends"
  BY Families DEF FIELD_SOURCE
<1>5. f = "consecutive_losing_closes_24h" => FIELD_SOURCE[f] = "transactions"
  BY Families DEF FIELD_SOURCE
<1>6. SameSlots(f, b, a)
  BY <1>1, <1>2, <1>3, <1>4, <1>5 DEF SameSlots, _build_policy_context, Fetched, Sources
<1> QED
  BY <1>6, GetReads

\* A field no family has is without a value for every order.
LEMMA UnknownField ==
  ASSUME NEW f, f \notin Fields, NEW c
  PROVE  get(f, c) = {}
BY DEF get, Fields, ChainFields, AccountFields

\* Contexts that agree on the fields of a profile get its one verdict.
LEMMA SameVerdict ==
  ASSUME NEW profile, NEW a, NEW b,
         a.body = b.body, a.account_number = b.account_number, a.order_source = b.order_source,
         \A p \in Enabled(profile) : \A f \in ConditionFields(p) : get(f, a) = get(f, b)
  PROVE  approved(profile, a) = approved(profile, b)
<1>1. \A p : Applies(p, a) = Applies(p, b)
  BY DEF Applies
<1>2. ASSUME NEW p \in Enabled(profile)
      PROVE  evaluate_conditions(p.conditions, a) = evaluate_conditions(p.conditions, b)
  <2>1. ASSUME NEW condition \in p.conditions, NEW clause \in condition, NEW l \in clause
        PROVE  _walk(l, a) = _walk(l, b)
    <3>1. l.pred.field_name \in ConditionFields(p)
      BY <2>1 DEF ConditionFields
    <3> QED
      BY <1>2, <3>1 DEF _walk
  <2> QED
    BY <2>1 DEF evaluate_conditions
<1> QED
  BY <1>1, <1>2 DEF approved

LEMMA SourceOfField ==
  ASSUME NEW profile, NEW p \in Enabled(profile), NEW f \in ConditionFields(p), f \in Fields
  PROVE  FIELD_SOURCE[f] \in required_sources(referenced_fields(profile)) \cup {"none"}
BY DEF required_sources, referenced_fields

(* A verdict does not depend on what was left out: a profile without the two *)
(* percentages decides as if every source had been fetched.                  *)
THEOREM MinimalFetchDecides ==
  ASSUME NEW profile, referenced_fields(profile) \cap Percentages = {},
         NEW body, NEW account, NEW world
  PROVE  Placed(profile, body, account, world)
            = approved(profile, _build_policy_context(Sources, body, account, world))
<1> DEFINE b == _build_policy_context(required_sources(referenced_fields(profile)),
                                      body, account, world)
           a == _build_policy_context(Sources, body, account, world)
<1>1. ASSUME NEW p \in Enabled(profile), NEW f \in ConditionFields(p)
      PROVE  get(f, b) = get(f, a)
  <2>1. f \notin Percentages
    BY <1>1 DEF referenced_fields
  <2>2. CASE f \in Fields
    <3>1. FIELD_SOURCE[f] \in required_sources(referenced_fields(profile)) \cup {"none"}
      BY <1>1, <2>2, SourceOfField
    <3> QED
      BY <2>1, <2>2, <3>1, FetchSuffices
  <2>3. CASE f \notin Fields
    BY <2>3, UnknownField
  <2> QED
    BY <2>2, <2>3
<1>2. a.body = b.body /\ a.account_number = b.account_number /\ a.order_source = b.order_source
  BY DEF _build_policy_context
<1>3. approved(profile, b) = approved(profile, a)
  <2> HIDE DEF a, b
  <2> QED
    BY <1>1, <1>2, SameVerdict
<1> QED
  BY <1>3 DEF Placed

(* `profile test` (commands/profile.py) fetches nothing: it shows the verdict *)
(* of a placement for the profiles that read the order and the clock only.    *)
THEOREM TestShowsThePlacement ==
  ASSUME NEW profile,
         \A f \in referenced_fields(profile) \cap Fields :
            f \in CATEGORICAL_FIELDS \cup BodyFields \cup TemporalFields,
         NEW body, NEW account, NEW world
  PROVE  Tested(profile, body, account, world) = Placed(profile, body, account, world)
<1> DEFINE b == _build_policy_context(required_sources(referenced_fields(profile)),
                                      body, account, world)
           a == run_test(body, account, world)
<1>1. a.body = b.body /\ a.account_number = b.account_number
      /\ a.order_source = b.order_source /\ a.today = b.today /\ a.now = b.now
  BY DEF _build_policy_context, run_test
<1>2. ASSUME NEW p \in Enabled(profile), NEW f \in ConditionFields(p)
      PROVE  get(f, a) = get(f, b)
  <2>1. CASE f \in Fields
    <3>1. f \in CATEGORICAL_FIELDS \cup BodyFields \cup TemporalFields
      BY <1>2, <2>1 DEF referenced_fields
    <3>2. f \notin Percentages
      BY <3>1, <2>1, Families DEF Percentages, ImpactFields
    <3>3. SameSlots(f, a, b)
      <4> HIDE DEF a, b
      <4> QED
        BY <1>1, <2>1, <3>1, Families DEF SameSlots
    <3> QED
      BY <2>1, <3>2, <3>3, GetReads
  <2>2. CASE f \notin Fields
    BY <2>2, UnknownField
  <2> QED
    BY <2>1, <2>2
<1>3. approved(profile, a) = approved(profile, b)
  <2> HIDE DEF a, b
  <2> QED
    BY <1>1, <1>2, SameVerdict
<1> QED
  BY <1>3 DEF Placed, Tested

(* sources.py files the two percentages under the preview alone, while       *)
(* fields.py divides by the account's buying power: in a profile with no     *)
(* field of the account they never have a value, whatever Schwab answers.    *)
THEOREM PercentagesNeedTheAccount ==
  ASSUME NEW profile, referenced_fields(profile) \cap AccountFields = {},
         NEW f \in Percentages, NEW body, NEW account, NEW world
  PROVE  get(f, _build_policy_context(required_sources(referenced_fields(profile)),
                                      body, account, world)) = {}
<1> DEFINE needed == required_sources(referenced_fields(profile))
           b == _build_policy_context(needed, body, account, world)
<1>1. "account" \notin needed
  <2>1. ASSUME NEW g \in referenced_fields(profile) \cap Fields
        PROVE  FIELD_SOURCE[g] # "account"
    BY <2>1 DEF FIELD_SOURCE
  <2> QED
    BY <2>1 DEF required_sources
<1>2. b.account_data = {}
  BY <1>1 DEF _build_policy_context, Fetched
<1>3. ASSUME NEW key PROVE Balance({}, key) = {}
  BY DEF Balance
<1>4. BpTotal({}) = {}
  BY <1>3 DEF BpTotal, First
<1>5. ASSUME NEW as PROVE Percent(as, BpTotal({})) = {}
  <2>1. {y \in BpTotal({}) : ~IsZero(y)} = {}
    BY <1>4
  <2> QED
    BY <2>1 DEF Percent
<1>6. ASSUME NEW preview PROVE _bp_impact(f, preview, {}) = {}
  <2>1. CASE f = "bp_required_pct"
    BY <1>5, <2>1 DEF _bp_impact
  <2>2. CASE f = "bp_after_pct"
    BY <1>5, <2>2 DEF _bp_impact
  <2> QED
    BY <2>1, <2>2 DEF Percentages
<1>7. /\ f \in ImpactFields
      /\ f \notin CATEGORICAL_FIELDS \cup BodyFields \cup ChainFields \cup BalanceFields
  BY DEF Percentages, ImpactFields, CATEGORICAL_FIELDS, BodyFields, ChainFields, MarketFields,
         StrikeFields, PriceFields, BalanceFields
<1> HIDE DEF b
<1> QED
  BY <1>2, <1>6, <1>7 DEF get, ChainFields, b

(* The buying-power cap of the short-put template (templates.py) reads one   *)
(* of them: in a profile that has the template with a cap and no field of    *)
(* the account, no order it applies to is ever approved.                     *)
THEOREM CappedShortPutRejects ==
  ASSUME NEW profile, referenced_fields(profile) \cap AccountFields = {},
         NEW tickers, NEW delta, NEW dte, NEW iv, NEW cap, cap # None,
         _allow_short_put_open(tickers, delta, dte, iv, cap) \in profile.policies,
         NEW body, NEW account, NEW world,
         Applies(_allow_short_put_open(tickers, delta, dte, iv, cap),
                 _build_policy_context({}, body, account, world))
  PROVE  ~Placed(profile, body, account, world)
<1> DEFINE p == _allow_short_put_open(tickers, delta, dte, iv, cap)
           b == _build_policy_context(required_sources(referenced_fields(profile)),
                                      body, account, world)
           t == Term("bp_required_pct", {Op("lte", cap)})
<1>1. p.enabled /\ p.effect = "allow" /\ {t} \in p.conditions
  BY DEF _allow_short_put_open, NewPolicy, Optional, Only, number, integer
<1>2. get("bp_required_pct", b) = {}
  BY PercentagesNeedTheAccount DEF Percentages
<1>3. ~evaluate_conditions(p.conditions, b)
  <2>1. ASSUME NEW l \in t PROVE ~_walk(l, b)
    <3>1. l.pred.field_name = "bp_required_pct" /\ l.negated = FALSE
      BY <2>1 DEF Term
    <3>2. _evaluate_predicate(l.pred, get(l.pred.field_name, b)) = FALSE
      <4> HIDE DEF b
      <4> QED
        BY <1>2, <3>1 DEF _evaluate_predicate
    <3> QED
      BY <3>1, <3>2 DEF _walk
  <2>2. \E l \in t : TRUE
    BY DEF Term
  <2> HIDE DEF p, b, t
  <2> QED
    BY <1>1, <2>1, <2>2 DEF evaluate_conditions
<1>4. Applies(p, b)
  BY DEF Applies, _build_policy_context
<1>5. p \in Enabled(profile)
  BY <1>1 DEF Enabled
<1> HIDE DEF p, b
<1>6. ~approved(profile, b)
  BY <1>1, <1>3, <1>4, <1>5 DEF approved
<1> QED
  BY <1>6 DEF Placed, b

-----------------------------------------------------------------------------
\* The option an order's fields are read from is its first leg, if that is one.
LEMMA FirstOption ==
  ASSUME NEW body, 1 \in DOMAIN body.legs, DOMAIN body.legs \subseteq Nat \ {0},
         IsOption(body)
  PROVE  _first_option_symbol(body.legs) = {FirstLeg(body).instrument}
<1>1. ASSUME NEW n \in DOMAIN body.legs
      PROVE  (/\ body.legs[n].instrument.asset = "OPTION"
              /\ \A k \in 1 .. n - 1 : body.legs[k].instrument.asset # "OPTION") <=> n = 1
  <2>1. CASE n = 1
    BY <2>1 DEF IsOption, FirstLeg
  <2>2. CASE n # 1
    <3>1. 1 \in 1 .. n - 1
      BY <2>2
    <3> QED
      BY <2>2, <3>1 DEF IsOption, FirstLeg
  <2> QED
    BY <2>1, <2>2
<1> QED
  BY <1>1 DEF _first_option_symbol, FirstLeg

(* The engine judges an order by its first leg (fields.py): under profiles   *)
(* of short-put templates without a cap on buying power, an order of several *)
(* legs that begins with a short put gets the verdict of that put alone,     *)
(* whatever its other legs buy or sell.                                      *)
THEOREM FirstLegDecides ==
  ASSUME NEW profile,
         \A p \in profile.policies : \E tickers, delta, dte, iv :
            p = _allow_short_put_open(tickers, delta, dte, iv, None),
         NEW b1, 1 \in DOMAIN b1.legs, DOMAIN b1.legs \subseteq Nat \ {0}, IsOption(b1),
         NEW b2, 1 \in DOMAIN b2.legs, DOMAIN b2.legs \subseteq Nat \ {0},
         FirstLeg(b1) = FirstLeg(b2),
         NEW account, NEW world
  PROVE  Placed(profile, b1, account, world) = Placed(profile, b2, account, world)
<1> DEFINE needed == required_sources(referenced_fields(profile))
           c1 == _build_policy_context(needed, b1, account, world)
           c2 == _build_policy_context(needed, b2, account, world)
<1>1. IsOption(b2)
  BY DEF IsOption
<1>2. _first_option_symbol(b1.legs) = _first_option_symbol(b2.legs)
  BY <1>1, FirstOption
<1>3. /\ c1.body = b1 /\ c2.body = b2 /\ c1.today = c2.today
      /\ c1.chain_data = c2.chain_data /\ c1.quote_data = c2.quote_data
  BY <1>1 DEF _build_policy_context
<1>4. get("delta", c1) = get("delta", c2) /\ get("iv", c1) = get("iv", c2)
  <2>1. \A x : Contracts(b1, x) = Contracts(b2, x)
    BY <1>2 DEF Contracts
  <2>2. \A x, y : _md("delta", b1, x, y) = _md("delta", b2, x, y)
    BY <1>1, <2>1 DEF _md
  <2>3. \A x, y : _md("iv", b1, x, y) = _md("iv", b2, x, y)
    BY <1>1, <2>1 DEF _md
  <2>4. \A c : /\ get("delta", c) = _md("delta", c.body, c.chain_data, c.quote_data)
               /\ get("iv", c) = _md("iv", c.body, c.chain_data, c.quote_data)
    BY DEF get, CATEGORICAL_FIELDS, BodyFields, MarketFields
  <2> HIDE DEF c1, c2
  <2> QED
    BY <1>3, <2>2, <2>3, <2>4
<1>5. get("dte", c1) = get("dte", c2)
  <2>1. \A day : _compute("dte", b1, day) = _compute("dte", b2, day)
    BY <1>2 DEF _compute
  <2>2. \A c : get("dte", c) = _compute("dte", c.body, c.today)
    BY DEF get, CATEGORICAL_FIELDS, BodyFields
  <2> HIDE DEF c1, c2
  <2> QED
    BY <1>3, <2>1, <2>2
<1>6. ASSUME NEW p \in Enabled(profile)
      PROVE  /\ evaluate_conditions(p.conditions, c1) = evaluate_conditions(p.conditions, c2)
             /\ Applies(p, c1) = Applies(p, c2)
  <2>1. PICK tickers, delta, dte, iv : p = _allow_short_put_open(tickers, delta, dte, iv, None)
    BY <1>6 DEF Enabled
  <2>2. \A f \in ConditionFields(p) : f \in {"delta", "dte", "iv"}
    BY <2>1 DEF ConditionFields, _allow_short_put_open, NewPolicy, Optional, Only, Term, number, integer
  <2>3. ASSUME NEW condition \in p.conditions, NEW clause \in condition, NEW l \in clause
        PROVE  _walk(l, c1) = _walk(l, c2)
    <3>1. l.pred.field_name \in ConditionFields(p)
      BY <2>3 DEF ConditionFields
    <3> HIDE DEF c1, c2
    <3> QED
      BY <1>4, <1>5, <2>2, <3>1 DEF _walk
  <2>4. p.match = OptionMatch(tickers, "P")
    BY <2>1 DEF _allow_short_put_open, NewPolicy
  <2>5. Applies(p, c1) = Applies(p, c2)
    <3> DEFINE v1 == categorical_view(b1, account, "manual")
               v2 == categorical_view(b2, account, "manual")
    <3>1. \A f \in {"underlying", "asset_type", "option_side", "instruction"} : v1[f] = v2[f]
      BY <1>1 DEF categorical_view, Underlying
    <3>2. Applies(p, c1) = matches(p.match, v1) /\ Applies(p, c2) = matches(p.match, v2)
      BY DEF Applies, _build_policy_context
    <3>3. \A clause \in UNION p.match :
             /\ DOMAIN clause.fields = {"underlying", "asset_type", "option_side", "instruction"}
             /\ DOMAIN clause.negated_fields = {}
      BY <2>4 DEF OptionMatch, Match, NoField
    <3>4. ASSUME NEW all \in p.match, NEW clause \in all
          PROVE  _match_field(clause, v1) = _match_field(clause, v2)
      <4> HIDE DEF v1, v2
      <4> QED
        BY <3>1, <3>3, <3>4 DEF _match_field
    <3> HIDE DEF v1, v2
    <3>5. matches(p.match, v1) = matches(p.match, v2)
      BY <3>4 DEF matches
    <3> QED
      BY <3>2, <3>5
  <2> HIDE DEF c1, c2
  <2> QED
    BY <2>3, <2>5 DEF evaluate_conditions
<1>7. approved(profile, c1) = approved(profile, c2)
  <2> HIDE DEF c1, c2
  <2> QED
    BY <1>6 DEF approved
<1> QED
  BY <1>7 DEF Placed

-----------------------------------------------------------------------------
\* Whole minutes, rounded down.
LEMMA WholeMinutes ==
  ASSUME NEW q \in Int, NEW r \in 0 .. 59
  PROVE  /\ (60 * q + r) \div 60 = q
         /\ (60 * q - r) \div 60 = IF r = 0 THEN q ELSE q - 1
<1>1. (60 * q + r) \div 60 = q
  OBVIOUS
<1>2. CASE r = 0
  BY <1>1, <1>2
<1>3. CASE r # 0
  <2>1. 60 * q - r = 60 * (q - 1) + (60 - r) /\ 60 - r \in 0 .. 59
    BY <1>3
  <2>2. \A s \in 0 .. 59, k \in Int : (60 * k + s) \div 60 = k
    OBVIOUS
  <2>3. (60 * (q - 1) + (60 - r)) \div 60 = q - 1
    <3>1. q - 1 \in Int
      OBVIOUS
    <3> QED
      BY <2>1, <2>2, <3>1
  <2> QED
    BY <1>3, <2>1, <2>3
<1> QED
  BY <1>1, <1>2, <1>3

LEMMA MinutesAddUp ==
  ASSUME NEW t \in Int, 34200 <= t, t <= 57599
  PROVE  /\ (t - 34200) \div 60 \in 0 .. 389 /\ (57600 - t) \div 60 \in 0 .. 390
         /\ (t - 34200) \div 60 + (57600 - t) \div 60 = IF t % 60 = 0 THEN 390 ELSE 389
<1>1. PICK q \in Int, r \in 0 .. 59 : t = 60 * q + r /\ r = t % 60
  <2>1. t \div 60 \in Int /\ t % 60 \in 0 .. 59
    OBVIOUS
  <2>2. t = 60 * (t \div 60) + (t % 60)
    OBVIOUS
  <2> QED
    BY <2>1, <2>2
<1>2. (t - 34200) \div 60 = q - 570
  <2>1. t - 34200 = 60 * (q - 570) + r /\ q - 570 \in Int
    BY <1>1
  <2> QED
    BY <2>1, WholeMinutes
<1>3. (57600 - t) \div 60 = IF r = 0 THEN 960 - q ELSE 959 - q
  <2>1. 57600 - t = 60 * (960 - q) - r /\ 960 - q \in Int
    BY <1>1
  <2>2. (57600 - t) \div 60 = IF r = 0 THEN 960 - q ELSE (960 - q) - 1
    BY <2>1, WholeMinutes
  <2> QED
    BY <2>2
<1>4. q \in 570 .. 959
  BY <1>1
<1> QED
  BY <1>1, <1>2, <1>3, <1>4

Instant == [closed : BOOLEAN, weekday : 0 .. 6, time : 0 .. Clock(24, 0) - 1, clock : Int]

(* _calendar.py rounds both distances down: during the regular session the   *)
(* minutes since the open and to the close stay within 390 and add up to 390 *)
(* on a whole minute and to 389 within one, so that a condition on the last  *)
(* minute reads a 0.                                                         *)
THEOREM SessionMinutes ==
  ASSUME NEW now \in Instant, session_status(now) = "REGULAR"
  PROVE  /\ minutes_since_open(now) \in 0 .. 389 /\ minutes_to_close(now) \in 0 .. 390
         /\ minutes_since_open(now) + minutes_to_close(now)
               = IF now.time % 60 = 0 THEN 390 ELSE 389
<1>1. Clock(9, 30) = 34200 /\ Clock(16, 0) - 1 = 57599 /\ Clock(16, 0) = 57600
  BY DEF Clock
<1> DEFINE t == now.time
<1> DEFINE low == Clock(9, 30)
           high == Clock(16, 0) - 1
<1>2. t \in Int /\ 34200 <= t /\ t <= 57599
  <2>1. t \in low .. high
    BY Zenon DEF session_status
  <2>2. low = 34200 /\ high = 57599
    BY <1>1
  <2> HIDE DEF t, low, high
  <2> QED
    BY <2>1, <2>2
<1>3. /\ minutes_since_open(now) = (t - 34200) \div 60
      /\ minutes_to_close(now) = (57600 - t) \div 60
  BY <1>1 DEF minutes_since_open, minutes_to_close
<1>4. /\ (t - 34200) \div 60 \in 0 .. 389 /\ (57600 - t) \div 60 \in 0 .. 390
      /\ (t - 34200) \div 60 + (57600 - t) \div 60 = IF t % 60 = 0 THEN 390 ELSE 389
  <2> HIDE DEF t
  <2> QED
    BY <1>2, MinutesAddUp
<1>5. /\ minutes_since_open(now) \in 0 .. 389 /\ minutes_to_close(now) \in 0 .. 390
      /\ minutes_since_open(now) + minutes_to_close(now) = IF t % 60 = 0 THEN 390 ELSE 389
  <2> HIDE DEF t
  <2> QED
    BY <1>3, <1>4
<1> QED
  BY <1>5

(* Beyond one per cent of the spot a call and a put of the same strike are   *)
(* never on the same side of the money (_strike_relative, _itm_or_otm).      *)
THEOREM CallAndPutOpposite ==
  ASSUME NEW above \in Number, ~AtMost(Magnitude(above), Whole(1))
  PROVE  LET ofCall == Moneyness(above, "C")
             ofPut  == Moneyness(above, "P")
         IN  \/ {ofCall, ofPut} = {"otm", "itm"}
             \/ {ofCall, ofPut} = {"deep_otm", "deep_itm"}
<1>1. above.num # 0
  BY DEF Number, AtMost, Magnitude, Whole
<1>2. above.num > 0 \/ above.num < 0
  BY <1>1 DEF Number
<1> QED
  BY <1>2 DEF Moneyness, _itm_or_otm, Number

(* Calls already sold take none of the shares that cover the next ones       *)
(* (_covered_by_equity reads the long shares only): an order is covered      *)
(* whatever options the account holds or has sold against the same shares.   *)
THEOREM SharesCoverEveryOrder ==
  ASSUME NEW positions, NEW options, \A p \in options : p.instrument.asset = "OPTION", NEW legs
  PROVE  _covered_by_equity(positions \cup options, legs) = _covered_by_equity(positions, legs)
<1>1. (positions \cup options) \ OptionsOf(positions \cup options)
         = positions \ OptionsOf(positions)
  BY DEF OptionsOf
<1>2. \A u : SharesOf(positions \cup options, u) = SharesOf(positions, u)
  BY <1>1 DEF SharesOf
<1> QED
  BY <1>2 DEF _covered_by_equity

(* No order carries an id when it is judged (_build_body, run_replace write   *)
(* none): replace_count is 0 for it, however often an order was replaced, so *)
(* a policy that limits the replacements never does.                         *)
THEOREM ReplacementsAreNotCounted ==
  ASSUME NEW c, c.body.orderId = None
  PROVE  get("replace_count", c) \subseteq {Whole(0)}
<1>1. get("replace_count", c)
         = _counter_field("replace_count", c.body, c.account_number, c.counters_data, c.now)
  BY DEF get, CATEGORICAL_FIELDS, BodyFields, MarketFields, StrikeFields, PriceFields,
         BalanceFields, ImpactFields, TemporalFields, CounterFields
<1>2. _counter_field("replace_count", c.body, c.account_number, c.counters_data, c.now)
         = {Whole(0) : x \in c.counters_data}
  BY DEF _counter_field
<1> QED
  BY <1>1, <1>2

(* Where every trade of the last day is a purchase, every one of them counts *)
(* as a losing close (_consecutive_losing_closes_24h reads the sign of the   *)
(* cash it moved, not a realised result).                                    *)
THEOREM PurchasesCountAsLosses ==
  ASSUME NEW trades, NEW now, \A t \in Recent(trades, now) : t.netAmount < 0
  PROVE  _consecutive_losing_closes_24h({trades}, now)
            = {Whole(Cardinality(Recent(trades, now)))}
<1>1. Streak(trades, now) = Recent(trades, now)
  BY DEF Streak
<1> QED
  BY <1>1 DEF _consecutive_losing_closes_24h

-----------------------------------------------------------------------------
(* A blank line is the default (questionnaire.py), and the cap of the        *)
(* fat-finger template has one: "blank = no cap" cannot be answered, the     *)
(* policy written always limits the quantity (templates.py).                 *)
THEOREM FatFingerAlwaysCaps ==
  ASSUME NEW low, NEW high, NEW qty \in Number \cup {None}, None \notin Number
  PROVE  \E cap \in Number : Term("quantity", {Op("gt", cap)}) \in FatFingerTerms(low, high, qty)
<1>1. integer(qty, Whole(10)) \in Number
  BY DEF integer, Whole, Number
<1>2. integer(qty, Whole(10)) \in {integer(qty, Whole(10))} \ {None}
  BY <1>1
<1> QED
  BY <1>1, <1>2 DEF FatFingerTerms

(* A market order has no price: the guard looks at its quantity only, and    *)
(* lets through any price it may be filled at.                               *)
THEOREM FatFingerBlindToMarketOrders ==
  ASSUME NEW low, NEW high, NEW qty, NEW c, c.body.price = None
  PROVE  evaluate_conditions(_deny_fat_finger(low, high, qty).conditions, c)
            <=> \E cap \in {integer(qty, Whole(10))} \ {None} :
                   \E n \in get("quantity", c) : _APPLY("gt", n, cap)
<1>1. get("price_pct_of_mid", c) = {}
  <2>1. Prices(c.body) = {}
    BY DEF Prices
  <2>2. \A m : Percent({}, m) = {}
    BY DEF Percent
  <2>3. get("price_pct_of_mid", c)
           = _price_pct(AnchorOf["price_pct_of_mid"], c.body, c.chain_data, c.quote_data)
    BY DEF get, CATEGORICAL_FIELDS, BodyFields, MarketFields, StrikeFields, PriceFields
  <2> QED
    BY <2>1, <2>2, <2>3 DEF _price_pct
<1>2. ASSUME NEW ops, NEW l \in Term("price_pct_of_mid", ops) PROVE ~_walk(l, c)
  <2>1. l.pred.field_name = "price_pct_of_mid" /\ l.negated = FALSE
    BY <1>2 DEF Term
  <2>2. _evaluate_predicate(l.pred, get(l.pred.field_name, c)) = FALSE
    BY <1>1, <2>1 DEF _evaluate_predicate
  <2> QED
    BY <2>1, <2>2 DEF _walk
<1>3. ASSUME NEW cap
      PROVE  (\A l \in Term("quantity", {Op("gt", cap)}) : _walk(l, c))
                <=> \E n \in get("quantity", c) : _APPLY("gt", n, cap)
  <2> DEFINE l == [pred |-> [field_name |-> "quantity", op_values |-> {Op("gt", cap)}],
                   negated |-> FALSE]
             read == get("quantity", c)
  <2>1. Term("quantity", {Op("gt", cap)}) = {l}
    BY DEF Term
  <2>2. _walk(l, c) <=> _evaluate_predicate(l.pred, read)
    <3>1. l.negated = FALSE /\ l.pred.field_name = "quantity"
      OBVIOUS
    <3>2. _evaluate_predicate(l.pred, read) \in BOOLEAN
      BY DEF _evaluate_predicate
    <3> HIDE DEF l
    <3> QED
      BY <3>1, <3>2 DEF _walk
  <2>3. l.pred.op_values = {Op("gt", cap)}
    OBVIOUS
  <2>4. Op("gt", cap).op = "gt" /\ Op("gt", cap).expected = cap
    BY DEF Op
  <2> HIDE DEF l, read
  <2>5. _evaluate_predicate(l.pred, read) <=> \E n \in read : _APPLY("gt", n, cap)
    BY <2>3, <2>4, Zenon DEF _evaluate_predicate
  <2> QED
    BY <2>1, <2>2, <2>5 DEF read
<1>4. \A ops : Term("price_pct_of_mid", ops) # {}
  BY DEF Term
<1>5. evaluate_conditions(_deny_fat_finger(low, high, qty).conditions, c)
         <=> \E clause \in FatFingerTerms(low, high, qty) : \A l \in clause : _walk(l, c)
  BY DEF evaluate_conditions, _deny_fat_finger, NewPolicy
<1> DEFINE caps == {integer(qty, Whole(10))} \ {None}
           Limit(cap) == Term("quantity", {Op("gt", cap)})
<1>6. ASSUME NEW clause
      PROVE  clause \in FatFingerTerms(low, high, qty)
                <=> \/ clause = Term("price_pct_of_mid", {Op("lt", number(low, Whole(70)))})
                    \/ clause = Term("price_pct_of_mid", {Op("gt", number(high, Whole(130)))})
                    \/ \E cap \in caps : clause = Limit(cap)
  BY DEF FatFingerTerms
<1>7. ASSUME NEW ops PROVE ~(\A l \in Term("price_pct_of_mid", ops) : _walk(l, c))
  BY <1>2, <1>4, Zenon
<1> HIDE DEF caps, Limit
<1>8. (\E clause \in FatFingerTerms(low, high, qty) : \A l \in clause : _walk(l, c))
         <=> \E cap \in caps : \A l \in Limit(cap) : _walk(l, c)
  BY <1>6, <1>7, Zenon
<1> QED
  BY <1>3, <1>5, <1>8, Zenon DEF caps, Limit

(* A blank list of tickers is no ticker in three of the four allow templates *)
(* and in the deny one: the policy applies to no order, even where its name  *)
(* says "all" (_allow_equity_trade), and a deny of it never denies.          *)
THEOREM BlankTickersApplyToNone ==
  ASSUME NEW p,
         \/ \E side, qty : p = _allow_equity_trade({}, side, qty)
         \/ \E delta, dte, iv, cap : p = _allow_short_put_open({}, delta, dte, iv, cap)
         \/ \E dte, above : p = _allow_covered_call_open({}, dte, above)
         \/ p = _deny_underlying({}),
         NEW c
  PROVE  ~Applies(p, c)
<1> DEFINE Blank(m) == \A all \in m : \E clause \in all :
              "underlying" \in DOMAIN clause.fields /\ clause.fields["underlying"] = {}
<1>3. ASSUME NEW fields, "underlying" \in DOMAIN fields, fields["underlying"] = {}
      PROVE  Blank(Match(fields))
  <2> DEFINE it == [fields |-> fields, negated_fields |-> NoField]
  <2>1. Match(fields) = {{it}}
    BY DEF Match
  <2>2. it.fields = fields
    OBVIOUS
  <2> HIDE DEF it
  <2> QED
    BY <1>3, <2>1, <2>2
<1>1. Blank(p.match)
  <2>1. CASE \E side, qty : p = _allow_equity_trade({}, side, qty)
    <3>1. PICK side, qty : p = _allow_equity_trade({}, side, qty)
      BY <2>1
    <3>2. p.match = Match([underlying |-> {}, asset_type |-> {"EQUITY"}, instruction |-> {side}])
      BY <3>1 DEF _allow_equity_trade, NewPolicy
    <3> HIDE DEF Blank
    <3> QED
      BY <1>3, <3>2
  <2>2. ASSUME NEW side PROVE Blank(OptionMatch({}, side))
    <3> HIDE DEF Blank
    <3> QED
      BY <1>3 DEF OptionMatch
  <2>3. CASE \E delta, dte, iv, cap : p = _allow_short_put_open({}, delta, dte, iv, cap)
    <3>1. p.match = OptionMatch({}, "P")
      BY <2>3 DEF _allow_short_put_open, NewPolicy
    <3> HIDE DEF Blank
    <3> QED
      BY <2>2, <3>1
  <2>4. CASE \E dte, above : p = _allow_covered_call_open({}, dte, above)
    <3>1. p.match = OptionMatch({}, "C")
      BY <2>4 DEF _allow_covered_call_open, NewPolicy
    <3> HIDE DEF Blank
    <3> QED
      BY <2>2, <3>1
  <2>5. CASE p = _deny_underlying({})
    <3>1. p.match = Match([underlying |-> {}])
      BY <2>5 DEF _deny_underlying, NewPolicy
    <3> HIDE DEF Blank
    <3> QED
      BY <1>3, <3>1
  <2> QED
    BY <2>1, <2>3, <2>4, <2>5
<1>2. ASSUME NEW clause, "underlying" \in DOMAIN clause.fields, clause.fields["underlying"] = {},
             NEW cats
      PROVE  ~_match_field(clause, cats)
  BY <1>2 DEF _match_field
<1> QED
  BY <1>1, <1>2 DEF Applies, matches

-----------------------------------------------------------------------------
\* What a row taken out and put back leaves of a list.
LEMMA OutAndIn ==
  ASSUME NEW S, NEW p \in Seq(S), NEW i \in 1 .. Len(p)
  PROVE  /\ RemoveAt(p, i) \in Seq(S) /\ Len(RemoveAt(p, i)) = Len(p) - 1
         /\ InsertAt(RemoveAt(p, i), i, p[i]) = p
<1> DEFINE n == Len(p)
           head == SubSeq(p, 1, i - 1)
           tail == SubSeq(p, i + 1, n)
           left == RemoveAt(p, i)
           low  == SubSeq(left, 1, i - 1)
           high == SubSeq(left, i, Len(left))
<1>1. /\ head \in Seq(S) /\ Len(head) = i - 1 /\ \A k \in 1 .. i - 1 : head[k] = p[k]
      /\ tail \in Seq(S) /\ Len(tail) = n - i /\ \A k \in 1 .. n - i : tail[k] = p[i + k]
  <2>1. \A k \in 1 .. i - 1 : p[k] \in S
    OBVIOUS
  <2>2. \A k \in i + 1 .. n : p[k] \in S
    OBVIOUS
  <2>3. /\ head \in Seq(S) /\ Len(head) = i - 1 /\ \A k \in 1 .. i - 1 : head[k] = p[k]
    OBVIOUS
  <2>4. /\ tail \in Seq(S) /\ Len(tail) = n - i /\ \A k \in 1 .. n - i : tail[k] = p[i + k]
    OBVIOUS
  <2> QED
    BY <2>3, <2>4
<1>2. left = head \o tail
  BY DEF RemoveAt
<1> HIDE DEF head, tail, left
<1>3. /\ left \in Seq(S) /\ Len(left) = n - 1
      /\ \A k \in 1 .. i - 1 : left[k] = p[k]
      /\ \A k \in i .. n - 1 : left[k] = p[k + 1]
  <2>1. left \in Seq(S) /\ Len(left) = (i - 1) + (n - i)
    <3>1. left \in Seq(S) /\ Len(left) = Len(head) + Len(tail)
      <4> HIDE DEF n
      <4> QED
        BY <1>1, <1>2, ConcatProperties, Zenon
    <3> QED
      BY <1>1, <3>1
  <2>2. n \in Nat /\ i \in 1 .. n /\ (i - 1) + (n - i) = n - 1
    OBVIOUS
  <2> HIDE DEF n
  <2>3. \A k \in 1 .. n - 1 : left[k] = IF k <= i - 1 THEN head[k] ELSE tail[k - (i - 1)]
    BY <1>1, <1>2, <2>2
  <2>4. ASSUME NEW k \in i .. n - 1 PROVE left[k] = p[k + 1]
    <3>1. left[k] = tail[k - (i - 1)]
      BY <2>2, <2>3
    <3>2. k - (i - 1) \in 1 .. n - i /\ i + (k - (i - 1)) = k + 1
      BY <2>2
    <3> QED
      BY <1>1, <3>1, <3>2
  <2>5. \A k \in 1 .. i - 1 : left[k] = p[k]
    BY <1>1, <2>2, <2>3
  <2> QED
    BY <2>1, <2>2, <2>4, <2>5
<1>4. /\ low \in Seq(S) /\ Len(low) = i - 1 /\ \A k \in 1 .. i - 1 : low[k] = p[k]
      /\ high \in Seq(S) /\ Len(high) = n - i /\ \A k \in 1 .. n - i : high[k] = p[i + k]
  <2>1. /\ low \in Seq(S) /\ Len(low) = i - 1 /\ \A k \in 1 .. i - 1 : low[k] = left[k]
    BY <1>3
  <2>2. /\ high \in Seq(S) /\ Len(high) = n - i
        /\ \A k \in 1 .. n - i : high[k] = left[i + k - 1]
    BY <1>3
  <2> QED
    BY <1>3, <2>1, <2>2
<1>5. InsertAt(left, i, p[i]) = (low \o <<p[i]>>) \o high
  BY DEF InsertAt
<1> HIDE DEF low, high
<1> DEFINE front == low \o <<p[i]>>
<1>6. front \in Seq(S) /\ Len(front) = i /\ \A k \in 1 .. i : front[k] = p[k]
  BY <1>4
<1> HIDE DEF front
<1>7. front \o high \in Seq(S) /\ Len(front \o high) = n
      /\ \A k \in 1 .. n : (front \o high)[k] = p[k]
  <2>1. \A k \in 1 .. n : (front \o high)[k] = IF k <= i THEN front[k] ELSE high[k - i]
    BY <1>4, <1>6
  <2>2. front \o high \in Seq(S) /\ Len(front \o high) = n
    BY <1>4, <1>6, ConcatProperties
  <2>3. ASSUME NEW k \in 1 .. n, k <= i  PROVE (front \o high)[k] = p[k]
    BY <1>6, <2>1, <2>3
  <2>4. ASSUME NEW k \in 1 .. n, ~ (k <= i)  PROVE (front \o high)[k] = p[k]
    <3>1. i \in Int /\ n \in Int /\ k \in Int
      OBVIOUS
    <3>2. k - i \in 1 .. n - i /\ i + (k - i) = k
      BY <2>4, <3>1
    <3>3. high[k - i] = p[i + (k - i)]
      BY <1>4, <3>2
    <3> QED BY <2>1, <2>4, <3>2, <3>3
  <2> QED
    BY <2>2, <2>3, <2>4
<1>8. front \o high = p
  BY <1>7, SeqEqual
<1> QED
  BY <1>3, <1>5, <1>8 DEF left, front

\* The entry pushed last is the one popped first.
LEMMA LastAppended ==
  ASSUME NEW T, NEW q \in Seq(T), NEW e \in T
  PROVE  /\ Append(q, e) # <<>> /\ Append(q, e)[Len(Append(q, e))] = e
         /\ SubSeq(Append(q, e), 1, Len(Append(q, e)) - 1) = q
<1>1. /\ Append(q, e) \in Seq(T) /\ Append(q, e) # <<>>
      /\ Len(Append(q, e)) = Len(q) + 1 /\ Append(q, e)[Len(q) + 1] = e
      /\ \A k \in 1 .. Len(q) : Append(q, e)[k] = q[k]
  BY AppendProperties
<1> DEFINE r == SubSeq(Append(q, e), 1, Len(q))
<1>2. r \in Seq(T) /\ Len(r) = Len(q) /\ \A k \in 1 .. Len(q) : r[k] = q[k]
  BY <1>1
<1>3. r = q
  <2> HIDE DEF r
  <2> QED
    BY <1>2, SeqEqual
<1>4. Len(Append(q, e)) - 1 = Len(q)
  BY <1>1
<1> QED
  BY <1>1, <1>3, <1>4

EditorState(S) ==
    [policies : Seq(S), cursor : Nat, dirty : BOOLEAN,
     undo_stack : Seq([policy : S, original_index : Nat])]

(* Undo gives back what the last delete took (delete_at_cursor,              *)
(* undo_delete): the list, the cursor and the deletions before it are those  *)
(* of before, even where the last row was deleted and the cursor had to move *)
(* up; only the mark of a change stays.                                      *)
THEOREM UndoRestores ==
  ASSUME NEW S, NEW s \in EditorState(S), s.cursor \in Rows(s)
  PROVE  LET t == undo_delete(delete_at_cursor(s))
         IN  /\ t.policies = s.policies /\ t.cursor = s.cursor
             /\ t.undo_stack = s.undo_stack /\ t.dirty
<1> DEFINE p == s.policies
           c == s.cursor
           left == RemoveAt(p, c + 1)
           entry == [policy |-> p[c + 1], original_index |-> c]
           d == delete_at_cursor(s)
<1>1. /\ p \in Seq(S) /\ c + 1 \in 1 .. Len(p) /\ c \in Nat
      /\ s.undo_stack \in Seq([policy : S, original_index : Nat])
  BY DEF EditorState, Rows
<1>2. left \in Seq(S) /\ Len(left) = Len(p) - 1 /\ InsertAt(left, c + 1, p[c + 1]) = p
  <2> HIDE DEF p, c
  <2> QED
    BY <1>1, OutAndIn
<1>3. p # <<>>
  BY <1>1
<1>4. /\ d.policies = left /\ d.dirty = TRUE
      /\ d.undo_stack = Append(s.undo_stack, entry)
  BY <1>3 DEF delete_at_cursor
<1>5. /\ d.undo_stack # <<>> /\ d.undo_stack[Len(d.undo_stack)] = entry
      /\ SubSeq(d.undo_stack, 1, Len(d.undo_stack) - 1) = s.undo_stack
  <2>1. entry \in [policy : S, original_index : Nat]
    BY <1>1
  <2>2. s.undo_stack \in Seq([policy : S, original_index : Nat])
    BY <1>1
  <2> HIDE DEF d, entry
  <2> QED
    BY <1>4, <2>1, <2>2, LastAppended
<1>6. d \in [policies : {d.policies}, cursor : {d.cursor}, undo_stack : {d.undo_stack},
             dirty : {d.dirty}]
  BY <1>3 DEF delete_at_cursor
<1>7. entry.original_index = c /\ entry.policy = p[c + 1]
  OBVIOUS
<1> HIDE DEF d, entry
<1>8. (IF c < Len(left) THEN c ELSE Len(left)) = c
  <2> HIDE DEF left, p, c
  <2> QED
    BY <1>1, <1>2
<1>9. undo_delete(d)
         = [policies |-> InsertAt(left, c + 1, p[c + 1]), cursor |-> c,
            undo_stack |-> s.undo_stack, dirty |-> TRUE]
  <2>1. undo_delete(d) = [Inserted(d, c, p[c + 1]) EXCEPT
                             !.undo_stack = SubSeq(@, 1, Len(@) - 1)]
    <3> HIDE DEF left, p, c
    <3> QED
      BY <1>4, <1>5, <1>7, <1>8 DEF undo_delete
  <2> HIDE DEF left, p, c
  <2> QED
    BY <1>4, <1>5, <1>6, <2>1 DEF Inserted
<1> HIDE DEF left
<1> QED
  BY <1>2, <1>9 DEF d

(* Two fat-finger policies have one name, and neither the editor nor the     *)
(* save looks at names: the profile is written, the editor is clean, and     *)
(* schema.py refuses the file.                                               *)
THEOREM DuplicateFatFingersUnloadable ==
  ASSUME NEW s, NEW i \in DOMAIN s.policies, NEW j \in DOMAIN s.policies, i # j,
         NEW a, NEW b, s.policies[i] = _deny_fat_finger(a[1], a[2], a[3]),
         s.policies[j] = _deny_fat_finger(b[1], b[2], b[3]),
         s \in [policies : {s.policies}, cursor : {s.cursor}, undo_stack : {s.undo_stack},
                dirty : {s.dirty}]
  PROVE  /\ ~parse_profile(s.policies)
         /\ atomic_save(s, FALSE).policies = s.policies /\ ~atomic_save(s, FALSE).dirty
<1>1. s.policies[i].name = s.policies[j].name
  BY DEF _deny_fat_finger, NewPolicy
<1> QED
  BY <1>1 DEF parse_profile, atomic_save, mark_saved
=============================================================================

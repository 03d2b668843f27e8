------------------------ MODULE OrderPlacementProofs ------------------------
(***************************************************************************)
(* Theorems about OrderPolicy, for every profile, order and environment,   *)
(* and about OrderPlacement, for every finite set of calls, any keys,      *)
(* shapes and profiles, any number of retries, edits, crashes and days.    *)
(***************************************************************************)
EXTENDS OrderPlacement, FiniteSetTheorems, TLAPS

-----------------------------------------------------------------------------
(* The phases of evaluate(), run in order, decide what a profile promises   *)
(* (decision.py:64-163): approval is exactly Permits.                        *)
THEOREM DecisionIsPermits ==
    ASSUME NEW prof \in Profile, NEW shape \in Shapes, NEW env \in Environment
    PROVE  Approved(prof, shape, env) <=> Permits(prof, shape, env)
<1> DEFINE allows == Matched(prof, shape, "allow")
           denies == Matched(prof, shape, "deny")
           Denied == \E p \in denies : Satisfied(p, env)
           Failed == \E p \in allows : ~Satisfied(p, env)
<1>1. Approved(prof, shape, env)
      <=> ~Denied /\ ~Failed /\ (allows # {} \/ prof.default_action = "allow")
  BY SMT DEF Approved, Phase
<1>2. \A p \in prof.policies : p.effect = "allow" \/ p.effect = "deny"
  BY DEF Profile, Policy
<1>3. (~Denied /\ ~Failed)
      <=> \A p \in prof.policies :
             (p.enabled /\ shape \in p.match) => (Satisfied(p, env) <=> p.effect = "allow")
  BY <1>2 DEF Matched
<1>4. allows # {}
      <=> \E p \in prof.policies : p.enabled /\ shape \in p.match /\ p.effect = "allow"
  BY DEF Matched
<1> QED
  BY <1>1, <1>3, <1>4 DEF Permits

-----------------------------------------------------------------------------
(* An environment in which some sources of another could not be read.       *)
Loses(env, full) == \A f \in Fields : env[f] # Unknown => full[f] = env[f]

(* The literals of the policies with an effect are all, or none, negated.   *)
AllNegated(prof, effect, negated) ==
    \A p \in prof.policies : p.effect = effect =>
        \A condition \in p.conditions : \A clause \in condition :
            \A l \in clause : l.negated = negated

\* A predicate that could be evaluated keeps its value (conditions.py:117-161).
LEMMA KnownPredicate ==
    ASSUME NEW env \in Environment, NEW full \in Environment, Loses(env, full),
           NEW l \in Literal, Predicate(l, env)
    PROVE  Predicate(l, full)
<1>1. l.field \in Fields
  BY DEF Literal
<1>2. env[l.field] # Unknown /\ full[l.field] = env[l.field]
  BY <1>1 DEF Predicate, Loses
<1> QED
  BY <1>2 DEF Predicate

\* So does a policy without `not`: what it is satisfied by stays.
LEMMA SatisfiedStays ==
    ASSUME NEW env \in Environment, NEW full \in Environment, Loses(env, full),
           NEW p \in Policy, Satisfied(p, env),
           \A condition \in p.conditions : \A clause \in condition :
               \A l \in clause : l.negated = FALSE
    PROVE  Satisfied(p, full)
<1> SUFFICES ASSUME NEW condition \in p.conditions
             PROVE  \E clause \in condition : \A l \in clause : Holds(l, full)
  BY DEF Satisfied
<1>1. PICK clause \in condition : \A l \in clause : Holds(l, env)
  BY DEF Satisfied
<1>2. ASSUME NEW l \in clause PROVE Holds(l, full)
  <2>1. l \in Literal
    BY DEF Policy
  <2>2. l.negated = FALSE
    OBVIOUS
  <2>3. Predicate(l, env)
    BY <1>1, <2>2 DEF Holds, Predicate
  <2>4. Predicate(l, full)
    BY <2>1, <2>3, KnownPredicate
  <2> QED
    BY <2>2, <2>4 DEF Holds
<1> QED
  BY <1>2

\* And a policy of negated predicates: what does not satisfy it stays so.
LEMMA UnsatisfiedStays ==
    ASSUME NEW env \in Environment, NEW full \in Environment, Loses(env, full),
           NEW p \in Policy, Satisfied(p, full),
           \A condition \in p.conditions : \A clause \in condition :
               \A l \in clause : l.negated = TRUE
    PROVE  Satisfied(p, env)
<1> SUFFICES ASSUME NEW condition \in p.conditions
             PROVE  \E clause \in condition : \A l \in clause : Holds(l, env)
  BY DEF Satisfied
<1>1. PICK clause \in condition : \A l \in clause : Holds(l, full)
  BY DEF Satisfied
<1>2. ASSUME NEW l \in clause PROVE Holds(l, env)
  <2>1. l \in Literal
    BY DEF Policy
  <2>2. l.negated = TRUE
    OBVIOUS
  <2>3. ~Predicate(l, full)
    BY <1>1, <2>2 DEF Holds, Predicate
  <2>4. ~Predicate(l, env)
    BY <2>1, <2>3, KnownPredicate
  <2> QED
    BY <2>2, <2>4 DEF Holds, Predicate
<1> QED
  BY <1>2

(* Losing a data source never approves an order (fields that cannot be      *)
(* evaluated fail their predicate, conditions.py:7-9 and 127-138), provided  *)
(* allow policies use no `not` and deny policies only negated predicates.    *)
THEOREM LostSourceOnlyRejects ==
    ASSUME NEW prof \in Profile, NEW shape \in Shapes,
           NEW env \in Environment, NEW full \in Environment, Loses(env, full),
           AllNegated(prof, "allow", FALSE), AllNegated(prof, "deny", TRUE),
           Approved(prof, shape, env)
    PROVE  Approved(prof, shape, full)
<1>1. Permits(prof, shape, env)
  BY DecisionIsPermits
<1>2. ASSUME NEW p \in prof.policies, p.enabled, shape \in p.match
      PROVE  Satisfied(p, full) <=> p.effect = "allow"
  <2>1. p \in Policy
    BY DEF Profile
  <2>2. Satisfied(p, env) <=> p.effect = "allow"
    BY <1>1, <1>2 DEF Permits
  <2>3. CASE p.effect = "allow"
    BY <2>1, <2>2, <2>3, SatisfiedStays DEF AllNegated
  <2>4. CASE p.effect # "allow"
    <3>1. p.effect = "deny"
      BY <2>1, <2>4 DEF Policy
    <3>2. Satisfied(p, full) => Satisfied(p, env)
      BY <2>1, <3>1, UnsatisfiedStays DEF AllNegated
    <3> QED
      BY <2>2, <2>4, <3>2
  <2> QED
    BY <2>3, <2>4
<1>3. Permits(prof, shape, full)
  BY <1>1, <1>2 DEF Permits
<1> QED
  BY <1>3, DecisionIsPermits

-----------------------------------------------------------------------------
(* The inductive invariant, a conjunct per property that needs it, most of   *)
(* it a statement about one call.                                            *)

Early     == {"idle", "load", "judge", "confirm", "send"}
Counting  == {"count", "counting", "reply"}
Committed == {"confirm", "send", "wait", "verify", "cancel"} \cup Counting

Remembered == [held : SUBSET (Profiles \cup {Missing}), chance : BOOLEAN, done : BOOLEAN]

GhostsOK ==
    /\ recorded \in SUBSET (Calls \X Nat) /\ IsFiniteSet(recorded)
    /\ answered \in SUBSET (Calls \X Nat)
    /\ hist \in [Calls -> Remembered]

\* A request is only on its way before an order of the call is in the book.
OneOrder(c) ==
    /\ call[c].pc \in Early => wire[c] = "none" /\ book[c] = <<>>
    /\ wire[c] = "sent" => book[c] = <<>>
    /\ Len(book[c]) <= 1
    /\ At(c, "wait") /\ wire[c] = "accepted" =>
          book[c] # <<>> \/ call[c].mode \in {"cancel", "rest_cancel"}
    /\ call[c].pc \in Counting => book[c] # <<>>
    /\ call[c].answer # None => At(c, "ended")
    /\ call[c].note # None => At(c, "ended")
    /\ call[c].targets \subseteq Orders

\* While the rollback runs, what works of the call's own is yet to be cancelled,
\* or its cancel has failed, or it came after the listing.
Left(c, i) == book[c][i].status = "working" /\ ~book[c][i].late

RolledBack(c) ==
    /\ At(c, "cancel") => \A i \in DOMAIN book[c] :
                              Left(c, i) => call[c].failed \/ <<c, i>> \in call[c].targets
    /\ call[c].note \in {"no_match", "cancelled"} => \A i \in DOMAIN book[c] : ~Left(c, i)

\* The history has seen each chance there was; past the gates there was one.
Allowed(c) == /\ call[c].mode # "preview"
              /\ hist[c].chance \/ call[c].mode = "override"

Judged(c) ==
    /\ At(c, "judge") => call[c].profile \in hist[c].held \cup {Missing}
    /\ Deciding(c) => (Chance(c, hist[c].held, RecordedToday) => hist[c].chance)
    /\ (call[c].pc \in Committed \/ wire[c] # "none") /\ ~Amends(c) => Allowed(c)

Covered(c) == \A i \in DOMAIN book[c] :
                  Allowed(book[c][i].of) /\ ~At(book[c][i].of, "idle")

\* A request over REST goes on only approved, and was not answered before.
NoRetry(c) ==
    /\ call[c].pc \in Committed /\ Rest(c) => call[c].approved
    /\ Rest(c) \/ At(c, "idle") => ~hist[c].done

\* Who holds the lock has read what the file still holds.
On(date) == {r \in recorded : r[2] = date}

Counted(c) ==
    /\ At(c, "counting") =>
          /\ counters.date <= call[c].read.date /\ call[c].read.date <= Today
          /\ call[c].read.total = Cardinality(On(call[c].read.date))
    /\ (\E r \in recorded : r[1] = c) => call[c].pc \in {"reply", "ended", "killed"}

CallInv(c) == /\ OneOrder(c) /\ RolledBack(c) /\ Judged(c) /\ Covered(c)
              /\ NoRetry(c) /\ Counted(c)

CountersInv == CountsAllRecords /\ counters.date <= Today

\* The cache names orders in the book, and still has each answer of the day.
CacheInv ==
    /\ \A key \in Keys : idem[key] # None =>
          KeyOf[idem[key].order] = key /\ book[idem[key].order] # <<>>
    /\ \A a \in answered :
          /\ call[a[1]].pc \in {"ended", "killed"}
          /\ Rest(a[1]) /\ KeyOf[a[1]] # NoKey /\ now - a[2] < DayTicks =>
                idem[KeyOf[a[1]]] # None /\ a[2] <= idem[KeyOf[a[1]]].at

IInv == /\ TypeOK /\ GhostsOK
        /\ \A c \in Calls : CallInv(c)
        /\ CountersInv /\ CacheInv

-----------------------------------------------------------------------------
(* The clock, the records and the moves of one call.                         *)

LEMMA DayMonotone ==
  ASSUME NEW t \in Nat, NEW u \in Nat, t <= u
  PROVE  t \div DayTicks \in Nat /\ u \div DayTicks \in Nat /\ t \div DayTicks <= u \div DayTicks
<1> DEFINE p == t \div DayTicks
           q == u \div DayTicks
<1>0. DayTicks \in Nat /\ DayTicks > 0
  BY BoundsAssumption
<1>1. p \in Nat /\ q \in Nat
  BY <1>0
<1>2. DayTicks * p <= t /\ u < DayTicks * q + DayTicks
  BY <1>0, SMTT(30)
<1> HIDE DEF p, q
<1>3. ASSUME q < p PROVE FALSE
  <2>1. q + 1 <= p
    BY <1>1, <1>3
  <2>2. DayTicks * (q + 1) <= DayTicks * p
    BY <1>0, <1>1, <2>1, SMTT(30)
  <2> QED BY <1>0, <1>1, <1>2, <2>2, SMTT(30)
<1>4. p <= q
  BY <1>1, <1>3
<1> QED BY <1>1, <1>4 DEF p, q

LEMMA TodayNat ==
  ASSUME TypeOK PROVE Today \in Nat
<1>1. now \in Nat
  BY BoundsAssumption DEF TypeOK
<1>2. now <= now
  BY <1>1
<1> QED BY <1>1, <1>2, DayMonotone DEF Today

Modes == {None} \cup Placing \cup Amending

LEMMA FreshTyped ==
  ASSUME NEW m \in Modes
  PROVE  /\ Fresh(m) \in Locals
         /\ \A pc \in {"idle", "ended", "killed"} \cup Active :
               [Fresh(m) EXCEPT !.pc = pc] \in Locals
<1>1. 0 \in 0..MaxTries - 1
  BY BoundsAssumption
<1>2. Fresh(m) \in Locals
  BY <1>1 DEF Fresh, Locals, Modes
<1>3. PICK f : f = Fresh(m)
  OBVIOUS
<1>4. \A pc \in {"idle", "ended", "killed"} \cup Active : [f EXCEPT !.pc = pc] \in Locals
  BY <1>2, <1>3 DEF Locals
<1> QED BY <1>2, <1>3, <1>4

\* Only call c moves, to the locals r.
Moves(c) == /\ call' \in [Calls -> Locals]
            /\ \A d \in Calls \ {c} : call'[d] = call[d]

LEMMA GoMoves ==
  ASSUME TypeOK, NEW c \in Calls, NEW pc \in Active, Go(c, pc)
  PROVE  /\ Moves(c)
         /\ call'[c].pc = pc /\ call'[c].mode = call[c].mode
         /\ call'[c].approved = call[c].approved /\ call'[c].targets = call[c].targets
         /\ call'[c].answer = None /\ call'[c].note = None /\ call'[c].failed = FALSE
<1> DEFINE r == [Fresh(call[c].mode) EXCEPT
                   !.pc = pc, !.approved = call[c].approved, !.targets = call[c].targets]
<1>1. call \in [Calls -> Locals] /\ call[c] \in Locals
  BY DEF TypeOK
<1>2. r \in Locals
  <2>1. PICK f : f = Fresh(call[c].mode)
    OBVIOUS
  <2>2. f \in Locals
    BY <1>1, <2>1, FreshTyped DEF Locals, Modes
  <2> QED BY <1>1, <2>1, <2>2 DEF Locals
<1>3. call' = [call EXCEPT ![c] = r]
  BY DEF Go
<1>4. /\ r.pc = pc /\ r.mode = call[c].mode /\ r.approved = call[c].approved
      /\ r.targets = call[c].targets /\ r.answer = None /\ r.note = None /\ r.failed = FALSE
  BY DEF Fresh
<1> HIDE DEF r
<1>5. call'[c] = r
  BY <1>1, <1>3
<1> QED BY <1>1, <1>2, <1>3, <1>4, <1>5 DEF Moves

\* What an amendment asked for is among its call's targets.
LEMMA AskedIsTarget ==
  ASSUME NEW c \in Calls
  PROVE  Asked(c) \subseteq call[c].targets
BY DEF Asked

LEMMA EndMoves ==
  ASSUME TypeOK, NEW c \in Calls, NEW a \in {None, "not_placed"} \cup Calls,
         NEW n \in {None, "unverified", "no_match", "cancelled", "not_cancelled", "withdrawn"},
         End(c, a, n)
  PROVE  /\ Moves(c)
         /\ call'[c].pc = "ended" /\ call'[c].mode = call[c].mode
         /\ call'[c].targets \subseteq call[c].targets
         /\ call'[c].answer = a /\ call'[c].note = n
<1> DEFINE r == [Fresh(call[c].mode) EXCEPT
                   !.pc = "ended", !.answer = a, !.note = n, !.targets = Asked(c)]
<1>1. call \in [Calls -> Locals] /\ call[c] \in Locals
  BY DEF TypeOK
<1>2. r \in Locals
  <2>1. PICK f : f = Fresh(call[c].mode)
    OBVIOUS
  <2>2. f \in Locals
    BY <1>1, <2>1, FreshTyped DEF Locals, Modes
  <2>3. PICK t : t = Asked(c)
    OBVIOUS
  <2>4. t \in SUBSET (Calls \X Nat)
    <3>1. call[c].targets \in SUBSET (Calls \X Nat)
      BY <1>1 DEF Locals
    <3>2. t \subseteq call[c].targets
      BY <2>3 DEF Asked
    <3> QED BY <3>1, <3>2
  <2>5. r = [f EXCEPT !.pc = "ended", !.answer = a, !.note = n, !.targets = t]
    BY <2>1, <2>3
  <2> HIDE DEF r
  <2> QED BY <2>2, <2>4, <2>5 DEF Locals
<1>3. call' = [call EXCEPT ![c] = r]
  BY DEF End
<1>4. r.pc = "ended" /\ r.mode = call[c].mode /\ r.targets = Asked(c) /\ r.answer = a /\ r.note = n
  BY DEF Fresh
<1> HIDE DEF r
<1>5. call'[c] = r
  BY <1>1, <1>3
<1> QED BY <1>1, <1>2, <1>3, <1>4, <1>5, AskedIsTarget DEF Moves

-----------------------------------------------------------------------------
(* The history.                                                              *)

\* The history of c after a step keeps what it had and has seen what there was.
Tracked(c) ==
    /\ hist'[c] \in Remembered
    /\ hist[c].chance => hist'[c].chance
    /\ ~At(c, "idle") => hist'[c].done = hist[c].done
    /\ ~Deciding(c)' => hist'[c].done = hist[c].done
    /\ Deciding(c)' /\ ~At(c, "idle") => hist[c].held \subseteq hist'[c].held
    /\ Deciding(c)' => (Chance(c, hist'[c].held, RecordedToday') => hist'[c].chance)

LEMMA HistoryTracks ==
  ASSUME TypeOK, GhostsOK, History, profile' \in Profiles \cup {Missing}
  PROVE  /\ hist' \in [Calls -> Remembered]
         /\ \A c \in Calls : /\ Tracked(c)
                             /\ Deciding(c)' => profile' \in hist'[c].held
                             /\ At(c, "idle") /\ Deciding(c)' => hist'[c].done = Done(c)
<1> DEFINE held(c) == hist[c].held \cup {profile'}
           new(c) == [held   |-> IF Deciding(c)' THEN held(c) ELSE {},
                      chance |-> hist[c].chance
                                 \/ (Deciding(c)' /\ Chance(c, held(c), RecordedToday')),
                      done   |-> IF At(c, "idle") THEN Done(c) ELSE hist[c].done]
<1>1. hist' = [c \in Calls |-> IF ~Deciding(c) /\ ~Deciding(c)' THEN hist[c] ELSE new(c)]
  BY DEF History
<1>2. ASSUME NEW c \in Calls
      PROVE  /\ hist'[c] \in Remembered /\ Tracked(c)
             /\ Deciding(c)' => profile' \in hist'[c].held
             /\ At(c, "idle") /\ Deciding(c)' => hist'[c].done = Done(c)
  <2>1. hist[c] \in Remembered
    BY DEF GhostsOK
  <2>2. CASE ~Deciding(c) /\ ~Deciding(c)'
    <3>1. hist'[c] = hist[c]
      BY <1>1, <2>2
    <3> QED BY <2>1, <2>2, <3>1 DEF Tracked
  <2>3. CASE Deciding(c) \/ Deciding(c)'
    <3>1. hist'[c] = new(c)
      BY <1>1, <2>3
    <3>2. Chance(c, held(c), RecordedToday') \in BOOLEAN /\ Done(c) \in BOOLEAN
      BY DEF Chance, Done
    <3>3. At(c, "idle") => ~Deciding(c)
      BY DEF At, Deciding
    <3>4. /\ hist'[c].held = (IF Deciding(c)' THEN held(c) ELSE {})
          /\ hist'[c].chance = (hist[c].chance
                                 \/ (Deciding(c)' /\ Chance(c, held(c), RecordedToday')))
          /\ hist'[c].done = (IF At(c, "idle") THEN Done(c) ELSE hist[c].done)
      BY <3>1
    <3>5. hist'[c] \in Remembered
      BY <2>1, <3>1, <3>2 DEF Remembered
    <3>6. Deciding(c)' => hist'[c].held = held(c)
      BY <3>4
    <3>7. Deciding(c)' => (Chance(c, hist'[c].held, RecordedToday') => hist'[c].chance)
      BY <3>4, <3>6
    <3>8. ~Deciding(c)' => ~At(c, "idle")
      BY <2>3, <3>3
    <3> QED BY <2>3, <3>3, <3>4, <3>5, <3>6, <3>7, <3>8 DEF Tracked
  <2> QED BY <2>2, <2>3
<1> QED BY <1>1, <1>2

LEMMA QuietTracks ==
  ASSUME IInv, UNCHANGED <<hist, recorded, now>>,
         \A c \in Calls : Deciding(c)' => Deciding(c)
  PROVE  hist' \in [Calls -> Remembered] /\ \A c \in Calls : Tracked(c)
<1>1. hist \in [Calls -> Remembered] /\ RecordedToday' = RecordedToday
  BY DEF IInv, GhostsOK, RecordedToday, Today
<1>2. ASSUME NEW c \in Calls PROVE Tracked(c)
  <2>1. Deciding(c) => (Chance(c, hist[c].held, RecordedToday) => hist[c].chance)
    BY DEF IInv, CallInv, Judged
  <2> QED BY <1>1, <1>2, <2>1 DEF Tracked
<1> QED BY <1>1, <1>2

-----------------------------------------------------------------------------
(* A step of call c that neither writes a record, nor answers from the       *)
(* cache, nor changes the book: what is left is to look at c itself.         *)

Entry == [status : {"working", "filled", "canceled", "withdrawn", "replaced"},
          late : BOOLEAN, of : Calls]

LEMMA EntryTyped ==
  ASSUME TypeOK, NEW d \in Calls
  PROVE  /\ book[d] \in Seq(Entry) /\ Len(book[d]) \in Nat
         /\ DOMAIN book[d] = 1..Len(book[d])
         /\ \A i \in DOMAIN book[d] : i \in Nat /\ book[d][i] \in Entry /\ book[d][i].of \in Calls
<1>1. book[d] \in Seq(Entry)
  BY DEF TypeOK, Entry
<1>2. Len(book[d]) \in Nat /\ DOMAIN book[d] = 1..Len(book[d])
  BY <1>1
<1>3. \A i \in DOMAIN book[d] : i \in Nat /\ book[d][i] \in Entry
  BY <1>1, <1>2
<1> QED BY <1>1, <1>2, <1>3 DEF Entry

LEMMA CoveredKept ==
  ASSUME IInv, book' = book,
         \A e \in Calls : Tracked(e),
         \A e \in Calls : ~At(e, "idle") => ~At(e, "idle")' /\ call'[e].mode = call[e].mode
  PROVE  \A d \in Calls : Covered(d)'
<1> SUFFICES ASSUME NEW d \in Calls PROVE Covered(d)'
  OBVIOUS
<1>0. Covered(d) /\ TypeOK
  BY DEF IInv, CallInv
<1>1. ASSUME NEW i \in DOMAIN book[d], NEW e \in Calls, e = book[d][i].of
      PROVE  Allowed(e)' /\ ~At(e, "idle")'
  <2>1. Allowed(e) /\ ~At(e, "idle")
    BY <1>0, <1>1 DEF Covered
  <2>2. hist[e].chance => hist'[e].chance
    BY DEF Tracked
  <2> QED BY <2>1, <2>2 DEF Allowed
<1>2. \A i \in DOMAIN book[d] : book[d][i].of \in Calls
  BY <1>0, EntryTyped
<1> QED BY <1>1, <1>2 DEF Covered, At

LEMMA SameCall ==
  ASSUME IInv, book' = book, NEW d \in Calls, Tracked(d),
         call'[d] = call[d], wire'[d] = wire[d]
  PROVE  OneOrder(d)' /\ RolledBack(d)' /\ Judged(d)' /\ NoRetry(d)'
<1> USE DEF At
<1>0. OneOrder(d) /\ RolledBack(d) /\ Judged(d) /\ NoRetry(d)
  BY DEF IInv, CallInv
<1>1. OneOrder(d)' /\ RolledBack(d)'
  BY <1>0 DEF OneOrder, RolledBack, Left, Orders
<1>2. Judged(d)'
  <2>1. call[d].pc = "judge" => Deciding(d)' /\ call[d].pc # "idle"
    BY DEF Deciding
  <2>2. call'[d].pc = "judge" => call'[d].profile \in hist'[d].held \cup {Missing}
    BY <1>0, <2>1 DEF Judged, Tracked
  <2>3. (Amends(d)' <=> Amends(d)) /\ (Allowed(d) => Allowed(d)')
    BY DEF Amends, Allowed, Tracked
  <2> QED BY <1>0, <2>2, <2>3 DEF Judged, Tracked
<1>3. NoRetry(d)'
  <2>1. call[d].pc = "idle" => ~Deciding(d)'
    BY DEF Deciding
  <2>2. hist'[d].done = hist[d].done
    BY <2>1 DEF Tracked
  <2> QED BY <1>0, <2>2 DEF NoRetry, Rest
<1> QED BY <1>1, <1>2, <1>3

LEMMA QuietStep ==
  ASSUME IInv, NEW c \in Calls, Moves(c),
         UNCHANGED <<now, events, profile, counters, lock, book, recorded, answered>>,
         wire' \in [Calls -> {"none", "sent", "accepted"}],
         \A d \in Calls \ {c} : wire'[d] = wire[d],
         hist' \in [Calls -> Remembered], \A d \in Calls : Tracked(d),
         call[c].pc \notin {"counting", "reply", "ended", "killed"},
         call'[c].pc \notin {"idle", "counting"},
         At(c, "idle") \/ call'[c].mode = call[c].mode,
         OneOrder(c)', RolledBack(c)', Judged(c)', NoRetry(c)',
         idem' \in [Keys -> [order : Calls, at : 0..now] \cup {None}], CacheInv'
  PROVE  IInv'
<1> USE DEF At
<1>0. /\ TypeOK /\ GhostsOK /\ CountersInv /\ CacheInv
      /\ \A d \in Calls : /\ OneOrder(d) /\ RolledBack(d) /\ Judged(d) /\ Covered(d)
                          /\ NoRetry(d) /\ Counted(d)
  BY DEF IInv, CallInv
<1>1. TypeOK'
  <2>1. call' \in [Calls -> Locals] /\ \A d \in Calls \ {c} : call'[d] = call[d]
    BY DEF Moves
  <2>2. \A d \in Calls : lock = d <=> call'[d].pc = "counting"
    BY <1>0, <2>1 DEF TypeOK
  <2> QED BY <1>0, <2>1, <2>2 DEF TypeOK
<1>2. GhostsOK'
  BY <1>0 DEF GhostsOK
<1>3. CountersInv'
  BY <1>0 DEF CountersInv, CountsAllRecords, Today
<1>4. \A d \in Calls : Covered(d)'
  <2>1. \A e \in Calls : ~At(e, "idle") => ~At(e, "idle")' /\ call'[e].mode = call[e].mode
    BY DEF Moves
  <2> QED BY <2>1, CoveredKept
<1>5. ASSUME NEW d \in Calls \ {c}
      PROVE  OneOrder(d)' /\ RolledBack(d)' /\ Judged(d)' /\ NoRetry(d)' /\ Counted(d)'
  <2>0. d \in Calls /\ call'[d] = call[d] /\ wire'[d] = wire[d]
    BY DEF Moves
  <2>1. OneOrder(d)' /\ RolledBack(d)' /\ Judged(d)' /\ NoRetry(d)'
    BY <2>0, SameCall
  <2>2. Counted(d)'
    BY <1>0, <2>0 DEF Counted, On, Today
  <2> QED BY <2>1, <2>2
<1>6. Counted(c)'
  <2>1. ~\E r \in recorded : r[1] = c
    BY <1>0 DEF Counted
  <2> QED BY <2>1 DEF Counted
<1>7. \A d \in Calls : CallInv(d)'
  BY <1>4, <1>5, <1>6 DEF CallInv
<1> QED BY <1>1, <1>2, <1>3, <1>7 DEF IInv

\* The cache when nothing is answered, and the calls that ended stay as they are.
LEMMA CacheKept ==
  ASSUME IInv, UNCHANGED <<now, idem, answered, book>>,
         NEW c \in Calls, Moves(c), call[c].pc \notin {"ended", "killed"}
  PROVE  CacheInv' /\ idem' \in [Keys -> [order : Calls, at : 0..now] \cup {None}]
<1>1. CacheInv /\ answered \in SUBSET (Calls \X Nat)
      /\ idem \in [Keys -> [order : Calls, at : 0..now] \cup {None}]
  BY DEF IInv, GhostsOK, TypeOK
<1>2. \A a \in answered : call'[a[1]] = call[a[1]]
  <2> SUFFICES ASSUME NEW a \in answered PROVE call'[a[1]] = call[a[1]]
    OBVIOUS
  <2>1. a[1] \in Calls /\ call[a[1]].pc \in {"ended", "killed"}
    BY <1>1 DEF CacheInv
  <2>2. a[1] # c
    BY <2>1
  <2> QED BY <2>1, <2>2 DEF Moves
<1> QED BY <1>1, <1>2 DEF CacheInv, Rest

\* What stays but for the call, its request and the history.
Still == UNCHANGED <<now, events, profile, counters, lock, idem, book, recorded, answered>>

\* The request of c is forgotten, or stays.
WireDrops(c) == /\ wire' \in [Calls -> {"none", "sent", "accepted"}]
                /\ \A d \in Calls \ {c} : wire'[d] = wire[d]
                /\ wire'[c] \in {"none", wire[c]}

LEMMA EndStep ==
  ASSUME IInv, NEW c \in Calls, Still, WireDrops(c),
         hist' \in [Calls -> Remembered], \A d \in Calls : Tracked(d),
         NEW a \in {None, "not_placed"} \cup Calls,
         NEW n \in {None, "unverified", "no_match", "cancelled", "not_cancelled", "withdrawn"},
         End(c, a, n),
         call[c].pc \in {"load", "judge", "confirm", "send", "wait", "verify", "cancel"},
         n \in {"no_match", "cancelled"} => \A i \in DOMAIN book[c] : ~Left(c, i)
  PROVE  IInv'
<1> USE DEF At
<1>0. TypeOK /\ GhostsOK /\ OneOrder(c) /\ Judged(c) /\ NoRetry(c) /\ Tracked(c)
  BY DEF IInv, CallInv
<1>1. /\ Moves(c)
      /\ call'[c].pc = "ended" /\ call'[c].mode = call[c].mode
      /\ call'[c].targets \subseteq call[c].targets
      /\ call'[c].answer = a /\ call'[c].note = n
  BY <1>0, EndMoves
<1>2. OneOrder(c)'
  <2>1. call'[c].targets \subseteq Orders'
    BY <1>0, <1>1 DEF OneOrder, Still, Orders
  <2> QED BY <1>0, <1>1, <2>1 DEF OneOrder, Still, WireDrops, Early, Counting
<1>3. RolledBack(c)'
  BY <1>1 DEF RolledBack, Left, Still
<1>4. Judged(c)'
  <2>1. (Amends(c)' <=> Amends(c)) /\ (Allowed(c) => Allowed(c)')
    BY <1>0, <1>1 DEF Amends, Allowed, Tracked
  <2>2. wire'[c] # "none" => wire[c] # "none"
    BY DEF WireDrops
  <2> QED BY <1>0, <1>1, <2>1, <2>2 DEF Judged, Deciding, Committed, Counting
<1>5. NoRetry(c)'
  BY <1>0, <1>1 DEF NoRetry, Rest, Tracked, Committed, Counting
<1>6. CacheInv' /\ idem' \in [Keys -> [order : Calls, at : 0..now] \cup {None}]
  BY <1>1, CacheKept DEF Still
<1> QED BY <1>1, <1>2, <1>3, <1>4, <1>5, <1>6, QuietStep DEF Still, WireDrops

LEMMA GoStep ==
  ASSUME IInv, NEW c \in Calls, Still, WireDrops(c), UNCHANGED hist,
         NEW pc \in {"send", "verify", "count"}, Go(c, pc),
         call[c].pc \in {"confirm", "send", "wait"},
         pc = "send" => wire'[c] = "none" /\ book[c] = <<>>,
         pc = "count" => book[c] # <<>>
  PROVE  IInv'
<1> USE DEF At
<1>0. TypeOK /\ GhostsOK /\ OneOrder(c) /\ RolledBack(c) /\ Judged(c) /\ NoRetry(c)
  BY DEF IInv, CallInv
<1>1. /\ Moves(c)
      /\ call'[c].pc = pc /\ call'[c].mode = call[c].mode
      /\ call'[c].approved = call[c].approved /\ call'[c].targets = call[c].targets
      /\ call'[c].answer = None /\ call'[c].note = None
  <2>1. pc \in Active
    BY DEF Active
  <2> QED BY <1>0, <2>1, GoMoves
<1>2. \A d \in Calls : Deciding(d)' => Deciding(d)
  BY <1>1 DEF Moves, Deciding
<1>3. hist' \in [Calls -> Remembered] /\ \A d \in Calls : Tracked(d)
  BY <1>2, QuietTracks DEF Still
<1>4. OneOrder(c)'
  BY <1>0, <1>1 DEF OneOrder, Still, WireDrops, Early, Counting, Orders
<1>5. RolledBack(c)'
  BY <1>0, <1>1, CallsAssumption DEF RolledBack, Left, Still
<1>6. Judged(c)'
  <2>1. Amends(c) \/ Allowed(c)
    BY <1>0 DEF Judged, Committed
  <2>2. Amends(c)' \/ Allowed(c)'
    BY <1>1, <2>1 DEF Amends, Allowed
  <2> QED BY <1>1, <2>2 DEF Judged, Deciding
<1>7. NoRetry(c)'
  BY <1>0, <1>1 DEF NoRetry, Rest, Committed
<1>8. CacheInv' /\ idem' \in [Keys -> [order : Calls, at : 0..now] \cup {None}]
  BY <1>1, CacheKept DEF Still
<1> QED BY <1>1, <1>3, <1>4, <1>5, <1>6, <1>7, <1>8, QuietStep DEF Still, WireDrops

-----------------------------------------------------------------------------
(* The pipeline.                                                             *)

LEMMA HistoryStep ==
  ASSUME IInv, Still, History
  PROVE  /\ hist' \in [Calls -> Remembered]
         /\ \A c \in Calls : /\ Tracked(c)
                             /\ Deciding(c)' => profile \in hist'[c].held
                             /\ At(c, "idle") /\ Deciding(c)' => hist'[c].done = Done(c)
<1>1. TypeOK /\ GhostsOK /\ profile' = profile /\ profile \in Profiles \cup {Missing}
  BY DEF IInv, Still, TypeOK
<1> QED BY <1>1, HistoryTracks

LEMMA StartCliStep ==
  ASSUME IInv, NEW c \in Calls, StartCli(c)
  PROVE  IInv'
<1> USE DEF At
<1>0. TypeOK /\ OneOrder(c) /\ NoRetry(c) /\ call[c].pc = "idle"
  BY DEF IInv, CallInv, StartCli
<1>1. PICK mode \in (ModesOf[c] \cap Placing) \ {"rest"} :
        call' = [call EXCEPT ![c] = [Fresh(mode) EXCEPT !.pc = "load"]]
  BY DEF StartCli
<1>2. Still /\ WireDrops(c) /\ UNCHANGED wire
  BY <1>0 DEF StartCli, Still, WireDrops, bounded, files, broker, TypeOK
<1>3. /\ Moves(c) /\ call'[c].pc = "load" /\ call'[c].mode = mode /\ call'[c].targets = {}
      /\ call'[c].answer = None /\ call'[c].note = None
  <2>1. [Fresh(mode) EXCEPT !.pc = "load"] \in Locals
    BY FreshTyped DEF Modes, Active
  <2>2. call \in [Calls -> Locals]
    BY <1>0 DEF TypeOK
  <2>3. call'[c] = [Fresh(mode) EXCEPT !.pc = "load"]
    BY <1>1, <2>2
  <2> QED BY <1>1, <2>1, <2>2, <2>3 DEF Moves, Fresh
<1>4. /\ hist' \in [Calls -> Remembered] /\ \A d \in Calls : Tracked(d)
      /\ profile \in hist'[c].held
  <2>1. Deciding(c)' /\ History
    BY <1>3 DEF Deciding, StartCli
  <2> QED BY <1>2, <2>1, HistoryStep
<1>5. OneOrder(c)'
  BY <1>0, <1>2, <1>3 DEF OneOrder, Early, Counting, Still
<1>6. RolledBack(c)'
  BY <1>3, CallsAssumption DEF RolledBack
<1>7. Judged(c)'
  BY <1>0, <1>2, <1>3, <1>4 DEF Judged, OneOrder, Early, Tracked, Committed, Counting
<1>8. NoRetry(c)'
  BY <1>3 DEF NoRetry, Rest, Committed, Counting
<1>9. CacheInv' /\ idem' \in [Keys -> [order : Calls, at : 0..now] \cup {None}]
  BY <1>0, <1>2, <1>3, CacheKept DEF Still
<1> QED BY <1>0, <1>2, <1>3, <1>4, <1>5, <1>6, <1>7, <1>8, <1>9, QuietStep DEF Still, WireDrops

\* A hit needs no order; without one, none was answered.
LEMMA StartRestStep ==
  ASSUME IInv, NEW c \in Calls, StartRest(c)
  PROVE  IInv'
<1> USE DEF At
<1>0. /\ TypeOK /\ GhostsOK /\ CacheInv /\ OneOrder(c) /\ NoRetry(c)
      /\ call[c].pc = "idle" /\ now \in Nat
  BY BoundsAssumption DEF IInv, CallInv, StartRest, TypeOK
<1> DEFINE answer == IF Hit(c) THEN Purged[KeyOf[c]].order
                     ELSE IF profile = Missing THEN "not_placed" ELSE None
           r == [Fresh("rest") EXCEPT !.pc = IF answer = None THEN "load" ELSE "ended",
                                      !.answer = answer]
<1>1. /\ UNCHANGED <<now, events, profile, counters, lock, book, recorded, answered, wire>>
      /\ idem' = (IF KeyOf[c] # NoKey THEN Purged ELSE idem)
      /\ call' = [call EXCEPT ![c] = r] /\ History
  BY DEF StartRest, bounded, files, broker
<1>2. KeyOf[c] # NoKey => KeyOf[c] \in Keys
  BY DEF Keys
<1>3. /\ Purged \in [Keys -> [order : Calls, at : 0..now] \cup {None}]
      /\ \A k \in Keys : Purged[k] \in {None, idem[k]}
      /\ \A k \in Keys : idem[k] # None /\ now - idem[k].at < DayTicks => Purged[k] = idem[k]
  <2>1. idem \in [Keys -> [order : Calls, at : 0..now] \cup {None}]
    BY <1>0 DEF TypeOK
  <2>2. \A k \in Keys : Purged[k] = IF idem[k] = None \/ now - idem[k].at >= DayTicks
                                  THEN None ELSE idem[k]
    BY DEF Purged
  <2>3. ASSUME NEW k \in Keys, idem[k] # None, now - idem[k].at < DayTicks
        PROVE  Purged[k] = idem[k]
    <3>1. idem[k].at \in Nat /\ DayTicks \in Nat
      BY <1>0, <2>1, <2>3, BoundsAssumption
    <3> QED BY <1>0, <2>2, <2>3, <3>1
  <2>4. \A k \in Keys : Purged[k] \in {None, idem[k]}
    BY <2>2
  <2>5. Purged = [k \in Keys |-> Purged[k]]
    BY DEF Purged
  <2> QED BY <2>1, <2>3, <2>4, <2>5
<1>4. idem' \in [Keys -> [order : Calls, at : 0..now] \cup {None}]
  BY <1>0, <1>1, <1>3 DEF TypeOK
<1>5. Hit(c) => answer \in Calls
  BY <1>2, <1>3 DEF Hit
<1>6. /\ Moves(c) /\ call'[c].pc = (IF answer = None THEN "load" ELSE "ended")
      /\ call'[c].mode = "rest" /\ call'[c].targets = {}
      /\ call'[c].answer = answer /\ call'[c].note = None
  <2>1. answer \in {None, "not_placed"} \cup Calls
    BY <1>5
  <2> HIDE DEF answer
  <2>2. 0 \in 0..MaxTries - 1
    BY BoundsAssumption
  <2>3. r \in Locals
    BY <2>1, <2>2 DEF Fresh, Locals, Active, Placing
  <2>4. /\ r.pc = (IF answer = None THEN "load" ELSE "ended") /\ r.mode = "rest"
        /\ r.targets = {} /\ r.answer = answer /\ r.note = None
    BY DEF Fresh
  <2> HIDE DEF r
  <2>5. call'[c] = r /\ call \in [Calls -> Locals]
    BY <1>0, <1>1 DEF TypeOK
  <2> QED BY <1>1, <2>3, <2>4, <2>5 DEF Moves
<1> HIDE DEF r
<1>7. /\ hist' \in [Calls -> Remembered] /\ \A d \in Calls : Tracked(d)
      /\ Deciding(c)' => profile \in hist'[c].held /\ hist'[c].done = Done(c)
  <2>1. profile' = profile /\ profile \in Profiles \cup {Missing}
    BY <1>0, <1>1 DEF TypeOK
  <2> QED BY <1>0, <1>1, <2>1, HistoryTracks
<1>8. CacheInv'
  <2>1. ASSUME NEW k \in Keys, idem'[k] # None
        PROVE  KeyOf[idem'[k].order] = k /\ book[idem'[k].order] # <<>>
    BY <1>0, <1>1, <1>3, <2>1 DEF CacheInv
  <2>2. ASSUME NEW a \in answered
        PROVE  /\ call'[a[1]].pc \in {"ended", "killed"}
               /\ (call'[a[1]].mode = "rest" /\ KeyOf[a[1]] # NoKey /\ now - a[2] < DayTicks)
                  => idem'[KeyOf[a[1]]] # None /\ a[2] <= idem'[KeyOf[a[1]]].at
    <3>1. a[1] \in Calls /\ a[2] \in Nat /\ call[a[1]].pc \in {"ended", "killed"}
      BY <1>0 DEF GhostsOK, CacheInv
    <3>2. call'[a[1]] = call[a[1]]
      BY <1>0, <1>6, <3>1 DEF Moves
    <3>3. ASSUME call[a[1]].mode = "rest", KeyOf[a[1]] # NoKey, now - a[2] < DayTicks
          PROVE  idem'[KeyOf[a[1]]] # None /\ a[2] <= idem'[KeyOf[a[1]]].at
      <4>1. KeyOf[a[1]] \in Keys
        BY <3>1, <3>3 DEF Keys
      <4>2. idem[KeyOf[a[1]]] # None /\ a[2] <= idem[KeyOf[a[1]]].at
        BY <1>0, <3>3 DEF CacheInv, Rest
      <4>3. idem[KeyOf[a[1]]].at \in 0..now
        BY <1>0, <4>1, <4>2 DEF TypeOK
      <4>4. now - idem[KeyOf[a[1]]].at < DayTicks
        BY <1>0, <3>1, <3>3, <4>2, <4>3, BoundsAssumption
      <4> QED BY <1>1, <1>3, <4>1, <4>2, <4>4
    <3> QED BY <3>1, <3>2, <3>3
  <2> QED BY <1>1, <2>1, <2>2 DEF CacheInv, Rest
<1>9. Done(c) => Hit(c)
  <2> SUFFICES ASSUME NEW a \in answered, Rest(a[1]), now - a[2] < DayTicks,
                      KeyOf[a[1]] = KeyOf[c], KeyOf[c] # NoKey
               PROVE  Hit(c)
    BY DEF Done
  <2>1. a[1] \in Calls /\ a[2] \in Nat
    BY <1>0 DEF GhostsOK
  <2>2. idem[KeyOf[c]] # None /\ a[2] <= idem[KeyOf[c]].at
    BY <1>0 DEF CacheInv
  <2>3. idem[KeyOf[c]].at \in 0..now
    BY <1>0, <1>2, <2>2 DEF TypeOK
  <2>4. now - idem[KeyOf[c]].at < DayTicks
    BY <1>0, <2>1, <2>2, <2>3, BoundsAssumption
  <2> QED BY <1>2, <1>3, <2>2, <2>4 DEF Hit
<1>10. answer = None => ~Hit(c)
  BY <1>5, CallsAssumption
<1>11. NoRetry(c)'
  <2>1. hist'[c].done => Deciding(c)' /\ Done(c)
    BY <1>0, <1>7 DEF NoRetry, Tracked
  <2>2. Deciding(c)' => answer = None
    BY <1>6 DEF Deciding
  <2> QED BY <1>6, <1>9, <1>10, <2>1, <2>2 DEF NoRetry, Committed, Counting
<1> HIDE DEF answer
<1>12. OneOrder(c)'
  BY <1>0, <1>1, <1>6 DEF OneOrder, Early, Counting
<1>13. RolledBack(c)'
  BY <1>6, CallsAssumption DEF RolledBack
<1>14. Judged(c)'
  BY <1>0, <1>1, <1>6, <1>7 DEF Judged, OneOrder, Early, Tracked, Committed, Counting
<1>15. wire' \in [Calls -> {"none", "sent", "accepted"}]
  BY <1>0, <1>1 DEF TypeOK
<1> QED BY <1>0, <1>1, <1>4, <1>6, <1>7, <1>8, <1>11, <1>12, <1>13, <1>14, <1>15, QuietStep

\* The call takes what the file holds.
LEMMA LoadProfileStep ==
  ASSUME IInv, NEW c \in Calls, LoadProfile(c)
  PROVE  IInv'
<1> USE DEF At
<1>0. TypeOK /\ OneOrder(c) /\ NoRetry(c) /\ call[c].pc = "load"
  BY DEF IInv, CallInv, LoadProfile
<1>1. Still /\ WireDrops(c) /\ UNCHANGED wire
  BY <1>0 DEF LoadProfile, Still, WireDrops, bounded, files, broker, TypeOK
<1>2. /\ hist' \in [Calls -> Remembered]
      /\ \A d \in Calls : Tracked(d) /\ (Deciding(d)' => profile \in hist'[d].held)
  BY <1>1, HistoryStep DEF LoadProfile
<1>3. CASE End(c, "not_placed", None)
  BY <1>0, <1>1, <1>2, <1>3, CallsAssumption, EndStep
<1>4. CASE call' = [call EXCEPT ![c].pc = "judge", ![c].profile = profile]
  <2>1. /\ Moves(c) /\ call'[c].pc = "judge" /\ call'[c].profile = profile
        /\ call'[c].mode = call[c].mode /\ call'[c].answer = call[c].answer
        /\ call'[c].note = call[c].note /\ call'[c].targets = call[c].targets
    <3>1. call \in [Calls -> Locals] /\ profile \in Profiles \cup {Missing}
      BY <1>0 DEF TypeOK
    <3>2. call[c] \in Locals /\ "judge" \in Active
      BY <3>1 DEF Active
    <3>3. [call[c] EXCEPT !.pc = "judge", !.profile = profile] \in Locals
      BY <3>1, <3>2 DEF Locals
    <3>4. call' = [call EXCEPT ![c] = [call[c] EXCEPT !.pc = "judge", !.profile = profile]]
      BY <1>4
    <3>5. call'[c] = [call[c] EXCEPT !.pc = "judge", !.profile = profile]
      BY <3>1, <3>4
    <3>6. call[c] = [f \in DOMAIN call[c] |-> call[c][f]] /\ {"pc", "profile", "mode", "answer", "note", "targets"} \subseteq DOMAIN call[c]
      BY <3>2 DEF Locals
    <3> QED BY <3>1, <3>3, <3>4, <3>5, <3>6 DEF Moves
  <2>2. Deciding(c)'
    BY <2>1 DEF Deciding
  <2>3. OneOrder(c)'
    BY <1>0, <1>1, <2>1 DEF OneOrder, Early, Counting, Still, Orders
  <2>4. RolledBack(c)'
    BY <1>0, <2>1, CallsAssumption DEF RolledBack, OneOrder
  <2>5. Judged(c)'
    BY <1>0, <1>1, <1>2, <2>1, <2>2 DEF Judged, Tracked, OneOrder, Early, Committed, Counting
  <2>6. NoRetry(c)'
    BY <1>0, <1>2, <2>1 DEF NoRetry, Rest, Tracked, Committed, Counting
  <2>7. CacheInv' /\ idem' \in [Keys -> [order : Calls, at : 0..now] \cup {None}]
    BY <1>0, <1>1, <2>1, CacheKept DEF Still
  <2> QED BY <1>0, <1>1, <1>2, <2>1, <2>3, <2>4, <2>5, <2>6, <2>7, QuietStep DEF Still, WireDrops
<1> QED BY <1>3, <1>4 DEF LoadProfile

\* What is loaded is what was recorded today.
LEMMA LoadedToday ==
  ASSUME IInv
  PROVE  /\ Loaded \in [date : Nat, total : Nat] /\ Loaded.date = Today
         /\ Loaded.total = RecordedToday /\ Loaded.total \in Nat
<1>0. TypeOK /\ GhostsOK /\ CountersInv /\ Today \in Nat
  BY TodayNat DEF IInv
<1>1. counters \in [date : Nat, total : Nat] /\ counters.date <= Today
  BY <1>0 DEF TypeOK, CountersInv
<1>2. CASE counters.date = Today
  BY <1>0, <1>1, <1>2 DEF Loaded, RecordedToday, CountersInv, CountsAllRecords
<1>3. CASE counters.date # Today
  <2>1. \A r \in recorded : r[2] # Today
    <3> SUFFICES ASSUME NEW r \in recorded PROVE r[2] # Today
      OBVIOUS
    <3>1. r[2] \in Nat /\ r[2] <= counters.date
      BY <1>0 DEF GhostsOK, CountersInv, CountsAllRecords
    <3> QED BY <1>0, <1>1, <1>3, <3>1
  <2>2. {r \in recorded : r[2] = Today} = {}
    BY <2>1
  <2>3. RecordedToday = 0
    BY <2>2, FS_EmptySet DEF RecordedToday
  <2> QED BY <1>0, <1>3, <2>3 DEF Loaded
<1> QED BY <1>2, <1>3

\* An approval is a chance: the counters tell what was recorded today.
LEMMA ApprovalIsChance ==
  ASSUME IInv, NEW c \in Calls, At(c, "judge"), call[c].profile # Missing,
         NEW preview \in {"skipped", "valid", "rejects", "unavailable", "error"},
         Approved(call[c].profile, ShapeOf[c], Context(preview))
  PROVE  hist[c].chance
<1> DEFINE p == call[c].profile
<1>0. TypeOK /\ GhostsOK /\ CountersInv /\ Judged(c) /\ Today \in Nat
  BY TodayNat DEF IInv, CallInv
<1>1. p \in hist[c].held /\ p \in Profiles
  BY <1>0 DEF Judged, TypeOK, Locals
<1>2. p \in Profile /\ ShapeOf[c] \in Shapes
  BY <1>1, ProfilesAssumption, CallsAssumption
<1>3. Loaded.total = RecordedToday /\ Loaded.total \in Nat
  BY LoadedToday
<1>4. PICK bp \in {1, Unknown} :
        Context(preview) = [daily_order_count |-> RecordedToday, bp_required |-> bp]
  BY <1>3 DEF Context
<1>5. Context(preview) \in Environment
  BY <1>3 DEF Context, Environment, Fields
<1>6. Permits(p, ShapeOf[c], Context(preview))
  BY <1>2, <1>5, DecisionIsPermits
<1>7. Chance(c, hist[c].held, RecordedToday)
  BY <1>1, <1>4, <1>6 DEF Chance
<1> QED BY <1>0, <1>7 DEF Judged, Deciding, At

LEMMA JudgeStep ==
  ASSUME IInv, NEW c \in Calls, Judge(c)
  PROVE  IInv'
<1> USE DEF At
<1>0. TypeOK /\ OneOrder(c) /\ NoRetry(c) /\ call[c].pc = "judge"
  BY DEF IInv, CallInv, Judge
<1>1. Still /\ WireDrops(c) /\ UNCHANGED wire
  BY <1>0 DEF Judge, Still, WireDrops, bounded, files, broker, TypeOK
<1>2. hist' \in [Calls -> Remembered] /\ \A d \in Calls : Tracked(d)
  BY <1>1, HistoryStep DEF Judge
<1>3. CASE End(c, "not_placed", None)
  BY <1>0, <1>1, <1>2, <1>3, CallsAssumption, EndStep
<1>4. ASSUME NEW preview \in Previews(c), NEW approved \in BOOLEAN,
             approved <=> /\ call[c].profile # Missing
                          /\ Approved(call[c].profile, ShapeOf[c], Context(preview)),
             ~DryRun(c), GatesOpen(c, approved, preview), NEW pc \in {"confirm", "send"},
             call' = [call EXCEPT ![c].approved = approved, ![c].profile = Missing, ![c].pc = pc]
      PROVE  IInv'
  <2> DEFINE r == [call[c] EXCEPT !.approved = approved, !.profile = Missing, !.pc = pc]
  <2>1. /\ Moves(c) /\ call'[c].pc = pc /\ call'[c].approved = approved
        /\ call'[c].mode = call[c].mode /\ call'[c].answer = call[c].answer
        /\ call'[c].note = call[c].note /\ call'[c].targets = call[c].targets
    <3>1. call \in [Calls -> Locals] /\ call[c] \in Locals /\ pc \in Active
      BY <1>0 DEF TypeOK, Active
    <3>2. r \in Locals
      BY <3>1 DEF Locals
    <3>3. call' = [call EXCEPT ![c] = r]
      BY <1>4
    <3>4. /\ r.pc = pc /\ r.approved = approved /\ r.mode = call[c].mode
          /\ r.answer = call[c].answer /\ r.note = call[c].note /\ r.targets = call[c].targets
      BY <3>1 DEF Locals
    <3> HIDE DEF r
    <3>5. call'[c] = r
      BY <3>1, <3>3
    <3> QED BY <3>1, <3>2, <3>3, <3>4, <3>5 DEF Moves
  <2>2. approved => hist[c].chance
    <3>1. preview \in {"skipped", "valid", "rejects", "unavailable", "error"}
      BY DEF Previews
    <3> QED BY <1>0, <1>4, <3>1, ApprovalIsChance
  <2>3. Allowed(c)'
    <3>1. approved \/ call[c].mode = "override"
      BY <1>4 DEF GatesOpen
    <3>2. call[c].mode # "preview"
      BY <1>4 DEF DryRun
    <3> QED BY <1>2, <2>1, <2>2, <3>1, <3>2 DEF Allowed, Tracked
  <2>4. OneOrder(c)'
    BY <1>0, <1>1, <2>1 DEF OneOrder, Early, Counting, Still, Orders
  <2>5. RolledBack(c)'
    BY <1>0, <2>1, CallsAssumption DEF RolledBack, OneOrder
  <2>6. Judged(c)'
    BY <2>1, <2>3 DEF Judged, Deciding
  <2>7. NoRetry(c)'
    BY <1>0, <1>2, <1>4, <2>1 DEF NoRetry, Rest, Tracked, GatesOpen
  <2>8. CacheInv' /\ idem' \in [Keys -> [order : Calls, at : 0..now] \cup {None}]
    BY <1>0, <1>1, <2>1, CacheKept DEF Still
  <2> QED BY <1>0, <1>1, <1>2, <2>1, <2>4, <2>5, <2>6, <2>7, <2>8, QuietStep DEF Still, WireDrops
<1>5. \/ End(c, "not_placed", None)
      \/ \E preview \in Previews(c) : \E approved \in BOOLEAN : \E pc \in {"confirm", "send"} :
            /\ approved <=> /\ call[c].profile # Missing
                            /\ Approved(call[c].profile, ShapeOf[c], Context(preview))
            /\ ~DryRun(c) /\ GatesOpen(c, approved, preview)
            /\ call' = [call EXCEPT ![c].approved = approved, ![c].profile = Missing,
                                    ![c].pc = pc]
  <2>1. PICK preview \in Previews(c) :
          LET approved == /\ call[c].profile # Missing
                          /\ Approved(call[c].profile, ShapeOf[c], Context(preview))
          IN  IF preview = "error" \/ DryRun(c) \/ ~GatesOpen(c, approved, preview)
              THEN End(c, "not_placed", None)
              ELSE call' = [call EXCEPT ![c].approved = approved, ![c].profile = Missing,
                              ![c].pc = IF call[c].mode \in {"ask", "override"}
                                        THEN "confirm" ELSE "send"]
    BY DEF Judge
  <2> DEFINE approved == /\ call[c].profile # Missing
                         /\ Approved(call[c].profile, ShapeOf[c], Context(preview))
  <2>2. approved \in BOOLEAN
    BY DEF Approved
  <2> QED BY <2>1, <2>2
<1> QED BY <1>3, <1>4, <1>5

-----------------------------------------------------------------------------
(* Amendments, the prompts and the request.                                  *)

LEMMA MovesTo ==
  ASSUME TypeOK, NEW c \in Calls, NEW r \in Locals, call' = [call EXCEPT ![c] = r]
  PROVE  Moves(c) /\ call'[c] = r
BY DEF TypeOK, Moves

\* The history of a step that leaves it alone and lets no call decide.
LEMMA QuietHistory ==
  ASSUME IInv, NEW c \in Calls, Moves(c), UNCHANGED <<hist, recorded, now>>,
         call'[c].pc \notin {"load", "judge"}
  PROVE  hist' \in [Calls -> Remembered] /\ \A d \in Calls : Tracked(d)
<1>1. \A d \in Calls : Deciding(d)' => Deciding(d)
  BY DEF Moves, Deciding
<1> QED BY <1>1, QuietTracks

LEMMA ConfirmStep ==
  ASSUME IInv, NEW c \in Calls, Confirm(c)
  PROVE  IInv'
<1>0. TypeOK /\ OneOrder(c) /\ call[c].pc = "confirm" /\ (c \in Calls)
  BY DEF IInv, CallInv, Confirm, At
<1>1. Still /\ WireDrops(c) /\ UNCHANGED <<wire, hist>>
  BY <1>0 DEF Confirm, Still, WireDrops, bounded, files, broker, ghosts, TypeOK
<1>2. CASE Go(c, "send")
  BY <1>0, <1>1, <1>2, GoStep DEF OneOrder, Early
<1>3. CASE End(c, "not_placed", None)
  <2>1. Moves(c) /\ call'[c].pc = "ended"
    BY <1>0, <1>3, EndMoves
  <2>2. hist' \in [Calls -> Remembered] /\ \A d \in Calls : Tracked(d)
    BY <1>1, <2>1, QuietHistory DEF Still
  <2> QED BY <1>0, <1>1, <1>3, <2>2, CallsAssumption, EndStep
<1> QED BY <1>2, <1>3 DEF Confirm

\* An amendment starts with the order it is about.
LEMMA AmendStarts ==
  ASSUME IInv, NEW c \in Calls, At(c, "idle"), Still, UNCHANGED <<wire, hist>>,
         NEW mode \in Amending, NEW pc \in {"confirm", "send", "ended"},
         NEW targets \in SUBSET Orders, NEW a \in {None, "not_placed"},
         a # None => pc = "ended",
         NEW r \in Locals, call' = [call EXCEPT ![c] = r],
         r.pc = pc, r.mode = mode, r.targets = targets, r.answer = a, r.note = None
  PROVE  IInv'
<1> USE DEF At
<1>0. TypeOK /\ OneOrder(c) /\ NoRetry(c) /\ call[c].pc = "idle"
  BY DEF IInv, CallInv
<1>1. Moves(c) /\ call'[c] = r
  BY <1>0, MovesTo
<1>2. WireDrops(c)
  BY <1>0 DEF WireDrops, TypeOK
<1>3. hist' \in [Calls -> Remembered] /\ \A d \in Calls : Tracked(d)
  BY <1>1, QuietHistory DEF Still
<1>4. OneOrder(c)'
  BY <1>0, <1>1 DEF OneOrder, Early, Counting, Still, Orders
<1>5. RolledBack(c)'
  BY <1>1, CallsAssumption DEF RolledBack
<1>6. Judged(c)'
  BY <1>1 DEF Judged, Deciding, Amends
<1>7. NoRetry(c)'
  BY <1>1 DEF NoRetry, Rest, Amending
<1>8. CacheInv' /\ idem' \in [Keys -> [order : Calls, at : 0..now] \cup {None}]
  BY <1>0, <1>1, CacheKept DEF Still
<1> QED BY <1>0, <1>1, <1>2, <1>3, <1>4, <1>5, <1>6, <1>7, <1>8, QuietStep DEF Still, WireDrops

LEMMA OrdersTyped ==
  ASSUME TypeOK PROVE Orders \subseteq Calls \X Nat
<1> SUFFICES ASSUME NEW o \in Orders PROVE o \in Calls \X Nat
  OBVIOUS
<1>1. PICK d \in Calls : o \in {d} \X DOMAIN book[d]
  BY DEF Orders
<1>2. \A i \in DOMAIN book[d] : i \in Nat
  BY EntryTyped
<1> QED BY <1>1, <1>2

LEMMA StartAmendStep ==
  ASSUME IInv, NEW c \in Calls, StartAmend(c)
  PROVE  IInv'
<1>0. TypeOK /\ At(c, "idle") /\ Still /\ UNCHANGED <<wire, hist>>
  BY DEF IInv, StartAmend, Still, bounded, files, broker, ghosts
<1>1. PICK mode \in ModesOf[c] \cap {"replace", "cancel"}, o \in Orders :
         \/ \E pc \in {"confirm", "send"} :
               call' = [call EXCEPT ![c] = [Fresh(mode) EXCEPT !.pc = pc, !.targets = {o}]]
         \/ call' = [call EXCEPT ![c] = [Fresh(mode) EXCEPT
                       !.pc = "ended", !.answer = "not_placed"]]
  BY DEF StartAmend
<1>2. mode \in Amending /\ o \in Calls \X Nat /\ 0 \in 0..MaxTries - 1
  BY <1>0, OrdersTyped, BoundsAssumption DEF Amending
<1>3. ASSUME NEW pc \in {"confirm", "send"},
             call' = [call EXCEPT ![c] = [Fresh(mode) EXCEPT !.pc = pc, !.targets = {o}]]
      PROVE  IInv'
  <2> DEFINE r == [Fresh(mode) EXCEPT !.pc = pc, !.targets = {o}]
  <2>1. r \in Locals
    BY <1>2 DEF Fresh, Locals, Active
  <2>2. r.pc = pc /\ r.mode = mode /\ r.targets = {o} /\ r.answer = None /\ r.note = None
    BY DEF Fresh
  <2>3. call' = [call EXCEPT ![c] = r]
    BY <1>3
  <2> HIDE DEF r
  <2>4. {o} \in SUBSET Orders /\ pc \in {"confirm", "send", "ended"}
    OBVIOUS
  <2> QED BY <1>0, <1>2, <2>1, <2>2, <2>3, <2>4, AmendStarts
<1>4. CASE call' = [call EXCEPT ![c] = [Fresh(mode) EXCEPT
                      !.pc = "ended", !.answer = "not_placed"]]
  <2> DEFINE r == [Fresh(mode) EXCEPT !.pc = "ended", !.answer = "not_placed"]
  <2>1. r \in Locals
    BY <1>2 DEF Fresh, Locals
  <2>2. /\ r.pc = "ended" /\ r.mode = mode /\ r.targets = {} /\ r.answer = "not_placed"
        /\ r.note = None
    BY DEF Fresh
  <2>3. call' = [call EXCEPT ![c] = r]
    BY <1>4
  <2> HIDE DEF r
  <2>4. {} \in SUBSET Orders /\ "ended" \in {"confirm", "send", "ended"}
        /\ "not_placed" \in {None, "not_placed"}
    OBVIOUS
  <2> QED BY <1>0, <1>2, <2>1, <2>2, <2>3, <2>4, AmendStarts
<1> QED BY <1>1, <1>3, <1>4

LEMMA StartRestCancelStep ==
  ASSUME IInv, NEW c \in Calls, StartRestCancel(c)
  PROVE  IInv'
<1>0. TypeOK /\ At(c, "idle") /\ Still /\ UNCHANGED <<wire, hist>>
  BY DEF IInv, StartRestCancel, Still, bounded, files, broker, ghosts
<1>1. PICK o \in Orders :
        call' = [call EXCEPT ![c] = [Fresh("rest_cancel") EXCEPT !.pc = "send", !.targets = {o}]]
  BY DEF StartRestCancel
<1>2. "rest_cancel" \in Amending /\ o \in Calls \X Nat /\ 0 \in 0..MaxTries - 1
  BY <1>0, OrdersTyped, BoundsAssumption DEF Amending
<1> DEFINE r == [Fresh("rest_cancel") EXCEPT !.pc = "send", !.targets = {o}]
<1>3. r \in Locals
  BY <1>2 DEF Fresh, Locals, Active
<1>4. /\ r.pc = "send" /\ r.mode = "rest_cancel" /\ r.targets = {o} /\ r.answer = None
      /\ r.note = None
  BY DEF Fresh
<1>5. call' = [call EXCEPT ![c] = r]
  BY <1>1
<1> HIDE DEF r
<1>6. {o} \in SUBSET Orders /\ "send" \in {"confirm", "send", "ended"}
      /\ None \in {None, "not_placed"}
  OBVIOUS
<1> QED BY <1>0, <1>2, <1>3, <1>4, <1>5, <1>6, AmendStarts

\* A call that sends, resends, waits or starts its rollback.
LEMMA RequestStep ==
  ASSUME IInv, NEW c \in Calls, Still, UNCHANGED hist,
         wire' \in [Calls -> {"none", "sent", "accepted"}],
         \A d \in Calls \ {c} : wire'[d] = wire[d],
         NEW r \in Locals, call' = [call EXCEPT ![c] = r],
         r.mode = call[c].mode, r.approved = call[c].approved,
         r.answer = call[c].answer, r.note = call[c].note, r.targets \subseteq Orders,
         call[c].pc \in {"send", "wait", "verify"}, r.pc \in {"send", "wait", "cancel"},
         r.pc = "send" => wire'[c] = "none" /\ book[c] = <<>>,
         r.pc = "wait" => wire'[c] = "sent",
         wire'[c] = "sent" => book[c] = <<>>,
         r.pc = "cancel" => \A i \in DOMAIN book[c] : Left(c, i) => <<c, i>> \in r.targets
  PROVE  IInv'
<1> USE DEF At
<1>0. TypeOK /\ OneOrder(c) /\ RolledBack(c) /\ Judged(c) /\ NoRetry(c)
  BY DEF IInv, CallInv
<1>1. Moves(c) /\ call'[c] = r
  BY <1>0, MovesTo
<1>2. hist' \in [Calls -> Remembered] /\ \A d \in Calls : Tracked(d)
  BY <1>1, QuietHistory DEF Still
<1>3. OneOrder(c)'
  BY <1>0, <1>1 DEF OneOrder, Early, Counting, Still, Orders
<1>4. RolledBack(c)'
  BY <1>0, <1>1, CallsAssumption DEF RolledBack, Left, OneOrder, Still
<1>5. Judged(c)'
  <2>1. Amends(c) \/ Allowed(c)
    BY <1>0 DEF Judged, Committed
  <2>2. Amends(c)' \/ Allowed(c)'
    BY <1>1, <2>1 DEF Amends, Allowed
  <2> QED BY <1>1, <2>2 DEF Judged, Deciding
<1>6. NoRetry(c)'
  BY <1>0, <1>1 DEF NoRetry, Rest, Committed
<1>7. CacheInv' /\ idem' \in [Keys -> [order : Calls, at : 0..now] \cup {None}]
  BY <1>0, <1>1, CacheKept DEF Still
<1> QED BY <1>0, <1>1, <1>2, <1>3, <1>4, <1>5, <1>6, <1>7, QuietStep DEF Still

LEMMA InDoubtStep ==
  ASSUME IInv, NEW c \in Calls, Still, WireDrops(c), UNCHANGED hist, InDoubt(c),
         call[c].pc \in {"send", "wait"}
  PROVE  IInv'
<1>0. TypeOK
  BY DEF IInv
<1>1. CASE Amends(c)
  <2>1. End(c, "not_placed", None)
    BY <1>1 DEF InDoubt
  <2>2. Moves(c) /\ call'[c].pc = "ended"
    BY <1>0, <2>1, EndMoves
  <2>3. hist' \in [Calls -> Remembered] /\ \A d \in Calls : Tracked(d)
    BY <2>2, QuietHistory DEF Still
  <2> QED BY <2>1, <2>3, CallsAssumption, EndStep
<1>2. CASE ~Amends(c)
  <2>1. Go(c, "verify")
    BY <1>2 DEF InDoubt
  <2> QED BY <2>1, GoStep
<1> QED BY <1>1, <1>2

\* What ends a request without more.
LEMMA NotPlacedStep ==
  ASSUME IInv, NEW c \in Calls, Still, WireDrops(c), UNCHANGED hist,
         NEW a \in {None, "not_placed"} \cup Calls,
         NEW n \in {None, "unverified", "no_match", "cancelled", "not_cancelled", "withdrawn"},
         End(c, a, n), call[c].pc \in {"send", "wait", "verify", "cancel"},
         n \in {"no_match", "cancelled"} => \A i \in DOMAIN book[c] : ~Left(c, i)
  PROVE  IInv'
<1>1. Moves(c) /\ call'[c].pc = "ended"
  BY EndMoves DEF IInv
<1>2. hist' \in [Calls -> Remembered] /\ \A d \in Calls : Tracked(d)
  BY <1>1, QuietHistory DEF Still
<1> QED BY <1>2, EndStep


LEMMA ConnectFailsStep ==
  ASSUME IInv, NEW c \in Calls, ConnectFails(c)
  PROVE  IInv'
<1>0. TypeOK /\ OneOrder(c) /\ call[c].pc = "send" /\ call[c] \in Locals
  BY DEF IInv, CallInv, ConnectFails, At, TypeOK
<1>1. Still /\ WireDrops(c) /\ UNCHANGED <<wire, hist>>
  BY <1>0 DEF ConnectFails, Still, WireDrops, bounded, files, broker, ghosts, TypeOK
<1>2. CASE InDoubt(c)
  BY <1>0, <1>1, <1>2, InDoubtStep
<1>3. CASE call[c].tries + 1 < MaxTries /\ call' = [call EXCEPT ![c].tries = @ + 1]
  <2> DEFINE r == [call[c] EXCEPT !.tries = @ + 1]
  <2>1. call[c].tries + 1 \in 0..MaxTries - 1
    BY <1>0, <1>3, BoundsAssumption DEF Locals
  <2>2. /\ r \in Locals /\ r.pc = "send" /\ r.mode = call[c].mode
        /\ r.approved = call[c].approved /\ r.answer = call[c].answer
        /\ r.note = call[c].note /\ r.targets = call[c].targets
    BY <1>0, <2>1 DEF Locals
  <2>3. call' = [call EXCEPT ![c] = r]
    BY <1>3
  <2> HIDE DEF r
  <2>4. wire'[c] = "none" /\ book[c] = <<>> /\ call[c].targets \subseteq Orders
    BY <1>0, <1>1 DEF OneOrder, Early, At
  <2> QED BY <1>0, <1>1, <2>2, <2>3, <2>4, RequestStep DEF WireDrops
<1> QED BY <1>2, <1>3 DEF ConnectFails

LEMMA SendStep ==
  ASSUME IInv, NEW c \in Calls, Send(c)
  PROVE  IInv'
<1>0. TypeOK /\ OneOrder(c) /\ call[c].pc = "send" /\ call[c] \in Locals
  BY DEF IInv, CallInv, Send, At, TypeOK
<1>1. Still /\ UNCHANGED hist
  BY DEF Send, Still, bounded, files, ghosts
<1>2. /\ wire' \in [Calls -> {"none", "sent", "accepted"}] /\ wire'[c] = "sent"
      /\ \A d \in Calls \ {c} : wire'[d] = wire[d]
  BY <1>0 DEF Send, TypeOK
<1> DEFINE r == [call[c] EXCEPT !.pc = "wait", !.tries = 0]
<1>3. /\ r \in Locals /\ r.pc = "wait" /\ r.mode = call[c].mode
      /\ r.approved = call[c].approved /\ r.answer = call[c].answer
      /\ r.note = call[c].note /\ r.targets = call[c].targets
  <2>1. 0 \in 0..MaxTries - 1 /\ "wait" \in Active
    BY BoundsAssumption DEF Active
  <2> QED BY <1>0, <2>1 DEF Locals
<1>4. call' = [call EXCEPT ![c] = r]
  BY DEF Send
<1> HIDE DEF r
<1>5. book[c] = <<>> /\ call[c].targets \subseteq Orders
  BY <1>0 DEF OneOrder, Early, At
<1> QED BY <1>0, <1>1, <1>2, <1>3, <1>4, <1>5, RequestStep

LEMMA AnsweredStep ==
  ASSUME IInv, NEW c \in Calls, Answered(c)
  PROVE  IInv'
<1>0. TypeOK /\ OneOrder(c) /\ call[c].pc = "wait" /\ wire[c] = "accepted"
  BY DEF IInv, CallInv, Answered, At
<1>1. Still /\ UNCHANGED hist /\ WireDrops(c)
  BY <1>0 DEF Answered, Still, WireDrops, bounded, files, ghosts, TypeOK
<1>2. CASE call[c].mode = "replace"
  <2>1. End(c, c, None)
    BY <1>2 DEF Answered
  <2> QED BY <1>0, <1>1, <2>1, CallsAssumption, NotPlacedStep
<1>3. CASE call[c].mode \in {"cancel", "rest_cancel"}
  <2>1. End(c, "not_placed", "withdrawn")
    BY <1>3 DEF Answered
  <2> QED BY <1>0, <1>1, <2>1, NotPlacedStep
<1>4. CASE call[c].mode \notin {"replace", "cancel", "rest_cancel"}
  <2>1. Go(c, "count")
    BY <1>4 DEF Answered
  <2>2. book[c] # <<>>
    BY <1>0, <1>4 DEF OneOrder, At
  <2> QED BY <1>0, <1>1, <2>1, <2>2, GoStep
<1> QED BY <1>2, <1>3, <1>4

LEMMA UnauthorizedStep ==
  ASSUME IInv, NEW c \in Calls, Unauthorized(c)
  PROVE  IInv'
<1>0. /\ TypeOK /\ OneOrder(c) /\ call[c].pc = "wait" /\ wire[c] = "sent"
      /\ call[c] \in Locals
  BY DEF IInv, CallInv, Unauthorized, At, TypeOK
<1>1. Still /\ UNCHANGED hist /\ WireDrops(c) /\ wire'[c] = "none"
  BY <1>0 DEF Unauthorized, Still, WireDrops, bounded, files, ghosts, TypeOK
<1>2. CASE End(c, "not_placed", None)
  BY <1>0, <1>1, <1>2, CallsAssumption, NotPlacedStep
<1>3. CASE call' = [call EXCEPT ![c].pc = "send", ![c].refreshed = TRUE]
  <2> DEFINE r == [call[c] EXCEPT !.pc = "send", !.refreshed = TRUE]
  <2>1. /\ r \in Locals /\ r.pc = "send" /\ r.mode = call[c].mode
        /\ r.approved = call[c].approved /\ r.answer = call[c].answer
        /\ r.note = call[c].note /\ r.targets = call[c].targets
    <3>1. "send" \in Active
      BY DEF Active
    <3> QED BY <1>0, <3>1 DEF Locals
  <2>2. call' = [call EXCEPT ![c] = r]
    BY <1>3
  <2> HIDE DEF r
  <2>3. book[c] = <<>> /\ call[c].targets \subseteq Orders
    BY <1>0 DEF OneOrder
  <2> QED BY <1>0, <1>1, <2>1, <2>2, <2>3, RequestStep DEF WireDrops
<1> QED BY <1>2, <1>3 DEF Unauthorized

LEMMA RefusedStep ==
  ASSUME IInv, NEW c \in Calls, Refused(c)
  PROVE  IInv'
<1>0. TypeOK /\ call[c].pc = "wait"
  BY DEF IInv, Refused, At
<1>1. Still /\ UNCHANGED hist /\ WireDrops(c)
  BY <1>0 DEF Refused, Still, WireDrops, bounded, files, ghosts, TypeOK
<1>2. CASE End(c, "not_placed", None)
  BY <1>0, <1>1, <1>2, CallsAssumption, NotPlacedStep
<1>3. CASE InDoubt(c)
  BY <1>0, <1>1, <1>3, InDoubtStep
<1> QED BY <1>2, <1>3 DEF Refused

LEMMA UncertainStep ==
  ASSUME IInv, NEW c \in Calls, Uncertain(c)
  PROVE  IInv'
<1>0. TypeOK /\ call[c].pc = "wait" /\ InDoubt(c)
  BY DEF IInv, Uncertain, At
<1>1. Still /\ UNCHANGED hist /\ WireDrops(c)
  BY <1>0 DEF Uncertain, Still, WireDrops, bounded, files, ghosts, TypeOK
<1> QED BY <1>0, <1>1, InDoubtStep

\* The listing holds every order of the call that works.
LEMMA VerifyStep ==
  ASSUME IInv, NEW c \in Calls, Verify(c)
  PROVE  IInv'
<1>0. TypeOK /\ OneOrder(c) /\ call[c].pc = "verify" /\ call[c] \in Locals
  BY DEF IInv, CallInv, Verify, At, TypeOK
<1>1. Still /\ UNCHANGED <<hist, wire>> /\ WireDrops(c)
  BY <1>0 DEF Verify, Still, WireDrops, bounded, files, broker, ghosts, TypeOK
<1>2. CASE End(c, "not_placed", "unverified")
  BY <1>0, <1>1, <1>2, NotPlacedStep
<1>3. ASSUME NEW older \in SUBSET {o \in Matches(c) : o[1] # c},
             IF Matches(c) = older
             THEN End(c, "not_placed", "no_match")
             ELSE call' = [call EXCEPT ![c].pc = "cancel", ![c].targets = Matches(c) \ older]
      PROVE  IInv'
  <2>1. ASSUME NEW i \in DOMAIN book[c], Left(c, i)
        PROVE  <<c, i>> \in Matches(c) \ older
    <3>1. <<c, i>> \in Orders /\ <<c, i>>[1] = c /\ <<c, i>>[2] = i
      BY DEF Orders
    <3>2. Status(<<c, i>>) = "working"
      BY <2>1, <3>1 DEF Status, Left
    <3> QED BY <3>1, <3>2 DEF Matches
  <2>2. CASE Matches(c) = older
    <3>1. End(c, "not_placed", "no_match")
      BY <1>3, <2>2
    <3>2. \A i \in DOMAIN book[c] : ~Left(c, i)
      BY <2>1, <2>2
    <3> QED BY <1>0, <1>1, <3>1, <3>2, NotPlacedStep
  <2>3. CASE Matches(c) # older
    <3> DEFINE r == [call[c] EXCEPT !.pc = "cancel", !.targets = Matches(c) \ older]
    <3>1. Matches(c) \ older \subseteq Orders /\ Orders \subseteq Calls \X Nat /\ "cancel" \in Active
      BY <1>0, OrdersTyped DEF Matches, Active
    <3>2. /\ r \in Locals /\ r.pc = "cancel" /\ r.mode = call[c].mode
          /\ r.approved = call[c].approved /\ r.answer = call[c].answer
          /\ r.note = call[c].note /\ r.targets = Matches(c) \ older
      BY <1>0, <3>1 DEF Locals
    <3>3. call' = [call EXCEPT ![c] = r]
      BY <1>3, <2>3
    <3> HIDE DEF r
    <3>4. wire'[c] = "sent" => book[c] = <<>>
      BY <1>0, <1>1 DEF OneOrder
    <3> QED BY <1>0, <1>1, <2>1, <3>1, <3>2, <3>3, <3>4, RequestStep DEF WireDrops
  <2> QED BY <2>2, <2>3
<1> QED BY <1>2, <1>3 DEF Verify

LEMMA RollbackEndsStep ==
  ASSUME IInv, NEW c \in Calls, RollbackEnds(c)
  PROVE  IInv'
<1>0. TypeOK /\ RolledBack(c) /\ call[c].pc = "cancel" /\ call[c].targets = {}
  BY DEF IInv, CallInv, RollbackEnds, At
<1>1. Still /\ UNCHANGED <<hist, wire>> /\ WireDrops(c)
  BY <1>0 DEF RollbackEnds, Still, WireDrops, bounded, files, broker, ghosts, TypeOK
<1>2. CASE call[c].failed
  <2>1. End(c, "not_placed", "not_cancelled")
    BY <1>2 DEF RollbackEnds
  <2> QED BY <1>0, <1>1, <2>1, NotPlacedStep
<1>3. CASE ~call[c].failed
  <2>1. End(c, "not_placed", "cancelled")
    BY <1>3 DEF RollbackEnds
  <2>2. \A i \in DOMAIN book[c] : ~Left(c, i)
    BY <1>0, <1>3 DEF RolledBack, At
  <2> QED BY <1>0, <1>1, <2>1, <2>2, NotPlacedStep
<1> QED BY <1>2, <1>3

-----------------------------------------------------------------------------
(* The book.                                                                 *)

\* Only the status of orders of d has changed, and none works again.
Marked(d) ==
    /\ DOMAIN book'[d] = DOMAIN book[d] /\ Len(book'[d]) = Len(book[d])
    /\ (book'[d] = <<>>) <=> (book[d] = <<>>)
    /\ \A i \in DOMAIN book[d] :
          /\ book'[d][i].late = book[d][i].late /\ book'[d][i].of = book[d][i].of
          /\ book'[d][i].status = "working" => book[d][i].status = "working"

LEMMA Unmarked ==
  ASSUME NEW d \in Calls, book'[d] = book[d]
  PROVE  Marked(d)
BY DEF Marked

WithStatus(d, i, s) == [book[d] EXCEPT ![i].status = s]

LEMMA MarkOne ==
  ASSUME TypeOK, NEW d \in Calls, NEW i \in DOMAIN book[d],
         NEW s \in {"filled", "canceled", "withdrawn", "replaced"},
         book'[d] = WithStatus(d, i, s)
  PROVE  Marked(d) /\ book'[d] \in Seq(Entry) /\ book'[d][i].status = s
<1>1. /\ book[d] \in Seq(Entry) /\ Len(book[d]) \in Nat
      /\ DOMAIN book[d] = 1..Len(book[d])
      /\ \A j \in DOMAIN book[d] : book[d][j] \in Entry
  BY EntryTyped
<1> DEFINE e == [book[d][i] EXCEPT !.status = s]
<1>2. e \in Entry /\ e.status = s /\ e.late = book[d][i].late /\ e.of = book[d][i].of
  BY <1>1 DEF Entry
<1>3. book'[d] = [book[d] EXCEPT ![i] = e]
  BY DEF WithStatus
<1> HIDE DEF e
<1>4. book'[d] \in Seq(Entry) /\ Len(book'[d]) = Len(book[d]) /\ DOMAIN book'[d] = DOMAIN book[d]
  BY <1>1, <1>2, <1>3
<1>5. \A j \in DOMAIN book[d] : book'[d][j] = IF j = i THEN e ELSE book[d][j]
  BY <1>1, <1>3
<1>6. book[d] # << >> /\ book'[d] # << >>
  BY <1>1, <1>4
<1> QED BY <1>2, <1>4, <1>5, <1>6 DEF Marked

LEMMA MarkBook ==
  ASSUME TypeOK, NEW o \in Orders,
         NEW s \in {"filled", "canceled", "withdrawn", "replaced"},
         book' = [book EXCEPT ![o[1]][o[2]].status = s]
  PROVE  /\ book' \in [Calls -> Seq(Entry)] /\ \A d \in Calls : Marked(d)
         /\ o[1] \in Calls /\ o[2] \in DOMAIN book[o[1]]
         /\ book'[o[1]][o[2]].status = s
         /\ \A d \in Calls \ {o[1]} : book'[d] = book[d]
<1>1. PICK d \in Calls : o \in {d} \X DOMAIN book[d]
  BY DEF Orders
<1>2. o[1] = d /\ o[2] \in DOMAIN book[d]
  BY <1>1
<1>3. /\ book \in [Calls -> Seq(Entry)]
      /\ book'[d] = WithStatus(d, o[2], s)
      /\ \A q \in Calls \ {d} : book'[q] = book[q]
  BY <1>2 DEF TypeOK, Entry, WithStatus
<1>4. Marked(d) /\ book'[d] \in Seq(Entry) /\ book'[d][o[2]].status = s
  <2>1. PICK i : i = o[2]
    OBVIOUS
  <2>2. i \in DOMAIN book[d] /\ book'[d] = WithStatus(d, i, s)
    BY <1>2, <1>3, <2>1
  <2>3. Marked(d) /\ book'[d] \in Seq(Entry) /\ book'[d][i].status = s
    BY <2>2, MarkOne
  <2> QED BY <2>1, <2>3
<1>5. book' = [q \in Calls |-> book'[q]]
  BY <1>3
<1>6. book' \in [Calls -> Seq(Entry)]
  BY <1>3, <1>4, <1>5
<1> QED BY <1>2, <1>3, <1>4, <1>6, Unmarked

\* A change of the book, while each call keeps what it is and where it is.
LEMMA BookStep ==
  ASSUME IInv,
         UNCHANGED <<now, events, profile, counters, lock, idem, recorded, answered, hist>>,
         book' \in [Calls -> Seq(Entry)],
         call' \in [Calls -> Locals], wire' \in [Calls -> {"none", "sent", "accepted"}],
         \A d \in Calls :
            /\ call'[d].pc = call[d].pc /\ call'[d].mode = call[d].mode
            /\ call'[d].profile = call[d].profile /\ call'[d].approved = call[d].approved
            /\ call'[d].read = call[d].read
            /\ wire'[d] # "none" => wire[d] # "none"
            /\ book[d] # <<>> => book'[d] # <<>>
            /\ \A i \in DOMAIN book'[d] :
                  Allowed(book'[d][i].of) /\ ~At(book'[d][i].of, "idle")
            /\ OneOrder(d)' /\ RolledBack(d)'
  PROVE  IInv'
<1> USE DEF At
<1>0. /\ TypeOK /\ GhostsOK /\ CountersInv /\ CacheInv
      /\ \A d \in Calls : Judged(d) /\ NoRetry(d) /\ Counted(d)
  BY DEF IInv, CallInv
<1>1. TypeOK'
  BY <1>0 DEF TypeOK, Entry
<1>2. GhostsOK' /\ CountersInv'
  BY <1>0 DEF GhostsOK, CountersInv, CountsAllRecords, Today
<1>3. CacheInv'
  <2>1. \A k \in Keys : idem[k] # None => idem[k].order \in Calls
    BY <1>0 DEF TypeOK
  <2>2. \A a \in answered : a[1] \in Calls
    BY <1>0 DEF GhostsOK
  <2> QED BY <1>0, <2>1, <2>2 DEF CacheInv, Rest
<1>4. ASSUME NEW d \in Calls PROVE CallInv(d)'
  <2>1. Deciding(d)' <=> Deciding(d)
    BY DEF Deciding
  <2>2. RecordedToday' = RecordedToday
    BY DEF RecordedToday, Today
  <2>3. ASSUME NEW e \in Calls, Allowed(e) PROVE Allowed(e)'
    BY <2>3 DEF Allowed
  <2>4. Judged(d)'
    BY <1>0, <2>1, <2>2, <2>3 DEF Judged, Amends
  <2>5. \A i \in DOMAIN book'[d] : book'[d][i].of \in Calls
    <3>1. book'[d] \in Seq(Entry)
      OBVIOUS
    <3>2. \A i \in DOMAIN book'[d] : book'[d][i] \in Entry
      BY <3>1
    <3> QED BY <3>2 DEF Entry
  <2>6. Covered(d)'
    BY <2>3, <2>5 DEF Covered
  <2>7. NoRetry(d)'
    BY <1>0 DEF NoRetry, Rest
  <2>8. Counted(d)'
    <3>1. Counted(d) /\ call'[d].pc = call[d].pc /\ call'[d].read = call[d].read
      BY <1>0
    <3>2. Today' = Today
      BY DEF Today
    <3>3. {r \in recorded' : r[2] = call'[d].read.date} = {r \in recorded : r[2] = call[d].read.date}
      BY <3>1
    <3> QED BY <3>1, <3>2, <3>3 DEF Counted, On
  <2> QED BY <2>4, <2>6, <2>7, <2>8 DEF CallInv
<1> QED BY <1>1, <1>2, <1>3, <1>4 DEF IInv

LEMMA OrdersKept ==
  ASSUME \A d \in Calls : DOMAIN book[d] \subseteq DOMAIN book'[d]
  PROVE  Orders \subseteq Orders'
<1> SUFFICES ASSUME NEW o \in Orders PROVE o \in Orders'
  OBVIOUS
<1>1. PICK d \in Calls : o \in {d} \X DOMAIN book[d]
  BY DEF Orders
<1>2. o \in {d} \X DOMAIN book'[d]
  BY <1>1
<1> QED BY <1>2 DEF Orders

\* A change of status.
LEMMA MarksStep ==
  ASSUME IInv,
         UNCHANGED <<now, events, profile, counters, lock, idem, recorded, answered, hist, wire>>,
         book' \in [Calls -> Seq(Entry)], call' \in [Calls -> Locals],
         \A d \in Calls :
            /\ Marked(d)
            /\ call'[d].pc = call[d].pc /\ call'[d].mode = call[d].mode
            /\ call'[d].profile = call[d].profile /\ call'[d].approved = call[d].approved
            /\ call'[d].read = call[d].read /\ call'[d].answer = call[d].answer
            /\ call'[d].note = call[d].note /\ call'[d].targets \subseteq call[d].targets
            /\ call'[d] = call[d] \/ RolledBack(d)'
  PROVE  IInv'
<1> USE DEF At
<1>0. /\ TypeOK
      /\ \A d \in Calls : OneOrder(d) /\ RolledBack(d) /\ Covered(d)
  BY DEF IInv, CallInv
<1>1. Orders \subseteq Orders'
  BY OrdersKept DEF Marked
<1>2. ASSUME NEW d \in Calls
      PROVE  /\ OneOrder(d)' /\ RolledBack(d)'
             /\ wire'[d] # "none" => wire[d] # "none"
             /\ book[d] # << >> => book'[d] # << >>
             /\ \A i \in DOMAIN book'[d] :
                   Allowed(book'[d][i].of) /\ ~At(book'[d][i].of, "idle")
  <2>1. OneOrder(d)'
    BY <1>0, <1>1 DEF OneOrder, Marked
  <2>2. RolledBack(d)'
    <3>1. \A i \in DOMAIN book'[d] : i \in DOMAIN book[d] /\ (Left(d, i)' => Left(d, i))
      BY DEF Marked, Left
    <3>2. CASE call'[d] = call[d]
      BY <1>0, <3>1, <3>2 DEF RolledBack
    <3> QED BY <3>2
  <2>3. \A i \in DOMAIN book'[d] : i \in DOMAIN book[d] /\ book'[d][i].of = book[d][i].of
    BY DEF Marked
  <2> QED BY <1>0, <2>1, <2>2, <2>3 DEF Covered, Marked
<1>3. wire' \in [Calls -> {"none", "sent", "accepted"}]
  BY <1>0 DEF TypeOK
<1> QED BY <1>2, <1>3, BookStep

LEMMA FillStep ==
  ASSUME IInv, NEW c \in Calls, Fill(c)
  PROVE  IInv'
<1>1. PICK i \in DOMAIN book[c] : book' = [book EXCEPT ![c][i].status = "filled"]
  BY DEF Fill
<1>2. <<c, i>> \in Orders /\ <<c, i>>[1] = c /\ <<c, i>>[2] = i
  BY DEF Orders
<1>3. book' \in [Calls -> Seq(Entry)] /\ \A d \in Calls : Marked(d)
  <2>1. book' = [book EXCEPT ![<<c, i>>[1]][<<c, i>>[2]].status = "filled"]
    BY <1>1, <1>2
  <2> QED BY <1>2, <2>1, MarkBook DEF IInv
<1> QED BY <1>3, MarksStep DEF Fill, bounded, files, ghosts, IInv, TypeOK

LEMMA WithdrawStep ==
  ASSUME IInv, NEW c \in Calls, Withdraw(c)
  PROVE  IInv'
<1>1. PICK i \in DOMAIN book[c] : book' = [book EXCEPT ![c][i].status = "withdrawn"]
  BY DEF Withdraw
<1>2. <<c, i>> \in Orders /\ <<c, i>>[1] = c /\ <<c, i>>[2] = i
  BY DEF Orders
<1>3. book' \in [Calls -> Seq(Entry)] /\ \A d \in Calls : Marked(d)
  <2>1. book' = [book EXCEPT ![<<c, i>>[1]][<<c, i>>[2]].status = "withdrawn"]
    BY <1>1, <1>2
  <2> QED BY <1>2, <2>1, MarkBook DEF IInv
<1> QED BY <1>3, MarksStep DEF Withdraw, bounded, files, ghosts, IInv, TypeOK

\* One target less: it is cancelled, or its cancel has failed.
LEMMA CancelMatchStep ==
  ASSUME IInv, NEW c \in Calls, CancelMatch(c)
  PROVE  IInv'
<1>0. /\ TypeOK /\ OneOrder(c) /\ RolledBack(c) /\ call[c].pc = "cancel"
      /\ call \in [Calls -> Locals] /\ call[c] \in Locals
  BY DEF IInv, CallInv, CancelMatch, At, TypeOK
<1>1. PICK o \in call[c].targets, ok \in BOOLEAN, done \in BOOLEAN :
         /\ ok => done
         /\ done => Status(o) = "working"
         /\ book' = IF done THEN [book EXCEPT ![o[1]][o[2]].status = "canceled"] ELSE book
         /\ call' = [call EXCEPT ![c].targets = @ \ {o}, ![c].failed = @ \/ ~ok]
  BY DEF CancelMatch
<1>2. o \in Orders
  BY <1>0 DEF OneOrder
<1>3. /\ book' \in [Calls -> Seq(Entry)] /\ \A d \in Calls : Marked(d)
      /\ done => o[1] \in Calls /\ o[2] \in DOMAIN book[o[1]]
                 /\ book'[o[1]][o[2]].status = "canceled"
  <2>1. CASE done
    BY <1>0, <1>1, <1>2, <2>1, MarkBook
  <2>2. CASE ~done
    <3>1. book' = book
      BY <1>1, <2>2
    <3> QED BY <1>0, <2>2, <3>1, Unmarked DEF TypeOK, Entry
  <2> QED BY <2>1, <2>2
<1> DEFINE r == [call[c] EXCEPT !.targets = @ \ {o}, !.failed = @ \/ ~ok]
<1>4. /\ r \in Locals
      /\ r.targets = call[c].targets \ {o} /\ r.failed = (call[c].failed \/ ~ok)
      /\ r.pc = call[c].pc /\ r.mode = call[c].mode
      /\ r.profile = call[c].profile /\ r.approved = call[c].approved
      /\ r.read = call[c].read /\ r.answer = call[c].answer /\ r.note = call[c].note
  <2>1. call[c].failed \in BOOLEAN /\ call[c].targets \in SUBSET (Calls \X Nat)
    BY <1>0 DEF Locals
  <2>2. call[c].targets \ {o} \in SUBSET (Calls \X Nat) /\ (call[c].failed \/ ~ok) \in BOOLEAN
    BY <2>1
  <2> QED BY <1>0, <2>2 DEF Locals
<1>5. call' = [call EXCEPT ![c] = r]
  BY <1>1
<1> HIDE DEF r
<1>6. Moves(c) /\ call'[c] = r
  BY <1>0, <1>4, <1>5, MovesTo
<1>7. RolledBack(c)'
  <2>1. ASSUME NEW i \in DOMAIN book'[c], Left(c, i)'
        PROVE  r.failed \/ <<c, i>> \in r.targets
    <3>1. i \in DOMAIN book[c] /\ Left(c, i)
      BY <1>3, <2>1 DEF Marked, Left
    <3>2. call[c].failed \/ <<c, i>> \in call[c].targets
      BY <1>0, <3>1 DEF RolledBack, At
    <3>3. CASE ok /\ <<c, i>> = o
      <4>1. o[1] = c /\ o[2] = i
        BY <3>3
      <4>2. book'[c][i].status = "canceled"
        BY <1>1, <1>3, <3>3, <4>1
      <4> QED BY <2>1, <4>2 DEF Left
    <3> QED BY <1>4, <3>2, <3>3
  <2>2. r.note \notin {"no_match", "cancelled"}
    BY <1>0, <1>4, CallsAssumption DEF OneOrder, At
  <2> QED BY <1>6, <2>1, <2>2 DEF RolledBack
<1>8. \A d \in Calls : d # c => call'[d] = call[d]
  BY <1>6 DEF Moves
<1>9. UNCHANGED <<now, events, profile, counters, lock, idem, recorded, answered, hist, wire>>
  BY DEF CancelMatch, bounded, files, ghosts
<1>10. ASSUME NEW d \in Calls
       PROVE  /\ call'[d].pc = call[d].pc /\ call'[d].mode = call[d].mode
              /\ call'[d].profile = call[d].profile /\ call'[d].approved = call[d].approved
              /\ call'[d].read = call[d].read /\ call'[d].answer = call[d].answer
              /\ call'[d].note = call[d].note /\ call'[d].targets \subseteq call[d].targets
              /\ call'[d] = call[d] \/ RolledBack(d)'
  <2>1. CASE d = c
    BY <1>4, <1>6, <1>7, <2>1
  <2>2. CASE d # c
    BY <1>8, <2>2
  <2> QED BY <2>1, <2>2
<1> QED BY <1>3, <1>6, <1>9, <1>10, MarksStep DEF Moves

\* The order enters a book that had none of the call's.
LEMMA AcceptStep ==
  ASSUME IInv, NEW c \in Calls, Accept(c)
  PROVE  IInv'
<1> USE DEF At
<1>0. /\ TypeOK /\ wire[c] = "sent"
      /\ \A d \in Calls : OneOrder(d) /\ RolledBack(d) /\ Covered(d) /\ Judged(d)
  BY DEF IInv, CallInv, Accept
<1>1. /\ UNCHANGED <<now, events, profile, counters, lock, idem, call, recorded, answered, hist>>
      /\ wire' = [wire EXCEPT ![c] = IF call[c].pc = "wait" THEN "accepted" ELSE "none"]
  BY DEF Accept, bounded, files, ghosts
<1>2. /\ book[c] = << >> /\ call[c].pc \notin Early /\ call[c].pc \notin Counting
      /\ call[c].pc # "idle"
  BY <1>0 DEF OneOrder, Early
<1>3. /\ wire' \in [Calls -> {"none", "sent", "accepted"}]
      /\ \A d \in Calls : d # c => wire'[d] = wire[d]
      /\ wire'[c] # "sent" /\ (wire'[c] = "accepted" => call[c].pc = "wait")
  BY <1>0, <1>1 DEF TypeOK
<1>4. ASSUME book' \in [Calls -> Seq(Entry)],
             \A d \in Calls : d # c => Marked(d),
             \/ /\ Marked(c) /\ call[c].mode \in {"cancel", "rest_cancel"}
             \/ \E of \in Calls : /\ Allowed(of) /\ call[of].pc # "idle"
                                  /\ book'[c] = <<Entered(c, of)>>
      PROVE  IInv'
  <2>1. ASSUME NEW d \in Calls PROVE DOMAIN book[d] \subseteq DOMAIN book'[d]
    <3>1. CASE d = c
      BY <1>2, <3>1
    <3>2. CASE d # c
      BY <1>4, <3>2 DEF Marked
    <3> QED BY <3>1, <3>2
  <2>2. Orders \subseteq Orders'
    BY <2>1, OrdersKept
  <2>3. ASSUME NEW d \in Calls, Marked(d), d = c => call[c].mode \in {"cancel", "rest_cancel"}
        PROVE  /\ OneOrder(d)' /\ RolledBack(d)'
               /\ book[d] # << >> => book'[d] # << >>
               /\ \A i \in DOMAIN book'[d] :
                     Allowed(book'[d][i].of) /\ call[book'[d][i].of].pc # "idle"
    <3>1. OneOrder(d) /\ RolledBack(d) /\ Covered(d)
      BY <1>0
    <3>2. OneOrder(d)'
      BY <1>1, <1>2, <1>3, <2>2, <2>3, <3>1 DEF OneOrder, Marked
    <3>3. \A i \in DOMAIN book'[d] : i \in DOMAIN book[d] /\ (Left(d, i)' => Left(d, i))
      BY <2>3 DEF Marked, Left
    <3>4. RolledBack(d)'
      BY <1>1, <3>1, <3>3 DEF RolledBack
    <3>5. \A i \in DOMAIN book'[d] : i \in DOMAIN book[d] /\ book'[d][i].of = book[d][i].of
      BY <2>3 DEF Marked
    <3> QED BY <2>3, <3>1, <3>2, <3>4, <3>5 DEF Covered, Marked
  <2>4. ASSUME NEW of \in Calls, Allowed(of), call[of].pc # "idle",
               book'[c] = <<Entered(c, of)>>
        PROVE  /\ OneOrder(c)' /\ RolledBack(c)'
               /\ book[c] # << >> => book'[c] # << >>
               /\ \A i \in DOMAIN book'[c] :
                     Allowed(book'[c][i].of) /\ call[book'[c][i].of].pc # "idle"
    <3>1. OneOrder(c) /\ RolledBack(c)
      BY <1>0
    <3>2. /\ DOMAIN book'[c] = {1} /\ Len(book'[c]) = 1 /\ book'[c] # << >>
          /\ book'[c][1].of = of
          /\ book'[c][1].late = (call[c].pc \notin {"wait", "verify"})
      BY <2>4 DEF Entered
    <3>3. OneOrder(c)'
      BY <1>1, <1>2, <1>3, <2>2, <3>1, <3>2 DEF OneOrder
    <3>4. call[c].pc \notin {"wait", "verify"} => \A i \in DOMAIN book'[c] : ~Left(c, i)'
      BY <3>2 DEF Left
    <3>5. call[c].note \in {"no_match", "cancelled"} => call[c].pc = "ended"
      BY <3>1, CallsAssumption DEF OneOrder
    <3>6. RolledBack(c)'
      BY <1>1, <3>4, <3>5 DEF RolledBack
    <3> QED BY <1>2, <2>4, <3>2, <3>3, <3>6
  <2>5. \A d \in Calls : /\ OneOrder(d)' /\ RolledBack(d)'
                         /\ book[d] # << >> => book'[d] # << >>
                         /\ \A i \in DOMAIN book'[d] :
                               Allowed(book'[d][i].of) /\ call[book'[d][i].of].pc # "idle"
    BY <1>4, <2>3, <2>4
  <2>6. \A d \in Calls : wire'[d] # "none" => wire[d] # "none"
    BY <1>0, <1>3
  <2>7. call' \in [Calls -> Locals]
    BY <1>0, <1>1 DEF TypeOK
  <2> QED BY <1>1, <1>3, <1>4, <2>5, <2>6, <2>7, BookStep
<1>5. book \in [Calls -> Seq(Entry)]
  BY <1>0 DEF TypeOK, Entry
<1>6. \A of \in Calls : Entered(c, of) \in Entry
  BY DEF Entered, Entry
<1>7. CASE ~Amends(c) /\ book' = [book EXCEPT ![c] = Append(@, Entered(c, c))]
  <2>1. Allowed(c)
    BY <1>0, <1>7 DEF Judged
  <2>2. book'[c] = <<Entered(c, c)>>
    BY <1>2, <1>5, <1>7
  <2>3. book' \in [Calls -> Seq(Entry)]
    BY <1>2, <1>5, <1>6, <1>7
  <2>4. \A d \in Calls : d # c => Marked(d)
    <3>1. \A d \in Calls : d # c => book'[d] = book[d]
      BY <1>5, <1>7
    <3> QED BY <3>1, Unmarked
  <2> QED BY <1>2, <1>4, <2>1, <2>2, <2>3, <2>4
<1>8. ASSUME NEW o \in call[c].targets, Status(o) = "working",
             book' = [book EXCEPT ![o[1]][o[2]].status = "replaced",
                                  ![c] = Append(@, Entered(c, book[o[1]][o[2]].of))]
      PROVE  IInv'
  <2>1. o \in Orders
    BY <1>0 DEF OneOrder
  <2>2. PICK d \in Calls : o \in {d} \X DOMAIN book[d]
    BY <2>1 DEF Orders
  <2>3. o[1] = d /\ o[2] \in DOMAIN book[d]
    BY <2>2
  <2>4. d # c
    BY <1>2, <2>3
  <2>5. PICK of \in Calls : of = book[d][o[2]].of
    BY <1>0, <2>3, EntryTyped
  <2>6. Allowed(of) /\ call[of].pc # "idle"
    BY <1>0, <2>3, <2>5 DEF Covered
  <2>7. /\ book'[c] = <<Entered(c, of)>>
        /\ book'[d] = WithStatus(d, o[2], "replaced")
        /\ \A q \in Calls : q \notin {c, d} => book'[q] = book[q]
        /\ book' = [q \in Calls |-> book'[q]]
    <3>1. PICK e : e = Entered(c, book[o[1]][o[2]].of)
      OBVIOUS
    <3>2. book' = [book EXCEPT ![o[1]][o[2]].status = "replaced", ![c] = Append(@, e)]
      BY <1>8, <3>1
    <3>3. book' = [book EXCEPT ![d][o[2]].status = "replaced", ![c] = Append(@, e)]
      BY <2>3, <3>2
    <3>4. /\ book'[c] = Append(<< >>, e)
          /\ book'[d] = [book[d] EXCEPT ![o[2]].status = "replaced"]
          /\ \A q \in Calls : q \notin {c, d} => book'[q] = book[q]
          /\ book' = [q \in Calls |-> book'[q]]
      BY <1>2, <1>5, <2>4, <3>3
    <3>5. e = Entered(c, of) /\ Append(<< >>, e) = <<e>>
      BY <2>3, <2>5, <3>1
    <3> QED BY <3>4, <3>5 DEF WithStatus
  <2>8. Marked(d) /\ book'[d] \in Seq(Entry)
    <3>1. PICK i : i = o[2]
      OBVIOUS
    <3>2. i \in DOMAIN book[d] /\ book'[d] = WithStatus(d, i, "replaced")
      BY <2>3, <2>7, <3>1
    <3> QED BY <1>0, <3>2, MarkOne
  <2>9. book'[c] \in Seq(Entry)
    BY <1>6, <2>7
  <2>10. book' \in [Calls -> Seq(Entry)]
    <3>1. \A q \in Calls : book'[q] \in Seq(Entry)
      BY <1>5, <2>7, <2>8, <2>9
    <3> QED BY <2>7, <3>1
  <2>11. \A q \in Calls : q # c => Marked(q)
    BY <2>7, <2>8, Unmarked
  <2> QED BY <1>4, <2>6, <2>7, <2>10, <2>11
<1>9. ASSUME call[c].mode \in {"cancel", "rest_cancel"},
             NEW o \in call[c].targets, Status(o) = "working",
             book' = [book EXCEPT ![o[1]][o[2]].status = "withdrawn"]
      PROVE  IInv'
  <2>1. o \in Orders
    BY <1>0 DEF OneOrder
  <2>2. book' \in [Calls -> Seq(Entry)] /\ \A d \in Calls : Marked(d)
    BY <1>0, <1>9, <2>1, MarkBook
  <2> QED BY <1>4, <1>9, <2>2
<1> QED BY <1>7, <1>8, <1>9 DEF Accept

-----------------------------------------------------------------------------
(* The counters, the answer, and what happens around the calls.              *)

\* A step of c that counts or answers: its order is in the book, its request gone.
LEMMA CountStep ==
  ASSUME IInv, NEW c \in Calls, call[c].pc \in Counting,
         UNCHANGED <<now, events, profile, wire, book>>,
         NEW r \in Locals, call' = [call EXCEPT ![c] = r],
         r.pc \in Counting \cup {"ended"}, r.mode = call[c].mode,
         r.pc \in Counting => r.approved = call[c].approved,
         r.answer # None => r.pc = "ended", r.note = None, r.targets \subseteq Orders,
         hist' \in [Calls -> Remembered], \A d \in Calls : Tracked(d)
  PROVE  /\ Moves(c) /\ call'[c] = r
         /\ \A d \in Calls : /\ OneOrder(d)' /\ RolledBack(d)' /\ Judged(d)'
                             /\ Covered(d)' /\ NoRetry(d)'
<1> USE DEF At
<1>0. TypeOK /\ OneOrder(c) /\ Judged(c) /\ NoRetry(c) /\ Tracked(c)
  BY DEF IInv, CallInv
<1>1. Moves(c) /\ call'[c] = r
  BY <1>0, MovesTo
<1>2. ASSUME NEW d \in Calls \ {c}
      PROVE  OneOrder(d)' /\ RolledBack(d)' /\ Judged(d)' /\ NoRetry(d)'
  <2>1. d \in Calls /\ call'[d] = call[d] /\ wire'[d] = wire[d]
    BY <1>1 DEF Moves
  <2> QED BY <2>1, SameCall
<1>3. \A d \in Calls : Covered(d)'
  <2>1. call[c].pc # "idle" /\ r.pc # "idle"
    BY DEF Counting
  <2>2. \A e \in Calls : ~At(e, "idle") => ~At(e, "idle")' /\ call'[e].mode = call[e].mode
    BY <1>1, <2>1 DEF Moves
  <2> QED BY <2>2, CoveredKept
<1>4. OneOrder(c)'
  BY <1>0, <1>1 DEF OneOrder, Early, Counting, Orders
<1>5. RolledBack(c)'
  BY <1>1, CallsAssumption DEF RolledBack, Counting
<1>6. Judged(c)'
  <2>1. Amends(c) \/ Allowed(c)
    BY <1>0 DEF Judged, Committed
  <2>2. Amends(c)' \/ Allowed(c)'
    BY <1>0, <1>1, <2>1 DEF Amends, Allowed, Tracked
  <2> QED BY <1>1, <2>2 DEF Judged, Deciding, Counting
<1>7. NoRetry(c)'
  <2>1. hist'[c].done = hist[c].done
    BY <1>0 DEF Tracked, Counting
  <2> QED BY <1>0, <1>1, <2>1 DEF NoRetry, Rest, Committed, Counting
<1> QED BY <1>1, <1>2, <1>3, <1>4, <1>5, <1>6, <1>7

\* The record and its file, unless they change.
LEMMA CountersKept ==
  ASSUME IInv, UNCHANGED <<now, counters, recorded>>
  PROVE  CountersInv' /\ \A d \in Calls : call'[d] = call[d] => Counted(d)'
<1>1. CountersInv'
  BY DEF IInv, CountersInv, CountsAllRecords, Today
<1>2. ASSUME NEW d \in Calls, call'[d] = call[d] PROVE Counted(d)'
  BY <1>2 DEF IInv, CallInv, Counted, On, At, Today
<1> QED BY <1>1, <1>2

LEMMA LockAndLoadStep ==
  ASSUME IInv, NEW c \in Calls, LockAndLoad(c)
  PROVE  IInv'
<1> USE DEF At
<1>0. /\ TypeOK /\ GhostsOK /\ OneOrder(c) /\ Counted(c) /\ CountersInv
      /\ call[c].pc = "count" /\ lock = None
      /\ call[c] \in Locals
  BY DEF IInv, CallInv, LockAndLoad, LockFree, TypeOK
<1>1. /\ UNCHANGED <<now, events, profile, counters, idem, wire, book, recorded, answered, hist>>
      /\ lock' = c
  BY DEF LockAndLoad, bounded, broker, ghosts
<1> DEFINE r == [call[c] EXCEPT !.pc = "counting", !.read = Loaded]
<1>2. /\ r \in Locals /\ r.pc = "counting" /\ r.read = Loaded /\ r.mode = call[c].mode
      /\ r.approved = call[c].approved /\ r.answer = call[c].answer
      /\ r.note = call[c].note /\ r.targets = call[c].targets
  <2>1. "counting" \in Active /\ Loaded \in [date : Nat, total : Nat]
    BY LoadedToday DEF Active
  <2> QED BY <1>0, <2>1 DEF Locals
<1>3. call' = [call EXCEPT ![c] = r]
  BY DEF LockAndLoad
<1> HIDE DEF r
<1>4. Moves(c) /\ call'[c] = r
  BY <1>0, <1>2, <1>3, MovesTo
<1>5. hist' \in [Calls -> Remembered] /\ \A d \in Calls : Tracked(d)
  BY <1>1, <1>2, <1>4, QuietHistory
<1>6. call[c].answer = None /\ call[c].note = None /\ call[c].targets \subseteq Orders
  BY <1>0 DEF OneOrder
<1>7. \A d \in Calls : /\ OneOrder(d)' /\ RolledBack(d)' /\ Judged(d)'
                       /\ Covered(d)' /\ NoRetry(d)'
  <2>1. call[c].pc \in Counting /\ r.pc \in Counting \cup {"ended"}
    BY <1>0, <1>2 DEF Counting
  <2> QED BY <1>0, <1>1, <1>2, <1>3, <1>5, <1>6, <2>1, CountStep
<1>8. CountersInv' /\ \A d \in Calls \ {c} : Counted(d)'
  BY <1>1, <1>4, CountersKept DEF Moves
<1>9. Counted(c)'
  <2>1. Loaded.date = Today /\ Loaded.total = RecordedToday
    BY LoadedToday
  <2>2. Today \in Nat /\ counters.date <= Today
    BY <1>0, TodayNat DEF CountersInv
  <2>3. call'[c].read.date = Today /\ Today' = Today
    BY <1>1, <1>2, <1>4, <2>1 DEF Today
  <2>4. {q \in recorded : q[2] = call'[c].read.date} = {q \in recorded : q[2] = Today}
    BY <2>3
  <2>5. call'[c].read.total = Cardinality({q \in recorded : q[2] = call'[c].read.date})
    BY <1>2, <1>4, <2>1, <2>4 DEF RecordedToday
  <2>6. ~\E q \in recorded : q[1] = c
    BY <1>0 DEF Counted
  <2> QED BY <1>1, <2>2, <2>3, <2>5, <2>6 DEF Counted, On
<1>10. CacheInv'
  BY <1>0, <1>1, <1>4, CacheKept
<1>11. TypeOK'
  <2>1. \A d \in Calls : lock' = d <=> call'[d].pc = "counting"
    BY <1>0, <1>1, <1>2, <1>4, CallsAssumption DEF TypeOK, Moves
  <2> QED BY <1>0, <1>1, <1>4, <2>1 DEF TypeOK, Moves
<1>12. GhostsOK'
  BY <1>0, <1>1 DEF GhostsOK
<1> QED BY <1>7, <1>8, <1>9, <1>10, <1>11, <1>12 DEF IInv, CallInv

\* A record more, and the file counts it.
LEMMA SaveStep ==
  ASSUME IInv, NEW c \in Calls, Save(c)
  PROVE  IInv'
<1> USE DEF At
<1>0. /\ TypeOK /\ GhostsOK /\ OneOrder(c) /\ Counted(c) /\ CountersInv
      /\ call[c].pc = "counting" /\ lock = c /\ call[c] \in Locals /\ Today \in Nat
  BY TodayNat DEF IInv, CallInv, Save, TypeOK
<1>1. /\ UNCHANGED <<now, events, profile, idem, wire, book, answered>>
      /\ lock' = None /\ Go(c, "reply") /\ History
      /\ counters' = [call[c].read EXCEPT !.total = @ + 1]
      /\ recorded' = recorded \cup {<<c, call[c].read.date>>}
  BY DEF Save, bounded, broker
<1> DEFINE rd == call[c].read
           new == <<c, rd.date>>
<1>2. rd \in [date : Nat, total : Nat] /\ rd.date \in Nat /\ rd.total \in Nat
  BY <1>0 DEF Locals
<1>3. /\ counters' \in [date : Nat, total : Nat]
      /\ counters'.date = rd.date /\ counters'.total = rd.total + 1
  BY <1>1, <1>2
<1>4. "reply" \in Active
  BY DEF Active
<1>5. /\ Moves(c)
      /\ call'[c].pc = "reply" /\ call'[c].mode = call[c].mode
      /\ call'[c].approved = call[c].approved /\ call'[c].targets = call[c].targets
      /\ call'[c].answer = None /\ call'[c].note = None
  BY <1>0, <1>1, <1>4, GoMoves
<1>6. hist' \in [Calls -> Remembered] /\ \A d \in Calls : Tracked(d)
  <2>1. profile' \in Profiles \cup {Missing}
    BY <1>0, <1>1 DEF TypeOK
  <2> QED BY <1>0, <1>1, <2>1, HistoryTracks
<1>7. \A d \in Calls : /\ OneOrder(d)' /\ RolledBack(d)' /\ Judged(d)'
                       /\ Covered(d)' /\ NoRetry(d)'
  <2>1. call[c].pc \in Counting /\ call'[c].pc \in Counting \cup {"ended"}
    BY <1>0, <1>5 DEF Counting
  <2>2. call'[c] \in Locals /\ call' = [call EXCEPT ![c] = call'[c]]
    BY <1>0, <1>1, <1>5 DEF Moves, Go, TypeOK
  <2>3. call'[c].targets \subseteq Orders
    BY <1>0, <1>5 DEF OneOrder
  <2> QED BY <1>1, <1>5, <1>6, <2>1, <2>2, <2>3, CountStep
<1>8. /\ recorded \in SUBSET (Calls \X Nat) /\ IsFiniteSet(recorded) /\ new \notin recorded
      /\ new[1] = c /\ new[2] = rd.date
  <2>1. ~\E q \in recorded : q[1] = c
    BY <1>0 DEF Counted
  <2> QED BY <1>0, <2>1 DEF GhostsOK
<1>9. recorded' = recorded \cup {new} /\ new \in Calls \X Nat
  BY <1>1, <1>2
<1>10. GhostsOK'
  <2>1. IsFiniteSet(recorded')
    BY <1>8, <1>9, FS_AddElement
  <2>2. answered \in SUBSET (Calls \X Nat)
    BY <1>0 DEF GhostsOK
  <2> QED BY <1>1, <1>6, <1>8, <1>9, <2>1, <2>2 DEF GhostsOK
<1>11. /\ counters.date <= rd.date /\ rd.date <= Today
       /\ rd.total = Cardinality({q \in recorded : q[2] = rd.date})
  BY <1>0 DEF Counted, On
<1> HIDE DEF new
<1>12. CountersInv'
  <2> DEFINE S == {q \in recorded : q[2] = rd.date}
  <2>1. {q \in recorded' : q[2] = counters'.date} = S \cup {new}
    BY <1>3, <1>8, <1>9
  <2>2. IsFiniteSet(S) /\ new \notin S
    <3>1. S \subseteq recorded
      OBVIOUS
    <3> QED BY <1>8, <3>1, FS_Subset
  <2>3. Cardinality(S \cup {new}) = Cardinality(S) + 1
    <3> HIDE DEF S
    <3> QED BY <2>2, FS_AddElement
  <2>4. counters'.total = Cardinality({q \in recorded' : q[2] = counters'.date})
    BY <1>3, <1>11, <2>1, <2>3
  <2>5. ASSUME NEW q \in recorded' PROVE q[2] <= counters'.date
    <3>1. CASE q = new
      BY <1>2, <1>3, <1>8, <3>1
    <3>2. CASE q \in recorded
      <4>1. q[2] \in Nat /\ counters.date \in Nat
        BY <1>0, <3>2 DEF GhostsOK, TypeOK
      <4>2. q[2] <= counters.date
        BY <1>0, <3>2 DEF CountersInv, CountsAllRecords
      <4> QED BY <1>2, <1>3, <1>11, <4>1, <4>2
    <3> QED BY <1>9, <3>1, <3>2
  <2>6. counters'.date <= Today'
    BY <1>1, <1>3, <1>11 DEF Today
  <2> QED BY <2>4, <2>5, <2>6 DEF CountersInv, CountsAllRecords
<1>13. ASSUME NEW d \in Calls PROVE Counted(d)'
  <2>1. call'[d].pc # "counting"
    BY <1>0, <1>5 DEF TypeOK, Moves
  <2>2. ASSUME NEW q \in recorded', q[1] = d
        PROVE  call'[d].pc \in {"reply", "ended", "killed"}
    <3>1. CASE d = c
      BY <1>5, <3>1
    <3>2. CASE d # c
      <4>1. q \in recorded
        BY <1>8, <1>9, <2>2, <3>2
      <4>2. Counted(d)
        BY DEF IInv, CallInv
      <4> QED BY <1>5, <2>2, <3>2, <4>1, <4>2 DEF Counted, Moves
    <3> QED BY <3>1, <3>2
  <2> QED BY <2>1, <2>2 DEF Counted
<1>14. CacheInv'
  BY <1>0, <1>1, <1>5, CacheKept
<1>15. TypeOK'
  <2>1. \A d \in Calls : lock' = d <=> call'[d].pc = "counting"
    BY <1>0, <1>1, <1>5, CallsAssumption DEF TypeOK, Moves
  <2> QED BY <1>0, <1>1, <1>3, <1>5, <2>1 DEF TypeOK, Moves
<1> QED BY <1>7, <1>10, <1>12, <1>13, <1>14, <1>15 DEF IInv, CallInv

LEMMA CountFailsStep ==
  ASSUME IInv, NEW c \in Calls, CountFails(c)
  PROVE  IInv'
<1> USE DEF At
<1>0. /\ TypeOK /\ GhostsOK /\ OneOrder(c) /\ Counted(c) /\ CountersInv
      /\ call[c].pc = "counting" /\ lock = c
  BY DEF IInv, CallInv, CountFails, TypeOK
<1>1. /\ UNCHANGED <<now, events, profile, counters, idem, wire, book, recorded, answered, hist>>
      /\ lock' = None /\ Go(c, "reply")
  BY DEF CountFails, bounded, broker, ghosts
<1>2. "reply" \in Active
  BY DEF Active
<1>3. /\ Moves(c)
      /\ call'[c].pc = "reply" /\ call'[c].mode = call[c].mode
      /\ call'[c].approved = call[c].approved /\ call'[c].targets = call[c].targets
      /\ call'[c].answer = None /\ call'[c].note = None
  BY <1>0, <1>1, <1>2, GoMoves
<1>4. hist' \in [Calls -> Remembered] /\ \A d \in Calls : Tracked(d)
  BY <1>1, <1>3, QuietHistory
<1>5. \A d \in Calls : /\ OneOrder(d)' /\ RolledBack(d)' /\ Judged(d)'
                       /\ Covered(d)' /\ NoRetry(d)'
  <2>1. call[c].pc \in Counting /\ call'[c].pc \in Counting \cup {"ended"}
    BY <1>0, <1>3 DEF Counting
  <2>2. call'[c] \in Locals /\ call' = [call EXCEPT ![c] = call'[c]]
    BY <1>0, <1>1, <1>3 DEF Moves, Go, TypeOK
  <2>3. call'[c].targets \subseteq Orders
    BY <1>0, <1>3 DEF OneOrder
  <2> QED BY <1>1, <1>3, <1>4, <2>1, <2>2, <2>3, CountStep
<1>6. CountersInv' /\ \A d \in Calls \ {c} : Counted(d)'
  BY <1>1, <1>3, CountersKept DEF Moves
<1>7. Counted(c)'
  BY <1>3 DEF Counted
<1>8. CacheInv'
  BY <1>0, <1>1, <1>3, CacheKept
<1>9. TypeOK'
  <2>1. \A d \in Calls : lock' = d <=> call'[d].pc = "counting"
    BY <1>0, <1>1, <1>3, CallsAssumption DEF TypeOK, Moves
  <2> QED BY <1>0, <1>1, <1>3, <2>1 DEF TypeOK, Moves
<1>10. GhostsOK'
  BY <1>0, <1>1 DEF GhostsOK
<1> QED BY <1>5, <1>6, <1>7, <1>8, <1>9, <1>10 DEF IInv, CallInv

\* The cache takes the answer while the day lasts.
LEMMA ReplyStep ==
  ASSUME IInv, NEW c \in Calls, Reply(c)
  PROVE  IInv'
<1> USE DEF At
<1>0. /\ TypeOK /\ GhostsOK /\ OneOrder(c) /\ NoRetry(c) /\ CacheInv
      /\ call[c].pc = "reply" /\ now \in Nat
  <2>1. TypeOK
    BY DEF IInv
  <2>2. now \in Nat
    BY <2>1, BoundsAssumption DEF TypeOK
  <2> QED BY <2>2 DEF IInv, CallInv, Reply
<1>1. /\ UNCHANGED <<now, events, profile, counters, lock, wire, book, recorded, hist>>
      /\ answered' = answered \cup {<<c, now>>}
      /\ End(c, IF Rest(c) /\ ~call[c].approved THEN "not_placed" ELSE c, None)
      /\ IF Rest(c) /\ call[c].approved /\ KeyOf[c] # NoKey
         THEN idem' = [idem EXCEPT ![KeyOf[c]] = [order |-> c, at |-> now]]
         ELSE UNCHANGED idem
  BY DEF Reply, bounded, files, broker
<1>2. Rest(c) => call[c].approved
  BY <1>0 DEF NoRetry, Committed, Counting
<1>3. /\ Moves(c) /\ call'[c].pc = "ended" /\ call'[c].mode = call[c].mode
      /\ call'[c].targets \subseteq call[c].targets /\ call'[c].note = None
  <2>1. \E a \in {None, "not_placed"} \cup Calls : End(c, a, None)
    BY <1>1
  <2> QED BY <1>0, <2>1, EndMoves
<1>4. hist' \in [Calls -> Remembered] /\ \A d \in Calls : Tracked(d)
  BY <1>1, <1>3, QuietHistory
<1>5. \A d \in Calls : /\ OneOrder(d)' /\ RolledBack(d)' /\ Judged(d)'
                       /\ Covered(d)' /\ NoRetry(d)'
  <2>1. call[c].pc \in Counting /\ call'[c].pc \in Counting \cup {"ended"}
        /\ call'[c].pc \notin Counting
    BY <1>0, <1>3 DEF Counting
  <2>2. call'[c] \in Locals /\ call' = [call EXCEPT ![c] = call'[c]]
    BY <1>0, <1>1, <1>3 DEF Moves, End, TypeOK
  <2>3. call'[c].targets \subseteq Orders
    BY <1>0, <1>3 DEF OneOrder
  <2> QED BY <1>1, <1>3, <1>4, <2>1, <2>2, <2>3, CountStep
<1>6. CountersInv' /\ \A d \in Calls \ {c} : Counted(d)'
  BY <1>1, <1>3, CountersKept DEF Moves
<1>7. Counted(c)'
  BY <1>3 DEF Counted
<1>8. KeyOf[c] # NoKey => KeyOf[c] \in Keys
  BY DEF Keys
<1>9. [order |-> c, at |-> now] \in [order : Calls, at : 0..now]
      /\ [order |-> c, at |-> now] # None
  <2>1. [order |-> c, at |-> now] \in [order : Calls, at : Nat]
    BY <1>0
  <2> QED BY <1>0, <2>1, CallsAssumption
<1>10. idem' \in [Keys -> [order : Calls, at : 0..now] \cup {None}]
  BY <1>0, <1>1, <1>8, <1>9 DEF TypeOK
<1>11. \A k \in Keys : idem'[k] = idem[k] \/ (k = KeyOf[c] /\ idem'[k] = [order |-> c, at |-> now])
  BY <1>0, <1>1, <1>8 DEF TypeOK
<1>12. CacheInv'
  <2>1. ASSUME NEW k \in Keys, idem'[k] # None
        PROVE  KeyOf[idem'[k].order] = k /\ book[idem'[k].order] # << >>
    <3>1. book[c] # << >>
      BY <1>0 DEF OneOrder, Counting
    <3>2. CASE idem'[k] = idem[k]
      BY <1>0, <2>1, <3>2 DEF CacheInv
    <3>3. CASE k = KeyOf[c] /\ idem'[k] = [order |-> c, at |-> now]
      BY <3>1, <3>3
    <3> QED BY <1>11, <3>2, <3>3
  <2>2. ASSUME NEW a \in answered'
        PROVE  /\ call'[a[1]].pc \in {"ended", "killed"}
               /\ (call'[a[1]].mode = "rest" /\ KeyOf[a[1]] # NoKey /\ now - a[2] < DayTicks)
                  => idem'[KeyOf[a[1]]] # None /\ a[2] <= idem'[KeyOf[a[1]]].at
    <3>1. CASE a = <<c, now>>
      <4>1. a[1] = c /\ a[2] = now
        BY <3>1
      <4>2. ASSUME call[c].mode = "rest", KeyOf[c] # NoKey
            PROVE  idem'[KeyOf[c]] = [order |-> c, at |-> now]
        BY <1>0, <1>1, <1>2, <1>8, <4>2 DEF TypeOK, Rest
      <4>3. call[c].mode = "rest" /\ KeyOf[c] # NoKey
            => idem'[KeyOf[c]] # None /\ now <= idem'[KeyOf[c]].at
        BY <1>0, <1>9, <4>2
      <4> QED BY <1>3, <4>1, <4>3
    <3>2. CASE a \in answered
      <4>1. /\ a[1] \in Calls /\ a[2] \in Nat /\ call[a[1]].pc \in {"ended", "killed"}
            /\ (call[a[1]].mode = "rest" /\ KeyOf[a[1]] # NoKey /\ now - a[2] < DayTicks)
               => idem[KeyOf[a[1]]] # None /\ a[2] <= idem[KeyOf[a[1]]].at
        BY <1>0, <3>2 DEF GhostsOK, CacheInv, Rest
      <4>2. call'[a[1]] = call[a[1]]
        BY <1>0, <1>3, <4>1 DEF Moves
      <4>3. ASSUME call[a[1]].mode = "rest", KeyOf[a[1]] # NoKey, now - a[2] < DayTicks
            PROVE  idem'[KeyOf[a[1]]] # None /\ a[2] <= idem'[KeyOf[a[1]]].at
        <5>1. KeyOf[a[1]] \in Keys
          BY <4>1, <4>3 DEF Keys
        <5>2. idem[KeyOf[a[1]]] # None /\ a[2] <= idem[KeyOf[a[1]]].at
          BY <4>1, <4>3
        <5>3. CASE idem'[KeyOf[a[1]]] = idem[KeyOf[a[1]]]
          BY <5>2, <5>3
        <5>4. CASE idem'[KeyOf[a[1]]] = [order |-> c, at |-> now]
          <6>1. idem[KeyOf[a[1]]].at \in 0..now
            BY <1>0, <5>1, <5>2 DEF TypeOK
          <6>2. a[2] <= now
            BY <1>0, <4>1, <5>2, <6>1
          <6> QED BY <1>9, <5>4, <6>2
        <5> QED BY <1>11, <5>1, <5>3, <5>4
      <4> QED BY <4>1, <4>2, <4>3
    <3> QED BY <1>1, <2>2, <3>1, <3>2
  <2> QED BY <1>1, <2>1, <2>2 DEF CacheInv, Rest
<1>13. TypeOK'
  <2>1. \A d \in Calls : lock' = d <=> call'[d].pc = "counting"
    BY <1>0, <1>1, <1>3 DEF TypeOK, Moves
  <2> QED BY <1>0, <1>1, <1>3, <1>10, <2>1 DEF TypeOK, Moves
<1>14. GhostsOK'
  <2>1. <<c, now>> \in Calls \X Nat
    BY <1>0
  <2> QED BY <1>0, <1>1, <2>1 DEF GhostsOK
<1> QED BY <1>5, <1>6, <1>7, <1>12, <1>13, <1>14 DEF IInv, CallInv

\* A crash: those of S that were at work are gone, the lock of one of them too.
LEMMA KillStep ==
  ASSUME IInv, NEW S \in SUBSET Calls, Kill(S)
  PROVE  /\ (answered' \in SUBSET (Calls \X Nat)) => GhostsOK'
         /\ idem' \in [Keys -> [order : Calls, at : 0..now] \cup {None}] => TypeOK'
         /\ CountersInv' /\ \A d \in Calls : CallInv(d)'
         /\ \A d \in Calls : /\ call[d].pc \in {"ended", "killed"} => call'[d] = call[d]
                             /\ call'[d].mode = call[d].mode
<1> USE DEF At
<1>0. /\ TypeOK /\ GhostsOK
      /\ \A d \in Calls : /\ OneOrder(d) /\ RolledBack(d) /\ Judged(d)
                          /\ NoRetry(d) /\ Counted(d)
      /\ call \in [Calls -> Locals]
  BY DEF IInv, CallInv, TypeOK
<1>1. /\ events < MaxEvents /\ events' = events + 1
      /\ lock' = IF lock \in S THEN None ELSE lock
      /\ UNCHANGED <<now, profile, counters, wire, book, recorded>>
      /\ History
  BY DEF Kill, Event, broker
<1>2. \A d \in Calls : call'[d] = IF d \in S /\ call[d].pc \in Active
                                  THEN [Fresh(call[d].mode) EXCEPT
                                          !.pc = "killed", !.targets = Asked(d)]
                                  ELSE call[d]
  BY DEF Kill
<1>3. \A d \in Calls : call[d].mode \in Modes
  BY <1>0 DEF Locals, Modes
<1>4. ASSUME NEW d \in Calls
      PROVE  /\ call'[d] \in Locals
             /\ \/ call'[d] = call[d]
                \/ /\ d \in S /\ call[d].pc \in Active /\ call'[d].pc = "killed"
                   /\ call'[d].mode = call[d].mode /\ call'[d].targets \subseteq call[d].targets
                   /\ call'[d].answer = None /\ call'[d].note = None
  <2>1. CASE d \in S /\ call[d].pc \in Active
    <3> DEFINE r == [Fresh(call[d].mode) EXCEPT !.pc = "killed", !.targets = Asked(d)]
    <3>1. call'[d] = r
      BY <1>2, <2>1
    <3>2. r \in Locals
      <4>1. PICK f : f = Fresh(call[d].mode)
        OBVIOUS
      <4>2. f \in Locals
        BY <1>3, <4>1, FreshTyped
      <4>3. PICK t : t = Asked(d)
        OBVIOUS
      <4>4. t \in SUBSET (Calls \X Nat)
        BY <1>0, <4>3, AskedIsTarget DEF Locals
      <4> QED BY <4>1, <4>2, <4>3, <4>4 DEF Locals
    <3>3. /\ r.pc = "killed" /\ r.mode = call[d].mode /\ r.targets = Asked(d)
          /\ r.answer = None /\ r.note = None
      BY DEF Fresh
    <3> HIDE DEF r
    <3> QED BY <2>1, <3>1, <3>2, <3>3, AskedIsTarget
  <2>2. CASE ~(d \in S /\ call[d].pc \in Active)
    <3>1. call'[d] = call[d]
      BY <1>2, <2>2
    <3> QED BY <1>0, <3>1
  <2> QED BY <2>1, <2>2
<1>5. call' \in [Calls -> Locals]
  <2>1. call' = [d \in Calls |-> call'[d]]
    BY DEF Kill
  <2> QED BY <1>4, <2>1
<1>6. hist' \in [Calls -> Remembered] /\ \A d \in Calls : Tracked(d)
  <2>1. profile' \in Profiles \cup {Missing}
    BY <1>0, <1>1 DEF TypeOK
  <2> QED BY <1>0, <1>1, <2>1, HistoryTracks
<1>7. CountersInv' /\ \A d \in Calls : call'[d] = call[d] => Counted(d)'
  BY <1>1, CountersKept
<1>8. ASSUME NEW d \in Calls
      PROVE  /\ OneOrder(d)' /\ RolledBack(d)' /\ Judged(d)' /\ NoRetry(d)' /\ Counted(d)'
  <2>1. wire'[d] = wire[d] /\ book' = book
    BY <1>1
  <2>2. CASE call'[d] = call[d]
    BY <1>6, <1>7, <2>1, <2>2, SameCall
  <2>3. CASE /\ d \in S /\ call[d].pc \in Active /\ call'[d].pc = "killed"
             /\ call'[d].mode = call[d].mode /\ call'[d].targets \subseteq call[d].targets
             /\ call'[d].answer = None /\ call'[d].note = None
    <3>1. OneOrder(d) /\ Judged(d) /\ NoRetry(d) /\ Tracked(d)
      BY <1>0, <1>6
    <3>2. OneOrder(d)'
      <4>1. call'[d].targets \subseteq Orders'
        BY <2>1, <2>3, <3>1 DEF OneOrder, Orders
      <4> QED BY <2>1, <2>3, <3>1, <4>1 DEF OneOrder, Early, Counting
    <3>3. RolledBack(d)'
      BY <2>3, CallsAssumption DEF RolledBack
    <3>4. Judged(d)'
      <4>1. (Amends(d)' <=> Amends(d)) /\ (Allowed(d) => Allowed(d)')
        BY <2>3, <3>1 DEF Amends, Allowed, Tracked
      <4> QED BY <2>1, <2>3, <3>1, <4>1 DEF Judged, Deciding, Committed, Counting
    <3>5. NoRetry(d)'
      BY <2>3, <3>1 DEF NoRetry, Rest, Tracked, Committed, Counting, Active
    <3>6. Counted(d)'
      BY <2>3 DEF Counted
    <3> QED BY <3>2, <3>3, <3>4, <3>5, <3>6
  <2> QED BY <1>4, <2>2, <2>3
<1>9. \A d \in Calls : Covered(d)'
  <2>1. \A e \in Calls : ~At(e, "idle") => ~At(e, "idle")' /\ call'[e].mode = call[e].mode
    BY <1>4
  <2> QED BY <1>1, <1>6, <2>1, CoveredKept
<1>10. (answered' \in SUBSET (Calls \X Nat)) => GhostsOK'
  BY <1>0, <1>1, <1>6 DEF GhostsOK
<1>11. ASSUME idem' \in [Keys -> [order : Calls, at : 0..now] \cup {None}] PROVE TypeOK'
  <2>1. events' \in 0..MaxEvents
    BY <1>0, <1>1, BoundsAssumption DEF TypeOK
  <2>2. ASSUME NEW d \in Calls PROVE lock' = d <=> call'[d].pc = "counting"
    <3>1. lock = d <=> call[d].pc = "counting"
      BY <1>0 DEF TypeOK
    <3>2. "counting" \in Active /\ d # None
      BY CallsAssumption DEF Active
    <3>3. CASE lock = d /\ d \in S
      <4>1. lock' # d /\ call'[d].pc = "killed"
        <5>1. call'[d] = [Fresh(call[d].mode) EXCEPT !.pc = "killed", !.targets = Asked(d)]
          BY <1>2, <3>1, <3>2, <3>3
        <5> QED BY <1>1, <3>2, <3>3, <5>1 DEF Fresh
      <4> QED BY <4>1
    <3>4. CASE lock = d /\ d \notin S
      BY <1>1, <1>2, <3>1, <3>4
    <3>5. CASE lock # d
      <4>1. lock' # d
        BY <1>1, <3>2, <3>5
      <4>2. call'[d].pc # "counting"
        BY <1>4, <3>1, <3>5
      <4> QED BY <4>1, <4>2
    <3> QED BY <3>3, <3>4, <3>5
  <2>3. lock' \in Calls \cup {None}
    BY <1>0, <1>1 DEF TypeOK
  <2> QED BY <1>0, <1>1, <1>5, <1>11, <2>1, <2>2, <2>3 DEF TypeOK
<1>12. \A d \in Calls : /\ call[d].pc \in {"ended", "killed"} => call'[d] = call[d]
                        /\ call'[d].mode = call[d].mode
  BY <1>4 DEF Active
<1> QED BY <1>7, <1>8, <1>9, <1>10, <1>11, <1>12 DEF CallInv

LEMMA RestartStep ==
  ASSUME IInv, Restart
  PROVE  IInv'
<1>1. PICK S \in SUBSET Calls : Kill(S)
  BY DEF Restart
<1>2. idem' = [k \in Keys |-> None] /\ answered' = {}
  BY DEF Restart
<1>3. CacheInv'
  BY <1>2 DEF CacheInv
<1> QED BY <1>1, <1>2, <1>3, KillStep DEF IInv

LEMMA KillCliStep ==
  ASSUME IInv, NEW c \in Calls, KillCli(c)
  PROVE  IInv'
<1>1. Kill({c}) /\ {c} \in SUBSET Calls /\ UNCHANGED <<idem, answered, now, book>>
  BY DEF KillCli, Kill, broker
<1>2. /\ CacheInv /\ answered \in SUBSET (Calls \X Nat)
      /\ idem \in [Keys -> [order : Calls, at : 0..now] \cup {None}]
  BY DEF IInv, GhostsOK, TypeOK
<1>3. \A d \in Calls : call[d].pc \in {"ended", "killed"} => call'[d] = call[d]
  BY <1>1, KillStep
<1>4. CacheInv'
  <2>1. \A a \in answered : call'[a[1]] = call[a[1]]
    BY <1>2, <1>3 DEF CacheInv
  <2> QED BY <1>1, <1>2, <2>1 DEF CacheInv, Rest
<1> QED BY <1>1, <1>2, <1>4, KillStep DEF IInv

\* The world moves, and no call.
LEMMA WorldStep ==
  ASSUME IInv, UNCHANGED <<counters, lock, idem, call, wire, book, recorded, answered>>,
         History, profile' \in Profiles \cup {Missing},
         events' \in 0..MaxEvents, now' \in 0..MaxTime, now <= now'
  PROVE  IInv'
<1> USE DEF At
<1>0. TypeOK /\ GhostsOK /\ CountersInv /\ CacheInv /\ now \in Nat /\ now' \in Nat
  <2>1. TypeOK /\ now \in 0..MaxTime
    BY DEF IInv, TypeOK
  <2>2. now \in Nat /\ now' \in Nat
    BY <2>1, BoundsAssumption
  <2> QED BY <2>2 DEF IInv
<1>1. hist' \in [Calls -> Remembered] /\ \A d \in Calls : Tracked(d)
  BY <1>0, HistoryTracks
<1>2. Today \in Nat /\ Today' \in Nat /\ Today <= Today'
  BY <1>0, DayMonotone DEF Today
<1>3. CountersInv'
  <2>1. counters.date \in Nat /\ counters.date <= Today'
    BY <1>0, <1>2 DEF CountersInv, TypeOK
  <2> QED BY <1>0, <2>1 DEF CountersInv, CountsAllRecords
<1>4. ASSUME NEW d \in Calls PROVE CallInv(d)'
  <2>1. OneOrder(d)' /\ RolledBack(d)' /\ Judged(d)' /\ NoRetry(d)'
    BY <1>1, SameCall
  <2>2. Covered(d)'
    BY <1>1, CoveredKept
  <2>3. Counted(d)'
    <3>1. Counted(d) /\ call[d].read.date \in Nat
      BY <1>0 DEF IInv, CallInv, TypeOK, Locals
    <3> QED BY <1>2, <3>1 DEF Counted, On
  <2> QED BY <2>1, <2>2, <2>3 DEF CallInv
<1>5. TypeOK'
  <2>1. idem' \in [Keys -> [order : Calls, at : 0..now'] \cup {None}]
    <3>1. 0..now \subseteq 0..now'
      BY <1>0
    <3>2. [order : Calls, at : 0..now] \subseteq [order : Calls, at : 0..now']
      BY <3>1
    <3>3. idem \in [Keys -> [order : Calls, at : 0..now] \cup {None}]
      BY <1>0 DEF TypeOK
    <3> QED BY <3>2, <3>3
  <2> QED BY <1>0, <2>1 DEF TypeOK
<1>6. GhostsOK'
  BY <1>0, <1>1 DEF GhostsOK
<1>7. CacheInv'
  <2>1. ASSUME NEW a \in answered, now' - a[2] < DayTicks PROVE now - a[2] < DayTicks
    <3>1. a[2] \in Nat
      BY <1>0 DEF GhostsOK
    <3> QED BY <1>0, <2>1, <3>1, BoundsAssumption
  <2> QED BY <1>0, <2>1 DEF CacheInv, Rest
<1> QED BY <1>3, <1>4, <1>5, <1>6, <1>7 DEF IInv

LEMMA EditProfileStep ==
  ASSUME IInv, EditProfile
  PROVE  IInv'
<1>1. TypeOK
  BY DEF IInv
<1>2. events' \in 0..MaxEvents /\ now' \in 0..MaxTime /\ now' = now /\ now <= now'
  BY <1>1, BoundsAssumption DEF EditProfile, Event, TypeOK
<1> QED BY <1>2, WorldStep DEF EditProfile, broker

LEMMA TickStep ==
  ASSUME IInv, Tick
  PROVE  IInv'
<1>1. TypeOK
  BY DEF IInv
<1>2. events' \in 0..MaxEvents /\ now' \in 0..MaxTime /\ now <= now'
  BY <1>1, BoundsAssumption DEF Tick, TypeOK
<1>3. profile' \in Profiles \cup {Missing}
  BY <1>1 DEF Tick, files, TypeOK
<1> QED BY <1>2, <1>3, WorldStep DEF Tick, files, broker

LEMMA StutterStep ==
  ASSUME IInv, UNCHANGED vars
  PROVE  IInv'
<1> USE DEF vars, bounded, files, broker, ghosts
<1>1. TypeOK' /\ GhostsOK' /\ CountersInv' /\ CacheInv'
  BY DEF IInv, TypeOK, At, GhostsOK, CountersInv, CountsAllRecords, Today, CacheInv, Rest
<1>2. \A d \in Calls : CallInv(d)'
  <2> SUFFICES ASSUME NEW d \in Calls PROVE CallInv(d)'
    OBVIOUS
  <2>1. \A e \in Calls : Tracked(e)
    <3>1. \A e \in Calls : Deciding(e)' => Deciding(e)
      BY DEF Deciding
    <3> QED BY <3>1, QuietTracks
  <2>2. OneOrder(d)' /\ RolledBack(d)' /\ Judged(d)' /\ NoRetry(d)'
    BY <2>1, SameCall
  <2>3. Covered(d)'
    BY <2>1, CoveredKept DEF At
  <2>4. Counted(d)'
    BY CountersKept
  <2> QED BY <2>2, <2>3, <2>4 DEF CallInv
<1> QED BY <1>1, <1>2 DEF IInv

-----------------------------------------------------------------------------
(* The invariant of the specification.                                       *)

LEMMA InitInv ==
  ASSUME Init
  PROVE  IInv
<1> USE DEF Init, At
<1>1. /\ now = 0 /\ counters = [date |-> 0, total |-> 0] /\ recorded = {} /\ answered = {}
      /\ \A c \in Calls : /\ call[c] = Fresh(None) /\ wire[c] = "none" /\ book[c] = << >>
                          /\ hist[c] = [held |-> {}, chance |-> FALSE, done |-> FALSE]
  OBVIOUS
<1>2. \A c \in Calls : /\ call[c] \in Locals /\ call[c].pc = "idle" /\ call[c].answer = None
                       /\ call[c].note = None /\ call[c].targets = {}
  <2>1. Fresh(None) \in Locals
    BY FreshTyped DEF Modes
  <2> QED BY <1>1, <2>1 DEF Fresh
<1>3. TypeOK
  <2>1. 0 \in 0..MaxEvents /\ 0 \in 0..MaxTime /\ 0 \in Nat
    BY BoundsAssumption
  <2>2. << >> \in Seq(Entry)
    OBVIOUS
  <2>3. \A c \in Calls : lock = c <=> At(c, "counting")
    BY <1>2, CallsAssumption
  <2> QED BY <1>2, <2>1, <2>2, <2>3 DEF TypeOK, Entry
<1>4. GhostsOK
  BY FS_EmptySet DEF GhostsOK, Remembered
<1>5. Today \in Nat
  BY <1>3, TodayNat
<1>6. CountersInv
  <2>1. {r \in recorded : r[2] = counters.date} = {} /\ counters.date = 0 /\ counters.total = 0
    OBVIOUS
  <2>2. counters.total = Cardinality({r \in recorded : r[2] = counters.date})
    BY <2>1, FS_EmptySet
  <2> QED BY <1>1, <1>5, <2>1, <2>2 DEF CountersInv, CountsAllRecords
<1>7. CacheInv
  BY DEF CacheInv
<1>8. ASSUME NEW c \in Calls PROVE CallInv(c)
  <2>1. OneOrder(c)
    BY <1>1, <1>2 DEF OneOrder, Counting
  <2>2. RolledBack(c)
    BY <1>1, <1>2, CallsAssumption DEF RolledBack
  <2>3. Judged(c)
    BY <1>1, <1>2 DEF Judged, Deciding, Committed, Counting
  <2>4. Covered(c)
    BY <1>1 DEF Covered
  <2>5. NoRetry(c)
    BY <1>1, <1>2 DEF NoRetry, Committed, Counting
  <2>6. Counted(c)
    BY <1>1, <1>2 DEF Counted
  <2> QED BY <2>1, <2>2, <2>3, <2>4, <2>5, <2>6 DEF CallInv
<1> QED BY <1>3, <1>4, <1>6, <1>7, <1>8 DEF IInv

LEMMA NextInv ==
  ASSUME IInv, [Next]_vars
  PROVE  IInv'
<1>1. ASSUME NEW c \in Calls, Step(c) PROVE IInv'
  BY <1>1, LoadProfileStep, JudgeStep, ConnectFailsStep, SendStep, AnsweredStep,
     UnauthorizedStep, RefusedStep, UncertainStep, VerifyStep, CancelMatchStep,
     RollbackEndsStep, LockAndLoadStep, SaveStep, CountFailsStep, ReplyStep DEF Step
<1>2. ASSUME NEW c \in Calls,
             StartRest(c) \/ StartCli(c) \/ StartAmend(c) \/ StartRestCancel(c) \/ Confirm(c)
      PROVE  IInv'
  BY <1>2, StartRestStep, StartCliStep, StartAmendStep, StartRestCancelStep, ConfirmStep
<1>3. ASSUME NEW c \in Calls, Accept(c) \/ Fill(c) \/ Withdraw(c) \/ KillCli(c)
      PROVE  IInv'
  BY <1>3, AcceptStep, FillStep, WithdrawStep, KillCliStep
<1>4. CASE Restart \/ EditProfile \/ Tick
  BY <1>4, RestartStep, EditProfileStep, TickStep
<1>5. CASE UNCHANGED vars
  BY <1>5, StutterStep
<1> QED BY <1>1, <1>2, <1>3, <1>4, <1>5 DEF Next, Finished

LEMMA PlacementInv == Spec => []IInv
<1>1. Init => IInv
  BY InitInv
<1>2. IInv /\ [Next]_vars => IInv'
  BY NextInv
<1> QED BY <1>1, <1>2, PTL DEF Spec

(* Every variable of an order call, the counters, the cache and the book has *)
(* its type, and the lock is held by the call that counts                    *)
(* (order_policy/counters.py).                                               *)
THEOREM PlacementTyped == Spec => []TypeOK
<1>1. IInv => TypeOK
  BY DEF IInv
<1> QED BY <1>1, PlacementInv, PTL

(* No order leaves unless a profile that the file held since the call began   *)
(* permitted it under the day's count, or the user overrode it                *)
(* (order_pipeline/rules.py), however profiles are edited and counts made     *)
(* meanwhile.                                                                 *)
THEOREM PolicyKept == Spec => []PolicyHeld
<1>1. ASSUME IInv PROVE PolicyHeld
  <2>1. \A c \in Calls : Judged(c) /\ Covered(c)
    BY <1>1 DEF IInv, CallInv
  <2> QED BY <2>1 DEF PolicyHeld, Judged, Covered, Allowed
<1> QED BY <1>1, PlacementInv, PTL

(* A retry of what this daemon answered with success within the day is        *)
(* replayed and places nothing (orders_write.py, the idempotency cache).      *)
THEOREM RetriesReplayed == Spec => []RetryReplayed
<1>1. ASSUME IInv PROVE RetryReplayed
  <2>1. \A c \in Calls : NoRetry(c)
    BY <1>1 DEF IInv, CallInv
  <2> QED BY <2>1 DEF RetryReplayed, NoRetry
<1> QED BY <1>1, PlacementInv, PTL

(* The counters file loses no record to a concurrent call, a crash or         *)
(* midnight (order_policy/counters.py, record_place under the lock).          *)
THEOREM RecordsCounted == Spec => []CountsAllRecords
<1>1. IInv => CountsAllRecords
  BY DEF IInv, CountersInv
<1> QED BY <1>1, PlacementInv, PTL

(* What the rollback reports to the caller is true of the broker's book       *)
(* (commands/order.py, _safe_place).                                          *)
THEOREM RollbackTold == Spec => []RollbackReportTrue
<1>1. ASSUME IInv PROVE RollbackReportTrue
  <2>1. \A c \in Calls : RolledBack(c)
    BY <1>1 DEF IInv, CallInv
  <2> QED BY <2>1 DEF RollbackReportTrue, RolledBack, Left
<1> QED BY <1>1, PlacementInv, PTL

-----------------------------------------------------------------------------
(* The refinement: what a call's order has come to, and what it answered.    *)

\* Nothing that the register shows.
LEMMA Shown ==
  ASSUME book' = book, \A d \in Calls : call'[d].answer = call[d].answer
  PROVE  UNCHANGED Register!vars
BY DEF Register!vars, Fate

LEMMA Declines ==
  ASSUME book' = book, NEW c \in Calls, call[c].answer = None,
         call'[c].answer = "not_placed",
         \A d \in Calls : d # c => call'[d].answer = call[d].answer
  PROVE  Register!Next
<1>1. Register!Decline(c)
  BY DEF Register!Decline, Fate
<1> QED BY <1>1 DEF Register!Next

\* An order in the book: the only one of its call.
LEMMA OnlyOrder ==
  ASSUME NEW s \in Seq(Entry), Len(s) <= 1, s # << >>
  PROVE  /\ DOMAIN s = {1} /\ Len(s) = 1
         /\ s[1].status \in {"working", "filled", "canceled", "withdrawn", "replaced"}
<1>1. Len(s) = 1 /\ DOMAIN s = 1..Len(s)
  <2>1. Len(s) \in Nat /\ DOMAIN s = 1..Len(s)
    OBVIOUS
  <2>2. Len(s) # 0
    OBVIOUS
  <2> QED BY <2>1, <2>2
<1>2. s[1] \in Entry
  BY <1>1
<1> QED BY <1>1, <1>2 DEF Entry

LEMMA FateNow ==
  ASSUME IInv, NEW d \in Calls
  PROVE  /\ book[d] = << >> => Fate(d) = "none"
         /\ book[d] # << >> =>
               /\ DOMAIN book[d] = {1}
               /\ Fate(d) = IF book[d][1].status \in {"withdrawn", "replaced"} THEN "canceled"
                            ELSE book[d][1].status
               /\ Fate(d) \in {"working", "filled", "canceled"}
<1>1. book[d] \in Seq(Entry) /\ Len(book[d]) <= 1
  BY DEF IInv, TypeOK, Entry, CallInv, OneOrder
<1> QED BY <1>1, OnlyOrder DEF Fate

LEMMA FateNext ==
  ASSUME IInv', NEW d \in Calls
  PROVE  /\ book'[d] = << >> => Fate(d)' = "none"
         /\ book'[d] # << >> =>
               /\ DOMAIN book'[d] = {1}
               /\ Fate(d)' = IF book'[d][1].status \in {"withdrawn", "replaced"} THEN "canceled"
                             ELSE book'[d][1].status
               /\ Fate(d)' \in {"working", "filled", "canceled"}
<1>1. book'[d] \in Seq(Entry) /\ Len(book'[d]) <= 1
  BY DEF IInv, TypeOK, Entry, CallInv, OneOrder
<1> QED BY <1>1, OnlyOrder DEF Fate

LEMMA Succeeds ==
  ASSUME IInv, book' = book, NEW c \in Calls, NEW d \in Calls, call[c].answer = None,
         call'[c].answer = d, book[d] # << >>,
         d = c \/ (KeyOf[c] = KeyOf[d] /\ KeyOf[c] # NoKey),
         \A e \in Calls : e # c => call'[e].answer = call[e].answer
  PROVE  Register!Next
<1>1. Fate(d) # "none" /\ \A e \in Calls : Fate(e)' = Fate(e)
  BY FateNow DEF Fate
<1>2. Register!Succeed(c)
  BY <1>1 DEF Register!Succeed
<1> QED BY <1>2 DEF Register!Next

\* Only the fate of d changes: it closes, or its call has entered it.
LEMMA Closes ==
  ASSUME IInv, IInv', \A c \in Calls : call'[c].answer = call[c].answer,
         NEW d \in Calls, NEW i \in DOMAIN book[d],
         book[d][i].status = "working",
         NEW s \in {"filled", "canceled", "withdrawn"},
         book' = [book EXCEPT ![d][i].status = s]
  PROVE  Register!Close(d)
<1>1. DOMAIN book[d] = {1} /\ i = 1 /\ Fate(d) = "working"
  BY FateNow
<1>2. book \in [Calls -> Seq(Entry)]
  BY DEF IInv, TypeOK, Entry
<1>3. /\ book'[d] = WithStatus(d, i, s)
      /\ \A e \in Calls : e # d => book'[e] = book[e]
  <2>1. PICK w : w = [book[d] EXCEPT ![i].status = s]
    OBVIOUS
  <2>2. book' = [book EXCEPT ![d] = w]
    BY <2>1
  <2> QED BY <1>2, <2>1, <2>2 DEF WithStatus
<1>4. book'[d] # << >> /\ book'[d][1].status = s
  <2>1. TypeOK /\ s \in {"filled", "canceled", "withdrawn", "replaced"}
    BY DEF IInv
  <2>2. Marked(d) /\ book'[d][i].status = s
    BY <1>3, <2>1, MarkOne
  <2> QED BY <1>1, <2>2 DEF Marked
<1>5. Fate(d)' \in {"filled", "canceled"}
  BY <1>4, FateNext
<1>6. \A e \in Calls : e # d => Fate(e)' = Fate(e)
  BY <1>3 DEF Fate
<1> QED BY <1>1, <1>5, <1>6 DEF Register!Close

LEMMA EndRegisters ==
  ASSUME IInv, NEW c \in Calls, book' = book, ~At(c, "ended"),
         NEW a \in {"not_placed", c}, a = c => book[c] # << >>,
         NEW n \in {None, "unverified", "no_match", "cancelled", "not_cancelled", "withdrawn"},
         End(c, a, n)
  PROVE  Register!Next
<1>0. TypeOK /\ OneOrder(c) /\ a \in {None, "not_placed"} \cup Calls
  BY DEF IInv, CallInv
<1>1. call[c].answer = None
  BY <1>0 DEF OneOrder
<1>2. call'[c].answer = a /\ \A d \in Calls : d # c => call'[d].answer = call[d].answer
  BY <1>0, EndMoves DEF Moves
<1>3. CASE a = "not_placed"
  BY <1>1, <1>2, <1>3, Declines
<1>4. CASE a = c
  BY <1>1, <1>2, <1>4, Succeeds
<1> QED BY <1>3, <1>4

\* The call goes on, and has not answered before.
LEMMA GoesOn ==
  ASSUME IInv, NEW c \in Calls, book' = book, ~At(c, "ended"),
         NEW r, r.answer = None \/ r.answer = call[c].answer, call' = [call EXCEPT ![c] = r]
  PROVE  UNCHANGED Register!vars
<1>0. call \in [Calls -> Locals] /\ call[c].answer = None
  BY DEF IInv, CallInv, OneOrder, TypeOK
<1>1. \A d \in Calls : call'[d] = IF d = c THEN r ELSE call[d]
  BY <1>0
<1>2. \A d \in Calls : call'[d].answer = call[d].answer
  BY <1>0, <1>1
<1> QED BY <1>2, Shown

LEMMA GoRegisters ==
  ASSUME IInv, NEW c \in Calls, book' = book, ~At(c, "ended"), NEW pc \in Active, Go(c, pc)
  PROVE  UNCHANGED Register!vars
<1> DEFINE r == [Fresh(call[c].mode) EXCEPT
                   !.pc = pc, !.approved = call[c].approved, !.targets = call[c].targets]
<1>1. r.answer = None
  BY DEF Fresh
<1>2. call' = [call EXCEPT ![c] = r]
  BY DEF Go
<1> HIDE DEF r
<1> QED BY <1>1, <1>2, GoesOn

LEMMA InDoubtRegisters ==
  ASSUME IInv, NEW c \in Calls, book' = book, ~At(c, "ended"), InDoubt(c)
  PROVE  Register!Next \/ UNCHANGED Register!vars
<1>1. CASE Amends(c)
  <2>1. End(c, "not_placed", None)
    BY <1>1 DEF InDoubt
  <2> QED BY <2>1, CallsAssumption, EndRegisters
<1>2. CASE ~Amends(c)
  <2>1. Go(c, "verify") /\ "verify" \in Active
    BY <1>2 DEF InDoubt, Active
  <2> QED BY <2>1, GoRegisters
<1> QED BY <1>1, <1>2

LEMMA CallRegisters ==
  ASSUME IInv, NEW c \in Calls,
         \/ LoadProfile(c) \/ Judge(c) \/ Confirm(c) \/ ConnectFails(c) \/ Send(c)
         \/ Answered(c) \/ Unauthorized(c) \/ Refused(c) \/ Uncertain(c) \/ Verify(c)
         \/ RollbackEnds(c) \/ LockAndLoad(c) \/ Save(c) \/ CountFails(c) \/ Reply(c)
  PROVE  Register!Next \/ UNCHANGED Register!vars
<1> USE DEF At
<1>0. TypeOK /\ OneOrder(c) /\ call[c] \in Locals
  BY DEF IInv, CallInv, TypeOK
<1>1. ASSUME NEW l \in Locals, call[c].answer = l.answer, ~At(c, "ended"), book' = book,
             call' = [call EXCEPT ![c] = l]
      PROVE  UNCHANGED Register!vars
  BY <1>1, GoesOn
<1>2. CASE LoadProfile(c)
  <2>1. book' = book /\ ~At(c, "ended")
    BY <1>2 DEF LoadProfile, broker
  <2>2. CASE End(c, "not_placed", None)
    BY <2>1, <2>2, CallsAssumption, EndRegisters
  <2>3. CASE call' = [call EXCEPT ![c].pc = "judge", ![c].profile = profile]
    <3> DEFINE r == [call[c] EXCEPT !.pc = "judge", !.profile = profile]
    <3>1. call' = [call EXCEPT ![c] = r] /\ r.answer = call[c].answer
      BY <1>0, <2>3 DEF Locals
    <3> HIDE DEF r
    <3> QED BY <2>1, <3>1, GoesOn
  <2> QED BY <1>2, <2>2, <2>3 DEF LoadProfile
<1>3. CASE Judge(c)
  <2>1. book' = book /\ ~At(c, "ended")
    BY <1>3 DEF Judge, broker
  <2>2. CASE End(c, "not_placed", None)
    BY <2>1, <2>2, CallsAssumption, EndRegisters
  <2>3. ASSUME NEW b, NEW pc,
               call' = [call EXCEPT ![c].approved = b, ![c].profile = Missing, ![c].pc = pc]
        PROVE  UNCHANGED Register!vars
    <3> DEFINE r == [call[c] EXCEPT !.approved = b, !.profile = Missing, !.pc = pc]
    <3>1. call' = [call EXCEPT ![c] = r] /\ r.answer = call[c].answer
      BY <1>0, <2>3 DEF Locals
    <3> HIDE DEF r
    <3> QED BY <2>1, <3>1, GoesOn
  <2>4. PICK preview \in Previews(c) :
          LET approved == /\ call[c].profile # Missing
                          /\ Approved(call[c].profile, ShapeOf[c], Context(preview))
          IN  IF preview = "error" \/ DryRun(c) \/ ~GatesOpen(c, approved, preview)
              THEN End(c, "not_placed", None)
              ELSE call' = [call EXCEPT ![c].approved = approved, ![c].profile = Missing,
                              ![c].pc = IF call[c].mode \in {"ask", "override"}
                                        THEN "confirm" ELSE "send"]
    BY <1>3 DEF Judge
  <2> DEFINE judged == /\ call[c].profile # Missing
                       /\ Approved(call[c].profile, ShapeOf[c], Context(preview))
  <2>5. \/ End(c, "not_placed", None)
        \/ \E b, pc : call' = [call EXCEPT ![c].approved = b, ![c].profile = Missing, ![c].pc = pc]
    <3>1. CASE preview = "error" \/ DryRun(c) \/ ~GatesOpen(c, judged, preview)
      BY <2>4, <3>1
    <3>2. CASE ~(preview = "error" \/ DryRun(c) \/ ~GatesOpen(c, judged, preview))
      BY <2>4, <3>2
    <3> QED BY <3>1, <3>2
  <2> QED BY <2>2, <2>3, <2>5
<1>4. CASE Confirm(c)
  <2>1. book' = book /\ ~At(c, "ended") /\ "send" \in Active
    BY <1>4 DEF Confirm, broker, Active
  <2> QED BY <1>4, <2>1, CallsAssumption, EndRegisters, GoRegisters DEF Confirm
<1>5. CASE ConnectFails(c)
  <2>1. book' = book /\ ~At(c, "ended")
    BY <1>5 DEF ConnectFails, broker
  <2>2. CASE InDoubt(c)
    BY <2>1, <2>2, InDoubtRegisters
  <2>3. CASE call' = [call EXCEPT ![c].tries = @ + 1]
    <3> DEFINE r == [call[c] EXCEPT !.tries = @ + 1]
    <3>1. call' = [call EXCEPT ![c] = r] /\ r.answer = call[c].answer
      BY <1>0, <2>3 DEF Locals
    <3> HIDE DEF r
    <3> QED BY <2>1, <3>1, GoesOn
  <2> QED BY <1>5, <2>2, <2>3 DEF ConnectFails
<1>6. CASE Send(c)
  <2>1. book' = book /\ ~At(c, "ended")
    BY <1>6 DEF Send
  <2> DEFINE r == [call[c] EXCEPT !.pc = "wait", !.tries = 0]
  <2>2. call' = [call EXCEPT ![c] = r] /\ r.answer = call[c].answer
    BY <1>0, <1>6 DEF Locals, Send
  <2> HIDE DEF r
  <2> QED BY <2>1, <2>2, GoesOn
<1>7. CASE Answered(c)
  <2>1. book' = book /\ ~At(c, "ended") /\ call[c].pc = "wait" /\ wire[c] = "accepted"
    BY <1>7 DEF Answered
  <2>2. CASE call[c].mode = "replace"
    <3>1. End(c, c, None) /\ book[c] # << >>
      BY <1>0, <1>7, <2>1, <2>2 DEF Answered, OneOrder
    <3> QED BY <2>1, <3>1, CallsAssumption, EndRegisters
  <2>3. CASE call[c].mode \in {"cancel", "rest_cancel"}
    <3>1. End(c, "not_placed", "withdrawn")
      BY <1>7, <2>3 DEF Answered
    <3> QED BY <2>1, <3>1, CallsAssumption, EndRegisters
  <2>4. CASE call[c].mode \notin {"replace", "cancel", "rest_cancel"}
    <3>1. Go(c, "count") /\ "count" \in Active
      BY <1>7, <2>4 DEF Answered, Active
    <3> QED BY <2>1, <3>1, GoRegisters
  <2> QED BY <2>2, <2>3, <2>4
<1>8. CASE Unauthorized(c)
  <2>1. book' = book /\ ~At(c, "ended")
    BY <1>8 DEF Unauthorized
  <2>2. CASE End(c, "not_placed", None)
    BY <2>1, <2>2, CallsAssumption, EndRegisters
  <2>3. CASE call' = [call EXCEPT ![c].pc = "send", ![c].refreshed = TRUE]
    <3> DEFINE r == [call[c] EXCEPT !.pc = "send", !.refreshed = TRUE]
    <3>1. call' = [call EXCEPT ![c] = r] /\ r.answer = call[c].answer
      BY <1>0, <2>3 DEF Locals
    <3> HIDE DEF r
    <3> QED BY <2>1, <3>1, GoesOn
  <2> QED BY <1>8, <2>2, <2>3 DEF Unauthorized
<1>9. CASE Refused(c) \/ Uncertain(c)
  <2>1. book' = book /\ ~At(c, "ended")
    BY <1>9 DEF Refused, Uncertain
  <2> QED BY <1>9, <2>1, CallsAssumption, EndRegisters, InDoubtRegisters DEF Refused, Uncertain
<1>10. CASE Verify(c)
  <2>1. book' = book /\ ~At(c, "ended")
    BY <1>10 DEF Verify, broker
  <2>2. ASSUME NEW n \in {"unverified", "no_match"}, End(c, "not_placed", n)
        PROVE  Register!Next
    BY <2>1, <2>2, CallsAssumption, EndRegisters
  <2>3. ASSUME NEW t, call' = [call EXCEPT ![c].pc = "cancel", ![c].targets = t]
        PROVE  UNCHANGED Register!vars
    <3> DEFINE r == [call[c] EXCEPT !.pc = "cancel", !.targets = t]
    <3>1. call' = [call EXCEPT ![c] = r] /\ r.answer = call[c].answer
      BY <1>0, <2>3 DEF Locals
    <3> HIDE DEF r
    <3> QED BY <2>1, <3>1, GoesOn
  <2> QED BY <1>10, <2>2, <2>3 DEF Verify
<1>11. CASE RollbackEnds(c)
  <2>1. book' = book /\ ~At(c, "ended")
    BY <1>11 DEF RollbackEnds, broker
  <2>2. \E n \in {"cancelled", "not_cancelled"} : End(c, "not_placed", n)
    BY <1>11 DEF RollbackEnds
  <2> QED BY <2>1, <2>2, CallsAssumption, EndRegisters
<1>12. CASE LockAndLoad(c)
  <2>1. book' = book /\ ~At(c, "ended")
    BY <1>12 DEF LockAndLoad, broker
  <2> DEFINE r == [call[c] EXCEPT !.pc = "counting", !.read = Loaded]
  <2>2. call' = [call EXCEPT ![c] = r] /\ r.answer = call[c].answer
    BY <1>0, <1>12 DEF Locals, LockAndLoad
  <2> HIDE DEF r
  <2> QED BY <2>1, <2>2, GoesOn
<1>13. CASE Save(c) \/ CountFails(c)
  <2>1. book' = book /\ ~At(c, "ended") /\ Go(c, "reply") /\ "reply" \in Active
    BY <1>13 DEF Save, CountFails, broker, Active
  <2> QED BY <2>1, GoRegisters
<1>14. CASE Reply(c)
  <2>1. book' = book /\ ~At(c, "ended") /\ call[c].pc = "reply"
    BY <1>14 DEF Reply, broker
  <2>2. book[c] # << >>
    BY <1>0, <2>1 DEF OneOrder, Counting
  <2>3. \E a \in {"not_placed", c} : End(c, a, None)
    BY <1>14 DEF Reply
  <2> QED BY <2>1, <2>2, <2>3, EndRegisters
<1> QED BY <1>2, <1>3, <1>4, <1>5, <1>6, <1>7, <1>8, <1>9, <1>10, <1>11, <1>12, <1>13, <1>14

LEMMA StartRegisters ==
  ASSUME IInv, NEW c \in Calls,
         StartRest(c) \/ StartCli(c) \/ StartAmend(c) \/ StartRestCancel(c)
  PROVE  Register!Next \/ UNCHANGED Register!vars
<1> USE DEF At
<1>0. TypeOK /\ OneOrder(c) /\ CacheInv /\ call \in [Calls -> Locals] /\ call[c].pc = "idle"
      /\ book' = book
  BY DEF IInv, CallInv, TypeOK, StartRest, StartCli, StartAmend, StartRestCancel, broker
<1>1. call[c].answer = None /\ ~At(c, "ended")
  BY <1>0 DEF OneOrder
<1>2. CASE StartCli(c)
  <2>1. PICK mode \in (ModesOf[c] \cap Placing) \ {"rest"} :
          call' = [call EXCEPT ![c] = [Fresh(mode) EXCEPT !.pc = "load"]]
    BY <1>2 DEF StartCli
  <2> DEFINE r == [Fresh(mode) EXCEPT !.pc = "load"]
  <2>2. r.answer = None /\ call' = [call EXCEPT ![c] = r]
    BY <2>1 DEF Fresh
  <2> HIDE DEF r
  <2> QED BY <1>0, <1>1, <2>2, GoesOn
<1>3. CASE StartAmend(c)
  <2>1. PICK mode \in ModesOf[c] \cap {"replace", "cancel"}, o \in Orders :
         \/ \E pc \in {"confirm", "send"} :
               call' = [call EXCEPT ![c] = [Fresh(mode) EXCEPT !.pc = pc, !.targets = {o}]]
         \/ call' = [call EXCEPT ![c] = [Fresh(mode) EXCEPT
                       !.pc = "ended", !.answer = "not_placed"]]
    BY <1>3 DEF StartAmend
  <2>2. ASSUME NEW pc \in {"confirm", "send"},
               call' = [call EXCEPT ![c] = [Fresh(mode) EXCEPT !.pc = pc, !.targets = {o}]]
        PROVE  UNCHANGED Register!vars
    <3> DEFINE r == [Fresh(mode) EXCEPT !.pc = pc, !.targets = {o}]
    <3>1. r.answer = None /\ call' = [call EXCEPT ![c] = r]
      BY <2>2 DEF Fresh
    <3> HIDE DEF r
    <3> QED BY <1>0, <1>1, <3>1, GoesOn
  <2>3. CASE call' = [call EXCEPT ![c] = [Fresh(mode) EXCEPT
                        !.pc = "ended", !.answer = "not_placed"]]
    <3> DEFINE r == [Fresh(mode) EXCEPT !.pc = "ended", !.answer = "not_placed"]
    <3>1. r.answer = "not_placed" /\ call' = [call EXCEPT ![c] = r]
      BY <2>3 DEF Fresh
    <3> HIDE DEF r
    <3>2. call'[c].answer = "not_placed" /\ \A d \in Calls : d # c => call'[d] = call[d]
      BY <1>0, <3>1
    <3> QED BY <1>0, <1>1, <3>2, Declines
  <2> QED BY <2>1, <2>2, <2>3
<1>4. CASE StartRestCancel(c)
  <2>1. PICK o \in Orders : call' = [call EXCEPT ![c] =
                                       [Fresh("rest_cancel") EXCEPT !.pc = "send", !.targets = {o}]]
    BY <1>4 DEF StartRestCancel
  <2> DEFINE r == [Fresh("rest_cancel") EXCEPT !.pc = "send", !.targets = {o}]
  <2>2. r.answer = None /\ call' = [call EXCEPT ![c] = r]
    BY <2>1 DEF Fresh
  <2> HIDE DEF r
  <2> QED BY <1>0, <1>1, <2>2, GoesOn
<1>5. CASE StartRest(c)
  <2> DEFINE answer == IF Hit(c) THEN Purged[KeyOf[c]].order
                       ELSE IF profile = Missing THEN "not_placed" ELSE None
             r == [Fresh("rest") EXCEPT !.pc = IF answer = None THEN "load" ELSE "ended",
                                        !.answer = answer]
  <2>1. call' = [call EXCEPT ![c] = r]
    BY <1>5 DEF StartRest
  <2>2. r.answer = answer
    BY DEF Fresh
  <2> HIDE DEF r
  <2>3. call'[c].answer = answer /\ \A d \in Calls : d # c => call'[d].answer = call[d].answer
    BY <1>0, <2>1, <2>2
  <2>4. CASE Hit(c)
    <3>1. KeyOf[c] # NoKey /\ KeyOf[c] \in Keys /\ Purged[KeyOf[c]] # None
      BY <2>4 DEF Hit, Keys
    <3>2. Purged[KeyOf[c]] = idem[KeyOf[c]]
      BY <3>1 DEF Purged
    <3>3. idem[KeyOf[c]].order \in Calls
      BY <1>0, <3>1, <3>2 DEF TypeOK
    <3>4. /\ KeyOf[idem[KeyOf[c]].order] = KeyOf[c]
          /\ book[idem[KeyOf[c]].order] # << >>
      BY <1>0, <3>1, <3>2 DEF CacheInv
    <3>5. answer = idem[KeyOf[c]].order
      BY <2>4, <3>2
    <3> HIDE DEF answer
    <3> QED BY <1>0, <1>1, <2>3, <3>1, <3>3, <3>4, <3>5, Succeeds
  <2>5. CASE ~Hit(c) /\ profile = Missing
    <3>1. answer = "not_placed"
      BY <2>5
    <3> HIDE DEF answer
    <3> QED BY <1>0, <1>1, <2>3, <3>1, Declines
  <2>6. CASE ~Hit(c) /\ profile # Missing
    <3>1. answer = None
      BY <2>6
    <3> HIDE DEF answer
    <3> QED BY <1>0, <1>1, <2>1, <2>2, <3>1, GoesOn
  <2> QED BY <2>4, <2>5, <2>6
<1> QED BY <1>2, <1>3, <1>4, <1>5

\* The broker's side: an order enters, closes, or takes the place of another.
LEMMA BookRegisters ==
  ASSUME IInv, IInv', NEW c \in Calls,
         Accept(c) \/ Fill(c) \/ Withdraw(c) \/ CancelMatch(c)
  PROVE  Register!Next \/ UNCHANGED Register!vars
<1> USE DEF At
<1>0. /\ TypeOK /\ OneOrder(c) /\ book \in [Calls -> Seq(Entry)]
      /\ call \in [Calls -> Locals] /\ call[c] \in Locals
  BY DEF IInv, CallInv, TypeOK, Entry
<1>1. ASSUME NEW o \in Orders, Status(o) = "working",
             NEW s \in {"filled", "canceled", "withdrawn"},
             book' = [book EXCEPT ![o[1]][o[2]].status = s],
             \A d \in Calls : call'[d].answer = call[d].answer
      PROVE  Register!Next
  <2>1. PICK d \in Calls : o \in {d} \X DOMAIN book[d]
    BY DEF Orders
  <2>2. o[1] = d /\ o[2] \in DOMAIN book[d]
    BY <2>1
  <2>3. book[d][o[2]].status = "working" /\ book' = [book EXCEPT ![d][o[2]].status = s]
    BY <1>1, <2>2 DEF Status
  <2>4. Register!Close(d)
    BY <1>1, <2>2, <2>3, Closes
  <2> QED BY <2>4 DEF Register!Next
<1>2. CASE Fill(c) \/ Withdraw(c)
  <2>1. PICK i \in DOMAIN book[c], s \in {"filled", "withdrawn"} :
          /\ book[c][i].status = "working"
          /\ book' = [book EXCEPT ![c][i].status = s]
    BY <1>2 DEF Fill, Withdraw
  <2>2. \A d \in Calls : call'[d].answer = call[d].answer
    BY <1>2 DEF Fill, Withdraw
  <2>3. Register!Close(c)
    BY <2>1, <2>2, Closes
  <2> QED BY <2>3 DEF Register!Next
<1>3. CASE CancelMatch(c)
  <2>1. PICK o \in call[c].targets, ok \in BOOLEAN, done \in BOOLEAN :
           /\ done => Status(o) = "working"
           /\ book' = IF done THEN [book EXCEPT ![o[1]][o[2]].status = "canceled"] ELSE book
           /\ call' = [call EXCEPT ![c].targets = @ \ {o}, ![c].failed = @ \/ ~ok]
    BY <1>3 DEF CancelMatch
  <2>2. \A d \in Calls : call'[d].answer = call[d].answer
    <3> DEFINE r == [call[c] EXCEPT !.targets = @ \ {o}, !.failed = @ \/ ~ok]
    <3>1. call' = [call EXCEPT ![c] = r] /\ r.answer = call[c].answer
      BY <1>0, <2>1 DEF Locals
    <3> HIDE DEF r
    <3> QED BY <1>0, <3>1
  <2>3. CASE done
    <3>1. o \in Orders
      BY <1>0 DEF OneOrder
    <3> QED BY <1>1, <2>1, <2>2, <2>3, <3>1
  <2>4. CASE ~done
    BY <2>1, <2>2, <2>4, Shown
  <2> QED BY <2>3, <2>4
<1>4. CASE Accept(c)
  <2>0. /\ \A d \in Calls : call'[d].answer = call[d].answer
        /\ wire[c] = "sent" /\ book[c] = << >> /\ Fate(c) = "none"
    BY <1>0, <1>4, FateNow DEF Accept, OneOrder
  <2>1. CASE ~Amends(c) /\ book' = [book EXCEPT ![c] = Append(@, Entered(c, c))]
    <3>1. book'[c] # << >> /\ book'[c][1].status = "working"
      BY <1>0, <2>0, <2>1 DEF Entered
    <3>2. \A d \in Calls : d # c => book'[d] = book[d]
      BY <1>0, <2>1
    <3>3. Fate(c)' = "working"
      BY <3>1, FateNext
    <3>4. \A d \in Calls : d # c => Fate(d)' = Fate(d)
      BY <3>2 DEF Fate
    <3>5. Register!Enter(c)
      BY <2>0, <3>3, <3>4 DEF Register!Enter
    <3> QED BY <3>5 DEF Register!Next
  <2>2. ASSUME NEW o \in call[c].targets, Status(o) = "working",
               book' = [book EXCEPT ![o[1]][o[2]].status = "replaced",
                                    ![c] = Append(@, Entered(c, book[o[1]][o[2]].of))]
        PROVE  Register!Next
    <3>1. o \in Orders
      BY <1>0 DEF OneOrder
    <3>2. PICK d \in Calls : o \in {d} \X DOMAIN book[d]
      BY <3>1 DEF Orders
    <3>3. o[1] = d /\ o[2] \in DOMAIN book[d] /\ d # c
      BY <2>0, <3>2
    <3>4. DOMAIN book[d] = {1} /\ o[2] = 1 /\ Fate(d) = "working"
      BY <2>2, <3>3, FateNow DEF Status
    <3>5. PICK e : e = Entered(c, book[o[1]][o[2]].of)
      OBVIOUS
    <3>6. book' = [book EXCEPT ![o[1]][o[2]].status = "replaced", ![c] = Append(@, e)]
      BY <2>2, <3>5
    <3>7. book' = [book EXCEPT ![d][o[2]].status = "replaced", ![c] = Append(@, e)]
      BY <3>3, <3>6
    <3>8. /\ book'[c] = Append(<< >>, e)
          /\ book'[d] = [book[d] EXCEPT ![o[2]].status = "replaced"]
          /\ \A q \in Calls : q \notin {c, d} => book'[q] = book[q]
      BY <1>0, <2>0, <3>3, <3>7
    <3>9. book'[c] # << >> /\ book'[c][1].status = "working"
      BY <3>5, <3>8 DEF Entered
    <3>10. Fate(c)' = "working"
      BY <3>9, FateNext
    <3>11. Marked(d) /\ book'[d][o[2]].status = "replaced"
      <4>1. PICK i : i = o[2]
        OBVIOUS
      <4>2. i \in DOMAIN book[d] /\ book'[d] = WithStatus(d, i, "replaced")
        BY <3>3, <3>8, <4>1 DEF WithStatus
      <4>3. Marked(d) /\ book'[d][i].status = "replaced"
        BY <1>0, <4>2, MarkOne
      <4> QED BY <4>1, <4>3
    <3>12. Fate(d)' = "canceled"
      BY <3>3, <3>4, <3>11, FateNext DEF Marked
    <3>13. \A q \in Calls : q \notin {c, d} => Fate(q)' = Fate(q)
      BY <3>8 DEF Fate
    <3>14. Register!Replace(c, d)
      BY <2>0, <3>3, <3>4, <3>10, <3>12, <3>13 DEF Register!Replace
    <3> QED BY <3>14 DEF Register!Next
  <2>3. ASSUME NEW o \in call[c].targets, Status(o) = "working",
               book' = [book EXCEPT ![o[1]][o[2]].status = "withdrawn"]
        PROVE  Register!Next
    <3>1. o \in Orders
      BY <1>0 DEF OneOrder
    <3> QED BY <1>1, <2>0, <2>3, <3>1
  <2> QED BY <1>4, <2>1, <2>2, <2>3 DEF Accept
<1> QED BY <1>2, <1>3, <1>4

\* A crash answers nothing.
LEMMA KillRegisters ==
  ASSUME IInv, NEW S \in SUBSET Calls, Kill(S)
  PROVE  UNCHANGED Register!vars
<1>1. book' = book
  BY DEF Kill, broker
<1>2. ASSUME NEW d \in Calls PROVE call'[d].answer = call[d].answer
  <2>1. OneOrder(d)
    BY DEF IInv, CallInv
  <2>2. call'[d] = IF d \in S /\ call[d].pc \in Active
                   THEN [Fresh(call[d].mode) EXCEPT !.pc = "killed", !.targets = Asked(d)]
                   ELSE call[d]
    BY DEF Kill
  <2>3. [Fresh(call[d].mode) EXCEPT !.pc = "killed", !.targets = Asked(d)].answer = None
    BY DEF Fresh
  <2>4. call[d].pc \in Active => call[d].answer = None
    BY <2>1 DEF OneOrder, At, Active
  <2> QED BY <2>2, <2>3, <2>4
<1> QED BY <1>1, <1>2, Shown

LEMMA StepRegisters ==
  ASSUME IInv, IInv', [Next]_vars
  PROVE  [Register!Next]_(Register!vars)
<1>1. ASSUME NEW c \in Calls, Step(c) \/ Confirm(c)
      PROVE  Register!Next \/ UNCHANGED Register!vars
  BY <1>1, CallRegisters, BookRegisters DEF Step
<1>2. ASSUME NEW c \in Calls,
             StartRest(c) \/ StartCli(c) \/ StartAmend(c) \/ StartRestCancel(c)
      PROVE  Register!Next \/ UNCHANGED Register!vars
  BY <1>2, StartRegisters
<1>3. ASSUME NEW c \in Calls, Accept(c) \/ Fill(c) \/ Withdraw(c)
      PROVE  Register!Next \/ UNCHANGED Register!vars
  BY <1>3, BookRegisters
<1>4. CASE Restart \/ \E c \in Calls : KillCli(c)
  <2>1. PICK S \in SUBSET Calls : Kill(S)
    BY <1>4 DEF Restart, KillCli
  <2> QED BY <2>1, KillRegisters
<1>5. CASE EditProfile \/ Tick \/ UNCHANGED vars
  <2>1. book' = book /\ call' = call
    BY <1>5 DEF EditProfile, Tick, vars, broker
  <2> QED BY <2>1, Shown
<1> QED BY <1>1, <1>2, <1>3, <1>4, <1>5 DEF Next, Finished

LEMMA InitRegisters ==
  ASSUME Init
  PROVE  Register!Init
BY DEF Init, Register!Init, Fate, Fresh

(* Whatever is retried, restarted, killed or delivered late, a call enters   *)
(* at most one order, an order that is closed stays closed, a call answers   *)
(* at most once, and a success names an order in the book, its own or that   *)
(* of a call with its key: placement implements the register                 *)
(* (api/client.py, commands/order.py, orders_write.py).                      *)
THEOREM PlacementIsRegister == Spec => AtMostOneOrder
<1>1. Init => Register!Init
  BY InitRegisters
<1>2. IInv /\ IInv' /\ [Next]_vars => [Register!Next]_(Register!vars)
  BY StepRegisters
<1> QED BY <1>1, <1>2, PlacementInv, PTL DEF Spec, AtMostOneOrder, Register!Spec
=============================================================================

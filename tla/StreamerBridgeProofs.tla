------------------------ MODULE StreamerBridgeProofs ------------------------
(***************************************************************************)
(* Theorems about StreamerBridge and the tables of SubscriptionManager,    *)
(* for any finite set of readers, any lists of symbols and any numbers of  *)
(* rotations and losses.                                                   *)
(***************************************************************************)
EXTENDS StreamerBridge, FiniteSetTheorems, TLAPS

-----------------------------------------------------------------------------
(* The tables *)

TablesInv == TablesType /\ HeldIsRouted

\* Who may be in a table: finitely many, and those that leave are targets.
LEMMA LeaversFinite ==
  ASSUME TablesInv, NEW r \in Readers, NEW s \in Symbols
  PROVE  /\ IsFiniteSet(routing[s]) /\ Cardinality(routing[s]) \in Nat
         /\ Leavers(r, s) \subseteq routing[s]
         /\ IsFiniteSet(Leavers(r, s)) /\ Cardinality(Leavers(r, s)) \in Nat
         /\ refcount[s] >= Cardinality(routing[s])
         /\ Cardinality(Leavers(r, s)) <= Cardinality(routing[s])
<1>1. routing[s] \in SUBSET Readers
  BY DEF TablesInv, TablesType
<1>2. IsFiniteSet(routing[s])
  BY <1>1, ReadersAssumption, FS_Subset
<1>3. Leavers(r, s) \subseteq routing[s]
  BY TogetherAssumption DEF TablesInv, HeldIsRouted, Leavers
<1>4. IsFiniteSet(Leavers(r, s)) /\ Cardinality(Leavers(r, s)) <= Cardinality(routing[s])
  BY <1>2, <1>3, FS_Subset
<1> QED
  BY <1>2, <1>3, <1>4, FS_CardinalityType DEF TablesInv, HeldIsRouted

\* add counts at least one for each symbol it routes.
LEMMA AddTables ==
  ASSUME TablesInv, NEW r \in Readers, add(r)
  PROVE  /\ TablesInv'
         /\ Active' = Active \cup NewlySubscribed(r)
         /\ NewlySubscribed(r) \in SUBSET Symbols
<1> USE DEF TablesInv
<1>1. Asks[r] \in [Symbols -> Nat] /\ Asked(r) \in SUBSET Symbols
  BY AsksAssumption DEF Asked
<1>2. TablesType'
  BY <1>1 DEF TablesType, add
<1>3. ASSUME NEW s \in Symbols
      PROVE  /\ routing'[s] = {q \in Readers : s \in subs'[q]}
             /\ refcount'[s] >= Cardinality(routing'[s])
  <2>1. /\ refcount'[s] = refcount[s] + Asks[r][s]
        /\ routing'[s] = routing[s] \cup (IF s \in Asked(r) THEN {r} ELSE {})
        /\ subs' = [subs EXCEPT ![r] = @ \cup Asked(r)]
    BY DEF add
  <2>2. routing'[s] = {q \in Readers : s \in subs'[q]}
    BY <2>1 DEF TablesType, HeldIsRouted
  <2>3. refcount[s] \in Nat /\ Asks[r][s] \in Nat
    BY <1>1 DEF TablesType
  <2>4. /\ IsFiniteSet(routing[s]) /\ Cardinality(routing[s]) \in Nat
        /\ refcount[s] >= Cardinality(routing[s])
    BY LeaversFinite
  <2>5. CASE s \in Asked(r)
    <3>1. Asks[r][s] > 0 /\ routing'[s] = routing[s] \cup {r}
      BY <2>1, <2>5 DEF Asked
    <3>2. Cardinality(routing'[s]) = IF r \in routing[s] THEN Cardinality(routing[s])
                                     ELSE Cardinality(routing[s]) + 1
      BY <2>4, <3>1, FS_AddElement
    <3> QED BY <2>1, <2>2, <2>3, <2>4, <3>1, <3>2
  <2>6. CASE s \notin Asked(r)
    <3>1. Cardinality(routing'[s]) = Cardinality(routing[s])
      BY <2>1, <2>6
    <3>2. refcount'[s] >= refcount[s] /\ refcount'[s] \in Nat
      BY <2>1, <2>3
    <3> QED BY <2>2, <2>3, <2>4, <3>1, <3>2
  <2> QED BY <2>5, <2>6
<1>4. HeldIsRouted'
  BY <1>3 DEF HeldIsRouted
<1>5. Active' = Active \cup NewlySubscribed(r)
  <2>1. ASSUME NEW s \in Symbols
        PROVE  refcount'[s] > 0 <=> refcount[s] > 0 \/ Asks[r][s] > 0
    <3>1. refcount'[s] = refcount[s] + Asks[r][s] /\ refcount[s] \in Nat /\ Asks[r][s] \in Nat
      BY <1>1 DEF add, TablesType
    <3> QED BY <3>1
  <2> QED BY <2>1 DEF Active, NewlySubscribed, Asked
<1>6. NewlySubscribed(r) \in SUBSET Symbols
  BY DEF NewlySubscribed, Asked
<1> QED BY <1>2, <1>4, <1>5, <1>6

\* A symbol that is dropped was held by those who leave alone; any other
\* keeps a count for each of its targets.
LEMMA RemoveTables ==
  ASSUME TablesInv, NEW r \in Readers, remove(r)
  PROVE  TablesInv' /\ Active' = Active \ Unsubscribed(r)
<1> USE DEF TablesInv
<1>1. ASSUME NEW s \in Symbols
      PROVE  /\ refcount'[s] \in Nat
             /\ routing'[s] \in SUBSET Readers
             /\ routing'[s] = {q \in Readers : s \in subs'[q]}
             /\ refcount'[s] >= Cardinality(routing'[s])
             /\ refcount'[s] > 0 <=> refcount[s] > 0 /\ s \notin Unsubscribed(r)
  <2> DEFINE L == Leavers(r, s)
  <2>0. /\ refcount'[s] = IF s \in Unsubscribed(r) THEN 0 ELSE refcount[s] - Cardinality(L)
        /\ routing'[s] = IF s \in Unsubscribed(r) THEN {} ELSE routing[s] \ L
        /\ subs' = [q \in Readers |-> IF q \in Together[r] THEN {} ELSE subs[q]]
    BY DEF remove
  <2>1. /\ refcount[s] \in Nat /\ routing[s] \in SUBSET Readers
        /\ routing[s] = {q \in Readers : s \in subs[q]}
    BY DEF TablesType, HeldIsRouted
  <2>2. /\ IsFiniteSet(routing[s]) /\ Cardinality(routing[s]) \in Nat
        /\ L \subseteq routing[s]
        /\ IsFiniteSet(L) /\ Cardinality(L) \in Nat
        /\ refcount[s] >= Cardinality(routing[s])
        /\ Cardinality(L) <= Cardinality(routing[s])
    BY LeaversFinite
  <2>3. {q \in Readers : s \in subs'[q]} = routing[s] \ L
    BY <2>0, <2>1 DEF Leavers
  <2>4. s \in Unsubscribed(r) <=> L # {} /\ refcount[s] <= Cardinality(L)
    BY DEF Unsubscribed
  <2>5. L # {} => Cardinality(L) > 0
    BY <2>2, FS_EmptySet
  <2> HIDE DEF L
  <2>6. CASE s \in Unsubscribed(r)
    <3>1. Cardinality(L) = Cardinality(routing[s]) /\ refcount[s] > 0
      BY <2>1, <2>2, <2>4, <2>5, <2>6
    <3>2. L = routing[s]
      BY <2>2, <3>1, FS_Subset
    <3>3. routing'[s] = {} /\ refcount'[s] = 0
      BY <2>0, <2>6
    <3> QED BY <2>3, <2>6, <3>2, <3>3, FS_EmptySet
  <2>7. CASE s \notin Unsubscribed(r)
    <3>1. routing'[s] = routing[s] \ L /\ refcount'[s] = refcount[s] - Cardinality(L)
      BY <2>0, <2>7
    <3>2. routing[s] \cap L = L
      BY <2>2
    <3>3. Cardinality(routing'[s]) = Cardinality(routing[s]) - Cardinality(L)
      BY <2>2, <3>1, <3>2, FS_Difference
    <3>4. L = {} => Cardinality(L) = 0
      BY FS_EmptySet
    <3>5. refcount'[s] > 0 <=> refcount[s] > 0
      BY <2>1, <2>2, <2>4, <2>7, <3>1, <3>4
    <3> QED BY <2>1, <2>2, <2>3, <2>7, <3>1, <3>3, <3>5
  <2> QED BY <2>6, <2>7
<1>2. TablesType'
  <2>1. refcount' \in [Symbols -> Nat]
    BY <1>1 DEF remove
  <2>2. routing' \in [Symbols -> SUBSET Readers]
    BY <1>1 DEF remove
  <2>3. subs' \in [Readers -> SUBSET Symbols]
    BY DEF remove, TablesType
  <2> QED BY <2>1, <2>2, <2>3 DEF TablesType
<1>3. HeldIsRouted'
  BY <1>1 DEF HeldIsRouted
<1>4. Active' = Active \ Unsubscribed(r)
  BY <1>1 DEF Active
<1> QED BY <1>2, <1>3, <1>4

LEMMA TablesKept ==
  ASSUME TablesInv, UNCHANGED tables
  PROVE  TablesInv' /\ Active' = Active
  BY DEF TablesInv, tables, TablesType, HeldIsRouted, Active

-----------------------------------------------------------------------------
(* The bridge *)

Held == lock \in Readers \cup {Rotation}

\* What the holder of the lock may rely on, and what it owes the others: at
\* every await the streamed symbols are those of the last operation, but for
\* what is about to be asked for.
LockInv ==
    /\ ~Held => step = "none" /\ fresh = {}
    /\ Held => step # "none" /\ linger = "none"
    /\ step = "connecting" => streamer = "none"
    /\ step = "connecting" /\ lock \in Readers => gap = Active
    /\ step = "subscribing" => streamer # "none" /\ fresh \in SUBSET Active
    /\ step = "subscribing" /\ lock = Rotation => fresh = Active
    /\ step = "subscribing" /\ lock \in Readers /\ streamer = "live" =>
          upstream = (Active \ gap) \ fresh
    /\ Free /\ streamer = "none" => gap = Active
    /\ gap \in SUBSET Active
    /\ due <= rotations

IInv == TypeOK /\ HeldIsRouted /\ LockInv /\ UpstreamExact

LEMMA LockKinds ==
  /\ Rotation \notin Readers /\ Shutdown \notin Readers /\ Nobody \notin Readers
  /\ Rotation # Nobody /\ Rotation # Shutdown /\ Shutdown # Nobody
  BY BridgeAssumption

LEMMA PhasesTyped ==
  ASSUME phase \in [Readers -> Phases], NEW r \in Readers, NEW p \in Phases
  PROVE  /\ Becomes(r, p) => phase' \in [Readers -> Phases]
         /\ AllBecome(r, p) => phase' \in [Readers -> Phases]
  BY DEF Becomes, AllBecome

LEMMA InitInv == Init => IInv
<1> SUFFICES ASSUME Init PROVE IInv
  OBVIOUS
<1>1. Active = {} /\ Free /\ ~Held
  BY LockKinds DEF Init, TablesInit, Active, Free, Held
<1>2. TypeOK
  BY <1>1, BridgeAssumption DEF Init, TypeOK, TablesInit, TablesType, Phases
<1>3. HeldIsRouted
  BY FS_EmptySet DEF Init, TablesInit, HeldIsRouted
<1>4. LockInv /\ UpstreamExact
  BY <1>1 DEF Init, LockInv, UpstreamExact
<1> QED BY <1>2, <1>3, <1>4 DEF IInv

\* Steps that leave the tables, the lock and the socket's contents alone.
LEMMA OutsideStep ==
  ASSUME IInv, UNCHANGED <<tables, holding, streamer, upstream, losses, gap>>,
         phase' \in [Readers -> Phases],
         linger' \in {"none", "sleeping", "awake"},
         linger' # "none" => linger # "none",
         rotations' \in 0..MaxRotations, due' \in 0..MaxRotations, due' <= rotations'
  PROVE  IInv'
<1>1. TablesInv' /\ Active' = Active
  BY TablesKept DEF IInv, TypeOK, TablesInv
<1>2. TypeOK'
  BY <1>1 DEF IInv, TypeOK, TablesInv, holding
<1>3. LockInv' /\ UpstreamExact'
  BY <1>1 DEF IInv, LockInv, UpstreamExact, holding, Held, Free
<1> QED BY <1>1, <1>2, <1>3 DEF IInv, TablesInv

\* Steps under the lock: what changes and what must hold afterwards.
LEMMA LockedStep ==
  ASSUME IInv, TablesInv', LockInv', UpstreamExact',
         phase' \in [Readers -> Phases],
         lock' \in Readers \cup {Rotation, Shutdown, Nobody},
         step' \in {"none", "connecting", "subscribing"},
         fresh' \in SUBSET Symbols, upstream' \in SUBSET Symbols,
         streamer' \in {"none", "live", "dead"},
         linger' \in {"none", "sleeping", "awake"},
         linger' # "none" => Active' = {},
         gap' \in SUBSET Symbols, UNCHANGED <<losses, rotations>>,
         due' \in 0..MaxRotations
  PROVE  IInv'
  BY DEF IInv, TypeOK, TablesInv

LEMMA RegisterInv ==
  ASSUME IInv, NEW r \in Readers, Register(r),
         \/ Free /\ streamer # "none" /\ UNCHANGED <<streamer, upstream>>
         \/ lock = r /\ step = "connecting" /\ streamer' = "live" /\ upstream' = {},
         linger' = "none", UNCHANGED <<budget, gap>>
  PROVE  IInv'
<1> USE DEF IInv
<1>1. /\ TablesInv' /\ Active' = Active \cup NewlySubscribed(r)
      /\ NewlySubscribed(r) \in SUBSET Symbols
  BY AddTables DEF Register, TypeOK, TablesInv
<1>2. phase' \in [Readers -> Phases]
  BY PhasesTyped DEF Register, TypeOK, Phases
<1>3. NewlySubscribed(r) \cap Active = {} /\ gap \in SUBSET Active
  BY DEF NewlySubscribed, LockInv
<1>4. streamer' # "none" /\ gap' = gap /\ UNCHANGED <<rotations, due, losses>>
  BY DEF budget
<1>5. streamer' = "live" => upstream' = Active \ gap
  BY <1>3 DEF LockInv, UpstreamExact, Free
<1>6. CASE NewlySubscribed(r) = {}
  <2>1. lock' = Nobody /\ step' = "none" /\ fresh' = {} /\ Active' = Active
    BY <1>1, <1>6 DEF Register, Release
  <2>2. LockInv' /\ UpstreamExact'
    BY <1>3, <1>4, <1>5, <2>1, LockKinds DEF LockInv, UpstreamExact, Held, Free
  <2> QED BY <1>1, <1>2, <1>4, <2>1, <2>2, LockedStep DEF TypeOK
<1>7. CASE NewlySubscribed(r) # {}
  <2>1. lock' = r /\ step' = "subscribing" /\ fresh' = NewlySubscribed(r)
    BY <1>7 DEF Register, Hold
  <2>2. LockInv'
    BY <1>1, <1>3, <1>4, <1>5, <2>1, LockKinds DEF LockInv, Held, Free
  <2>3. UpstreamExact'
    BY <2>1, LockKinds DEF UpstreamExact, Free
  <2> QED BY <1>1, <1>2, <1>4, <2>1, <2>2, <2>3, LockedStep DEF TypeOK
<1> QED BY <1>6, <1>7

LEMMA ReaderInv ==
  ASSUME IInv, NEW r \in Readers, Locked(r)
  PROVE  IInv'
<1> USE DEF IInv
<1>1. ASSUME BeginAdd(r) PROVE IInv'
  <2>1. CASE streamer # "none" /\ Register(r)
    BY <1>1, <2>1, RegisterInv DEF BeginAdd, TimerAfterAdd
  <2>2. CASE /\ streamer = "none" /\ Hold(r, "connecting")
             /\ UNCHANGED <<tables, phase, fresh>>
    <3>1. TablesInv' /\ Active' = Active
      BY <2>2, TablesKept DEF TypeOK, TablesInv
    <3>2. /\ lock' = r /\ step' = "connecting" /\ linger' = "none" /\ Free
          /\ UNCHANGED <<streamer, upstream, rotations, due, losses, gap, phase, fresh>>
      BY <1>1, <2>2 DEF BeginAdd, Hold, budget, TimerAfterAdd
    <3>3. LockInv' /\ UpstreamExact'
      BY <2>2, <3>1, <3>2, LockKinds DEF LockInv, UpstreamExact, Held, Free
    <3> QED BY <3>1, <3>2, <3>3, LockedStep DEF TypeOK
  <2> QED BY <1>1, <2>1, <2>2 DEF BeginAdd
<1>2. ASSUME Connected(r) PROVE IInv'
  <2>1. linger = "none"
    BY <1>2 DEF Connected, LockInv, Held
  <2> QED BY <1>2, <2>1, RegisterInv DEF Connected
<1>3. ASSUME ConnectFails(r) PROVE IInv'
  <2>1. TablesInv' /\ Active' = Active
    BY <1>3, TablesKept DEF ConnectFails, TypeOK, TablesInv
  <2>2. phase' \in [Readers -> Phases]
    BY <1>3, PhasesTyped DEF ConnectFails, GivesUp, TypeOK, Phases
  <2>3. /\ lock = r /\ step = "connecting"
        /\ lock' = Nobody /\ step' = "none" /\ fresh' = {}
        /\ UNCHANGED <<streamer, upstream, linger, rotations, due, losses, gap>>
    BY <1>3 DEF ConnectFails, Release, socket, budget
  <2>4. LockInv' /\ UpstreamExact'
    BY <2>1, <2>3, LockKinds DEF LockInv, UpstreamExact, Held, Free
  <2> QED BY <2>1, <2>2, <2>3, <2>4, LockedStep DEF TypeOK
<1>4. ASSUME Subscribed(r) PROVE IInv'
  <2>1. TablesInv' /\ Active' = Active
    BY <1>4, TablesKept DEF Subscribed, TypeOK, TablesInv
  <2>2. phase' \in [Readers -> Phases]
    BY <1>4, PhasesTyped DEF Subscribed, TypeOK, Phases
  <2>3. /\ lock = r /\ step = "subscribing" /\ streamer = "live"
        /\ lock' = Nobody /\ step' = "none" /\ fresh' = {}
        /\ upstream' = upstream \cup fresh /\ gap' = gap \ fresh
        /\ UNCHANGED <<streamer, linger, rotations, due, losses>>
    BY <1>4 DEF Subscribed, Release, budget
  <2>4. LockInv' /\ UpstreamExact'
    BY <2>1, <2>3, LockKinds DEF LockInv, UpstreamExact, Held, Free
  <2> QED BY <2>1, <2>2, <2>3, <2>4, LockedStep DEF TypeOK
<1>5. ASSUME SubscribeFails(r) PROVE IInv'
  <2>1. TablesInv' /\ Active' = Active
    BY <1>5, TablesKept DEF SubscribeFails, TypeOK, TablesInv
  <2>2. phase' \in [Readers -> Phases]
    BY <1>5, PhasesTyped DEF SubscribeFails, GivesUp, TypeOK, Phases
  <2>3. /\ lock = r /\ step = "subscribing"
        /\ lock' = Nobody /\ step' = "none" /\ fresh' = {}
        /\ \/ gap' = gap \cup fresh /\ upstream' = upstream
           \/ gap' = gap \ fresh /\ upstream' = upstream \cup fresh
        /\ UNCHANGED <<streamer, linger, rotations, due, losses>>
    BY <1>5 DEF SubscribeFails, Release, budget
  <2>4. LockInv' /\ UpstreamExact'
    BY <2>1, <2>3, LockKinds DEF LockInv, UpstreamExact, Held, Free
  <2>5. gap' \in SUBSET Symbols /\ upstream' \in SUBSET Symbols
    BY <2>3 DEF TypeOK
  <2>6. linger' # "none" => Active' = {}
    BY <2>1, <2>3 DEF TypeOK
  <2> QED BY <2>1, <2>2, <2>3, <2>4, <2>5, <2>6, LockedStep DEF TypeOK
<1>6. ASSUME Remove(r) PROVE IInv'
  <2>1. TablesInv' /\ Active' = Active \ Unsubscribed(r)
    BY <1>6, RemoveTables DEF Remove, TypeOK, TablesInv
  <2>2. phase' \in [Readers -> Phases]
    BY <1>6, PhasesTyped DEF Remove, TypeOK, Phases
  <2>3. /\ Free /\ UNCHANGED <<lock, step, fresh, streamer, rotations, due, losses>>
        /\ upstream' = upstream \ Unsubscribed(r) /\ gap' = gap \ Unsubscribed(r)
        /\ linger' = IF Active' = {} THEN "sleeping" ELSE linger
    BY <1>6, <2>1 DEF Remove, Linger, holding, budget
  <2>4. linger' # "none" => Active' = {}
    BY <2>1, <2>3 DEF TypeOK
  <2>5. LockInv' /\ UpstreamExact'
    BY <2>1, <2>3, LockKinds DEF LockInv, UpstreamExact, Held, Free
  <2> QED BY <2>1, <2>2, <2>3, <2>4, <2>5, LockedStep DEF TypeOK
<1> QED BY <1>1, <1>2, <1>3, <1>4, <1>5, <1>6 DEF Locked

\* Steps that leave the tables and the readers alone.
LEMMA SocketStep ==
  ASSUME IInv, UNCHANGED <<tables, phase, losses, rotations>>, LockInv', UpstreamExact',
         lock' \in {lock, Rotation, Shutdown, Nobody},
         step' \in {"none", "connecting", "subscribing"},
         fresh' \in {fresh, {}, Active}, upstream' \in {upstream, {}, fresh},
         streamer' \in {"none", "live", "dead"},
         linger' \in {linger, "none"}, gap' \in {gap, {}, Active},
         due' \in {due, due - 1}, due' >= 0
  PROVE  IInv'
<1>1. TablesInv' /\ Active' = Active
  BY TablesKept DEF IInv, TypeOK, TablesInv
<1>2. Active \in SUBSET Symbols
  BY DEF Active
<1>3. due' \in 0..MaxRotations
  BY BridgeAssumption DEF IInv, TypeOK
<1> QED BY <1>1, <1>2, <1>3, LockedStep DEF IInv, TypeOK

LEMMA ReconnectInv ==
  ASSUME IInv, Reconnect \/ IdleClose \/ Close
  PROVE  IInv'
<1> USE DEF IInv
<1>0. UNCHANGED tables => Active' = Active
  BY DEF tables, Active
<1>1. ASSUME BeginReconnect PROVE IInv'
  <2>1. /\ Free /\ due > 0 /\ due' = due - 1 /\ UNCHANGED <<tables, phase, rotations, losses, gap>>
        /\ streamer' = "none" /\ upstream' = {} /\ linger' = "none" /\ fresh' = fresh
        /\ \/ Active = {} /\ lock' = lock /\ step' = step
           \/ lock' = Rotation /\ step' = "connecting"
    BY <1>1 DEF BeginReconnect, CloseStreamer, holding, Hold
  <2>2. due \in Nat /\ rotations \in Nat
    BY BridgeAssumption DEF TypeOK
  <2>3. LockInv' /\ UpstreamExact'
    BY <1>0, <2>1, <2>2, LockKinds DEF LockInv, UpstreamExact, Held, Free
  <2> QED BY <2>1, <2>2, <2>3, SocketStep DEF TypeOK
<1>2. ASSUME Reconnected PROVE IInv'
  <2>1. /\ lock = Rotation /\ step = "connecting" /\ step' = "subscribing"
        /\ streamer' = "live" /\ upstream' = {} /\ fresh' = Active
        /\ UNCHANGED <<tables, phase, lock, linger, rotations, due, losses, gap>>
    BY <1>2 DEF Reconnected, ToResubscribe, budget
  <2>2. LockInv' /\ UpstreamExact'
    BY <1>0, <2>1, LockKinds DEF LockInv, UpstreamExact, Held, Free
  <2> QED BY <2>1, <2>2, SocketStep DEF TypeOK
<1>3. ASSUME ReconnectFails PROVE IInv'
  <2>1. /\ lock = Rotation /\ step = "connecting" /\ gap' = Active
        /\ lock' = Nobody /\ step' = "none" /\ fresh' = {}
        /\ UNCHANGED <<tables, phase, streamer, upstream, linger, rotations, due, losses>>
    BY <1>3 DEF ReconnectFails, Release, socket, budget
  <2>2. LockInv' /\ UpstreamExact'
    BY <1>0, <2>1, LockKinds DEF LockInv, UpstreamExact, Held, Free
  <2> QED BY <2>1, <2>2, SocketStep DEF TypeOK
<1>4. ASSUME Resubscribed PROVE IInv'
  <2>1. /\ lock = Rotation /\ step = "subscribing" /\ streamer = "live"
        /\ upstream' = fresh /\ gap' = {}
        /\ lock' = Nobody /\ step' = "none" /\ fresh' = {}
        /\ UNCHANGED <<tables, phase, streamer, linger, rotations, due, losses>>
    BY <1>4 DEF Resubscribed, Release, budget
  <2>2. LockInv' /\ UpstreamExact'
    BY <1>0, <2>1, LockKinds DEF LockInv, UpstreamExact, Held, Free
  <2> QED BY <2>1, <2>2, SocketStep DEF TypeOK
<1>5. ASSUME ResubscribeFails PROVE IInv'
  <2>1. /\ lock = Rotation /\ step = "subscribing" /\ streamer = "dead"
        /\ lock' = Nobody /\ step' = "none" /\ fresh' = {}
        /\ UNCHANGED <<tables, phase, streamer, upstream, linger, rotations, due, losses, gap>>
    BY <1>5 DEF ResubscribeFails, Release, socket, budget
  <2>2. LockInv' /\ UpstreamExact'
    BY <1>0, <2>1, LockKinds DEF LockInv, UpstreamExact, Held, Free
  <2> QED BY <2>1, <2>2, SocketStep DEF TypeOK
<1>6. ASSUME IdleClose PROVE IInv'
  <2>1. /\ Free /\ UNCHANGED <<tables, phase, lock, step, fresh, rotations, due, losses, gap>>
        /\ \/ /\ Active = {}
              /\ streamer' = "none" /\ upstream' = {} /\ linger' = "none"
           \/ linger' = "none" /\ UNCHANGED <<streamer, upstream>>
    BY <1>6 DEF IdleClose, CloseStreamer, holding, budget
  <2>2. LockInv' /\ UpstreamExact'
    BY <1>0, <2>1, LockKinds DEF LockInv, UpstreamExact, Held, Free
  <2> QED BY <2>1, <2>2, SocketStep DEF TypeOK
<1>7. ASSUME Close PROVE IInv'
  <2>1. /\ Free /\ lock' = Shutdown
        /\ streamer' = "none" /\ upstream' = {} /\ linger' = "none"
        /\ UNCHANGED <<tables, phase, step, fresh, rotations, due, losses, gap>>
    BY <1>7 DEF Close, CloseStreamer, budget
  <2>2. LockInv' /\ UpstreamExact'
    BY <1>0, <2>1, LockKinds DEF LockInv, UpstreamExact, Held, Free
  <2> QED BY <2>1, <2>2, SocketStep DEF TypeOK
<1> QED BY <1>1, <1>2, <1>3, <1>4, <1>5, <1>6, <1>7 DEF Reconnect

LEMMA NextInv ==
  ASSUME IInv, [Next]_vars
  PROVE  IInv'
<1> USE DEF IInv
<1>0. due <= rotations /\ rotations \in 0..MaxRotations /\ due \in 0..MaxRotations
      /\ phase \in [Readers -> Phases] /\ MaxRotations \in Nat /\ MaxLosses \in Nat
  BY BridgeAssumption DEF LockInv, TypeOK
<1>1. ASSUME NEW r \in Readers, Ask(r) \/ Leave(r) PROVE IInv'
  <2>1. phase' \in [Readers -> Phases]
    BY <1>1, PhasesTyped DEF Ask, Leave, TypeOK, Phases
  <2> QED BY <1>0, <1>1, <2>1, OutsideStep DEF Ask, Leave, socket, budget, TypeOK
<1>2. ASSUME LingerElapses PROVE IInv'
  BY <1>0, <1>2, OutsideStep DEF LingerElapses, budget, holding
<1>3. ASSUME Rotate PROVE IInv'
  <2>1. /\ rotations' = rotations + 1 /\ due' = due + 1 /\ rotations < MaxRotations
        /\ UNCHANGED <<tables, phase, holding, streamer, upstream, linger, losses, gap>>
    BY <1>3 DEF Rotate, socket
  <2>2. rotations' \in 0..MaxRotations /\ due' \in 0..MaxRotations /\ due' <= rotations'
    BY <1>0, <2>1
  <2> QED BY <1>0, <2>1, <2>2, OutsideStep DEF TypeOK
<1>4. ASSUME SocketDies PROVE IInv'
  <2>1. /\ losses' = losses + 1 /\ losses < MaxLosses /\ streamer = "live"
        /\ streamer' = "dead" /\ upstream' = {}
        /\ UNCHANGED <<tables, phase, lock, step, fresh, linger, rotations, due, gap>>
    BY <1>4 DEF SocketDies, holding
  <2>2. TablesInv' /\ Active' = Active
    BY <2>1, TablesKept DEF TypeOK, TablesInv
  <2>3. losses' \in 0..MaxLosses
    BY <1>0, <2>1 DEF TypeOK
  <2>4. TypeOK'
    BY <2>1, <2>2, <2>3 DEF TypeOK, TablesInv
  <2>5. LockInv' /\ UpstreamExact'
    BY <2>1, <2>2 DEF LockInv, UpstreamExact, Held, Free
  <2> QED BY <2>2, <2>4, <2>5 DEF TablesInv
<1>5. ASSUME UNCHANGED vars PROVE IInv'
  BY <1>0, <1>5, OutsideStep DEF vars, socket, budget, TypeOK
<1> QED BY <1>1, <1>2, <1>3, <1>4, <1>5, ReaderInv, ReconnectInv DEF Next

LEMMA Inductive == Spec => []IInv
<1> QED BY InitInv, NextInv, PTL DEF Spec

-----------------------------------------------------------------------------
(* The theorems *)

\* Every table, phase and budget keeps its type, and the close timer runs only
\* while nothing is counted.
THEOREM BridgeTyped == Spec => []TypeOK
<1>1. IInv => TypeOK
  BY DEF IInv
<1> QED BY <1>1, Inductive, PTL

\* Nobody's leaving cuts off another reader, however often lists name a symbol
\* and whichever readers go together.
THEOREM NobodyCutOff == Spec => []HeldIsRouted
<1>1. IInv => HeldIsRouted
  BY DEF IInv
<1> QED BY <1>1, Inductive, PTL

\* Between operations a live socket streams exactly the counted symbols, but
\* for those whose SUBS was given up unwritten.
THEOREM UpstreamIsExact == Spec => []UpstreamExact
<1>1. IInv => UpstreamExact
  BY DEF IInv
<1> QED BY <1>1, Inductive, PTL
=============================================================================

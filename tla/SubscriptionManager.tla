------------------------ MODULE SubscriptionManager -------------------------
(***************************************************************************)
(* mcp_server/subscription.py: which reader listens to which symbol, and   *)
(* how many listings of a symbol there are.  add and remove return the     *)
(* symbols whose count left or reached zero: the caller sends SUBS or      *)
(* UNSUBS for exactly those.                                               *)
(*                                                                         *)
(* A reader stands for one (session, progress_token) pair: one call of the *)
(* MCP tool, or one subscribe frame of a websocket.  The one streamer      *)
(* service in use, LEVELONE_EQUITIES, is left out of the keys.             *)
(***************************************************************************)
EXTENDS Naturals, FiniteSets

CONSTANTS
    Readers,
    Symbols,
    Asks,       \* Asks[r][s]: how often r's list of symbols names s
    Together    \* Together[r]: the readers that go when r goes

ASSUME AsksAssumption == Asks \in [Readers -> [Symbols -> Nat]]
ASSUME ReadersAssumption == IsFiniteSet(Readers)
ASSUME TogetherAssumption == Together \in [Readers -> SUBSET Readers]

VARIABLES
    refcount,   \* _refcount
    routing,    \* _routing
    subs        \* _session_subs

tables == <<refcount, routing, subs>>

TablesType ==
    /\ refcount \in [Symbols -> Nat]
    /\ routing \in [Symbols -> SUBSET Readers]
    /\ subs \in [Readers -> SUBSET Symbols]

TablesInit ==
    /\ refcount = [s \in Symbols |-> 0]
    /\ routing = [s \in Symbols |-> {}]
    /\ subs = [r \in Readers |-> {}]

Asked(r) == {s \in Symbols : Asks[r][s] > 0}

\* active_symbols: the keys with an entry in _refcount.
Active == {s \in Symbols : refcount[s] > 0}

\* fanout_targets: who gets an update of s.
fanout_targets(s) == routing[s]

\* What add returns: listed, and not counted before.
NewlySubscribed(r) == Asked(r) \ Active

\* A symbol listed twice counts twice.
add(r) ==
    /\ refcount' = [s \in Symbols |-> refcount[s] + Asks[r][s]]
    /\ routing' = [s \in Symbols |-> routing[s] \cup (IF s \in Asked(r) THEN {r} ELSE {})]
    /\ subs' = [subs EXCEPT ![r] = @ \cup Asked(r)]

\* The readers that hold s among those that go when r goes.
Leavers(r, s) == {q \in Together[r] : s \in subs[q]}

\* Bug variant: a symbol the readers had listed twice counts out at once.
UnsubscribedEarly(r) ==
    {s \in Symbols : Leavers(r, s) # {} /\ refcount[s] <= Cardinality(Leavers(r, s)) + 1}

\* What remove and drop_session return: held by a leaver, and by nobody's
\* listing after it.
Unsubscribed(r) ==
    {s \in Symbols : Leavers(r, s) # {} /\ refcount[s] <= Cardinality(Leavers(r, s))}

\* remove (one reader), drop_session (all of a session) and
\* _decrement_keys: each symbol counts one less for each leaver that holds
\* it, however often its list named it; the last takes the whole entry along.
remove(r) ==
    /\ refcount' = [s \in Symbols |->
           IF s \in Unsubscribed(r) THEN 0 ELSE refcount[s] - Cardinality(Leavers(r, s))]
    /\ routing' = [s \in Symbols |->
           IF s \in Unsubscribed(r) THEN {} ELSE routing[s] \ Leavers(r, s)]
    /\ subs' = [q \in Readers |-> IF q \in Together[r] THEN {} ELSE subs[q]]

\* A reader that holds a symbol is a target of its updates, every target
\* holds it, and the count covers them all, however often lists name it:
\* nobody's leaving cuts off somebody else.
HeldIsRouted ==
    \A s \in Symbols :
        /\ routing[s] = {r \in Readers : s \in subs[r]}
        /\ refcount[s] >= Cardinality(routing[s])
=============================================================================

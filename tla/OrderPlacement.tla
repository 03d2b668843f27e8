--------------------------- MODULE OrderPlacement ---------------------------
(***************************************************************************)
(* Placing, replacing and cancelling an order, over REST                   *)
(* (src/schwab_cli/server/orders_write.py) and from the command line       *)
(* (commands/order.py): the rule pipeline of                               *)
(* order_pipeline/rules.py, the POST and its retries (api/client.py), the  *)
(* verification and rollback after an uncertain answer, the daily counters *)
(* (order_policy/counters.py) and the idempotency cache.                   *)
(*                                                                         *)
(* Each call is a process of its own: a worker thread of the daemon or a   *)
(* CLI process.  They share the broker's book, the counters file, the      *)
(* profile file and, within the daemon, the idempotency cache.             *)
(*                                                                         *)
(* Abstractions: one account, one profile name, one ticker; an order is    *)
(* its shape, what _orders_match compares; all calls of a shape send the   *)
(* same body, and what replaces an order takes the shape of the call.  The *)
(* fetches that only feed the panel are left out.  GET                     *)
(* requests, cancels and the token owner either answer or fail.  Of the    *)
(* counters the daily total is kept: it is the one with a lifecycle.  The  *)
(* counters file stays readable.  Requests refused before the pipeline     *)
(* (validation, account, session) touch nothing and are left out.  The     *)
(* clock ticks DayTicks times a day.                                       *)
(***************************************************************************)
EXTENDS Integers, Sequences, FiniteSets, OrderPolicy

\* How an order is placed: over REST or by `order`, with its options; and how
\* one is amended: by `order replace` and `order cancel`, or over REST.
Placing == {"rest", "yes", "ask", "override", "preview"}
Amending == {"replace", "cancel", "rest_cancel"}

CONSTANTS
    Calls,          \* invocations of `order place`, `order replace`, `order cancel`,
                    \* POST /api/v1/orders and DELETE of an order
    ModesOf,        \* ModesOf[c]: how the call may be made
    KeyOf,          \* idempotency_key of a call, or NoKey
    ShapeOf,        \* what a call wants to place
    Profiles,       \* the valid contents of the profile file
    MaxTries,       \* len(_RETRY_BACKOFF_S) + 1
    DayTicks,       \* ticks in a day, hence _IDEMPOTENCY_TTL_S
    MaxTime,        \* bound on the clock
    MaxEvents,      \* bound on edits of the profile file, daemon restarts and
                    \* killed CLI processes, together
    NoKey,          \* no idempotency key
    Missing,        \* no readable profile file, no profile loaded
    None            \* nobody, nothing

ASSUME CallsAssumption ==
    /\ IsFiniteSet(Calls)
    /\ ModesOf \in [Calls -> SUBSET (Placing \cup Amending)]
    /\ ShapeOf \in [Calls -> Shapes]
    /\ DOMAIN KeyOf = Calls
    /\ None \notin Calls /\ None \notin [order : Calls, at : Nat]
    /\ None \notin {"not_placed", "no_match", "cancelled"} /\ "not_placed" \notin Calls

ASSUME BoundsAssumption ==
    /\ MaxTries \in Nat \ {0} /\ DayTicks \in Nat \ {0}
    /\ MaxTime \in Nat /\ MaxEvents \in Nat

ASSUME ProfilesAssumption == Profiles \subseteq Profile /\ Missing \notin Profiles

VARIABLES
    now,            \* the clock, in ticks
    events,         \* edits and kills so far
    profile,        \* the profile file
    counters,       \* order_counters.json: the date and the daily total
    lock,           \* who holds _locked(counters file)
    idem,           \* _idempotency: key -> the response and when it was put
    call,           \* the locals of each call
    wire,           \* the POST of a call: "none", "sent", "accepted"
    book,           \* the broker's orders, by the call that sent them
    recorded,       \* history: the records made, <<call, date>>
    answered,       \* history: the successes of this daemon, <<call, when>>
    hist            \* history of each call, see History

files   == <<profile, counters, lock>>
broker  == <<wire, book>>
bounded == <<now, events>>
ghosts  == <<recorded, answered, hist>>
vars == <<bounded, files, idem, call, broker, ghosts>>

Today == now \div DayTicks
Keys  == {KeyOf[c] : c \in Calls} \ {NoKey}

\* The steps of a call: start, LoadProfileRule, the rules up to the gates, the
\* prompts, the POST, waiting for its answer, the rollback, the counters.
Active == {"load", "judge", "confirm", "send", "wait", "verify", "cancel",
           "count", "counting", "reply"}

Locals == [pc : {"idle", "ended", "killed"} \cup Active,
           mode : {None} \cup Placing \cup Amending,
           profile : Profiles \cup {Missing}, \* ctx.profile
           approved : BOOLEAN,                \* ctx.policy_decision.approved
           tries : 0..MaxTries - 1,           \* failed connects of this request
           refreshed : BOOLEAN,               \* _authed_request has refreshed
           targets : SUBSET (Calls \X Nat),   \* matches still to be cancelled, or the
                                              \* order to amend
           failed : BOOLEAN,                  \* some cancel has failed
           read : [date : Nat, total : Nat],  \* Counters as loaded under the lock
           note : {None, "unverified", "no_match", "cancelled", "not_cancelled", "withdrawn"},
           answer : {None, "not_placed"} \cup Calls]

Fresh(mode) ==
    [pc |-> "idle", mode |-> mode, profile |-> Missing, approved |-> FALSE,
     tries |-> 0, refreshed |-> FALSE, targets |-> {}, failed |-> FALSE,
     read |-> [date |-> 0, total |-> 0], note |-> None, answer |-> None]

Init ==
    /\ now = 0 /\ events = 0
    /\ profile \in Profiles
    /\ counters = [date |-> 0, total |-> 0]
    /\ lock = None
    /\ idem = [k \in Keys |-> None]
    /\ call = [c \in Calls |-> Fresh(None)]
    /\ wire = [c \in Calls |-> "none"]
    /\ book = [c \in Calls |-> <<>>]
    /\ recorded = {} /\ answered = {}
    /\ hist = [c \in Calls |-> [held |-> {}, chance |-> FALSE, done |-> FALSE]]

Rest(c) == call[c].mode = "rest"
InDaemon(c) == call[c].mode \in {"rest", "rest_cancel"}
Amends(c) == call[c].mode \in Amending
Orders == UNION {{d} \X DOMAIN book[d] : d \in Calls}
Status(o) == book[o[1]][o[2]].status

At(c, pc) == call[c].pc = pc

\* A stage leaves only the decision, or the order to amend, to the next one.
Go(c, pc) ==
    call' = [call EXCEPT ![c] = [Fresh(call[c].mode) EXCEPT
                !.pc = pc, !.approved = call[c].approved, !.targets = call[c].targets]]

\* The order an amendment was about stays the one its request is about, which may still be
\* on its way when the call is over.
Asked(c) == IF Amends(c) THEN call[c].targets ELSE {}

\* What the call told its caller stays.
End(c, answer, note) ==
    call' = [call EXCEPT ![c] = [Fresh(call[c].mode) EXCEPT
                !.pc = "ended", !.answer = answer, !.note = note, !.targets = Asked(c)]]

-----------------------------------------------------------------------------
(* History.  held: what the profile file has held since the call started;   *)
(* chance: whether at some moment since then one of these profiles permitted *)
(* the order under the number of orders recorded that day; done: whether,    *)
(* when it started, a call with its key had been answered with success less  *)
(* than a day ago.                                                           *)

RecordedToday == Cardinality({r \in recorded : r[2] = Today})

Chance(c, held, count) ==
    \E p \in held \ {Missing}, bp \in {1, Unknown} :
        Permits(p, ShapeOf[c], [daily_order_count |-> count, bp_required |-> bp])

Done(c) == \E a \in answered : /\ Rest(a[1]) /\ now - a[2] < DayTicks
                               /\ KeyOf[a[1]] = KeyOf[c] /\ KeyOf[c] # NoKey

Deciding(c) == call[c].pc \in {"load", "judge"}

History ==
    hist' = [c \in Calls |->
        IF ~Deciding(c) /\ ~Deciding(c)' THEN hist[c]
        ELSE LET held == hist[c].held \cup {profile'}
             IN  [held   |-> IF Deciding(c)' THEN held ELSE {},
                  chance |-> hist[c].chance \/ (Deciding(c)' /\ Chance(c, held, RecordedToday')),
                  done   |-> IF At(c, "idle") THEN Done(c) ELSE hist[c].done]]

-----------------------------------------------------------------------------
(* The idempotency cache, gone with the daemon.                             *)

\* Bug variant: the comparison the wrong way round
PurgedFresh ==
    [k \in Keys |-> IF idem[k] = None \/ now - idem[k].at < DayTicks THEN None ELSE idem[k]]

\* _IdempotencyCache.get, which first drops what is older than the TTL
Purged ==
    [k \in Keys |-> IF idem[k] = None \/ now - idem[k].at >= DayTicks THEN None ELSE idem[k]]

Hit(c) == KeyOf[c] # NoKey /\ Purged[KeyOf[c]] # None

\* _place_sync up to the gateway: a replay, a refused profile, or the pipeline
StartRest(c) ==
    /\ At(c, "idle") /\ "rest" \in ModesOf[c]
    /\ idem' = IF KeyOf[c] # NoKey THEN Purged ELSE idem
    /\ LET answer == IF Hit(c) THEN Purged[KeyOf[c]].order
                     ELSE IF profile = Missing THEN "not_placed" ELSE None
       IN  call' = [call EXCEPT ![c] = [Fresh("rest") EXCEPT
                       !.pc = IF answer = None THEN "load" ELSE "ended",
                       !.answer = answer]]
    /\ UNCHANGED <<bounded, files, broker, recorded, answered>>
    /\ History

StartCli(c) ==
    /\ At(c, "idle")
    /\ \E mode \in (ModesOf[c] \cap Placing) \ {"rest"} :
          call' = [call EXCEPT ![c] = [Fresh(mode) EXCEPT !.pc = "load"]]
    /\ UNCHANGED <<bounded, files, idem, broker, recorded, answered>>
    /\ History

-----------------------------------------------------------------------------
(* The pipeline up to the POST.                                             *)

DryRun(c) == call[c].mode = "preview"

\* LoadProfileRule: a real placement needs a profile, a preview goes on without
LoadProfile(c) ==
    /\ At(c, "load")
    /\ IF profile = Missing /\ ~DryRun(c)
       THEN End(c, "not_placed", None)
       ELSE call' = [call EXCEPT ![c].pc = "judge", ![c].profile = profile]
    /\ UNCHANGED <<bounded, files, idem, broker, recorded, answered>>
    /\ History

\* SchwabPreviewRule is skipped by `place --yes` and forced over REST.
Previews(c) == IF call[c].mode = "yes" THEN {"skipped"}
               ELSE {"valid", "rejects", "unavailable", "error"}

\* Bug variant: the date is rotated, the total is not
LoadedKeepsTotal == [date |-> Today, total |-> counters.total]

\* counters.load: a new day starts with zero
Loaded == IF counters.date = Today THEN counters ELSE [date |-> Today, total |-> 0]

\* _build_policy_context, after a given preview
Context(preview) ==
    [daily_order_count |-> Loaded.total,
     bp_required |-> IF preview \in {"valid", "rejects"} THEN 1 ELSE Unknown]

\* Bug variant: --yes passes the deny gate as well
GatesOpenForYes(c, approved, preview) ==
    /\ approved \/ call[c].mode \in {"override", "yes"}
    /\ preview # "rejects"

\* PolicyDenyGateRule and PreviewRejectGateRule; --override passes the first only
GatesOpen(c, approved, preview) ==
    /\ approved \/ call[c].mode = "override"
    /\ preview # "rejects"

\* SchwabPreviewRule, PolicyEvaluateRule, DryRunCompleteRule and the two gates
Judge(c) ==
    /\ At(c, "judge")
    /\ \E preview \in Previews(c) :
          LET approved == /\ call[c].profile # Missing
                          /\ Approved(call[c].profile, ShapeOf[c], Context(preview))
          IN  IF preview = "error" \/ DryRun(c) \/ ~GatesOpen(c, approved, preview)
              THEN End(c, "not_placed", None)
              ELSE call' = [call EXCEPT ![c].approved = approved, ![c].profile = Missing,
                              ![c].pc = IF call[c].mode \in {"ask", "override"}
                                        THEN "confirm" ELSE "send"]
    /\ UNCHANGED <<bounded, files, idem, broker, recorded, answered>>
    /\ History

\* OverrideCeremonyRule and ConfirmRule: the words are typed or the call aborts
Confirm(c) ==
    /\ At(c, "confirm")
    /\ Go(c, "send") \/ End(c, "not_placed", None)
    /\ UNCHANGED <<bounded, files, idem, broker, ghosts>>

-----------------------------------------------------------------------------
(* Replacing and cancelling.  The status that the lookup finds is shown, and *)
(* not looked at.                                                            *)

\* run_replace and run_cancel: the order is looked up and, without --yes, the
\* user is asked; a lookup that fails, or a market order to replace, ends it.
StartAmend(c) ==
    /\ At(c, "idle")
    /\ \E mode \in ModesOf[c] \cap {"replace", "cancel"}, o \in Orders :
          \/ \E pc \in {"confirm", "send"} :
                call' = [call EXCEPT ![c] = [Fresh(mode) EXCEPT !.pc = pc, !.targets = {o}]]
          \/ call' = [call EXCEPT ![c] = [Fresh(mode) EXCEPT
                        !.pc = "ended", !.answer = "not_placed"]]
    /\ UNCHANGED <<bounded, files, idem, broker, ghosts>>

\* _cancel_sync
StartRestCancel(c) ==
    /\ At(c, "idle") /\ "rest_cancel" \in ModesOf[c]
    /\ \E o \in Orders :
          call' = [call EXCEPT ![c] = [Fresh("rest_cancel") EXCEPT !.pc = "send", !.targets = {o}]]
    /\ UNCHANGED <<bounded, files, idem, broker, ghosts>>

-----------------------------------------------------------------------------
(* The POST, PUT or DELETE.                                                 *)

\* _safe_place verifies; an amendment reports an error.
InDoubt(c) == IF Amends(c) THEN End(c, "not_placed", None) ELSE Go(c, "verify")

\* A connect-phase error is retried; the last one leaves the call in doubt.
ConnectFails(c) ==
    /\ At(c, "send")
    /\ IF call[c].tries + 1 < MaxTries
       THEN call' = [call EXCEPT ![c].tries = @ + 1]
       ELSE InDoubt(c)
    /\ UNCHANGED <<bounded, files, idem, broker, ghosts>>

Send(c) ==
    /\ At(c, "send")
    /\ call' = [call EXCEPT ![c].pc = "wait", ![c].tries = 0]
    /\ wire' = [wire EXCEPT ![c] = "sent"]
    /\ UNCHANGED <<bounded, files, idem, book, ghosts>>

Entered(c, of) ==
    [status |-> "working", late |-> call[c].pc \notin {"wait", "verify"}, of |-> of]

\* The broker does what it is asked, possibly after the client has given up: it
\* takes the order, or cancels the working one, or does both at once.
Accept(c) ==
    /\ wire[c] = "sent"
    /\ wire' = [wire EXCEPT ![c] = IF At(c, "wait") THEN "accepted" ELSE "none"]
    /\ \/ /\ ~Amends(c)
          /\ book' = [book EXCEPT ![c] = Append(@, Entered(c, c))]
       \/ /\ call[c].mode = "replace"
          /\ \E o \in call[c].targets :
                /\ Status(o) = "working"
                /\ book' = [book EXCEPT ![o[1]][o[2]].status = "replaced",
                                        ![c] = Append(@, Entered(c, book[o[1]][o[2]].of))]
       \/ /\ call[c].mode \in {"cancel", "rest_cancel"}
          /\ \E o \in call[c].targets :
                /\ Status(o) = "working"
                /\ book' = [book EXCEPT ![o[1]][o[2]].status = "withdrawn"]
    /\ UNCHANGED <<bounded, files, idem, call, ghosts>>

\* 201 with the order's Location, or 200 for a cancel
Answered(c) ==
    /\ At(c, "wait") /\ wire[c] = "accepted"
    /\ wire' = [wire EXCEPT ![c] = "none"]
    /\ CASE call[c].mode = "replace" -> End(c, c, None)
         [] call[c].mode \in {"cancel", "rest_cancel"} -> End(c, "not_placed", "withdrawn")
         [] OTHER -> Go(c, "count")
    /\ UNCHANGED <<bounded, files, idem, book, ghosts>>

\* Bug variant: nothing remembers that the session was refreshed
UnauthorizedAgain(c) ==
    /\ At(c, "wait") /\ wire[c] = "sent"
    /\ wire' = [wire EXCEPT ![c] = "none"]
    /\ End(c, "not_placed", None) \/ Go(c, "send")
    /\ UNCHANGED <<bounded, files, idem, book, ghosts>>

\* 401: one refresh by the token owner and one more request, else SessionExpired
Unauthorized(c) ==
    /\ At(c, "wait") /\ wire[c] = "sent"
    /\ wire' = [wire EXCEPT ![c] = "none"]
    /\ \/ End(c, "not_placed", None)
       \/ /\ ~call[c].refreshed
          /\ call' = [call EXCEPT ![c].pc = "send", ![c].refreshed = TRUE]
    /\ UNCHANGED <<bounded, files, idem, book, ghosts>>

\* Refused: definitive for the listed 4xx with a text; an empty body, 429 and 5xx
\* are uncertain (_is_definitive_rejection).
Refused(c) ==
    /\ At(c, "wait") /\ wire[c] = "sent"
    /\ wire' = [wire EXCEPT ![c] = "none"]
    /\ End(c, "not_placed", None) \/ InDoubt(c)
    /\ UNCHANGED <<bounded, files, idem, book, ghosts>>

\* Bug variant: a read timeout is retried like a connect error
UncertainRetried(c) ==
    /\ At(c, "wait")
    /\ wire' = [wire EXCEPT ![c] = "none"]
    /\ Go(c, "send") \/ InDoubt(c)
    /\ UNCHANGED <<bounded, files, idem, book, ghosts>>

\* Read timeout (never retried for a POST), reset, Ctrl+C, 5xx or a missing
\* Location: the order may be in the book, on its way to it, or lost.
Uncertain(c) ==
    /\ At(c, "wait")
    /\ wire' = [wire EXCEPT ![c] = IF @ = "accepted" THEN "none" ELSE @]
    /\ InDoubt(c)
    /\ UNCHANGED <<bounded, files, idem, book, ghosts>>

-----------------------------------------------------------------------------
(* _safe_place after an uncertain answer: find the order, cancel it.         *)

\* Working orders of the same shape, whoever sent them.  The listing goes back
\* five minutes: it holds the call's own orders, others may be older.
Matches(c) == {o \in Orders : ShapeOf[o[1]] = ShapeOf[c] /\ Status(o) = "working"}

Verify(c) ==
    /\ At(c, "verify")
    /\ \/ End(c, "not_placed", "unverified")
       \/ \E older \in SUBSET {o \in Matches(c) : o[1] # c} :
             IF Matches(c) = older
             THEN End(c, "not_placed", "no_match")
             ELSE call' = [call EXCEPT ![c].pc = "cancel",
                                       ![c].targets = Matches(c) \ older]
    /\ UNCHANGED <<bounded, files, idem, broker, ghosts>>

\* Bug variant: a failed cancel is forgotten
CancelMatchForgiven(c) ==
    /\ At(c, "cancel")
    /\ \E o \in call[c].targets, done \in BOOLEAN :
          /\ done => Status(o) = "working"
          /\ book' = IF done THEN [book EXCEPT ![o[1]][o[2]].status = "canceled"] ELSE book
          /\ call' = [call EXCEPT ![c].targets = @ \ {o}]
    /\ UNCHANGED <<bounded, files, idem, wire, ghosts>>

\* One target is cancelled; the attempt may fail, also after it took effect.
CancelMatch(c) ==
    /\ At(c, "cancel")
    /\ \E o \in call[c].targets, ok \in BOOLEAN, done \in BOOLEAN :
          /\ ok => done
          /\ done => Status(o) = "working"
          /\ book' = IF done THEN [book EXCEPT ![o[1]][o[2]].status = "canceled"] ELSE book
          /\ call' = [call EXCEPT ![c].targets = @ \ {o}, ![c].failed = @ \/ ~ok]
    /\ UNCHANGED <<bounded, files, idem, wire, ghosts>>

RollbackEnds(c) ==
    /\ At(c, "cancel") /\ call[c].targets = {}
    /\ End(c, "not_placed", IF call[c].failed THEN "not_cancelled" ELSE "cancelled")
    /\ UNCHANGED <<bounded, files, idem, broker, ghosts>>

-----------------------------------------------------------------------------
(* record_place, a read and a write under the lock, best effort; then the    *)
(* answer.                                                                   *)

\* Bug variant: flock alone, which two threads of the daemon can both hold
LockFreeForThreads == lock # None => Rest(lock)

LockFree == lock = None

LockAndLoad(c) ==
    /\ At(c, "count") /\ LockFree
    /\ lock' = c
    /\ call' = [call EXCEPT ![c].pc = "counting", ![c].read = Loaded]
    /\ UNCHANGED <<bounded, profile, counters, idem, broker, ghosts>>

Save(c) ==
    /\ At(c, "counting")
    /\ counters' = [call[c].read EXCEPT !.total = @ + 1]
    /\ recorded' = recorded \cup {<<c, call[c].read.date>>}
    /\ lock' = None
    /\ Go(c, "reply")
    /\ UNCHANGED <<bounded, profile, idem, broker, answered>>
    /\ History

CountFails(c) ==
    /\ At(c, "counting")
    /\ lock' = None
    /\ Go(c, "reply")
    /\ UNCHANGED <<bounded, profile, counters, idem, broker, ghosts>>

\* The REST answer requires an approval; it is cached before it is sent.
Reply(c) ==
    /\ At(c, "reply")
    /\ IF Rest(c) /\ call[c].approved /\ KeyOf[c] # NoKey
       THEN idem' = [idem EXCEPT ![KeyOf[c]] = [order |-> c, at |-> now]]
       ELSE UNCHANGED idem
    /\ End(c, IF Rest(c) /\ ~call[c].approved THEN "not_placed" ELSE c, None)
    /\ answered' = answered \cup {<<c, now>>}
    /\ UNCHANGED <<bounded, files, broker, recorded, hist>>

-----------------------------------------------------------------------------
(* Everything around the calls.                                             *)

Event == events < MaxEvents /\ events' = events + 1

Kill(S) ==
    /\ Event
    /\ call' = [c \in Calls |-> IF c \in S /\ call[c].pc \in Active
                                THEN [Fresh(call[c].mode) EXCEPT !.pc = "killed", !.targets = Asked(c)]
                                ELSE call[c]]
    /\ lock' = IF lock \in S THEN None ELSE lock
    /\ UNCHANGED <<now, profile, counters, broker, recorded>>
    /\ History

\* The daemon dies and comes back: its calls and its cache are gone.
Restart ==
    /\ Kill({c \in Calls : InDaemon(c)})
    /\ idem' = [k \in Keys |-> None]
    /\ answered' = {}

KillCli(c) ==
    /\ ~InDaemon(c) /\ call[c].pc \in Active
    /\ Kill({c})
    /\ UNCHANGED <<idem, answered>>

EditProfile ==
    /\ Event
    /\ profile' \in (Profiles \cup {Missing}) \ {profile}
    /\ UNCHANGED <<now, counters, lock, idem, call, broker, recorded, answered>>
    /\ History

Tick ==
    /\ now < MaxTime
    /\ now' = now + 1
    /\ UNCHANGED <<events, files, idem, call, broker, recorded, answered>>
    /\ History

\* The broker fills an order, or the user withdraws one that was reported to
\* him, with the broker.
Fill(c) ==
    /\ \E i \in DOMAIN book[c] :
          /\ book[c][i].status = "working"
          /\ book' = [book EXCEPT ![c][i].status = "filled"]
    /\ UNCHANGED <<bounded, files, idem, call, wire, ghosts>>

Withdraw(c) ==
    /\ call[c].answer = c
    /\ \E i \in DOMAIN book[c] :
          /\ book[c][i].status = "working"
          /\ book' = [book EXCEPT ![c][i].status = "withdrawn"]
    /\ UNCHANGED <<bounded, files, idem, call, wire, ghosts>>

-----------------------------------------------------------------------------

\* What a call does by itself: its own code, and errors no one has to wait for.
Step(c) ==
    \/ LoadProfile(c) \/ Judge(c)
    \/ ConnectFails(c) \/ Send(c) \/ Answered(c) \/ Unauthorized(c) \/ Refused(c)
    \/ Uncertain(c) \/ Verify(c) \/ CancelMatch(c) \/ RollbackEnds(c)
    \/ LockAndLoad(c) \/ Save(c) \/ CountFails(c) \/ Reply(c)

\* The calls of the model have all been made.
Finished ==
    /\ \A c \in Calls : call[c].pc \in {"ended", "killed"}
    /\ UNCHANGED vars

Next ==
    \/ \E c \in Calls : \/ StartRest(c) \/ StartCli(c) \/ StartAmend(c)
                        \/ StartRestCancel(c) \/ Step(c) \/ Confirm(c)
                        \/ Accept(c) \/ Fill(c) \/ Withdraw(c) \/ KillCli(c)
    \/ Restart \/ EditProfile \/ Tick \/ Finished

Spec == Init /\ [][Next]_vars

\* Every wait of a call is bounded: httpx times out, the lock is held for a read
\* and a write, retries are counted.  Only a prompt may wait for ever.
Fairness == \A c \in Calls : WF_vars(Step(c))

FairSpec == Spec /\ Fairness

-----------------------------------------------------------------------------
(* Correctness.                                                             *)

\* Every variable has its type; the lock is held by the call that counts.
TypeOK ==
    /\ events \in 0..MaxEvents /\ now \in 0..MaxTime
    /\ profile \in Profiles \cup {Missing}
    /\ counters \in [date : Nat, total : Nat]
    /\ lock \in Calls \cup {None}
    /\ \A c \in Calls : lock = c <=> At(c, "counting")
    /\ idem \in [Keys -> [order : Calls, at : 0..now] \cup {None}]
    /\ call \in [Calls -> Locals]
    /\ wire \in [Calls -> {"none", "sent", "accepted"}]
    /\ book \in [Calls -> Seq([status : {"working", "filled", "canceled", "withdrawn", "replaced"},
                               late : BOOLEAN, of : Calls])]

Fate(c) == IF book[c] = <<>> THEN "none"
           ELSE IF Len(book[c]) > 1 THEN "duplicated"
           ELSE IF book[c][1].status \in {"withdrawn", "replaced"} THEN "canceled"
           ELSE book[c][1].status

Register == INSTANCE OrderRegister
            WITH order  <- [c \in Calls |-> Fate(c)],
                 answer <- [c \in Calls |-> call[c].answer]

\* However connects fail, tokens expire and answers get lost, a call enters at
\* most one order, its fate never turns back, one that replaces another enters as
\* that one ends, and a call answered with success names an order that exists
\* (client.py: what is retried and what never is).
AtMostOneOrder == Register!Spec

\* No order leaves, whatever is edited or counted meanwhile, unless at some
\* moment since its call began a profile the file held since then permitted it
\* under the number of orders recorded that day.  Only --override is exempt, a
\* preview sends nothing, and what replaces an order takes over its permission.
PolicyHeld ==
    LET Allowed(c) == /\ call[c].mode # "preview"
                      /\ hist[c].chance \/ call[c].mode = "override"
    IN  \A c \in Calls :
            /\ wire[c] # "none" /\ ~Amends(c) => Allowed(c)
            /\ \A i \in DOMAIN book[c] : Allowed(book[c][i].of)

\* A retry that starts after its original was answered with success, within the
\* day and in the same daemon, places nothing.
RetryReplayed ==
    \A c \in Calls : Rest(c) /\ hist[c].done => book[c] = <<>> /\ wire[c] = "none"

\* The counters file agrees with the records made by all processes: none is
\* lost to a concurrent one, none survives midnight.
CountsAllRecords ==
    /\ counters.total = Cardinality({r \in recorded : r[2] = counters.date})
    /\ \A r \in recorded : r[2] <= counters.date

\* What the caller is told after an uncertain answer is true: when the rollback
\* reports nothing left or all cancelled, no order of the call is working but one
\* that the broker took after the listing.
RollbackReportTrue ==
    \A c \in Calls : call[c].note \in {"no_match", "cancelled"} =>
        \A i \in DOMAIN book[c] : book[c][i].status = "working" => book[c][i].late

\* Calls end: no retry, rollback or lock keeps one for ever, though others compete
\* for the lock, crash holding it, or leave their prompts unanswered.  (A model
\* has finitely many calls, so each one that starts ends.)
CallsEnd == <>[](\A c \in Calls : call[c].pc \notin Active \ {"confirm"})

-----------------------------------------------------------------------------
(* What the comments promise and the code does not keep.                    *)

\* "kept conservative so we don't cancel an order the user actually wanted"
\* (commands/order.py:1118): an order reported as placed is only ever cancelled
\* by its user.
WantedOrderKept ==
    \A c \in Calls : call[c].answer = c =>
        \A i \in DOMAIN book[c] : book[c][i].status # "canceled"

\* "a retry after a timed-out response must not double-place"
\* (server/orders_write.py:31): of the calls with one idempotency key at most one
\* is answered with an order of its own.
KeyPlacesOnce ==
    \A c, d \in Calls :
        /\ Rest(c) /\ Rest(d) /\ KeyOf[c] = KeyOf[d] /\ KeyOf[c] # NoKey
        /\ call[c].answer = c /\ call[d].answer = d
        => c = d
=============================================================================

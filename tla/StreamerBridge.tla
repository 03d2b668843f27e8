--------------------------- MODULE StreamerBridge ---------------------------
(***************************************************************************)
(* mcp_server/streamer_bridge.py: one upstream websocket shared by all the *)
(* readers, opened for the first, closed a while after the last, rebuilt   *)
(* after a rotation of the login.  Every operation runs under one asyncio  *)
(* lock and may be suspended at an await: between connecting, registering  *)
(* and sending SUBS; the socket can die, and a tool call can be cancelled, *)
(* at each of those points.                                                *)
(*                                                                         *)
(* Readers are calls of the MCP tool stream_quote (mcp_server/app.py) or   *)
(* subscribe frames of /api/v1/stream (server/stream_ws.py); the frames of *)
(* one websocket come one at a time and go together, a tool call goes by   *)
(* itself.  What flows to a reader is left out: routing and upstream       *)
(* decide it.  UNSUBS swallows its errors, so its send is part of the step *)
(* that removes.                                                           *)
(***************************************************************************)
EXTENDS SubscriptionManager

CONSTANTS
    Sockets,        \* the readers of /api/v1/stream; the others are tool calls
    MaxRotations,   \* bound on full rotations of the login
    MaxLosses,      \* bound on upstream sockets that die
    Rotation,       \* the lock is held by reconnect_after_rotation
    Shutdown,       \* the lock's last holder: the daemon has closed the bridge
    Nobody          \* the lock is free

ASSUME BridgeAssumption ==
    /\ Sockets \subseteq Readers
    /\ MaxRotations \in Nat /\ MaxLosses \in Nat
    /\ {Rotation, Shutdown, Nobody} \cap Readers = {}
    /\ Rotation # Nobody /\ Shutdown # Nobody /\ Shutdown # Rotation
    /\ \A r \in Readers \ Sockets : Together[r] = {r}

VARIABLES
    phase,          \* what each reader is doing
    lock,           \* who holds _lock
    step,           \* where the holder is suspended
    fresh,          \* the keys its SUBS is going to name
    streamer,       \* _streamer: None, a live socket, a dead one
    upstream,       \* symbols Schwab streams on the live socket
    linger,         \* _idle_close_task: none, sleeping, past its sleep
    rotations,      \* full rotations so far
    due,            \* rotations handed over and not yet carried out
    losses          \* sockets lost so far

\* History variable: counted symbols whose SUBS was given up before it was written.
VARIABLE gap

holding == <<lock, step, fresh>>
socket == <<streamer, upstream, linger>>
budget == <<rotations, due, losses>>
vars == <<tables, phase, holding, socket, budget, gap>>

Phases == {"new", "adding", "open", "leaving", "gone"}

\* Types; and a close timer runs only while nothing is counted.
TypeOK ==
    /\ TablesType
    /\ phase \in [Readers -> Phases]
    /\ lock \in Readers \cup {Rotation, Shutdown, Nobody}
    /\ step \in {"none", "connecting", "subscribing"}
    /\ fresh \in SUBSET Symbols /\ upstream \in SUBSET Symbols
    /\ streamer \in {"none", "live", "dead"}
    /\ linger \in {"none", "sleeping", "awake"}
    /\ rotations \in 0..MaxRotations /\ due \in 0..MaxRotations
    /\ losses \in 0..MaxLosses
    /\ gap \in SUBSET Symbols
    /\ linger # "none" => Active = {}

Init ==
    /\ TablesInit
    /\ phase = [r \in Readers |-> "new"]
    /\ lock = Nobody /\ step = "none" /\ fresh = {}
    /\ streamer = "none" /\ upstream = {} /\ linger = "none"
    /\ rotations = 0 /\ due = 0 /\ losses = 0
    /\ gap = {}

Free == lock = Nobody
Becomes(r, p) == phase' = [phase EXCEPT ![r] = p]
AllBecome(r, p) ==
    phase' = [q \in Readers |-> IF q \in Together[r] /\ phase[q] # "gone" THEN p ELSE phase[q]]
Hold(who, where) == lock' = who /\ step' = where
Release == lock' = Nobody /\ step' = "none" /\ fresh' = {}

CloseStreamer == streamer' = "none" /\ upstream' = {} /\ linger' = "none"

-----------------------------------------------------------------------------
(* add_subscription *)

\* A websocket reads its next frame when it has answered the last one.
Ask(r) ==
    /\ phase[r] = "new"
    /\ \A q \in Together[r] : phase[q] \in {"new", "open"}
    /\ Becomes(r, "adding")
    /\ UNCHANGED <<tables, holding, socket, budget, gap>>

\* manager.add and, if there is anything new, the SUBS frame.
Register(r) ==
    /\ add(r)
    /\ IF NewlySubscribed(r) = {}
       THEN Release /\ Becomes(r, "open")
       ELSE Hold(r, "subscribing") /\ fresh' = NewlySubscribed(r) /\ UNCHANGED phase

\* Bug variant: a new reader leaves the close timer running.
TimerAfterAddKept == linger

\* _cancel_idle_close
TimerAfterAdd == "none"

\* The lock is taken, the linger timer cancelled, a socket found or opened.
BeginAdd(r) ==
    /\ Free /\ phase[r] = "adding"
    /\ linger' = TimerAfterAdd
    /\ \/ /\ streamer # "none"
          /\ Register(r)
       \/ /\ streamer = "none"
          /\ Hold(r, "connecting")
          /\ UNCHANGED <<tables, phase, fresh>>
    /\ UNCHANGED <<streamer, upstream, budget, gap>>

\* connect and login succeeded.  A new socket streams nothing yet.
Connected(r) ==
    /\ lock = r /\ step = "connecting"
    /\ streamer' = "live" /\ upstream' = {}
    /\ Register(r)
    /\ UNCHANGED <<linger, budget, gap>>

\* What becomes of a reader whose add raised: a websocket's handler ends and
\* drops its session, a tool call has not entered its try yet and ends.
GivesUp(r) == AllBecome(r, IF r \in Sockets THEN "leaving" ELSE "gone")

\* fetch_streamer_info, connect or login failed, or a tool call was
\* cancelled meanwhile: nothing has been registered.
ConnectFails(r) ==
    /\ lock = r /\ step = "connecting"
    /\ Release
    /\ GivesUp(r)
    /\ UNCHANGED <<tables, socket, budget, gap>>

Subscribed(r) ==
    /\ lock = r /\ step = "subscribing" /\ streamer = "live"
    /\ upstream' = upstream \cup fresh
    /\ gap' = gap \ fresh
    /\ Release
    /\ Becomes(r, "open")
    /\ UNCHANGED <<tables, streamer, linger, budget>>

\* The send raised on a dead socket, or a tool call was cancelled in it, before
\* the frame was written or after: the symbols stay counted.
SubscribeFails(r) ==
    /\ lock = r /\ step = "subscribing"
    /\ streamer = "dead" \/ r \notin Sockets
    /\ \/ gap' = gap \cup fresh /\ UNCHANGED upstream
       \/ streamer = "live" /\ gap' = gap \ fresh /\ upstream' = upstream \cup fresh
    /\ Release
    /\ GivesUp(r)
    /\ UNCHANGED <<tables, streamer, linger, budget>>

-----------------------------------------------------------------------------
(* remove_subscription, drop_session *)

\* The call ends, or the websocket; its cleanup waits for the lock.
Leave(r) ==
    /\ phase[r] = "open"
    /\ \A q \in Together[r] : phase[q] \in {"new", "open"}
    /\ AllBecome(r, "leaving")
    /\ UNCHANGED <<tables, holding, socket, budget, gap>>

\* Bug variant: the timer is armed only while the socket lives.
LingerIfLive(active) == IF active = {} /\ streamer = "live" THEN "sleeping" ELSE linger

\* _on_refcount_zero replaces the timer.
Linger(active) == IF active = {} THEN "sleeping" ELSE linger

Remove(r) ==
    /\ Free /\ phase[r] = "leaving"
    /\ remove(r)
    /\ upstream' = upstream \ Unsubscribed(r)
    /\ gap' = gap \ Unsubscribed(r)
    /\ linger' = Linger(Active \ Unsubscribed(r))
    /\ AllBecome(r, "gone")
    /\ UNCHANGED <<holding, streamer, budget>>

LingerElapses ==
    /\ linger = "sleeping"
    /\ linger' = "awake"
    /\ UNCHANGED <<tables, phase, holding, streamer, upstream, budget, gap>>

\* _idle_close_after has the lock and looks at the refcount again.
IdleClose ==
    /\ Free /\ linger = "awake"
    /\ IF Active = {} THEN CloseStreamer
       ELSE linger' = "none" /\ UNCHANGED <<streamer, upstream>>
    /\ UNCHANGED <<tables, phase, holding, budget, gap>>

-----------------------------------------------------------------------------
(* reconnect_after_rotation *)

Rotate ==
    /\ rotations < MaxRotations
    /\ rotations' = rotations + 1 /\ due' = due + 1
    /\ UNCHANGED <<tables, phase, holding, socket, losses, gap>>

BeginReconnect ==
    /\ Free /\ due > 0
    /\ due' = due - 1
    /\ CloseStreamer
    /\ IF Active = {} THEN UNCHANGED holding
       ELSE Hold(Rotation, "connecting") /\ UNCHANGED fresh
    /\ UNCHANGED <<tables, phase, rotations, losses, gap>>

\* Bug variant: only what the old socket streamed is asked for again.
ToResubscribeStreamed == Active \ gap

ToResubscribe == Active

Reconnected ==
    /\ lock = Rotation /\ step = "connecting"
    /\ streamer' = "live" /\ upstream' = {}
    /\ step' = "subscribing" /\ fresh' = ToResubscribe
    /\ UNCHANGED <<tables, phase, lock, linger, budget, gap>>

\* The exception is logged; the readers keep their queues.
ReconnectFails ==
    /\ lock = Rotation /\ step = "connecting"
    /\ gap' = Active
    /\ Release
    /\ UNCHANGED <<tables, phase, socket, budget>>

Resubscribed ==
    /\ lock = Rotation /\ step = "subscribing" /\ streamer = "live"
    /\ upstream' = fresh
    /\ gap' = {}
    /\ Release
    /\ UNCHANGED <<tables, phase, streamer, linger, budget>>

ResubscribeFails ==
    /\ lock = Rotation /\ step = "subscribing" /\ streamer = "dead"
    /\ Release
    /\ UNCHANGED <<tables, phase, socket, budget, gap>>

\* The upstream socket closes.  _reader_loop ends; _streamer stays.
SocketDies ==
    /\ streamer = "live" /\ losses < MaxLosses
    /\ losses' = losses + 1
    /\ streamer' = "dead" /\ upstream' = {}
    /\ UNCHANGED <<tables, phase, holding, linger, rotations, due, gap>>

\* close: the daemon shuts down.  Nothing takes the lock after it.
Close ==
    /\ Free
    /\ lock' = Shutdown
    /\ CloseStreamer
    /\ UNCHANGED <<tables, phase, step, fresh, budget, gap>>

Locked(r) ==
    \/ BeginAdd(r) \/ Connected(r) \/ ConnectFails(r)
    \/ Subscribed(r) \/ SubscribeFails(r) \/ Remove(r)

Reconnect ==
    \/ BeginReconnect \/ Reconnected \/ ReconnectFails
    \/ Resubscribed \/ ResubscribeFails

Next ==
    \/ \E r \in Readers : Ask(r) \/ Leave(r) \/ Locked(r)
    \/ LingerElapses \/ IdleClose
    \/ Rotate \/ Reconnect
    \/ SocketDies
    \/ Close

Spec == Init /\ [][Next]_vars

\* Every await under the lock ends, with a result or a timeout; the timer
\* elapses.  Readers need not come or go.
FairSpec ==
    /\ Spec
    /\ \A r \in Readers : WF_vars(Locked(r))
    /\ WF_vars(LingerElapses) /\ WF_vars(IdleClose) /\ WF_vars(Reconnect)
-----------------------------------------------------------------------------
(* Properties *)

\* Whenever no operation is under way and the socket lives, Schwab streams
\* exactly the counted symbols, but for those whose SUBS was given up unwritten:
\* nothing is streamed that nobody counts, and no remove, rotation, linger or
\* failed add loses another reader's symbol.
UpstreamExact == Free /\ streamer = "live" => upstream = Active \ gap

\* With no symbol counted, the socket is closed after a while, whatever
\* cancelled the timer in between.
IdleCloses == Active = {} /\ streamer # "none" ~> streamer = "none" \/ Active # {}

\* mcp_server/streamer_bridge.py:8 "Closes on last subscription removal": when
\* no reader is left, the socket is closed after a while, or one has come.
LastRemovalCloses ==
    LET Idle == \A r \in Readers : phase[r] \in {"new", "gone"}
    IN  Idle /\ streamer # "none" ~> streamer = "none" \/ ~Idle
=============================================================================

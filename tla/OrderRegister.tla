--------------------------- MODULE OrderRegister ---------------------------
(***************************************************************************)
(* What placing an order promises, with everything in between left out:    *)
(* whatever is retried, restarted or delivered late, a call enters at most *)
(* one order at the broker and is answered at most once; a success names   *)
(* an order that was entered, the call's own or that of a call with the    *)
(* same idempotency key.  A call may enter its order in place of another's *)
(* that still works.                                                       *)
(***************************************************************************)
CONSTANTS
    Calls,          \* the placement requests
    KeyOf,          \* their idempotency keys
    NoKey,          \* a request without one
    None            \* not answered

VARIABLES
    order,          \* order[c]: the fate of the order call c entered
    answer          \* answer[c]: None, "not_placed", or the call whose order it names

vars == <<order, answer>>

Init == /\ order = [c \in Calls |-> "none"]
        /\ answer = [c \in Calls |-> None]

Enter(c) ==
    /\ order[c] = "none"
    /\ order' = [order EXCEPT ![c] = "working"]
    /\ UNCHANGED answer

Close(c) ==
    /\ order[c] = "working"
    /\ \E fate \in {"filled", "canceled"} : order' = [order EXCEPT ![c] = fate]
    /\ UNCHANGED answer

\* c's order takes the place of d's.
Replace(c, d) ==
    /\ order[c] = "none" /\ order[d] = "working"
    /\ order' = [order EXCEPT ![c] = "working", ![d] = "canceled"]
    /\ UNCHANGED answer

Succeed(c) ==
    /\ answer[c] = None
    /\ \E d \in Calls :
          /\ order[d] # "none"
          /\ d = c \/ (KeyOf[c] = KeyOf[d] /\ KeyOf[c] # NoKey)
          /\ answer' = [answer EXCEPT ![c] = d]
    /\ UNCHANGED order

Decline(c) ==
    /\ answer[c] = None
    /\ answer' = [answer EXCEPT ![c] = "not_placed"]
    /\ UNCHANGED order

Next == \E c \in Calls :
            \/ Enter(c) \/ Close(c) \/ Succeed(c) \/ Decline(c)
            \/ \E d \in Calls : Replace(c, d)

Spec == Init /\ [][Next]_vars
=============================================================================

-------------------------- MODULE MCStreamerBridge --------------------------
(***************************************************************************)
(* StreamerBridge for model checking: a tool call that lists a symbol      *)
(* twice, another one, and a websocket with two subscribe frames, on       *)
(* overlapping symbols.                                                    *)
(***************************************************************************)
EXTENDS StreamerBridge

CONSTANTS r1, r2, w1, w2, x, y

MCAsks == [r \in Readers |-> [s \in Symbols |->
             CASE r = r1 -> IF s = x THEN 2 ELSE 0
               [] r = w2 -> IF s = y THEN 1 ELSE 0
               [] OTHER -> 1]]

MCTogether == [r \in Readers |-> IF r \in {w1, w2} THEN {w1, w2} ELSE {r}]
=============================================================================

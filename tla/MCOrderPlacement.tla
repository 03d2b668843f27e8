-------------------------- MODULE MCOrderPlacement --------------------------
(***************************************************************************)
(* OrderPlacement for model checking.                                      *)
(***************************************************************************)
EXTENDS OrderPlacement

CONSTANTS c1, c2, k, buy

\* A request and a second one, or a command line, for the same order; or one that
\* amends it.
TwoModes == [c \in Calls |-> IF c = c1 THEN {"rest"} ELSE Placing \cup Amending]
SameKey == [c \in Calls |-> k]
SameShape == [c \in Calls |-> buy]

Rule(effect, conditions) ==
    [enabled |-> TRUE, effect |-> effect, match |-> {buy}, conditions |-> conditions]

Lit(field, op, bound, negated) ==
    [field |-> field, op |-> op, bound |-> bound, negated |-> negated]

\* At most one order a day, whatever it needs of the buying power.
OneADay == [policies |-> {Rule("allow", {{{Lit("daily_order_count", "lt", 1, FALSE)}}})},
            default_action |-> "deny"]

\* Nothing unless the preview tells what it costs; at most two orders a day.
Costed == [policies |-> {Rule("allow", {{{Lit("bp_required", "lt", 2, FALSE)}}}),
                         Rule("deny", {{{Lit("daily_order_count", "lt", 2, TRUE)}}})},
           default_action |-> "allow"]

TwoProfiles == {OneADay, Costed}
=============================================================================

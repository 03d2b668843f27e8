-------------------------- MODULE ProfileTemplates --------------------------
(*****************************************************************************)
(* `profile new` (order_policy/profile_new): the policies its templates      *)
(* write, the list editor that collects them, and the file it saves, which   *)
(* schema.py reads back.                                                     *)
(*                                                                           *)
(* An answer is what was typed, None when the line was left blank; a line    *)
(* that is neither a number nor blank is asked again.  Tickers are a set.    *)
(* The free-form template, whose policy is typed in, is left out.            *)
(*****************************************************************************)
EXTENDS PolicyFields, SequencesExt

-----------------------------------------------------------------------------
(* questionnaire.py: a blank answer is the default.                          *)
integer(typed, default) == IF typed = None THEN default ELSE typed
number(typed, default) == integer(typed, default)

-----------------------------------------------------------------------------
(* templates.py.                                                             *)
Op(op, bound) == [op |-> op, expected |-> bound]
Term(field, ops) == {[pred |-> [field_name |-> field, op_values |-> ops], negated |-> FALSE]}
Only(field, ops) == {Term(field, ops)}
Between(low, high) == {Op("gte", low), Op("lte", high)}

\* A condition that is written only when there is a bound.
Optional(field, op, bound) == {Only(field, {Op(op, b)}) : b \in {bound} \ {None}}

NoField == [f \in {} |-> {}]
Match(fields) == {{[fields |-> fields, negated_fields |-> NoField]}}
Anything == {{}}

NewPolicy(name, effect, match, conditions) ==
    [name |-> name, enabled |-> TRUE, effect |-> effect,
     match |-> match, conditions |-> conditions]

OptionMatch(tickers, side) ==
    Match([underlying  |-> tickers,       asset_type  |-> {"OPTION"},
           option_side |-> {side},        instruction |-> {"SELL_TO_OPEN"}])

_allow_equity_trade(tickers, side, qty) ==
    NewPolicy(<<"allow", side, tickers>>, "allow",
              Match([underlying |-> tickers, asset_type |-> {"EQUITY"}, instruction |-> {side}]),
              Optional("quantity", "lte", integer(qty, None)))

_allow_short_put_open(tickers, delta, dte, iv, bp_pct) ==
    NewPolicy(<<"allow_short_put_open", tickers>>, "allow", OptionMatch(tickers, "P"),
              {Only("delta", Between(number(delta[1], [num |-> -30, den |-> 100]),
                                     number(delta[2], [num |-> -10, den |-> 100]))),
               Only("dte", Between(integer(dte[1], Whole(21)), integer(dte[2], Whole(90))))}
              \cup Optional("iv", "lte", number(iv, None))
              \cup Optional("bp_required_pct", "lte", number(bp_pct, None)))

_allow_covered_call_open(tickers, dte, above) ==
    NewPolicy(<<"allow_covered_call_open", tickers>>, "allow", OptionMatch(tickers, "C"),
              {Only("covered_by_equity", {Op("eq", TRUE)}),
               Only("dte", Between(integer(dte[1], Whole(21)), integer(dte[2], Whole(60)))),
               Only("strike_pct_above_spot", {Op("gte", number(above, Whole(3)))})})

\* The one template that takes a blank list for any ticker.
_allow_vertical_spread(side, tickers, price, qty) ==
    LET type   == IF side = "DEBIT" THEN "NET_DEBIT" ELSE "NET_CREDIT"
        fields == {"asset_type", "complex_strategy_type", "order_type"}
                  \cup (IF tickers = {} THEN {} ELSE {"underlying"})
    IN  NewPolicy(<<"allow_vertical", side, tickers>>, "allow",
              Match([f \in fields |-> CASE f = "asset_type" -> {"OPTION"}
                                        [] f = "complex_strategy_type" -> {"VERTICAL"}
                                        [] f = "order_type" -> {type}
                                        [] f = "underlying" -> tickers]),
              Optional("price", IF side = "DEBIT" THEN "lte" ELSE "gte", number(price, None))
              \cup Optional("quantity", "lte", integer(qty, None)))

_deny_underlying(tickers) ==
    NewPolicy(<<"deny_underlying", tickers>>, "deny", Match([underlying |-> tickers]), {})

_deny_loss_cooldown(n) ==
    NewPolicy(<<"deny_loss_cooldown_ge", integer(n, Whole(3))>>, "deny", Anything,
              {Only("consecutive_losing_closes_24h", {Op("gte", integer(n, Whole(3)))})})

FatFingerTerms(low, high, qty) ==
    {Term("price_pct_of_mid", {Op("lt", number(low, Whole(70)))}),
     Term("price_pct_of_mid", {Op("gt", number(high, Whole(130)))})}
    \cup {Term("quantity", {Op("gt", q)}) : q \in {integer(qty, Whole(10))} \ {None}}

_deny_fat_finger(low, high, qty) ==
    NewPolicy(<<"deny_fat_finger">>, "deny", Anything, {FatFingerTerms(low, high, qty)})

-----------------------------------------------------------------------------
(* state.py: the list editor.  The cursor counts rows from zero.             *)
Editor == [policies |-> <<>>, cursor |-> 0, undo_stack |-> <<>>, dirty |-> FALSE]

Rows(s) == 0 .. Len(s.policies) - 1

move_down(s) == IF s.cursor + 1 \in Rows(s) THEN [s EXCEPT !.cursor = @ + 1] ELSE s
move_up(s) == IF s.cursor - 1 \in Rows(s) THEN [s EXCEPT !.cursor = @ - 1] ELSE s

Inserted(s, row, policy) ==
    [s EXCEPT !.policies = InsertAt(@, row + 1, policy), !.cursor = row, !.dirty = TRUE]

add_policy(s, policy) ==
    Inserted(s, IF s.policies = <<>> THEN 0 ELSE s.cursor + 1, policy)

delete_at_cursor(s) ==
    LET left == RemoveAt(s.policies, s.cursor + 1)
    IN  IF s.policies = <<>> THEN s
        ELSE [policies   |-> left,
              cursor     |-> IF s.cursor < Len(left) \/ s.cursor = 0 THEN s.cursor
                                                                     ELSE Len(left) - 1,
              undo_stack |-> Append(s.undo_stack, [policy         |-> s.policies[s.cursor + 1],
                                                   original_index |-> s.cursor]),
              dirty      |-> TRUE]

undo_delete(s) ==
    IF s.undo_stack = <<>> THEN s
    ELSE LET entry == s.undo_stack[Len(s.undo_stack)]
             row   == IF entry.original_index < Len(s.policies) THEN entry.original_index
                                                               ELSE Len(s.policies)
         IN  [Inserted(s, row, entry.policy) EXCEPT
                !.undo_stack = SubSeq(@, 1, Len(@) - 1)]

mark_saved(s) == [s EXCEPT !.dirty = FALSE]

\* save.py writes the list as it stands, once: a name already taken is refused.
atomic_save(s, taken) == IF taken THEN s ELSE mark_saved(s)

\* schema.py reads the file back if its policies have names of their own: the
\* one of its checks that what the templates write can fail.
parse_profile(policies) ==
    \A i, j \in DOMAIN policies : policies[i].name = policies[j].name => i = j
=============================================================================

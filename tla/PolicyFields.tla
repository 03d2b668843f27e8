---------------------------- MODULE PolicyFields ----------------------------
(*****************************************************************************)
(* What the conditions of an order policy read (order_policy/fields.py,      *)
(* sources.py, match.py, conditions.py, _calendar.py) and what the command   *)
(* line fetches for them (commands/order.py, _build_policy_context).         *)
(*                                                                           *)
(* A field's value is the set of the values it has: one, or none where the   *)
(* provider raises UnevaluatableField.  A payload the context may lack is,   *)
(* likewise, a set of at most one payload.  Each family of fields takes the  *)
(* slots of the context it reads.                                            *)
(*                                                                           *)
(* Numbers are exact quotients where the code has floats; dates are days,    *)
(* clocks seconds; an instrument is a record where Schwab has an OSI symbol, *)
(* so a malformed symbol is left out.  A tree of any_of / all_of, or of      *)
(* and / or / not, is its disjunctive normal form.                           *)
(*****************************************************************************)
EXTENDS Integers, Sequences, FiniteSets

LOCAL INSTANCE FiniteSetsExt

CONSTANT None   \* Python's None where it is a value

-----------------------------------------------------------------------------
(* Numbers.                                                                  *)
Number == [num : Int, den : Nat \ {0}]
Whole(n) == [num |-> n, den |-> 1]
IsZero(a) == a.num = 0
Plus(a, b) == [num |-> a.num * b.den + b.num * a.den, den |-> a.den * b.den]
Minus(a, b) == [num |-> a.num * b.den - b.num * a.den, den |-> a.den * b.den]
Times(n, a) == [num |-> n * a.num, den |-> a.den]
Magnitude(a) == [num |-> IF a.num < 0 THEN -a.num ELSE a.num, den |-> a.den]
AtMost(a, b) == a.num * b.den <= b.num * a.den

Over(a, b) ==
    IF b.num > 0 THEN [num |-> a.num * b.den, den |-> a.den * b.num]
                 ELSE [num |-> -a.num * b.den, den |-> -a.den * b.num]

\* 100 a / b for values that are there and a b that is not zero.
Percent(as, bs) == UNION {{Times(100, Over(a, b)) : a \in as} : b \in {y \in bs : ~IsZero(y)}}

First(xs, ys) == IF xs # {} THEN xs ELSE ys

Entry(f, k) == {f[x] : x \in {k} \cap DOMAIN f}

-----------------------------------------------------------------------------
(* The fields, by the code that derives them.                                *)
CATEGORICAL_FIELDS ==
    {"account", "underlying", "asset_type", "option_side", "instruction", "order_type",
     "duration", "session", "complex_strategy_type", "order_source"}
BodyFields      == {"quantity", "strike", "expiry", "dte", "price", "order_value"}
MarketFields    == {"spot", "bid", "ask", "mid", "mark", "delta", "gamma", "theta", "vega",
                    "rho", "iv", "intrinsic", "extrinsic"}
StrikeFields    == {"strike_pct_of_spot", "strike_pct_above_spot",
                    "strike_pct_below_spot", "moneyness"}
AnchorOf        == [price_pct_of_bid |-> "bid", price_pct_of_ask |-> "ask",
                    price_pct_of_mid |-> "mid", price_pct_of_mark |-> "mark"]
PriceFields     == {"price_pct_of_bid", "price_pct_of_ask",
                    "price_pct_of_mid", "price_pct_of_mark"}
BalanceFields   == {"net_liq", "cash", "bp_total", "bp_used", "bp_available", "bp_used_pct",
                    "maint_req", "maint_cushion", "maint_cushion_pct"}
ImpactFields    == {"bp_required", "bp_required_pct", "bp_after_pct"}
TemporalFields  == {"market_session", "minutes_since_open", "minutes_to_close",
                    "is_market_holiday"}
CounterFields   == {"daily_order_count", "daily_order_count_per_ticker",
                    "minutely_order_count", "replace_count"}
PositionFields  == {"existing_position_qty", "existing_position_count_per_ticker",
                    "concentration_pct", "covered_by_equity",
                    "cash_secured_for_short_put", "covered_by_pmcc"}

AccountFields == BalanceFields \cup PositionFields \cup {"order_value_pct_of_netliq"}
ChainFields   == MarketFields \cup StrikeFields \cup PriceFields

Fields == CATEGORICAL_FIELDS \cup BodyFields \cup ChainFields \cup AccountFields
          \cup ImpactFields \cup TemporalFields \cup CounterFields
          \cup {"days_to_ex_div", "consecutive_losing_closes_24h"}

\* sources.py: the one source each field is fetched from.
FIELD_SOURCE ==
    [f \in Fields |->
        IF f \in ChainFields                         THEN "chain"
        ELSE IF f \in AccountFields                  THEN "account"
        ELSE IF f \in ImpactFields                   THEN "preview"
        ELSE IF f \in TemporalFields                 THEN "calendar"
        ELSE IF f \in CounterFields                  THEN "counters"
        ELSE IF f = "days_to_ex_div"                 THEN "dividends"
        ELSE IF f = "consecutive_losing_closes_24h"  THEN "transactions"
        ELSE "none"]

\* A field the table does not know drives no fetch.
required_sources(fields) == {FIELD_SOURCE[f] : f \in fields \cap Fields} \ {"none"}

-----------------------------------------------------------------------------
(* The order: its body, which has at least one leg, and what the match       *)
(* clauses see of it: all of it that is a leg's is the first leg's.          *)
FirstLeg(body) == body.legs[1]
Underlying(body) == FirstLeg(body).instrument.underlying
IsOption(body) == FirstLeg(body).instrument.asset = "OPTION"

categorical_view(body, account, order_source) ==
    [account      |-> account,
     underlying   |-> Underlying(body),
     asset_type   |-> FirstLeg(body).instrument.asset,
     option_side  |-> IF IsOption(body) THEN FirstLeg(body).instrument.side ELSE None,
     instruction  |-> FirstLeg(body).instruction,
     order_type   |-> body.orderType,
     duration     |-> body.duration,
     session      |-> body.session,
     complex_strategy_type |->
        IF body.strategy # "NONE" THEN body.strategy
        ELSE IF Len(body.legs) = 2 /\ IsOption(body) THEN "VERTICAL" ELSE "SINGLE",
     order_source |-> order_source]

\* The instrument of the first leg that is an option.
_first_option_symbol(legs) ==
    {legs[i].instrument : i \in {n \in DOMAIN legs :
        /\ legs[n].instrument.asset = "OPTION"
        /\ \A k \in 1 .. n - 1 : legs[k].instrument.asset # "OPTION"}}

Strikes(body) == {Whole(o.strike) : o \in _first_option_symbol(body.legs)}

\* A market order has no price; what it is worth is not known here.
Prices(body) == {body.price} \ {None}
OrderValue(body) ==
    {Times((IF IsOption(body) THEN 100 ELSE 1) * FirstLeg(body).quantity, p) : p \in Prices(body)}

_compute(f, body, today) ==
    CASE f = "quantity"    -> {Whole(FirstLeg(body).quantity)}
      [] f = "strike"      -> Strikes(body)
      [] f = "expiry"      -> {o.expiry : o \in _first_option_symbol(body.legs)}
      [] f = "dte"         -> {Whole(o.expiry - today) : o \in _first_option_symbol(body.legs)}
      [] f = "price"       -> {body.price}
      [] f = "order_value" -> OrderValue(body)

-----------------------------------------------------------------------------
(* Market data: an option reads its contract in the chain, an equity order   *)
(* its quote, both the spot of whichever was fetched.                        *)
_spot(body, chain, quote) ==
    First(UNION {x.last : x \in chain},
          UNION {UNION {y.lastPrice : y \in Entry(q, Underlying(body))} : q \in quote})

Contracts(body, chain) ==
    UNION {Entry(x.contracts, o) : x \in chain, o \in _first_option_symbol(body.legs)}

Quotes(body, quote) == UNION {Entry(q, Underlying(body)) : q \in quote}

Halfway(bids, asks) == {Over(Plus(b, a), Whole(2)) : b \in bids, a \in asks}

_md_from_option_contract(f, contracts) ==
    UNION {IF f = "mid" THEN Halfway(x["bid"], x["ask"]) ELSE x[f] : x \in contracts}

_md_from_quote(f, quotes) ==
    UNION {CASE f = "mid"  -> Halfway(y.bidPrice, y.askPrice)
             [] f = "bid"  -> y.bidPrice
             [] f = "ask"  -> y.askPrice
             [] f = "mark" -> y.mark
             [] OTHER      -> {} : y \in quotes}

_md(f, body, chain, quote) ==
    IF f = "spot" THEN _spot(body, chain, quote)
    ELSE IF IsOption(body) THEN _md_from_option_contract(f, Contracts(body, chain))
    ELSE _md_from_quote(f, Quotes(body, quote))

\* How far a strike is from the spot, in per cent of the spot.
Above(strikes, spots) ==
    UNION {Percent({Minus(k, s)}, {s}) : k \in strikes, s \in spots}

_itm_or_otm(above, side, deep) ==
    LET otm == (side = "C" /\ above.num > 0) \/ (side = "P" /\ above.num < 0)
    IN  IF deep THEN IF otm THEN "deep_otm" ELSE "deep_itm"
                ELSE IF otm THEN "otm" ELSE "itm"

Moneyness(above, side) ==
    IF AtMost(Magnitude(above), Whole(1)) THEN "atm"
    ELSE _itm_or_otm(above, side, ~AtMost(Magnitude(above), Whole(20)))

_strike_relative(f, body, chain, quote) ==
    LET spots == _spot(body, chain, quote)
        above == Above(Strikes(body), spots)
    IN  CASE f = "strike_pct_of_spot"    -> Percent(Strikes(body), spots)
          [] f = "strike_pct_above_spot" -> above
          [] f = "strike_pct_below_spot" -> {Times(-1, a) : a \in above}
          [] f = "moneyness" ->
                {Moneyness(a, FirstLeg(body).instrument.side) : a \in above}

_price_pct(anchor, body, chain, quote) ==
    Percent(Prices(body), _md(anchor, body, chain, quote))

-----------------------------------------------------------------------------
(* The account: balances, and the buying power an order takes.               *)
Balance(account, key) == UNION {a.balances[key] : a \in account}

NetLiq(account) == First(Balance(account, "liquidationValue"), Balance(account, "equity"))
Cash(account) == First(Balance(account, "cashBalance"),
                       First(Balance(account, "totalCash"),
                             Balance(account, "cashAvailableForTrading")))
BpTotal(account) == First(Balance(account, "buyingPower"),
                          Balance(account, "dayTradingBuyingPower"))
BpUsed(account) ==
    LET long  == Balance(account, "longMarketValue")
        short == Balance(account, "shortMarketValue")
    IN  First(Balance(account, "buyingPowerUsed"),
              IF long # {} /\ short # {} THEN {Plus(l, Magnitude(s)) : l \in long, s \in short}
                                         ELSE First(long, short))
MaintReq(account) == Balance(account, "maintenanceRequirement")
Cushion(account) == {Minus(n, m) : n \in NetLiq(account), m \in MaintReq(account)}

_account_state(f, account) ==
    CASE f = "net_liq"           -> NetLiq(account)
      [] f = "cash"              -> Cash(account)
      [] f = "bp_total"          -> BpTotal(account)
      [] f = "bp_used"           -> BpUsed(account)
      [] f = "bp_available"      -> {Minus(t, u) : t \in BpTotal(account), u \in BpUsed(account)}
      [] f = "bp_used_pct"       -> Percent(BpUsed(account), BpTotal(account))
      [] f = "maint_req"         -> MaintReq(account)
      [] f = "maint_cushion"     -> Cushion(account)
      [] f = "maint_cushion_pct" -> Percent(Cushion(account), NetLiq(account))

BpRequired(preview) == {Magnitude(e) : e \in UNION {p.buyingPowerEffect : p \in preview}}

\* The two percentages need the account as well as the preview.
_bp_impact(f, preview, account) ==
    LET required == Percent(BpRequired(preview), BpTotal(account))
    IN  CASE f = "bp_required"     -> BpRequired(preview)
          [] f = "bp_required_pct" -> required
          [] f = "bp_after_pct"    ->
                {Plus(u, r) : u \in Percent(BpUsed(account), BpTotal(account)), r \in required}

_order_value_pct_of_netliq(body, account) ==
    Percent({Magnitude(v) : v \in OrderValue(body)}, NetLiq(account))

-----------------------------------------------------------------------------
(* _calendar.py: the session of an instant, and the minutes of the regular   *)
(* one.  A half day ends at the usual hour.                                  *)
Clock(h, m) == 3600 * h + 60 * m

is_holiday(now) == now.closed \/ now.weekday >= 5

session_status(now) ==
    IF is_holiday(now) THEN "CLOSED"
    ELSE IF now.time \in Clock(9, 30) .. Clock(16, 0) - 1 THEN "REGULAR"
    ELSE IF now.time \in Clock(4, 0) .. Clock(9, 30) - 1 THEN "PRE"
    ELSE IF now.time \in Clock(16, 0) .. Clock(20, 0) - 1 THEN "POST"
    ELSE "CLOSED"

minutes_since_open(now) == (now.time - Clock(9, 30)) \div 60
minutes_to_close(now) == (Clock(16, 0) - now.time) \div 60

InSession(now, n) == {Whole(x) : x \in {m \in {n} : session_status(now) = "REGULAR"}}

_temporal(f, now) ==
    CASE f = "market_session"     -> {session_status(now)}
      [] f = "is_market_holiday"  -> {is_holiday(now)}
      [] f = "minutes_since_open" -> InSession(now, minutes_since_open(now))
      [] f = "minutes_to_close"   -> InSession(now, minutes_to_close(now))

_days_to_ex_div(body, dividends, today) ==
    UNION {{Whole(x - today) : x \in Entry(d, Underlying(body))} : d \in dividends}

-----------------------------------------------------------------------------
(* Counters and the last day's trades.                                       *)
Count(f, k) == IF k \in DOMAIN f THEN f[k] ELSE 0

_counter_field(f, body, account, counters, now) ==
    LET minute == now.clock \div 60
    IN  CASE f = "daily_order_count" -> {Whole(Count(c.daily_total, account)) : c \in counters}
          [] f = "daily_order_count_per_ticker" ->
                {Whole(Count(c.daily_per_ticker, <<account, Underlying(body)>>)) : c \in counters}
          [] f = "minutely_order_count" ->
                {Whole(Count(c.minutely_buckets, <<account, minute>>)
                       + Count(c.minutely_buckets, <<account, minute - 1>>)) : c \in counters}
          [] f = "replace_count" ->
                {Whole(IF body.orderId = None THEN 0
                       ELSE Count(c.replace_count_per_order, body.orderId)) : c \in counters}

\* The last day's trades with an amount, opening or closing.
Day == 24 * 3600
Recent(trades, now) ==
    {t \in trades : t.type \in {"TRADE", "CLOSE", "ORDER"} /\ t.time >= now.clock - Day
                    /\ t.netAmount # None}

\* Newest first; the larger amount first among those of one instant.
Newer(u, t) == u.time > t.time \/ (u.time = t.time /\ u.netAmount > t.netAmount)

\* The amounts below zero before the first that is not.
Streak(trades, now) ==
    {t \in Recent(trades, now) :
        t.netAmount < 0 /\ \A u \in Recent(trades, now) : Newer(u, t) => u.netAmount < 0}

_consecutive_losing_closes_24h(transactions, now) ==
    {Whole(Cardinality(Streak(t, now))) : t \in transactions}

-----------------------------------------------------------------------------
(* The positions of the account, one for each instrument.                    *)
Positions(account) == UNION {a.positions : a \in account}
On(positions, u) == {p \in positions : p.instrument.underlying = u}
OptionsOf(positions) == {p \in positions : p.instrument.asset = "OPTION"}
LongCalls(positions) ==
    {p \in OptionsOf(positions) : p.instrument.side = "C" /\ p.longQuantity > 0}

\* The legs that sell options of a side, to open or to close.
ShortLegs(legs, side) ==
    {i \in DOMAIN legs : /\ legs[i].instruction \in {"SELL_TO_OPEN", "SELL_TO_CLOSE"}
                         /\ legs[i].instrument.asset = "OPTION"
                         /\ legs[i].instrument.side = side}

_net_qty_for_symbol(positions, instrument) ==
    MapThenSumSet(LAMBDA p : p.longQuantity - p.shortQuantity,
                  {p \in positions : p.instrument = instrument})

_option_count_per_ticker(positions, u) == Cardinality(On(OptionsOf(positions), u))

_underlying_notional(positions, u) ==
    MapThenSumSet(LAMBDA p : IF p.marketValue < 0 THEN -p.marketValue ELSE p.marketValue,
                  On(positions, u))

SharesOf(positions, u) ==
    MapThenSumSet(LAMBDA p : p.longQuantity, On(positions \ OptionsOf(positions), u))

\* The contracts of all the calls sold, the shares of the first one's underlying.
_covered_by_equity(positions, legs) ==
    \E first \in ShortLegs(legs, "C") :
        /\ \A i \in ShortLegs(legs, "C") : first <= i
        /\ SharesOf(positions, legs[first].instrument.underlying)
               >= 100 * MapThenSumSet(LAMBDA i : legs[i].quantity, ShortLegs(legs, "C"))

_cash_secured_for_short_put(legs, cash) ==
    LET required == MapThenSumSet(LAMBDA i : 100 * legs[i].instrument.strike * legs[i].quantity,
                                  ShortLegs(legs, "P"))
    IN  required # 0 /\ AtMost(Whole(required), cash)

\* A long call that expires later at a lower strike, for each call sold.
_covered_by_pmcc(positions, legs) ==
    /\ ShortLegs(legs, "C") # {}
    /\ \A i \in ShortLegs(legs, "C") :
          \E p \in LongCalls(On(positions, legs[i].instrument.underlying)) :
              /\ p.instrument.expiry > legs[i].instrument.expiry
              /\ p.instrument.strike < legs[i].instrument.strike

PositionValue(f, body, account, positions) ==
    CASE f = "existing_position_qty" ->
            {Whole(_net_qty_for_symbol(positions, FirstLeg(body).instrument))}
      [] f = "existing_position_count_per_ticker" ->
            {Whole(_option_count_per_ticker(positions, Underlying(body)))}
      [] f = "concentration_pct" ->
            Percent({Whole(_underlying_notional(positions, Underlying(body)))}, NetLiq(account))
      [] f = "covered_by_equity" -> {_covered_by_equity(positions, body.legs)}
      [] f = "cash_secured_for_short_put" ->
            {_cash_secured_for_short_put(body.legs, c) : c \in Cash(account)}
      [] f = "covered_by_pmcc"   -> {_covered_by_pmcc(positions, body.legs)}

_position_field(f, body, account) ==
    IF account = {} THEN {} ELSE PositionValue(f, body, account, Positions(account))

-----------------------------------------------------------------------------
(* The provider.  A field outside every family is never evaluatable.         *)
get(f, c) ==
    IF f \in CATEGORICAL_FIELDS THEN
        {categorical_view(c.body, c.account_number, c.order_source)[f]}
    ELSE IF f \in BodyFields THEN _compute(f, c.body, c.today)
    ELSE IF f \in MarketFields THEN _md(f, c.body, c.chain_data, c.quote_data)
    ELSE IF f \in StrikeFields THEN _strike_relative(f, c.body, c.chain_data, c.quote_data)
    ELSE IF f \in PriceFields THEN
        _price_pct(AnchorOf[f], c.body, c.chain_data, c.quote_data)
    ELSE IF f \in BalanceFields THEN _account_state(f, c.account_data)
    ELSE IF f \in ImpactFields THEN _bp_impact(f, c.preview_data, c.account_data)
    ELSE IF f \in TemporalFields THEN _temporal(f, c.now)
    ELSE IF f \in CounterFields THEN
        _counter_field(f, c.body, c.account_number, c.counters_data, c.now)
    ELSE IF f \in PositionFields THEN _position_field(f, c.body, c.account_data)
    ELSE IF f = "order_value_pct_of_netliq" THEN
        _order_value_pct_of_netliq(c.body, c.account_data)
    ELSE IF f = "days_to_ex_div" THEN _days_to_ex_div(c.body, c.dividend_data, c.today)
    ELSE IF f = "consecutive_losing_closes_24h" THEN
        _consecutive_losing_closes_24h(c.transactions_data, c.now)
    ELSE {}

-----------------------------------------------------------------------------
(* What is fetched: the sources the profile's fields need, the chain for an  *)
(* option order, the quote for another.  The preview is there already.  What *)
(* the world lacks, or fails to give, stays absent.                          *)
Fetched(needed, source, payload) == IF source \in needed THEN payload ELSE {}

_build_policy_context(needed, body, account, world) ==
    [body              |-> body,
     account_number    |-> account,
     order_source      |-> "manual",
     today             |-> world.today,
     now               |-> world.now,
     preview_data      |-> world.preview,
     chain_data        |-> IF IsOption(body) THEN Fetched(needed, "chain", world.chain) ELSE {},
     quote_data        |-> IF IsOption(body) THEN {} ELSE Fetched(needed, "chain", world.quote),
     account_data      |-> Fetched(needed, "account", world.account),
     dividend_data     |-> Fetched(needed, "dividends", world.dividends),
     counters_data     |-> Fetched(needed, "counters", world.counters),
     transactions_data |-> Fetched(needed, "transactions", world.transactions)]

\* `profile test` evaluates a body with nothing fetched and no preview.
run_test(body, account, world) ==
    [_build_policy_context({}, body, account, world) EXCEPT !.preview_data = {}]

-----------------------------------------------------------------------------
(* match.py: a clause selects an order when each field it names has one of   *)
(* its values, and none of the excluded ones.  conditions.py: a predicate on *)
(* a field without a value fails.                                            *)
_match_field(clause, cats) ==
    /\ \A f \in DOMAIN clause.fields : cats[f] # None /\ cats[f] \in clause.fields[f]
    /\ \A f \in DOMAIN clause.negated_fields : cats[f] \notin clause.negated_fields[f]

matches(match, cats) == \E all \in match : \A clause \in all : _match_field(clause, cats)

_APPLY(op, a, b) ==
    CASE op = "eq"      -> a = b
      [] op = "ne"      -> a # b
      [] op = "in"      -> a \in b
      [] op = "not_in"  -> a \notin b
      [] op = "lt"      -> a \in Number /\ ~AtMost(b, a)
      [] op = "lte"     -> a \in Number /\ AtMost(a, b)
      [] op = "gt"      -> a \in Number /\ ~AtMost(a, b)
      [] op = "gte"     -> a \in Number /\ AtMost(b, a)
      [] op = "between" -> a \in Number /\ AtMost(b[1], a) /\ AtMost(a, b[2])

_evaluate_predicate(pred, values) ==
    \E a \in values : \A o \in pred.op_values : _APPLY(o.op, a, o.expected)

_walk(l, c) == _evaluate_predicate(l.pred, get(l.pred.field_name, c)) # l.negated

evaluate_conditions(conditions, c) ==
    \A condition \in conditions : \E clause \in condition : \A l \in clause : _walk(l, c)

-----------------------------------------------------------------------------
(* decision.py and sources.py over a profile.                                *)
Enabled(profile) == {p \in profile.policies : p.enabled}

ConditionFields(p) ==
    {l.pred.field_name : l \in UNION UNION p.conditions}
MatchFields(p) ==
    UNION {DOMAIN m.fields \cup DOMAIN m.negated_fields : m \in UNION p.match}

referenced_fields(profile) ==
    UNION {ConditionFields(p) \cup MatchFields(p) : p \in Enabled(profile)}

Applies(p, c) == matches(p.match, categorical_view(c.body, c.account_number, c.order_source))

approved(profile, c) ==
    LET applied(effect) == {p \in Enabled(profile) : p.effect = effect /\ Applies(p, c)}
    IN  /\ \A p \in applied("deny") : ~evaluate_conditions(p.conditions, c)
        /\ \A p \in applied("allow") : evaluate_conditions(p.conditions, c)
        /\ applied("allow") # {} \/ profile.default_action = "allow"

\* The decision on an order, as placed and as `profile test` shows it.
Placed(profile, body, account, world) ==
    approved(profile, _build_policy_context(required_sources(referenced_fields(profile)),
                                            body, account, world))
Tested(profile, body, account, world) == approved(profile, run_test(body, account, world))
=============================================================================

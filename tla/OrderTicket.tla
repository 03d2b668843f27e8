---------------------------- MODULE OrderTicket ----------------------------
(*****************************************************************************)
(* From what the operator types to the order that is sent and back           *)
(* (order_ticket.py, the body builder of commands/order.py, the open/close   *)
(* detection of order_pipeline/rules.py, the panel figures and the ticket    *)
(* of output/orders.py), for one underlying.                                 *)
(*                                                                           *)
(* A typed ticket is the record of tokens StrategyShapes renders; dates is   *)
(* <<>> in an equity ticket.  A leg of an order carries its instruction as   *)
(* action and effect; explicit says that it carries positionEffect.          *)
(*****************************************************************************)
EXTENDS StrategyShapes

Actions == {"BUY", "SELL"}
Effects == {"OPEN", "CLOSE"}

OrderLeg == [action : Actions, effect : Effects, explicit : BOOLEAN, quantity : Nat \ {0},
             side : Sides, expiry : Nat, strike : Nat \ {0}]

Ticket == [side : Actions, quantity : Nat, ratios : Seq(Nat), strategy : STRING,
           dates : Seq(Nat), strikes : Seq(Nat \ {0}), type : Seq({"C", "P", "stock"}),
           price : Int, kind : {"NONE", "LMT", "MKT", "@MKT"},
           duration : {"NONE", "DAY", "GTC"}, marks : Seq({"open", "close", "auto"})]

OrderLegs == UNION {[1 .. n -> OrderLeg] : n \in 1 .. MaxLegs}

Opposite(action) == IF action = "BUY" THEN "SELL" ELSE "BUY"
Signed(action, n) == IF action = "BUY" THEN n ELSE -n

\* The position an order's legs add to.
Position(legs) ==
    [i \in DOMAIN legs |->
        [qty    |-> Signed(legs[i].action, legs[i].quantity), side |-> legs[i].side,
         expiry |-> legs[i].expiry, strike |-> legs[i].strike, premium |-> 0]]

-----------------------------------------------------------------------------
(* order_ticket.py: what a ticket must look like.                            *)
NoPrice == -1

\* The strategies with an expansion: a calendar, a diagonal, a covered and a
\* custom ticket are parsed and then refused.
Expanded ==
    {"VERTICAL", "STRADDLE", "STRANGLE", "BUTTERFLY", "CONDOR", "IRON_CONDOR", "COLLAR"}

_STRIKE_COUNT(strategy) ==
    CASE strategy \in {"NONE", "STRADDLE"}                  -> 1
      [] strategy \in {"VERTICAL", "STRANGLE", "COLLAR"}    -> 2
      [] strategy = "BUTTERFLY"                             -> 3
      [] strategy \in {"CONDOR", "IRON_CONDOR"}             -> 4

Sorted(strikes) ==
    LET order == InOrder(DOMAIN strikes, LAMBDA i, j :
                     \/ strikes[i] < strikes[j]
                     \/ strikes[i] = strikes[j] /\ i < j)
    IN  [i \in DOMAIN order |-> strikes[order[i]]]

StrikesFit(t) ==
    LET s == Sorted(t.strikes) IN
    /\ t.strategy \in Expanded \cup {"NONE"}
    /\ Len(t.strikes) = _STRIKE_COUNT(t.strategy)
    /\ t.strategy \in {"VERTICAL", "STRANGLE"} => t.strikes[1] # t.strikes[2]
    /\ t.strategy = "BUTTERFLY" => s[2] - s[1] = s[3] - s[2]

\* The straddle, the strangle and the iron condor are written without a type.
TypeFits(t) ==
    CASE t.strategy = "COLLAR" -> t.type = <<"C", "P", "stock">>
      [] t.strategy \in {"STRADDLE", "STRANGLE", "IRON_CONDOR"} -> t.type = <<>>
      [] OTHER -> t.type \in {<<"C">>, <<"P">>}

_parse_price_type_duration(t) ==
    /\ \/ t.kind = "LMT" /\ t.price > 0
       \/ t.kind = "MKT" /\ t.price = NoPrice
    /\ t.duration \in {"NONE", "DAY", "GTC"}

-----------------------------------------------------------------------------
(* order_ticket.py: the legs it stands for.                                  *)
NewLeg(t, action, n, side, strike) ==
    [action |-> action, effect |-> "OPEN", explicit |-> FALSE, quantity |-> n * t.quantity,
     side |-> side, expiry |-> t.dates[1], strike |-> strike]

_expand_legs(t) ==
    LET on == t.side
        off == Opposite(on)
        k == t.strikes
        s == Sorted(k)
        leg(action, n, side, strike) == NewLeg(t, action, n, side, strike)
    IN  CASE t.strategy = "NONE" -> <<leg(on, 1, t.type[1], k[1])>>
          [] t.strategy = "VERTICAL" ->
                \* lower, higher = strikes: as written, not sorted
                IF t.type = <<"C">> THEN <<leg(on, 1, "C", k[1]), leg(off, 1, "C", k[2])>>
                ELSE <<leg(off, 1, "P", k[1]), leg(on, 1, "P", k[2])>>
          [] t.strategy = "STRADDLE" -> <<leg(on, 1, "C", k[1]), leg(on, 1, "P", k[1])>>
          [] t.strategy = "STRANGLE" -> <<leg(on, 1, "P", s[1]), leg(on, 1, "C", s[2])>>
          [] t.strategy = "BUTTERFLY" ->
                <<leg(on, 1, t.type[1], s[1]), leg(off, 2, t.type[1], s[2]),
                  leg(on, 1, t.type[1], s[3])>>
          [] t.strategy = "CONDOR" ->
                <<leg(on, 1, t.type[1], s[1]), leg(off, 1, t.type[1], s[2]),
                  leg(off, 1, t.type[1], s[3]), leg(on, 1, t.type[1], s[4])>>
          [] t.strategy = "IRON_CONDOR" ->
                <<leg(on, 1, "P", s[1]), leg(off, 1, "P", s[2]),
                  leg(off, 1, "C", s[3]), leg(on, 1, "C", s[4])>>
          [] t.strategy = "COLLAR" -> <<leg(off, 1, "C", k[1]), leg(on, 1, "P", k[2])>>

_replace_leg_effect(leg, mark) ==
    CASE mark = "open"  -> [leg EXCEPT !.effect = "OPEN", !.explicit = TRUE]
      [] mark = "close" -> [leg EXCEPT !.effect = "CLOSE", !.explicit = TRUE]
      [] mark = "auto"  -> leg

\* No mark, one for all legs, or one for each.
MarksFit(t, legs) == Len(t.marks) \in {0, 1, Len(legs)}
Marked(t, legs) ==
    [i \in DOMAIN legs |->
        CASE Len(t.marks) = 0 -> legs[i]
          [] Len(t.marks) = 1 -> _replace_leg_effect(legs[i], t.marks[1])
          [] OTHER            -> _replace_leg_effect(legs[i], t.marks[i])]

_order_type(t) ==
    IF t.kind = "MKT" THEN "MARKET"
    ELSE IF t.strategy = "NONE" THEN "LIMIT"
    ELSE IF (t.side = "BUY") = (t.strategy # "IRON_CONDOR") THEN "NET_DEBIT"
    ELSE "NET_CREDIT"

IsOptionTicket(t) == t.dates # <<>>

\* Ratios and IRON_BUTTERFLY are read as tickers and end in a refusal.
Accepted(t) ==
    /\ t.quantity > 0 /\ t.ratios = <<>>
    /\ _parse_price_type_duration(t)
    /\ IsOptionTicket(t) => /\ Len(t.dates) = 1 /\ StrikesFit(t) /\ TypeFits(t)
                      /\ MarksFit(t, _expand_legs(t))
    /\ ~IsOptionTicket(t) => t.strategy = "NONE" /\ t.strikes = <<>> /\ t.type = <<>>

-----------------------------------------------------------------------------
(* commands/order.py: the order built from a ticket or from flags.           *)

\* More short than long contracts of a type and expiry, stock counted in
\* hundreds: shares held for calls, shares sold for puts.
Dated(legs, side, expiry) ==
    Total(LAMBDA l : IF l.side = side /\ l.expiry = expiry THEN l.qty ELSE 0, legs)

_is_naked_short_options(legs, shares) ==
    \E i \in DOMAIN legs :
        LET net == Dated(Position(legs), legs[i].side, legs[i].expiry)
            cover == IF legs[i].side = "C" THEN (IF shares > 0 THEN shares \div 100 ELSE 0)
                     ELSE (IF shares < 0 THEN (-shares) \div 100 ELSE 0)
        IN  net < 0 /\ net + cover < 0

\* shares: those of a collar, or of the equity order, sold ones negative.
_spec_from_ticket(t) ==
    LET legs == IF IsOptionTicket(t) THEN Marked(t, _expand_legs(t)) ELSE <<>>
        shares == CASE ~IsOptionTicket(t)             -> Signed(t.side, t.quantity)
                    [] t.strategy = "COLLAR"    -> Signed(t.side, 100 * t.quantity)
                    [] OTHER                    -> 0
    IN  [side |-> t.side, quantity |-> t.quantity, order_type |-> _order_type(t),
         duration |-> IF t.duration = "GTC" THEN "GTC" ELSE "DAY", session |-> "NORMAL",
         price |-> t.price,
         complex_strategy |-> CASE t.strategy = "COLLAR" -> "COLLAR_WITH_STOCK"
                                [] OTHER                 -> t.strategy,
         legs |-> legs, shares |-> shares,
         is_naked_short |-> IsOptionTicket(t) /\ _is_naked_short_options(legs, shares),
         \* the code's placeholder CALL where the ticket has no single type
         option_type |-> CASE ~IsOptionTicket(t)       -> "NONE"
                           [] Len(t.type) = 1    -> t.type[1]
                           [] OTHER              -> "C",
         strikes |-> IF IsOptionTicket(t) THEN t.strikes ELSE <<>>]

\* f: the flags of an order, defaults filled in; f.legs: the --leg tokens.
_spec_from_flags(f) ==
    LET legs == f.legs
        one(side) == legs # <<>> /\ \A i \in DOMAIN legs : legs[i].side = side
    IN  [side |-> f.side, quantity |-> f.quantity,
         order_type |-> IF f.order_type = "LIMIT" /\ Len(legs) > 1
                        THEN (IF f.side = "BUY" THEN "NET_DEBIT" ELSE "NET_CREDIT")
                        ELSE f.order_type,
         duration |-> f.duration, session |-> f.session, price |-> f.price,
         complex_strategy |-> IF legs = <<>> \/ f.complex_strategy = "AUTO" THEN "NONE"
                              ELSE f.complex_strategy,
         legs |-> legs,
         shares |-> IF legs = <<>> THEN Signed(f.side, f.quantity) ELSE 0,
         is_naked_short |-> legs # <<>> /\ _is_naked_short_options(legs, 0),
         option_type |-> CASE one("C") -> "C" [] one("P") -> "P" [] OTHER -> "NONE",
         strikes |-> [i \in DOMAIN legs |-> legs[i].strike]]

_validate_session_combo(spec) ==
    spec.session \in {"AM", "PM", "SEAMLESS"} => spec.order_type = "LIMIT" /\ spec.duration = "DAY"

Priced == {"LIMIT", "NET_DEBIT", "NET_CREDIT", "LIMIT_ON_CLOSE"}
Unpriced == {"MARKET", "MARKET_ON_CLOSE", "EXERCISE", "NET_ZERO"}

\* The stop orders and their triggers are left out.
Placeable(spec) ==
    /\ _validate_session_combo(spec)
    /\ spec.order_type \in Priced \cup Unpriced
    /\ spec.order_type \in Priced => spec.price # NoPrice

-----------------------------------------------------------------------------
(* DetectOpenCloseRule.  held[contract]: the long and the short quantity.    *)
Contract(leg) == <<leg.expiry, leg.side, leg.strike>>

Detected(leg, held) ==
    IF /\ ~leg.explicit /\ leg.effect = "OPEN" /\ Contract(leg) \in DOMAIN held
       /\ \/ leg.action = "BUY" /\ held[Contract(leg)].short > 0
          \/ leg.action = "SELL" /\ held[Contract(leg)].long > 0
    THEN [leg EXCEPT !.effect = "CLOSE", !.explicit = TRUE]
    ELSE leg

DetectOpenClose(legs, held) == [i \in DOMAIN legs |-> Detected(legs[i], held)]

-----------------------------------------------------------------------------
(* output/orders.py: the figures of the panel, in dollars; {} for none.      *)
\* A VERTICAL of --leg tokens without two strikes ends the command here.
PanelFails(spec) ==
    /\ spec.option_type # "NONE" /\ spec.price # NoPrice
    /\ spec.complex_strategy = "VERTICAL" /\ Len(spec.strikes) # 2

NoFigures == [known |-> FALSE, max_profit |-> {}, max_loss |-> {}, cost |-> 0]

compute_analytics(spec) ==
    LET each == Multiplier * spec.quantity
        paid == spec.side = "BUY"
        k == spec.strikes
        width == k[2] - k[1]
        figures(profit, loss) ==
            [known |-> TRUE, max_profit |-> profit, max_loss |-> loss,
             cost |-> Signed(spec.side, spec.price * each)]
    IN  IF spec.option_type = "NONE" \/ spec.price = NoPrice THEN NoFigures
        ELSE CASE spec.complex_strategy = "NONE" /\ spec.option_type = "C" ->
                    IF paid THEN figures({}, {-(spec.price * each)})
                    ELSE figures({spec.price * each}, {})
               [] spec.complex_strategy = "NONE" /\ spec.option_type = "P" ->
                    IF paid THEN figures({(k[1] - spec.price) * each}, {-(spec.price * each)})
                    ELSE figures({spec.price * each}, {-((k[1] - spec.price) * each)})
               [] spec.complex_strategy = "VERTICAL" ->
                    IF paid THEN figures({(width - spec.price) * each}, {-(spec.price * each)})
                    ELSE figures({spec.price * each}, {-((width - spec.price) * each)})
               [] OTHER -> NoFigures

-----------------------------------------------------------------------------
(* output/orders.py: the ticket of an order.                                 *)
MarkOf(leg) ==
    CASE leg.explicit /\ leg.effect = "OPEN" -> "open"
      [] leg.effect = "CLOSE"                -> "close"
      [] OTHER                               -> "auto"

_close_marker(legs) ==
    CASE \A i \in DOMAIN legs : MarkOf(legs[i]) = "auto" -> <<>>
      [] /\ \A i, j \in DOMAIN legs : MarkOf(legs[i]) = MarkOf(legs[j])
         /\ MarkOf(legs[1]) # "auto" -> <<MarkOf(legs[1])>>
      [] OTHER -> [i \in DOMAIN legs |-> MarkOf(legs[i])]

\* Several legs are rendered through premiums that add up to the order's price.
SideWord(spec) ==
    CASE spec.order_type = "NET_CREDIT" \/ spec.price = 0 -> "SELL"
      [] spec.order_type = "NET_DEBIT" /\ spec.price # 0  -> "BUY"
      [] OTHER                                            -> spec.legs[1].action

HasTicket(spec) ==
    IF spec.legs = <<>> THEN TRUE ELSE spec.shares = 0 /\ spec.price # NoPrice

render_order_ticket(spec) ==
    LET legs == spec.legs
        plain == [side |-> legs[1].action, quantity |-> legs[1].quantity, ratios |-> <<>>,
                  strategy |-> "NONE", dates |-> <<legs[1].expiry>>,
                  strikes |-> <<legs[1].strike>>, type |-> <<legs[1].side>>,
                  price |-> spec.price, kind |-> "LMT", duration |-> "NONE", marks |-> <<>>]
    IN  CASE legs = <<>> ->
                [side |-> spec.side, quantity |-> spec.quantity, ratios |-> <<>>,
                 strategy |-> "NONE", dates |-> <<>>, strikes |-> <<>>, type |-> <<>>,
                 price |-> spec.price,
                 kind |-> CASE spec.order_type = "MARKET" -> "@MKT"
                            [] spec.order_type = "LIMIT"  -> "LMT"
                            [] OTHER                      -> "NONE",
                 duration |-> IF /\ spec.order_type # "MARKET" /\ spec.price # NoPrice
                                 /\ spec.duration = "GTC"
                              THEN "GTC" ELSE "NONE",
                 marks |-> <<>>]
          [] Len(legs) = 1 -> [plain EXCEPT !.marks = _close_marker(legs)]
          [] OTHER ->
                [render_ticket(Position(legs), classify(Position(legs)).ticket_name) EXCEPT
                    !.side  = SideWord(spec),
                    !.price = spec.price,
                    !.marks = _close_marker(legs)]
=============================================================================

--------------------------- MODULE StrategyShapes ---------------------------
(*****************************************************************************)
(* Option positions as the `strategy` command and the order panel see them   *)
(* (analytics/strategy_legs.py, strategy_classify.py, strategy.py,           *)
(* strategy_ticket.py, commands/strategy.py): their payoff at expiry, its    *)
(* extremes, their names, and the ticket written for them.                   *)
(*                                                                           *)
(* A position is a sequence of at most MaxLegs legs, the largest shape       *)
(* either grammar names.  Prices are integers (the code's floats, in         *)
(* the smallest unit of a premium), an expiry is an integer day.             *)
(*****************************************************************************)
EXTENDS Integers, Sequences

MaxLegs == 4

Sides == {"C", "P"}

Leg == [qty : Int \ {0}, side : Sides, expiry : Nat, strike : Nat \ {0}, premium : Int]

Legs == UNION {[1 .. n -> Leg] : n \in 1 .. MaxLegs}

\* Sums over a position, written out: nothing is added beyond its last leg.
NoLeg == [qty |-> 0, side |-> "C", expiry |-> 0, strike |-> 0, premium |-> 0]
At(legs, i) == IF i \in DOMAIN legs THEN legs[i] ELSE NoLeg
Total(F(_), legs) == F(At(legs, 1)) + F(At(legs, 2)) + F(At(legs, 3)) + F(At(legs, 4))

Net(legs, side) == Total(LAMBDA l : IF l.side = side THEN l.qty ELSE 0, legs)

-----------------------------------------------------------------------------
(* strategy.py: payoff at expiry and its extremes, in dollars.               *)
Multiplier == 100

_leg_intrinsic(l, S) ==
    CASE l.side = "C" /\ S > l.strike -> S - l.strike
      [] l.side = "P" /\ S < l.strike -> l.strike - S
      [] OTHER                        -> 0

payoff_at_expiry(legs, S) ==
    Multiplier * Total(LAMBDA l : l.qty * (_leg_intrinsic(l, S) - l.premium), legs)

_right_asymptote_slope(legs) == Net(legs, "C")

_kinks(legs) == {legs[i].strike : i \in DOMAIN legs}
TopStrike(legs) == CHOOSE k \in _kinks(legs) : \A j \in _kinks(legs) : j <= k

\* Where _vertex_max looks: zero, the strikes, and a point past them all.
Vertices(legs) ==
    {0} \cup _kinks(legs)
        \cup (IF _right_asymptote_slope(legs) = 0 THEN {TopStrike(legs) + 1} ELSE {})
Outcomes(legs) == {payoff_at_expiry(legs, S) : S \in Vertices(legs)}

\* The figure, or none: unlimited.
max_profit(legs) ==
    {m \in Outcomes(legs) : /\ _right_asymptote_slope(legs) <= 0
                            /\ \A x \in Outcomes(legs) : x <= m}

max_loss(legs) ==
    {m \in Outcomes(legs) : /\ _right_asymptote_slope(legs) >= 0
                            /\ \A x \in Outcomes(legs) : m <= x}

-----------------------------------------------------------------------------
(* strategy_classify.py.                                                     *)
MultiExpiry(legs) == \E i, j \in DOMAIN legs : legs[i].expiry # legs[j].expiry

\* More short than long contracts on a side, whatever their expiries.
_is_naked(legs) == \E side \in Sides : Net(legs, side) < 0

Absolute(n) == IF n < 0 THEN -n ELSE n
Divides(g, n) == \E k \in 1 .. Absolute(n) : Absolute(n) = g * k

\* The spread count: the gcd of the quantities.
Spreads(legs) ==
    LET common == {g \in 1 .. Absolute(legs[1].qty) :
                      \A i \in DOMAIN legs : Divides(g, legs[i].qty)}
    IN  CHOOSE g \in common : \A h \in common : h <= g

_reduce_qtys(legs) ==
    [i \in DOMAIN legs |-> [legs[i] EXCEPT !.qty = @ \div Spreads(legs)]]

Units(legs) == \A i \in DOMAIN legs : legs[i].qty \in {1, -1}
OneSide(legs) == \A i, j \in DOMAIN legs : legs[i].side = legs[j].side

\* The order of a stable sort by strike.
Before(legs, i, j) ==
    \/ legs[i].strike < legs[j].strike
    \/ legs[i].strike = legs[j].strike /\ i < j

IsVertical(legs) ==
    /\ Len(legs) = 2 /\ Units(legs) /\ OneSide(legs)
    /\ legs[1].strike # legs[2].strike /\ legs[1].qty = -legs[2].qty

\* Both legs bought, or both sold: a straddle at one strike, else a strangle.
IsPair(legs) ==
    /\ Len(legs) = 2 /\ Units(legs) /\ ~OneSide(legs)
    /\ legs[1].qty = legs[2].qty

IsButterfly(legs) ==
    /\ Len(legs) = 3 /\ OneSide(legs)
    /\ \E i, j, k \in 1 .. 3 :
          /\ legs[i].strike < legs[j].strike /\ legs[j].strike < legs[k].strike
          /\ legs[j].strike - legs[i].strike = legs[k].strike - legs[j].strike
          /\ legs[i].qty \in {1, -1} /\ legs[k].qty = legs[i].qty
          /\ legs[j].qty = -2 * legs[i].qty

IsCondor(legs) ==
    /\ Len(legs) = 4 /\ OneSide(legs) /\ Units(legs)
    /\ \E i, j, k, l \in 1 .. 4 :
          /\ legs[i].strike < legs[j].strike /\ legs[j].strike < legs[k].strike
          /\ legs[k].strike < legs[l].strike
          /\ legs[j].qty = -legs[i].qty /\ legs[k].qty = -legs[i].qty
          /\ legs[l].qty = legs[i].qty

\* The two bodies lie between the wings; they meet in an iron butterfly.
IsIron(legs, meets) ==
    /\ Len(legs) = 4 /\ Units(legs)
    /\ \E pl, ph, cl, ch \in 1 .. 4 :
          /\ {pl, ph, cl, ch} = 1 .. 4
          /\ legs[pl].side = "P" /\ legs[ph].side = "P" /\ Before(legs, pl, ph)
          /\ legs[cl].side = "C" /\ legs[ch].side = "C" /\ Before(legs, cl, ch)
          /\ legs[ph].qty = -legs[pl].qty /\ legs[cl].qty = -legs[pl].qty
          /\ legs[ch].qty = legs[pl].qty
          /\ legs[ph].strike <= legs[cl].strike
          /\ meets = (legs[ph].strike = legs[cl].strike)

_multi_expiry_ticket(legs) ==
    IF Len(legs) = 2 /\ Units(legs) /\ OneSide(legs) /\ legs[1].qty = -legs[2].qty
    THEN IF legs[1].strike = legs[2].strike THEN "CALENDAR" ELSE "DIAGONAL"
    ELSE "CUSTOM"

SingleExpiryTicket(legs) ==
    CASE Len(legs) = 1        -> "NONE"
      [] IsVertical(legs)     -> "VERTICAL"
      [] IsPair(legs)         -> IF legs[1].strike = legs[2].strike
                                 THEN "STRADDLE" ELSE "STRANGLE"
      [] IsButterfly(legs)    -> "BUTTERFLY"
      [] IsCondor(legs)       -> "CONDOR"
      [] IsIron(legs, TRUE)   -> "IRON_BUTTERFLY"
      [] IsIron(legs, FALSE)  -> "IRON_CONDOR"
      [] OTHER                -> "CUSTOM"

classify(legs) ==
    [ticket_name |-> IF MultiExpiry(legs) THEN _multi_expiry_ticket(_reduce_qtys(legs))
                     ELSE SingleExpiryTicket(_reduce_qtys(legs)),
     supported   |-> ~MultiExpiry(legs),
     naked       |-> _is_naked(legs)]

-----------------------------------------------------------------------------
(* strategy_ticket.py.  A ticket is the record of its tokens: a list written *)
(* with slashes is a sequence, CALL and PUT are "C" and "P", an absent token *)
(* is "NONE" or <<>>.                                                        *)
InOrder(S, Precedes(_, _)) ==
    CHOOSE s \in UNION {[1 .. n -> S] : n \in 0 .. MaxLegs} :
        /\ {s[i] : i \in DOMAIN s} = S
        /\ \A i, j \in DOMAIN s : i < j => Precedes(s[i], s[j])

\* Calls first, higher strikes first, otherwise as they stand.
Arranged(legs) ==
    LET order == InOrder(DOMAIN legs, LAMBDA i, j :
                     IF legs[i].side # legs[j].side THEN legs[i].side = "C"
                     ELSE IF legs[i].strike # legs[j].strike
                     THEN legs[i].strike > legs[j].strike ELSE i < j)
    IN  [i \in DOMAIN order |-> legs[order[i]]]

_net_premium(legs) == -Total(LAMBDA l : l.qty * l.premium, legs)

render_ticket(legs, name) ==
    LET order == Arranged(legs)
        each(field) == [i \in DOMAIN order |-> order[i][field]]
    IN  [side     |-> IF _net_premium(legs) < 0 THEN "BUY" ELSE "SELL",
         quantity |-> Spreads(legs),
         ratios   |-> IF name # "CUSTOM" THEN <<>>
                      ELSE [i \in DOMAIN order |->
                               Absolute(order[i].qty) \div Spreads(legs)],
         strategy |-> name,
         dates    |-> IF name = "CUSTOM" THEN each("expiry")
                      ELSE InOrder({legs[i].expiry : i \in DOMAIN legs},
                                   LAMBDA a, b : a < b),
         strikes  |-> CASE name = "STRADDLE" -> <<legs[1].strike>>
                        [] name = "IRON_BUTTERFLY" ->
                              InOrder(_kinks(legs), LAMBDA a, b : a > b)
                        [] OTHER -> each("strike"),
         type     |-> IF name = "CUSTOM" THEN each("side")
                      ELSE IF OneSide(legs) THEN <<legs[1].side>> ELSE <<"C", "P">>,
         price    |-> Absolute(_net_premium(legs)),
         kind     |-> "LMT", duration |-> "NONE", marks |-> <<>>]

-----------------------------------------------------------------------------
(* commands/strategy.py.  asked: the legs as typed, without premiums;        *)
(* priced: the same legs at the nearest strikes of their chains.             *)
Nearest(strikes, k) ==
    {s \in strikes : \A t \in strikes : Absolute(s - k) <= Absolute(t - k)}

\* chain[expiry, side]: the strikes listed.
IsPriced(priced, asked, chain) ==
    /\ DOMAIN priced = DOMAIN asked
    /\ \A i \in DOMAIN asked :
          \E s \in Nearest(chain[asked[i].expiry, asked[i].side], asked[i].strike), m \in Nat :
             priced[i] = [asked[i] EXCEPT !.strike = s, !.premium = m]

\* The envelope.  anchored: the chains gave a spot price and one number of days.
run(asked, priced, anchored) ==
    LET cls == classify(asked)
        shown == cls.supported /\ anchored
        loss == IF shown THEN max_loss(priced) ELSE {}
    IN  [max_profit |-> IF shown THEN max_profit(priced) ELSE {},
         max_loss   |-> loss,
         ticket     |-> render_ticket(priced, cls.ticket_name),
         warnings   |->
            {w \in {"naked_short_call", "naked_short_put", "unlimited_loss"} :
                \/ w = "naked_short_call" /\ cls.naked /\ Net(priced, "C") < 0
                \/ w = "naked_short_put" /\ cls.naked /\ Net(priced, "P") < 0
                \/ w = "unlimited_loss" /\ cls.supported /\ loss = {}}]
=============================================================================

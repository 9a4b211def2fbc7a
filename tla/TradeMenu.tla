----------------------------- MODULE TradeMenu -----------------------------
(***************************************************************************)
(* The trader's menu, src/desk/desks/trader/menu.py: every way to express  *)
(* an idea that the account allows, with its cost and its loss at the      *)
(* stop, from prices (run.py) and the option quotes that came in time      *)
(* (options.py).  The model picks one of them (plan.py).                   *)
(*                                                                         *)
(* Prices of shares and strikes are whole dollars; costs and losses are in *)
(* ten-thousandths of a dollar, to which the code rounds.                  *)
(***************************************************************************)
EXTENDS Integers, Sequences, FiniteSets, FiniteSetsExt

CONSTANTS
    Absent,
    Futures,            \* symbols that begin with a slash
    Stocks,             \* of the tiers and the universe
    Leverage,           \* of the daily-reset funds, by symbol
    Proxies(_),         \* symbols of a subject's proxies, in their order
    Permitted,          \* structures the account allows, "short_shares" as well
    Multiplier,         \* shares per contract
    Far(_, _),          \* for a right and a price, the price OTM_STEP away
    MaxExpiries,        \* 2: expiries that are looked at
    MenuIdeas,          \* bound of the model: [subject, direction, stop, horizon]
    Markets,            \* bound of the model: [price, chain, missing]
    Levels              \* bound of the model: prices of the level menu

\* A price is a mid of two positive sides or a stored close, and never 0.
ASSUME MenuAssumption ==
    /\ \A i \in MenuIdeas : i.stop \in Nat
    /\ \A m \in Markets :
          /\ m.price \in [DOMAIN m.price -> (Nat \ {0}) \cup {Absent}]
          /\ \A i \in MenuIdeas : /\ i.subject \in DOMAIN m.price
                                 /\ Proxies(i.subject) \in Seq(DOMAIN m.price)
          /\ IsFiniteSet(m.chain)
          /\ \A q \in m.chain : {q.strike, q.bid, q.ask} \subseteq Int
    /\ \A s \in DOMAIN Leverage : Leverage[s] \in Nat \ {0}
    /\ Multiplier \in Nat /\ Levels \subseteq Int

Unit == 10000

VARIABLES
    idea, market,
    menu,       \* choices, or Absent before they are built
    plan        \* what the model made of a choice and a target, or Absent

menuVars == <<idea, market, menu, plan>>

MenuInit ==
    /\ idea \in MenuIdeas /\ market \in Markets
    /\ menu = Absent /\ plan = Absent

-----------------------------------------------------------------------------
(* Shares *)

\* priced: the live mid or the last close; Absent when there is neither.
Price(s) == market.price[s]

Entry == Price(idea.subject)

LeverageOf(s) == IF s \in DOMAIN Leverage THEN Leverage[s] ELSE 1

ShareStructure(s) ==
    IF s \in DOMAIN Leverage THEN "levered_etf" ELSE IF s \in Stocks THEN "shares" ELSE "etf"

\* stop_fraction, as a part of Entry.
StopMove == IF idea.direction = "long" THEN Entry - idea.stop ELSE idea.stop - Entry

\* The subject, unless it is a future, and the proxies; those that have a price.
Candidates ==
    (IF idea.subject \in Futures THEN <<>> ELSE <<idea.subject>>) \o Proxies(idea.subject)

Tradeable == {i \in DOMAIN Candidates : Price(Candidates[i]) # Absent}

\* Decimal.quantize: a half goes to the even neighbour.
Quantize(n, d) ==
    LET q == n \div d
        r == 2 * (n % d)
    IN  IF r > d \/ (r = d /\ q % 2 = 1) THEN q + 1 ELSE q

\* Mutation: the leverage of the subject is forgotten.
UnitLossOfPlain(s) == Quantize(Unit * Price(s) * StopMove * LeverageOf(s), Entry)

UnitLoss(s) == Quantize(Unit * Price(s) * StopMove * LeverageOf(s), Entry * LeverageOf(idea.subject))

ShareChoice(s) ==
    [structure |-> ShareStructure(s), instrument |-> s, legs |-> <<>>,
     cost |-> Unit * Price(s), loss |-> Max({UnitLoss(s), 1}), interest |-> Absent]

ShareChoices ==
    {ShareChoice(s) : s \in {t \in {Candidates[i] : i \in Tradeable} :
        /\ ShareStructure(t) \in Permitted
        /\ idea.direction = "short" => "short_shares" \in Permitted}}

-----------------------------------------------------------------------------
(* Options *)

Right == IF idea.direction = "long" THEN "call" ELSE "put"

\* The first of the tradeable that is no leveraged fund.
Underlying == LET plain == {i \in Tradeable : Candidates[i] \notin DOMAIN Leverage}
              IN  IF plain = {} THEN Absent ELSE Candidates[Min(plain)]

\* expiry_window, and the first expiries in it.
InWindow(e) == Max({(idea.horizon * 4) \div 5, 14}) <= e /\ e <= idea.horizon * 2 + 30

Expiries ==
    LET fit == {o.expiry : o \in {c \in market.chain : InWindow(c.expiry)}}
    IN  {e \in fit : Cardinality({f \in fit : f < e}) < MaxExpiries}

Distance(a, b) == IF a > b THEN a - b ELSE b - a

\* min by the distance: the first of those that are as near, in the order of the chain.
Nearest(strikes, price) ==
    CHOOSE k \in strikes : \A l \in strikes :
        Distance(k, price) < Distance(l, price) \/ (Distance(k, price) = Distance(l, price) /\ k <= l)

\* pick_strikes
PickStrikes(strikes, spot) ==
    IF strikes = {} THEN {} ELSE {Nearest(strikes, spot), Nearest(strikes, Far(Right, spot))}

\* candidates: the picked contracts whose quote came in time.
Quotes ==
    UNION {LET options == {o \in market.chain : o.expiry = e /\ o.right = Right}
           IN  {o \in options : /\ o.strike \in PickStrikes({p.strike : p \in options}, Price(Underlying))
                                /\ o \notin market.missing} : e \in Expiries}

TwoSided == {q \in Quotes : q.bid > 0 /\ q.ask > 0}

Leg(q, action) == [action |-> action, right |-> q.right, strike |-> q.strike]

\* The premium is at the mid.
LongOption(q) ==
    LET premium == (Unit * Multiplier * (q.bid + q.ask)) \div 2
    IN  [structure |-> IF q.right = "call" THEN "long_call" ELSE "long_put", instrument |-> q,
         legs |-> <<Leg(q, "buy")>>, cost |-> premium, loss |-> premium, interest |-> q.interest]

\* Mutation: puts are sorted as calls are.
CallNear(group) == CHOOSE q \in group : \A p \in group : q.strike <= p.strike

\* Calls from the lowest strike, puts from the highest.
Near(group) ==
    CHOOSE q \in group : \A p \in group :
        IF q.right = "put" THEN q.strike >= p.strike ELSE q.strike <= p.strike

\* The last in that order; there are two or more.
Farthest(group) ==
    CHOOSE q \in group \ {Near(group)} : \A p \in group \ {Near(group)} :
        IF q.right = "put" THEN q.strike <= p.strike ELSE q.strike >= p.strike

\* The spread of an expiry: the ask is paid and the bid received.
Spread(group) ==
    LET near == Near(group)
        far == Farthest(group)
        debit == Unit * Multiplier * (near.ask - far.bid)
    IN  [structure |-> "debit_spread", instrument |-> [near |-> near, far |-> far],
         legs |-> <<Leg(near, "buy"), Leg(far, "sell")>>, cost |-> debit, loss |-> debit,
         interest |-> IF Absent \in {near.interest, far.interest} THEN Absent
                      ELSE Min({near.interest, far.interest})]

Groups == {g \in {{q \in TwoSided : q.expiry = e} : e \in Expiries} : Cardinality(g) >= 2}

\* option_choices
OptionChoices ==
    {LongOption(q) : q \in TwoSided} \cup {s \in {Spread(g) : g \in Groups} : s.cost > 0}

Wanted == IF Right = "call" THEN "long_call" ELSE "long_put"

-----------------------------------------------------------------------------
(* The menu, and what is picked from it *)

\* build_menu: nothing without a price of the subject or when the stop is crossed.
BuildMenu ==
    /\ menu = Absent
    /\ menu' = IF Entry = Absent THEN {} ELSE IF StopMove <= 0 THEN {}
               ELSE ShareChoices \cup
                    (IF Underlying = Absent \/ Wanted \notin Permitted THEN {}
                     ELSE {c \in OptionChoices : c.structure \in Permitted})
    /\ UNCHANGED <<idea, market, plan>>

\* check_reply: the target lies ahead.
Ahead(t) == IF idea.direction = "long" THEN t > Entry ELSE t < Entry

\* build_plan and plan_input: what the risk desk judges.
PlanInput(c, target) ==
    [subject |-> idea.subject, instrument |-> c.instrument, structure |-> c.structure,
     direction |-> idea.direction, legs |-> c.legs, entry |-> Entry, stop |-> idea.stop,
     target |-> target, cost |-> c.cost, loss |-> c.loss, interest |-> c.interest]

\* plan_idea: a choice of the menu and a target or none.
PickPlan ==
    /\ menu # Absent /\ plan = Absent
    /\ \E c \in menu : \E t \in {l \in Levels : Ahead(l)} \cup {Absent} : plan' = PlanInput(c, t)
    /\ UNCHANGED <<idea, market, menu>>

MenuNext == BuildMenu \/ PickPlan

MenuSpec == MenuInit /\ [][MenuNext]_menuVars

-----------------------------------------------------------------------------
(* Properties *)

\* What a leg is worth at expiry.
Worth(leg, x) ==
    LET value == Max({0, IF leg.right = "call" THEN x - leg.strike ELSE leg.strike - x})
    IN  Unit * Multiplier * (IF leg.action = "buy" THEN value ELSE -value)

Value(legs, x) == Worth(legs[1], x) + IF Len(legs) = 2 THEN Worth(legs[2], x) ELSE 0

\* When the subject falls (or rises) to its stop, a share choice loses what the menu
\* says to half a unit, for the subject's own price has its leverage in it; and whatever
\* the price of its underlying at expiry, an option or a spread never loses more than
\* it, nor does it gain when the price moves against the idea.
LossCovers ==
    menu # Absent => \A c \in menu :
        IF c.legs = <<>>
        THEN LET lost == Unit * Price(c.instrument) * StopMove * LeverageOf(c.instrument)
                 parts == Entry * LeverageOf(idea.subject)
             IN  c.loss = 1 \/ Distance(2 * parts * c.loss, 2 * lost) <= parts
        ELSE \A x \in Levels, y \in Levels :
                /\ Value(c.legs, x) - c.cost >= -c.loss
                /\ x <= y => IF idea.direction = "long"
                             THEN Value(c.legs, x) <= Value(c.legs, y)
                             ELSE Value(c.legs, x) >= Value(c.legs, y)
=============================================================================

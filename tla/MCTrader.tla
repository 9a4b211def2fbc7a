------------------------------ MODULE MCTrader ------------------------------
(***************************************************************************)
(* The trader and risk desks and the scorekeeper for TLC.  They are        *)
(* independent models, and the first state picks one: the desk over two    *)
(* days, the rules by themselves over all plans and open risks, the        *)
(* trader's menus, or the scores.                                          *)
(***************************************************************************)
EXTENDS MCTraderDesk, RiskDesk, TradeMenu, Scorekeeper

CONSTANTS future, etf, levered, draft, thesis, update, trade

VARIABLE side

all == <<side, vars, riskVars, menuVars, scoringVars>>

-----------------------------------------------------------------------------
(* Rules: shares from a price of 10, calls with a quote.                   *)

Prices == {[entry |-> 10, stop |-> s, target |-> t, hard |-> h] :
              s \in {Missing, 8, 12}, t \in {Missing, 13}, h \in {Missing, 8}}

OptionQuotes ==
    {[spread |-> Missing, interest |-> 100], [spread |-> 10, interest |-> 99],
     [spread |-> 10, interest |-> 100], [spread |-> 11, interest |-> 100]}

Events == {[earnings |-> {}, named |-> FALSE, review |-> 3],
           [earnings |-> {3}, named |-> FALSE, review |-> 3],
           [earnings |-> {3}, named |-> TRUE, review |-> 3],
           [earnings |-> {3}, named |-> FALSE, review |-> Missing]}

Plans ==
    {[subject |-> s, instrument |-> i, structure |-> t, direction |-> d, conviction |-> c,
      loss |-> l, cost |-> 20, today |-> 1] @@ price @@ quote @@ event :
        s \in {miner, other}, i \in {miner, other}, t \in {"shares", "long_call"},
        d \in {"long", "short"}, c \in {2, 3, 5}, l \in {0, 1, 2, 7},
        price \in Prices, quote \in OptionQuotes, event \in Events}

\* All plans against no open risk; and those that pass every check but those of the
\* size, for the others are of no account there, against every open risk.
MCCases ==
    (Plans \X {NoRisk})
    \cup ({p \in Plans : Sound(p)} \X [total : 0 .. 9, bucket : [Buckets -> 0 .. 6]])

-----------------------------------------------------------------------------
(* Menus *)

\* A leveraged fund, in which a share and a future can be held as well.
MCProxies(s) ==
    IF s = future THEN <<etf, levered>> ELSE IF s = other THEN <<levered>> ELSE <<>>

MCFar(right, price) == IF right = "call" THEN price + 2 ELSE price - 2

MCLeverage == levered :> 3

MCMenuIdeas ==
    [subject : {other, levered, future}, direction : {"long", "short"}, stop : {6, 8, 11},
     horizon : {20}]

Contract(right, strike, expiry, bid, ask, interest) ==
    [right |-> right, strike |-> strike, expiry |-> expiry, bid |-> bid, ask |-> ask,
     interest |-> interest]

\* Two expiries in the window and one outside; a quote with one side.
Chain ==
    {Contract("call", 9, 20, 1, 2, 50), Contract("call", 11, 20, 1, 1, Absent),
     Contract("put", 9, 20, 2, 3, 50), Contract("put", 7, 20, 1, 1, 10),
     Contract("put", 8, 60, 2, 5, 10), Contract("put", 10, 60, 4, 5, 20),
     Contract("call", 9, 60, 0, 2, 50), Contract("call", 11, 60, 1, 2, 10),
     Contract("call", 9, 90, 3, 4, 50)}

MCMarkets ==
    {[price |-> other :> a @@ levered :> b @@ future :> 9 @@ etf :> c, chain |-> Chain,
      missing |-> m] :
        a \in {Absent, 9}, b \in {Absent, 7, 10}, c \in {Absent, 10},
        m \in {{}, {Contract("call", 9, 20, 1, 2, 50)}}}

-----------------------------------------------------------------------------
(* Scores: Jon's draft, the version he confirms, a later version of it and *)
(* a plan for it.                                                          *)

MCKind == [i \in {draft, thesis, update, trade} |-> IF i = trade THEN "plan" ELSE "thesis"]
MCOf == draft :> None @@ thesis :> draft @@ update :> thesis @@ trade :> thesis

\* The target and the stop of the plan are both reached on the second day.
MCTerms == [i \in {draft, thesis, update, trade} |-> [sign |-> 1, entry |-> 6, stop |-> 3, target |-> 9]]

MCBar ==
    0 :> [day |-> 0, low |-> 5, high |-> 6, close |-> 6]
    @@ 1 :> [day |-> 1, low |-> 4, high |-> 8, close |-> 7]
    @@ 2 :> [day |-> 2, low |-> 3, high |-> 9, close |-> 5]

MCDate == [d \in 0 .. 2 |-> d]

Fill(sign, days) == [side |-> sign, quantity |-> 1, days |-> days]

MCExecutions == <<Fill(1, {1}), Fill(-1, {2})>>

-----------------------------------------------------------------------------

NoRules == proposal = Absent /\ exposure = Absent /\ decision = {}
NoMenus == idea = Absent /\ market = Absent /\ menu = Absent /\ plan = Absent

MCInit ==
    /\ Init /\ ScoringInit
    /\ \/ side \in {"desk", "scores"} /\ NoRules /\ NoMenus
       \/ side = "rules" /\ RiskInit /\ NoMenus
       \/ side = "menus" /\ NoRules /\ MenuInit

\* What has decided, planned or scored is done.
Done == side # "desk" /\ UNCHANGED <<vars, riskVars, menuVars, scoringVars>>

MCNext ==
    /\ UNCHANGED side
    /\ \/ side = "desk" /\ Next /\ UNCHANGED <<riskVars, menuVars, scoringVars>>
       \/ side = "rules" /\ Decide /\ UNCHANGED <<vars, menuVars, scoringVars>>
       \/ side = "menus" /\ MenuNext /\ UNCHANGED <<vars, riskVars, scoringVars>>
       \/ side = "scores" /\ ScoringNext /\ UNCHANGED <<vars, riskVars, menuVars>>
       \/ Done

\* Scorekeeper!Fairness, of the scores.
MCFairness ==
    /\ WF_all(side = "scores" /\ DayEnds /\ UNCHANGED <<side, vars, riskVars, menuVars>>)
    /\ []<>(side = "scores" => run["shift"] = "idle")
    /\ []<>(side = "scores" => run["shift"] # "idle")

MCSpec == MCInit /\ [][MCNext]_all /\ MCFairness
=============================================================================

------------------------------- MODULE MCFeeds -------------------------------
(***************************************************************************)
(* From the feeds to the ratings, for TLC: the stream of quotes, the       *)
(* collectors, the research and fact check desks and the analyst desk.     *)
(* They are independent models, and the first state picks the one that     *)
(* moves; the analyst desk has holdings or theses, which it treats one     *)
(* after the other and apart from each other.                              *)
(***************************************************************************)
EXTENDS MCQuoteStream, Collectors, Evidence, AnalystDesk

CONSTANTS jons, desks

VARIABLE side

all == <<side, vars, collectorsVars, evidenceVars, analystVars>>

-----------------------------------------------------------------------------
(* Two feeds that share filings, and a broker that a second process        *)
(* collects as well.                                                       *)

MCTasks ==
    {<<"service", "feed">>, <<"service", "company">>,
     <<"only", "broker">>, <<"service", "broker">>}

MCBatches ==
    [feed |-> {[records |-> <<"a", "b">>, fills |-> {}]},
     company |-> {[records |-> <<"b", "a">>, fills |-> {}]},
     broker |-> {[records |-> <<>>, fills |-> {"f"}]}]

-----------------------------------------------------------------------------
(* Claims: sound ones and loose ones, and moves of the market; a text that *)
(* refers to a claim there is not.                                         *)

\* A number of the reasons is in a claim, and another in none.
MCSubjects == <<[symbol |-> "share", kind |-> "play", reasons |-> <<{1}, {7}>>]>>

Plain == [digits |-> {1}, sound |-> TRUE, asof |-> -1, right |-> TRUE, dated |-> TRUE]
Loose == [Plain EXCEPT !.digits = {2}, !.sound = FALSE]
MarketMove == [Plain EXCEPT !.digits = {3}, !.asof = 1, !.right = FALSE]

Sentence(digits, refs) == [digits |-> digits, refs |-> refs]

MCDrafts ==
    {[claims |-> <<Plain>>, text |-> <<Sentence({1}, {1})>>],
     [claims |-> <<Plain>>, text |-> <<Sentence({1}, {2})>>],
     [claims |-> <<[MarketMove EXCEPT !.asof = 0]>>, text |-> <<>>],
     [claims |-> <<[MarketMove EXCEPT !.dated = FALSE]>>, text |-> <<>>],
     [claims |-> <<Loose>>, text |-> <<Sentence({2}, {1})>>]}
    \cup
    {[claims |-> <<Loose, MarketMove, Plain>>, text |-> <<Sentence(d, r), Sentence({}, {})>>] :
        d \in {{1}, {1, 2}}, r \in SUBSET {1, 3}}

\* Thursday, Friday and, after the weekend, Monday.
MCShiftDays == {0, 1, 4}

-----------------------------------------------------------------------------
(* A daily-reset fund with an option that expires on the second day, and   *)
(* another on the fourth; and a share that is a third of one account or,   *)
(* as small, of another.                                                   *)

MCOrder == <<"fund", "stock">>
MCFunds == {"fund"}

Position(symbol, share, expiry) == [symbol |-> symbol, share |-> share, expiry |-> expiry]

MCPortfolios ==
    {{}, {Position("fund", 1, None)}, {Position("stock", 3, None)},
     {Position("stock", 1, 2), Position("stock", 1, 4)}}

MCAccounts == {"account"}
MCChains == {jons, desks}
MCJons == {jons}

-----------------------------------------------------------------------------

MCInit ==
    /\ Init /\ CollectorsInit /\ EvidenceInit /\ AnalystInit
    /\ side \in {"stream", "collectors", "evidence", "holdings", "theses"}

\* Only the stream never ends.
Done == side # "stream" /\ UNCHANGED <<vars, collectorsVars, evidenceVars, analystVars>>

MCNext ==
    /\ UNCHANGED side
    /\ \/ /\ side = "stream" /\ Next
          /\ UNCHANGED <<collectorsVars, evidenceVars, analystVars>>
       \/ /\ side = "collectors" /\ CollectorsNext
          /\ UNCHANGED <<vars, evidenceVars, analystVars>>
       \/ /\ side = "evidence" /\ EvidenceNext
          /\ UNCHANGED <<vars, collectorsVars, analystVars>>
       \/ /\ side = "holdings" /\ UNCHANGED thesis /\ AnalystNext /\ day' <= 2
          /\ UNCHANGED <<vars, collectorsVars, evidenceVars>>
       \/ /\ side = "theses" /\ UNCHANGED snapshot /\ AnalystNext
          /\ UNCHANGED <<vars, collectorsVars, evidenceVars>>
       \/ Done

MCSpec == MCInit /\ [][MCNext]_all
=============================================================================

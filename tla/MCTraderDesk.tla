--------------------------- MODULE MCTraderDesk ---------------------------
(***************************************************************************)
(* TraderDesk for TLC: shares of a miner and of a company outside every    *)
(* bucket, by themselves and through an exchange-traded fund of miners.    *)
(***************************************************************************)
EXTENDS TraderDesk, TLC

CONSTANTS miner, fund, other, i1, i2, i3

MCBucketOf == miner :> "metals" @@ fund :> "metals" @@ other :> NoBucket
MCTierPct == "shares" :> 5 @@ "etf" :> 5 @@ "long_call" :> 2
MCScalePct == <<0, 0, 50, 75, 100>>

Choice(subject, instrument, structure, conviction, loss) ==
    [subject |-> subject, instrument |-> instrument, structure |-> structure,
     direction |-> "long", conviction |-> conviction, loss |-> loss, cost |-> 10,
     entry |-> 10, stop |-> 8, target |-> Missing, hard |-> Missing,
     spread |-> Missing, interest |-> Missing,
     earnings |-> {}, named |-> FALSE, today |-> 0, review |-> Missing]

\* The subject's own name or a fund of its bucket; for a subject outside every bucket,
\* the fund of one too, an instrument of its thesis.
MCMenu ==
    i1 :> {Choice(miner, miner, "shares", 5, 3), Choice(miner, fund, "etf", 5, 2)}
    @@ i2 :> {Choice(miner, fund, "etf", 5, 2), Choice(miner, miner, "shares", 2, 1)}
    @@ i3 :> {Choice(other, other, "shares", 5, 1), Choice(other, fund, "etf", 5, 2)}

MCSnapshots == {NoRisk, [total |-> 1, bucket |-> [b \in Buckets |-> 1]]}
=============================================================================

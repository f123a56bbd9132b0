------------------------- MODULE MCPointProcessor --------------------------
(***************************************************************************)
(* Instances of PointProcessor.  With Period = 2 the clock runs through    *)
(* three periods; pages hold two bets, so that three bets take two pages.  *)
(***************************************************************************)
EXTENDS PointProcessor, TLC

CONSTANTS b1, b2, b3, r1, r2

MCCriteria == <<1, 2, 2>>
MCTimeframe == [b \in Bets |-> IF b = b1 THEN 0 ELSE IF b = b2 THEN 3 ELSE 1]
MCPosition == [b \in Bets |-> IF b = b2 THEN "Bear" ELSE "Bull"]
MCMarket == [b \in Bets |-> IF b = b1 THEN "BTCUSD" ELSE "ETHUSD"]

\* Three bets: in one period and the next, with a period between, at the end
\* of the first season and in the second; b2 and b3 may share a second, where a
\* page may end.
MCEndTimes ==
    IF Bets = {b1, b2, b3}
    THEN {(b1 :> t[1]) @@ (b2 :> t[2]) @@ (b3 :> t[3]) :
            t \in {<<1, 2, 4>>, <<2, 3, 4>>, <<1, 4, 4>>}}
    ELSE [Bets -> 1..MaxTime]

\* What setNewSeason is asked for: a season may be over before it is set, be set
\* again, or overlap the one before it or times that were processed already.
MCSeasonTimes == {<<0, 3>>, <<1, 4>>}

\* Once setNewSeason has run beside the cron the properties promise nothing.
\* The first season is 0..3, the second is 0..3 again or 1..4.
MCUndisturbed == ~disturbed /\ season[1].end = 3

=============================================================================

------------------------- MODULE MCCandleTimeline --------------------------
(***************************************************************************)
(* Instances of CandleTimeline: the wall clock runs through minutes 1 to   *)
(* LastMinute, so that candles 0 to LastMinute - 1 are written.            *)
(***************************************************************************)
EXTENDS CandleTimeline, TLC

CONSTANTS btc, eth, p1, api1, api2

MCSymmetry == Permutations(Symbols)

=============================================================================

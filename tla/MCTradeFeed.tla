---------------------------- MODULE MCTradeFeed ----------------------------
(***************************************************************************)
(* An instance of TradeFeed: two symbols, any of the four exchanges.       *)
(***************************************************************************)
EXTENDS TradeFeed, TLC

CONSTANTS btc, eth

MCSymbols == {btc, eth}
MCSymmetry == Permutations(MCSymbols)

=============================================================================

------------------------- MODULE MCRoundExecution -------------------------
(***************************************************************************)
(* Two symbols with one market each, the first on an InEVM network.        *)
(***************************************************************************)
EXTENDS RoundExecution, TLC

CONSTANTS btc, eth, inevm, arbitrum, binance, kraken, okx

MCSymbols == {btc, eth}
MCMarkets == {inevm, arbitrum}
MCSymbolOf == [m \in MCMarkets |-> IF m = inevm THEN btc ELSE eth]
MCInEVM == {inevm}

\* A smaller instance with more endpoints.
MCOneSymbol == {btc}
MCOneMarket == {inevm}
MCOneSymbolOf == [m \in MCOneMarket |-> btc]

\* Bound: the repair pass of the minute before loses one exchange at most.
MCRepairBound == missingDataProviderStatuses \subseteq {Binance}

\* Only Binance is treated apart.
MCSymmetry == Permutations({kraken, okx})
=============================================================================

------------------------- MODULE MCExchangeBinding -------------------------
(***************************************************************************)
(* Instances of ExchangeBinding: three exchanges and two symbols, one of   *)
(* which, as on Kraken, is not listed everywhere.                          *)
(***************************************************************************)
EXTENDS ExchangeBinding, TLC

CONSTANTS binance, kraken, okx, btc, bnb

MCListed == {<<binance, btc>>, <<binance, bnb>>, <<kraken, btc>>, <<okx, btc>>}

MCAllListed == {binance, kraken, okx} \X {btc, bnb}
=============================================================================

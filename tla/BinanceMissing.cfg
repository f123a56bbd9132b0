\* A symbol whose Binance candle is missing is written without a known profit.
SPECIFICATION Spec
CONSTANTS
    btc = btc
    eth = eth
    inevm = inevm
    arbitrum = arbitrum
    binance = binance
    kraken = kraken
    okx = okx
    Symbols <- MCSymbols
    CheckedSymbols <- MCSymbols
    Markets <- MCMarkets
    SymbolOf <- MCSymbolOf
    InEVM <- MCInEVM
    DataProviders = {binance, kraken, okx}
    Binance = binance
    RpcCount = 2
    NoRecord = NoRecord
    Carried = Carried
INVARIANTS
    BinanceMissingNeedsProfit

\* One market and three endpoints, with fairness: refinement and progress.
SPECIFICATION FairSpec
CONSTANTS
    btc = btc
    eth = eth
    inevm = inevm
    arbitrum = arbitrum
    binance = binance
    kraken = kraken
    okx = okx
    Symbols <- MCOneSymbol
    CheckedSymbols <- MCOneSymbol
    Markets <- MCOneMarket
    SymbolOf <- MCOneSymbolOf
    InEVM <- MCInEVM
    DataProviders = {binance, kraken, okx}
    Binance = binance
    RpcCount = 3
    NoRecord = NoRecord
    Carried = Carried
INVARIANTS
    EndpointsOnce
PROPERTIES
    ImplementsPriceWriting
    HalfTried
    JobsRunDown
    MinuteCompletes

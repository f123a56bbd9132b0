\* Two symbols, each with a market on a network of its own kind.
SPECIFICATION Spec
CONSTANTS
    btc = btc
    eth = eth
    inevm = inevm
    arbitrum = arbitrum
    binance = binance
    kraken = kraken
    okx = okx
    Symbols <- MCSymbols
    CheckedSymbols <- MCSymbols
    Markets <- MCMarkets
    SymbolOf <- MCSymbolOf
    InEVM <- MCInEVM
    DataProviders = {binance, kraken, okx}
    Binance = binance
    RpcCount = 2
    NoRecord = NoRecord
    Carried = Carried
INVARIANTS
    TypeOK
    NoWriteWithoutQuorum
    GuardOutlivesAwaits
    RecordedStatuses
SYMMETRY MCSymmetry
CONSTRAINT MCRepairBound

\* One exchange of four, two symbols, three trades over two minutes, one
\* connection closed.
SPECIFICATION Spec
CONSTANTS
    btc = btc
    eth = eth
    Symbols <- MCSymbols
    Exchanges = {"Binance", "Kraken", "OKX", "ByBit"}
    MinuteLength = 2
    MaxTime = 3
    MaxTrades = 3
    MaxCloses = 1
SYMMETRY MCSymmetry
INVARIANTS
    TypeOK
    VolumeOfMinute
    QueueDrained
PROPERTIES
    LastTradeAdvances
    ZeroOnlyWhenOvertaken
\* the clock stops at MaxTime
CHECK_DEADLOCK FALSE

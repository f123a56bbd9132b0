\* Safety and progress of a minute's binding, over and over.
SPECIFICATION FairSpec
CONSTANTS
    binance = binance
    kraken = kraken
    okx = okx
    btc = btc
    bnb = bnb
    Providers = {binance, kraken, okx}
    Symbols = {btc, bnb}
    Listed <- MCListed
    Hasty = {okx}
    MaxTry = 2
INVARIANTS
    TypeOK
    AbsentListed
PROPERTY
    BindingEnds

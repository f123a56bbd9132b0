\* Two chart requests and a repair pass on one symbol.
SPECIFICATION Spec
CONSTANTS
    btc = btc
    p1 = p1
    eth = eth
    api1 = api1
    api2 = api2
    Symbols = {btc}
    LastMinute = 4
    Passes = {p1}
    Requests = {api1, api2}
    Resolutions = {2, 3}
    NoCandle = NoCandle
    NoMinute = NoMinute
PROPERTY CloneOnlyMissing
CHECK_DEADLOCK FALSE

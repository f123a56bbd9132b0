\* Two symbols, one repair pass at a time (it may overlap the next minute's
\* tasks) and a chart request.
SPECIFICATION Spec
CONSTANTS
    btc = btc
    eth = eth
    p1 = p1
    api1 = api1
    api2 = api2
    Symbols = {btc, eth}
    LastMinute = 4
    Passes = {p1}
    Requests = {api1}
    Resolutions = {2, 3}
    NoCandle = NoCandle
    NoMinute = NoMinute
SYMMETRY MCSymmetry
INVARIANTS
    TypeOK
    CandlesJoin
    SettledPriceStands
    ChartJoins
    ChartOfIntervals
\* the wall clock stops at LastMinute
CHECK_DEADLOCK FALSE

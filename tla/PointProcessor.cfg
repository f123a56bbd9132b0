\* Three bets at any times, two seasons, a run that may fail or stop anywhere.
SPECIFICATION Spec
CONSTANTS
    b1 = b1
    b2 = b2
    b3 = b3
    r1 = r1
    r2 = r2
    Bets = {b1, b2, b3}
    Runs = {r1}
    Timeframe <- MCTimeframe
    Position <- MCPosition
    Market <- MCMarket
    EndTimes <- MCEndTimes
    PageSize = 2
    MaxErrors = 0
    Period = 2
    Criteria <- MCCriteria
    SeasonTimes <- MCSeasonTimes
    MaxTime = 4
    MaxSeasons = 2
    MaxTorn = 1
CONSTRAINT MCUndisturbed
INVARIANTS
    TypeOK
    CountedOnce
    NothingSkipped
    CountersOfHistory
    AwardsFinal
\* the clock stops at MaxTime
CHECK_DEADLOCK FALSE

\* Two affiliates with a referee each, three bets at any times, and a run that
\* may fail or stop anywhere.
SPECIFICATION Spec
CONSTANTS
    ann = ann
    bob = bob
    amy = amy
    ben = ben
    Bets = {1, 2, 3}
    Referees = {ann, bob}
    Affiliates = {amy, ben}
    AffiliateOf <- MCAffiliateOf
    Bettor <- MCBettor
    PageSize = 2
    MaxErrors = 1
    WeekAmount = 2
    Eligible <- MCEligible
    MaxTime = 3
    NoRow = NoRow
INVARIANTS
    TypeOK
    CreditedOnce
    PassedIsPaid
    TierEarned
\* the clock stops at MaxTime
CHECK_DEADLOCK FALSE

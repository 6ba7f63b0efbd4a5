SPECIFICATION MCSpec
CONSTANTS
    Referral = {r1}
    Own = r1
    Onboarder = {c1, c2}
    Payer = {p1, p2}
    None = None
    NoRow = NoRow
    MaxRows = 2
    MaxTxns = 3
    BatchSize = 2
    MaxFaults = 1
SYMMETRY CallSymmetry
INVARIANTS
    PaidAtMostOnce
    NoFalseNews
    CashbackBounded
    ActiveIsLatestInTurn
    TierMatchesOutcomeInTurn
    OneCashbackInTurn
    OutcomeIsRewarded
PROPERTIES
    SkippedIsFinalForOTP
CHECK_DEADLOCK FALSE

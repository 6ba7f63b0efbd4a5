SPECIFICATION WorkerSpec
CONSTANTS
    Referral = {r1}
    Own = r1
    Onboarder = {c1, c2}
    Payer = {p1}
    None = None
    NoRow = NoRow
    MaxRows = 2
    MaxTxns = 2
    BatchSize = 1
    MaxFaults = 0
INVARIANT
    OneCashbackPerReferral
CHECK_DEADLOCK FALSE

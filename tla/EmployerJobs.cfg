SPECIFICATION Spec
CONSTANTS
    MaxJobs = 5
    Caller = {c1, c2, c3}
    NoJob = NoJob
    Limit = 2
SYMMETRY CallerSymmetry
INVARIANTS
    OvershootBounded
CHECK_DEADLOCK FALSE

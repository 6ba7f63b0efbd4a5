SPECIFICATION Spec
CONSTANTS
    p1 = p1
    p2 = p2
    p3 = p3
    k1 = k1
    k2 = k2
    k3 = k3
    Phone = {p1, p2, p3}
    Code = {k1, k2, k3}
    OwnCode <- Shared
    Request = {c1, c2}
    None = None
    MaxFaults = 1
SYMMETRY SharedSymmetry
INVARIANTS
    ReferralMatchesCode
    NoReferralCircle
CHECK_DEADLOCK FALSE

SPECIFICATION Spec
CONSTANTS
    Message = {m1}
    Identified = {m1}
    Handler = {h1}
    NoMessage = NoMessage
    GatewayRefuses = TRUE
    MaxFaults = 0
INVARIANTS
    TierAsTold
CHECK_DEADLOCK FALSE

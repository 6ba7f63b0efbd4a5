SPECIFICATION MCSpec
CONSTANTS
    Message = {m1}
    Identified = {m1}
    Handler = {h1, h2}
    NoMessage = NoMessage
    GatewayRefuses = TRUE
    MaxFaults = 1
INVARIANTS
    ConversationBehindProfile
    TierAsToldUnlessRefused
PROPERTIES
    EveryMessageIsAcknowledged
CHECK_DEADLOCK FALSE

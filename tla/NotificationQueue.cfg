SPECIFICATION FairSpec
CONSTANTS
    MaxEvents = 3
    Worker = {w1, w2}
    NoEvent = NoEvent
    BatchSize = 2
    MaxAttempts = 2
    MaxFaults = 1
INVARIANTS
    TypeOK
    ExclusiveClaim
    BoundedDelivery
    
PROPERTIES
    ClaimsOldestFirst
    KeepsPromise
    EveryEventSettles
    EveryEventIsTaken
CHECK_DEADLOCK FALSE

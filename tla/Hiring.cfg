SPECIFICATION MCSpec
CONSTANTS
    App = App
    NoApp = NoApp
    MaxSlots = 6
    Request = {r0, r1, r2, r3}
    Applicant = r0
    NoRequest = NoRequest
    NoSlot = NoSlot
    OfferSize = 3
    Given = {"Applied", "Rejected"}
    MaxFaults = 1
INVARIANTS
    OneWinnerPerSlot
    OneConfirmedPerOffer
    AnswerIsTrue
    EveryChangeIsToldOnce
    NewsInOrderInTurn
PROPERTIES
    SettledSlotsStay
    KeepsPromise
    TellsNews
    EveryRequestEnds
CHECK_DEADLOCK FALSE

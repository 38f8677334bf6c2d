SPECIFICATION Spec
CONSTANTS
    r1 = r1
    r2 = r2
    d1 = d1
    d2 = d2
    d3 = d3
    None = None
    Request <- OneRequest
    Driver <- ThreeDrivers
    MaxAnswers = 1
    MayCancel <- OneRequest
    StatusWrites <- NoStatus
    Faults <- AllFaults
INVARIANTS
    TypeOK
    AcceptExcludesOthers
    TimerHasOpenOffer
    ExpiredHasNoTrip
    TripOnlyForOfferedDriver
PROPERTIES
    MatchedIsFinalWord
    ImplementsOfferProtocol

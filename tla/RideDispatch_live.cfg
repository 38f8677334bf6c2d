SPECIFICATION FairSpec
CONSTANTS
    r1 = r1
    r2 = r2
    d1 = d1
    d2 = d2
    d3 = d3
    None = None
    Request <- OneRequest
    Driver <- TwoDrivers
    MaxAnswers = 1
    MayCancel <- OneRequest
    StatusWrites <- OnOff
    Faults <- NoFault
INVARIANTS
    PendingRequestIsDriven
    BusyHasTrip
    TripIsAnnounced
PROPERTIES
    EveryRequestSettles
    PendingRequestsDrain

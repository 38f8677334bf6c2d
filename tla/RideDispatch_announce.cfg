SPECIFICATION Spec
CONSTANTS
    r1 = r1
    r2 = r2
    d1 = d1
    d2 = d2
    d3 = d3
    None = None
    Request <- OneRequest
    Driver <- TwoDrivers
    MaxAnswers = 2
    MayCancel <- NoRequest
    StatusWrites <- NoStatus
    Faults <- NoFault
INVARIANTS
    TripIsAnnounced

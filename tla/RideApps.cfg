SPECIFICATION AppsSpec
CONSTANTS
    r1 = r1
    r2 = r2
    d1 = d1
    None = None
    Request <- TwoRequests
    Driver <- OneDriver
    MaxAnswers = 2
    MayCancel <- NoRequest
    StatusWrites <- OnOff
    Faults <- NoFault
    OfferSeconds = 2
    MaxChanges = 1
    Ends <- EachEnd
INVARIANTS
    AppsTypeOK
    OneAnswerUnlessOrphaned
    SilenceIsVisible
    MatchedScreenHasTrip
    SecondSearchMeansAbandoned
    SpinnerIsServed
PROPERTIES
    RideIsKept

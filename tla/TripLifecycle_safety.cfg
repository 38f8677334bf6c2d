SPECIFICATION Spec
CONSTANTS
    t1 = t1
    t2 = t2
    d1 = d1
    rider = rider
    driver = driver
    None = None
    Trip <- TwoTrips
    Driver <- OneDriver
    Caller <- BothSides
    StatusWrites <- OnOff
    Faults <- AllFaults
INVARIANTS
    TypeOK
    StagesInOrder
    BusyHasOpenTrip
SYMMETRY Symmetric

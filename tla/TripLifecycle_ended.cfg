SPECIFICATION Spec
CONSTANTS
    t1 = t1
    t2 = t2
    d1 = d1
    rider = rider
    driver = driver
    None = None
    Trip <- OneTrip
    Driver <- OneDriver
    Caller <- BothSides
    StatusWrites <- NoStatus
    Faults <- NoFault
PROPERTIES
    EndedIsFinal
CHECK_DEADLOCK FALSE

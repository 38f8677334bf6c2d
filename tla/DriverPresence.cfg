SPECIFICATION FairSpec
CONSTANTS
    Place <- Road
    GeoRange <- Mapped
    Threshold = 2
    Absent = Absent
    MaxUpdates = 2
    MaxSessions = 1
    MaxRemovals = 1
    MaxFaults = 2
INVARIANTS
    TypeOK
    PositionIsFresh
PROPERTIES
    PositionCatchesUp
    SendingDriverIsFound
    SilentDriverIsForgotten

CONSTANTS
    s1 = s1
    StationIds <- OneStation
    MaxAircraft = 2
    MaxStations = 1
    MaxAdvance = 2
    HistoryLimit = 4
    ReceptionHistoryLimit = 2
    MaxBatchFrames = 6
    MaxAddress = 3
    MaxElapsed = 3
    MaxDuration = 6
    Interval <- SomeInterval
    Distance <- SomeDistance
    Fraction <- SomeFraction
    Configs <- SomeConfigs
    Durations <- SomeDurations
    RealDurations <- SomeRealDurations
    Speeds <- SomeSpeeds
    MaxRevision = 2
    MaxCPRAge = 1
    Lifetime <- SomeLifetime
    SameZone <- SomeZone

SPECIFICATION Spec

INVARIANTS
    IInv
PROPERTIES
    MutatesAtomically
    NeverGoesBack

CONSTANTS
    s1 = s1
    s2 = s2
    StationIds <- TwoStations
    MaxAircraft = 2
    MaxStations = 2
    MaxAdvance = 3
    HistoryLimit = 4
    ReceptionHistoryLimit = 2
    MaxBatchFrames = 12
    MaxAddress = 2
    MaxElapsed = 3
    MaxDuration = 8
    Interval <- SomeInterval
    Distance <- SomeDistance
    Fraction <- SomeFraction
    Configs <- SomeConfigs
    Durations <- SomeDurations
    RealDurations <- SomeRealDurations
    Speeds <- SomeSpeeds
    MaxRevision = 2
    MaxCPRAge = 1
    Lifetime <- SomeLifetime
    SameZone <- SomeZone

SPECIFICATION TwinsSpec

SYMMETRY StationSymmetry

INVARIANTS
    SplittingIsInvisible
    StreamsAreIndependent
    EngineInv
    SnapshotsAreAccepted
PROPERTIES
    IdentitiesAreForLife

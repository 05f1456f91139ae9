CONSTANTS
    c1 = c1
    c2 = c2
    s1 = s1
    Runner = Runner
    Free = Free
    Callers <- TwoCallers
    StationIds <- OneStation
    Commands <- SpeedCommands
    MaxSpeed = 130
    MaxAircraft = 1
    MaxStations = 1
    MaxAdvance = 2
    MaxCatchUp = 2
    MaxElapsed = 4
    MaxNow = 2
    MaxRevision = 2
    InitialSpeeds <- StartSpeeds
    Monotonic = TRUE

SPECIFICATION FairSpec

INVARIANTS
    EffectInsideCall
PROPERTIES
    CatchesUp
    CallsReturn

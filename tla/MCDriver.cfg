CONSTANTS
    c1 = c1
    c2 = c2
    s1 = s1
    Runner = Runner
    Free = Free
    Callers <- OneCaller
    StationIds <- OneStation
    Commands <- AllCommands
    MaxSpeed = 250
    MaxAircraft = 1
    MaxStations = 1
    MaxAdvance = 3
    MaxCatchUp = 5
    MaxElapsed = 7
    MaxNow = 3
    MaxRevision = 2
    InitialSpeeds <- StartSpeeds
    Monotonic = FALSE

SPECIFICATION Spec

INVARIANTS
    IInv
    ChunksFit
    OnlyReservedIdSettles
PROPERTIES
    PacesExactly
    StoppedIsFinal

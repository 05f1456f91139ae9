CONSTANTS
    s1 = s1
    s2 = s2
    c1 = c1
    c2 = c2
    NoCall = NoCall
    NoHistory = NoHistory
    StationIds <- TwoStations
    Calls <- TwoCalls
    RetentionLimit = 2
    PageSize = 1
    MaxRecords = 2
    MaxGapRows = 1
    MaxRun = 2
    MaxSequence = 6
    MaxGeneration = 4

SPECIFICATION Spec

SYMMETRY ReaderSymmetry

INVARIANTS
    InspectorInv
    NoSilentSkip
    MissingIsAccounted
    ProtocolAgrees

\* The user may stop, and nothing is then owed.
CHECK_DEADLOCK FALSE

CONSTANTS
    s1 = s1
    k1 = k1
    t1 = t1
    t2 = t2
    NoEntry = NoEntry
    NoForm = NoForm
    NoCall = NoCall
    NoText = NoText
    StationIds <- OneStation
    Controls <- OneControl
    Texts <- OneText
    MaxRun = 2
    MaxRevision = 2
    MaxCommands = 2

SPECIFICATION Spec

INVARIANT
    NothingWaitsForNothing

CONSTANTS
    c1 = c1
    c2 = c2
    s1 = s1
    Nothing = Nothing
    Clients <- TwoClients
    StationIds <- OneStation
    Selections <- AllOrNone
    MaxRun = 2
    MaxNow = 1
    MaxSequence = 1

SPECIFICATION FairSpec

INVARIANTS
    IInv
    OneRunAtATime
    OwnSelectionOnly
PROPERTIES
    NeverShowsOlder
    EveryCallEnds

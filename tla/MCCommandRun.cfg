SPECIFICATION FairCommandSpec
\* A command exits.
CHECK_DEADLOCK FALSE
CONSTANTS
    r1 = r1
    r2 = r2
    Requests <- TwoRequests
    Stations <- TwoStations
    ConfiguredSpeed = 3
    MaxNow = 3
INVARIANTS
    CommandInv
    NilIsCleanStop
PROPERTIES
    CommandExits

SPECIFICATION FairSpec
\* A destroyed page is at rest.
CHECK_DEADLOCK FALSE
CONSTANTS
    s1 = s1
    s2 = s2
    k1 = k1
    k2 = k2
    a1 = a1
    NoAircraft = NoAircraft
    Aircraft <- OneAircraft
    NoCycle = NoCycle
    NoView = NoView
    Selections <- TwoSelections
    InitialSelection <- FirstSelection
    Cycles <- TwoCycles
    MaxRun = 2
    MaxGeneration = 2
INVARIANTS
    PollerInv
    ViewIsCoherent
PROPERTIES
    NeverShowsOlderRun
    
    DestroyedIsFinal
    Converges

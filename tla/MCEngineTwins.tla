----------------------------- MODULE MCEngineTwins ----------------------------
(***************************************************************************)
(* A small instance of EngineTwins for TLC.                                *)
(***************************************************************************)
EXTENDS EngineTwins

CONSTANTS s1, s2

TwoStations == {s1, s2}

SomeInterval(n, k, i) == IF k = 1 THEN 3 + ((n + i) % 2) ELSE 1 + ((n + k + i) % 2)

SomeDistance(n, t) == IF n = 1 THEN 0 ELSE t % 2

SomeFraction(n, i) == (n + i) % 2

SomeConfigs == {Config(TRUE, 0, 0), Config(TRUE, 1, 1), Config(FALSE, 1, 0)}

SomeDurations     == {2}
SomeRealDurations == {3}
SomeSpeeds        == {50, 130}

SomeLifetime == [field \in Fields |-> IF field = "position" THEN 1 ELSE 2]

SomeZone(n, t, u) == n = 1 \/ t \div 2 = u \div 2

StationSymmetry == Permutations(StationIds)
===============================================================================

----------------------------- MODULE MCEngineSteps ----------------------------
(***************************************************************************)
(* A small instance of EngineReaders for TLC, with the streams and zones   *)
(* of MCEngineTwins.                                                       *)
(***************************************************************************)
EXTENDS EngineReaders

CONSTANTS s1

OneStation == {s1}

SomeInterval(n, k, i) == IF k = 1 THEN 3 + ((n + i) % 2) ELSE 1 + ((n + k + i) % 2)

SomeDistance(n, t) == IF n = 1 THEN 0 ELSE t % 2

SomeFraction(n, i) == (n + i) % 2

SomeConfigs == {Config(TRUE, 0, 0), Config(TRUE, 1, 1)}

SomeLifetime == [field \in Fields |-> IF field = "position" THEN 1 ELSE 2]

SomeZone(n, t, u) == n = 1 \/ t \div 2 = u \div 2

SomeDurations     == {1, 2}
SomeRealDurations == {1}
SomeSpeeds        == {0, 150}
===============================================================================

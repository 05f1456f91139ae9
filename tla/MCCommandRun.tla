----------------------------- MODULE MCCommandRun ------------------------------
(***************************************************************************)
(* Small instances of CommandRun for TLC.                                  *)
(***************************************************************************)
EXTENDS CommandRun

CONSTANTS r1, r2

TwoRequests == {r1, r2}
TwoStations == <<"prague", "brno">>
===============================================================================

---------------------------- MODULE MCHistoryReader ---------------------------
(***************************************************************************)
(* Small instances of HistoryReader for TLC.                               *)
(***************************************************************************)
EXTENDS HistoryReader, TLC

CONSTANTS s1, s2, c1, c2

TwoStations == {s1, s2}
TwoCalls    == {c1, c2}

ReaderSymmetry == Permutations(StationIds) \cup Permutations(Calls)
===============================================================================

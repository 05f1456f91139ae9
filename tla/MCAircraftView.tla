----------------------------- MODULE MCAircraftView ----------------------------
(***************************************************************************)
(* Small instances of AircraftView for TLC.                                *)
(***************************************************************************)
EXTENDS AircraftView

CONSTANTS s1, s2, k1, k2, a1

TwoSelections == {s1, s2}
FirstSelection == s1
TwoCycles == {k1, k2}
OneAircraft == {a1}
===============================================================================

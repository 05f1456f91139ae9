------------------------------- MODULE MCDisplay ------------------------------
(***************************************************************************)
(* Small instances of Display for TLC.                                     *)
(***************************************************************************)
EXTENDS Display

CONSTANTS c1, c2, s1

TwoClients == {c1, c2}
OneStation == {s1}

\* Everything, and the empty selection.
AllOrNone == {{}, {s1}}
===============================================================================

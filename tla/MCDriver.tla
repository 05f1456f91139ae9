------------------------------- MODULE MCDriver -------------------------------
(***************************************************************************)
(* Small instances of Driver for TLC.                                      *)
(***************************************************************************)
EXTENDS Driver

CONSTANTS c1, c2, s1

OneCaller  == {c1}
TwoCallers == {c1, c2}
OneStation == {s1}

Cmd(op, arg, rev, ok) == [op |-> op, arg |-> arg, id |-> s1, rev |-> rev, ok |-> ok]

\* Pause, a speed that leaves a carry and needs chunks, and the top speed.
SpeedCommands == {Cmd("SetSpeed", s, 0, TRUE) : s \in {0, 130, MaxSpeed}}

\* Creation, two edits and removal of one station, valid and invalid input.
StationCommands ==
    {Cmd("AddStation", 0, 0, ok) : ok \in BOOLEAN}
        \cup {Cmd("UpdateStation", 0, rev, TRUE) : rev \in {1, 2}}
        \cup {Cmd("UpdateStation", 0, 1, FALSE)}
        \cup {Cmd("RemoveStation", 0, rev, TRUE) : rev \in {1, 2}}
        \cup {Cmd("SetCount", n, 0, TRUE) : n \in {1, MaxAircraft + 1}}
        \cup {Cmd("SetSpeed", MaxSpeed + 1, 0, TRUE)}

AllCommands == SpeedCommands \cup StationCommands

StartSpeeds == {0, 130}
===============================================================================

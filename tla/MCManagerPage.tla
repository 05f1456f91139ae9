----------------------------- MODULE MCManagerPage ----------------------------
(***************************************************************************)
(* Small instances of ManagerPage for TLC.                                 *)
(***************************************************************************)
EXTENDS ManagerPage, TLC

CONSTANTS s1, k1, t1, t2

OneStation == {s1}
OneControl == {k1}
NoTexts    == {}
OneText    == {t1}
TwoTexts   == {t1, t2}

TextSymmetry == Permutations(Texts)
===============================================================================

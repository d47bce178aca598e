------------------------------- MODULE MCWfp -------------------------------
(* Instances of Wfp for TLC: one endpoint or two, twice the same, of the other *)
(* family, or none that could be parsed.                                       *)
EXTENDS Wfp, TLC

CONSTANTS a1, a2, a3, b1

OutsideV4 == {a1, a2, a3}
OutsideV6 == {b1}

SomeLists == {<<>>, <<b1>>, <<a1, a1>>}
             \cup [1 .. 1 -> OutsideV4] \cup [1 .. 2 -> {a1, a2, b1}]
             \cup [1 .. 3 -> {a1, a2, b1}]
=============================================================================

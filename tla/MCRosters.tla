----------------------------- MODULE MCRosters -----------------------------
(***************************************************************************)
(* Small rosters for TLC: two people, one day, one shift, which Ana is     *)
(* given and which is then drawn again, rubbed out, or moved to Luis.      *)
(***************************************************************************)
EXTENDS Rosters

CONSTANTS ana, luis, evening

MCStart == [c \in Cells |-> Nothing]

MCStrokes == {[c \in {<<ana, 0>>} |-> what] : what \in {evening, Nothing}}
=============================================================================

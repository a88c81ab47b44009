----------------------------- MODULE MCPunching -----------------------------
(***************************************************************************)
(* Small days for TLC: a handful of taps by one person, each carried by    *)
(* one or more calls.                                                      *)
(***************************************************************************)
EXTENDS Punching, TLC

CONSTANTS t1, t2, t3

MCOneTaps == [t \in Taps |-> "tap"]
\* One of each: the plain tap, and one that asks for a break.
MCWithBreak == [t \in Taps |-> IF t = t2 THEN "BREAK" ELSE "tap"]
MCOnTime == [t \in Taps |-> 0]
\* The first device is a little ahead, the second too much.
MCAhead == [t \in Taps |-> CASE t = t1 -> 1 [] t = t2 -> 2 [] OTHER -> 0]

MCSymmetry == Permutations(Calls)
=============================================================================

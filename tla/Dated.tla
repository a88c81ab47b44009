-------------------------------- MODULE Dated --------------------------------
(***************************************************************************)
(* What the things a company keeps by the day have in common: the days of  *)
(* a behaviour and the two values that are none.                           *)
(***************************************************************************)
EXTENDS Integers

CONSTANTS
    LastDay,    \* BOUND: of the days there are
    Nothing,    \* what there is not
    Same        \* a field an edit does not name

Days == 0 .. LastDay
=============================================================================

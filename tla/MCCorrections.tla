--------------------------- MODULE MCCorrections ---------------------------
(***************************************************************************)
(* Small companies for TLC: an administrator, a manager whose departments  *)
(* hold the worker and the administrator, and a worker.                    *)
(***************************************************************************)
EXTENDS Corrections, TLC

CONSTANTS ana, marta, eva, p1

MCOwner == [p \in Entries |-> eva]
MCOwnerAna == [p \in Entries |-> ana]
MCReach == [p \in People |-> IF p = marta THEN {eva} ELSE {}]

\* Roles that do not change.
MCFixed == [p \in People |->
    CASE p = ana -> {"ADMIN"} [] p = marta -> {"MANAGER"} [] OTHER -> {"EMPLOYEE"}]
\* Those who manage may leave and come back.
MCMoving == [p \in People |->
    CASE p = ana -> {"ADMIN", "OUT"} [] p = marta -> {"MANAGER", "OUT"}
      [] OTHER -> {"EMPLOYEE"}]

\* Rows and requests are interchangeable.
MCSymmetry == Permutations(Corrections) \cup Permutations(Requests)
=============================================================================

-------------------------- MODULE MCTaskAdmission --------------------------
(***************************************************************************)
(* Small instances of TaskAdmission for TLC.                               *)
(***************************************************************************)
EXTENDS TaskAdmission, TLC

CONSTANTS t1, t2, t3, t4, c1, c2, c3, r1, left

FourTurns == t1 :> c1 @@ t2 :> c2 @@ t3 :> c3 @@ t4 :> c1
OneRoot   == [t \in Tasks |-> r1]
Contended == t1 :> {left} @@ t2 :> {left} @@ t3 :> {} @@ t4 :> {}

Budget(tasks, count, deaths) == [tasks |-> tasks, faults |-> count, crashes |-> deaths]

MCBudgets == {Budget({t1, t2, t3}, 0, 0), Budget({t1, t2}, 1, 0), Budget({t1, t4}, 1, 2)}
=============================================================================

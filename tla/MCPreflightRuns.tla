-------------------------- MODULE MCPreflightRuns --------------------------
(***************************************************************************)
(* A small instance of PreflightRuns for TLC.                              *)
(***************************************************************************)
EXTENDS PreflightRuns, TLC

CONSTANTS p1, p2, p3, z1, z2

\* Two calls through one runner, and one through another of the same process.
MCSchedulerOf == p1 :> z1 @@ p2 :> z1 @@ p3 :> z2

Allow(asked, shut, research, failures, deaths) ==
  [calls |-> asked, closed |-> shut, children |-> research, faults |-> failures, crashes |-> deaths]

\* Research with three children; a failing write and close() around a child,
\* and around two callers that meet; callers before and after a restart.
MCBudgets == {Allow({p1}, {}, 3, 0, 0), Allow({p1}, {z1}, 1, 1, 0),
              Allow({p1, p3}, {z1}, 0, 1, 0), Allow({p1, p2}, {}, 0, 1, 1)}
=============================================================================

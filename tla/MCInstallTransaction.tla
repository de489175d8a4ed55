------------------------ MODULE MCInstallTransaction ------------------------
(***************************************************************************)
(* Instances of InstallTransaction: two targets of the kinds that differ,  *)
(* installers that follow one another or overlap.                          *)
(***************************************************************************)
EXTENDS InstallTransaction, TLC

CONSTANTS i1, i2, i3

Target(kind, original, post) == [kind |-> kind, original |-> original, post |-> post]
Config  == Target("file", "old", "new")
Secret  == Target("file", "absent", "new")
Addon   == Target("directory", "old", "new")
Runtime == Target("directory", "absent", "new")
Script  == Target("file", "old", "absent")
Legacy  == Target("directory", "old", "absent")

MCPlans == {<<Config, Addon>>, <<Secret, Legacy>>, <<Script, Runtime>>}

Budget(installers, together, edits, fails, halts) ==
  [installers |-> installers, overlap |-> together, edits |-> edits, faults |-> fails, crashes |-> halts]

\* A recovery that is itself interrupted, and an installation after it; a user
\* who saves a target while an installer dies or fails; an installer that fails
\* and dies in its rollback; two installers at one time.
MCBudgets ==
  {Budget({i1, i2, i3}, FALSE, 0, 0, 2), Budget({i1, i2}, FALSE, 1, 0, 1), Budget({i1, i2}, FALSE, 1, 1, 0),
   Budget({i1, i2}, FALSE, 0, 1, 1), Budget({i1, i2}, TRUE, 0, 0, 1)}
=============================================================================

\* Installers of two targets that die, fail and follow one another, and a user who edits.
CONSTANTS
  i1 = i1
  i2 = i2
  i3 = i3
  None = None
  Installers = {i1, i2, i3}
  Last = 2
  Plans <- MCPlans
  Budgets <- MCBudgets
SPECIFICATION FairSpec
INVARIANTS AllOrNothing MineIsKept LockExcludes ConflictsAreReal
PROPERTIES EveryInstallerEnds
\* Every installer runs once.
CHECK_DEADLOCK FALSE

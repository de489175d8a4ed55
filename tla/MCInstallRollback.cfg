\* A rollback that is cut off while it removes a directory the installation created.
CONSTANTS
  i1 = i1
  i2 = i2
  i3 = i3
  None = None
  Installers = {i1, i2, i3}
  Last = 2
  Plans <- MCPlans
  Budgets <- MCBudgets
SPECIFICATION Spec
INVARIANTS RollbackRestores
\* Every installer runs once.
CHECK_DEADLOCK FALSE

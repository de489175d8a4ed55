\* Three children, of which the root may have two, or two of them and a fault, or
\* two turns of one child with a fault and two crashes; one slot, one region.
CONSTANTS
  t1 = t1
  t2 = t2
  t3 = t3
  t4 = t4
  c1 = c1
  c2 = c2
  c3 = c3
  r1 = r1
  left = left
  Roots = {r1}
  Regions = {left}
  NoTask = NoTask
  Tasks = {t1, t2, t3, t4}
  Children = {c1, c2, c3}
  ChildOf <- FourTurns
  RootOf <- OneRoot
  Writes <- Contended
  MaxActive = 1
  MaxChildrenPerRoot = 2
  Budgets <- MCBudgets
SPECIFICATION FairSpec
INVARIANTS LimitsHold WriterExclusion NoLostWakeup NothingLeaked RestartTellsTheTruth
PROPERTIES TerminalIsFinal FifoAdmission Settles
\* Every task settles at most once: a run ends when all have.
CHECK_DEADLOCK FALSE

\* Calls that meet at the preflight of one session, its research, its end.
CONSTANTS
  p1 = p1
  p2 = p2
  p3 = p3
  z1 = z1
  z2 = z2
  None = None
  Calls = {p1, p2, p3}
  Schedulers = {z1, z2}
  SchedulerOf <- MCSchedulerOf
  MaxChildren = 3
  Capacity = 2
  MaxSteps = 2
  Budgets <- MCBudgets
SPECIFICATION FairSpec
INVARIANTS RecordIsTrue NothingOutlivesItsRun EvidenceIsComplete
PROPERTIES ImplementsReservation EverythingSettles
\* Every call can be answered and every scheduler closed.
CHECK_DEADLOCK FALSE

\* Two processes: a message written while a checkpoint is being published.
CONSTANTS
  user = user
  guard = guard
  first = first
  second = second
  compact = compact
  made = made
  begun = begun
  again = again
  won = won
  dropped = dropped
  commit = commit
  open = open
  child = child
  stray = stray
  used = used
  reused = reused
  p1 = p1
  p2 = p2
  att1 = att1
  att2 = att2
  att3 = att3
  Torn = Torn
  Jobs = {user, guard, compact}
  Processes = {p1, p2}
  ProcessOf <- Apart
  KindOf <- MCKindOf
  EventOf <- MCEventOf
  Budgets <- TwoProcesses
SPECIFICATION Spec
PROPERTIES HistoryOnlyGrows
\* Every job runs at most once: a run ends when all have.
CHECK_DEADLOCK FALSE

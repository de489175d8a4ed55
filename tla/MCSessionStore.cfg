\* One process: a conversation, an attempt with its verdicts, links and usage.
CONSTANTS
  user = user
  guard = guard
  first = first
  second = second
  compact = compact
  made = made
  begun = begun
  again = again
  won = won
  dropped = dropped
  commit = commit
  open = open
  child = child
  stray = stray
  used = used
  reused = reused
  p1 = p1
  p2 = p2
  att1 = att1
  att2 = att2
  att3 = att3
  Torn = Torn
  Jobs = {user, guard, first, second, compact, made, begun, again, won, dropped, commit, open, child, stray, used, reused}
  Processes = {p1}
  ProcessOf <- Alone
  KindOf <- MCKindOf
  EventOf <- MCEventOf
  Budgets <- OneProcess
SPECIFICATION FairSpec
INVARIANTS HistoryIsKept LedgerIsLawful
PROPERTIES EveryCallAnswers
\* Every job runs at most once: a run ends when all have.
CHECK_DEADLOCK FALSE

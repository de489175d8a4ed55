\* Runs, a compaction and plans through two runners that are aborted and closed.
CONSTANTS
  first = first
  second = second
  fold = fold
  greedy = greedy
  draft = draft
  redraft = redraft
  build = build
  rebuild = rebuild
  other = other
  home = home
  away = away
  bash = bash
  edit = edit
  barred = barred
  q1 = q1
  q2 = q2
  c1 = c1
  c2 = c2
  c3 = c3
  c4 = c4
  c5 = c5
  None = None
  Runs = {first, second, fold, greedy, draft, redraft, build, rebuild, other}
  Sessions = {home, away}
  SessionOf <- MCSessionOf
  Runners = {q1, q2}
  RunnerOf <- MCRunnerOf
  KindOf <- MCKindOf
  Turns <- MCTurns
  DeniedTools = {barred}
  MaxSteps = 2
  MaxPerStep = 2
  MaxCalls = 2
  Budgets <- Scenarios
SPECIFICATION FairSpec
INVARIANTS HistoryReplays ReportsAreTrue TurnsStayWhole BudgetHolds CloseDrains PlansAreApprovedOnce
PROPERTIES EveryRunEnds
\* Every run is submitted at most once: a behaviour ends when all are done.
CHECK_DEADLOCK FALSE

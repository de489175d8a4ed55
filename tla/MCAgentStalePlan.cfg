\* A plain run between a plan and its execution: the builder's transcript is older than the session.
CONSTANTS
  first = first
  second = second
  fold = fold
  greedy = greedy
  draft = draft
  redraft = redraft
  build = build
  rebuild = rebuild
  other = other
  home = home
  away = away
  bash = bash
  edit = edit
  barred = barred
  q1 = q1
  q2 = q2
  c1 = c1
  c2 = c2
  c3 = c3
  c4 = c4
  c5 = c5
  None = None
  Runs = {draft, first, build}
  Sessions = {home}
  SessionOf <- MCSessionOf
  Runners = {q1}
  RunnerOf <- MCRunnerOf
  KindOf <- MCKindOf
  Turns <- OneCallTurns
  DeniedTools = {barred}
  MaxSteps = 2
  MaxPerStep = 1
  MaxCalls = 1
  Budgets <- Staled
SPECIFICATION Spec
INVARIANT RepeatedIdsAreRejected
\* Every run is submitted at most once: a behaviour ends when all are done.
CHECK_DEADLOCK FALSE

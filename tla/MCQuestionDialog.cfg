\* Requests that queue for one dialog, rewrites that return late, and the end.
CONSTANTS
  single = single
  again = again
  pair = pair
  tabs = tabs
  o1 = o1
  o2 = o2
  scope = scope
  style = style
  tests = tests
  None = None
  Requests = {single, again, pair, tabs}
  QuestionsOf <- MCQuestionsOf
  Options = {o1, o2}
  Budgets <- Scenarios
SPECIFICATION Spec
INVARIANTS DialogFollowsBroker EveryAskIsAnswered RewritesAreCurrent
PROPERTIES OnlyShownIsSent
\* Every request is asked at most once and the user acts a bounded number of times.
CHECK_DEADLOCK FALSE

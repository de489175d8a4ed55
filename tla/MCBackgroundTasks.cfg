\* Turns of one child and two roots that fail, are cancelled or are shut down.
CONSTANTS
  a = a
  b = b
  c = c
  d = d
  k1 = k1
  k2 = k2
  r1 = r1
  r2 = r2
  ChildOf <- MCChildOf
  RootOf <- MCRootOf
  Tasks = {a, b, c, d}
  Children = {k1, k2}
  Roots = {r1, r2}
  Continuations = {b, c}
  Budgets <- TurnsAndRoots
SPECIFICATION FairSpec
INVARIANTS HandlesAreAnswered ScopesAreClosed
PROPERTIES OrderIsKept EverythingSettles
\* Every task is started at most once: a behaviour ends when all have settled.
CHECK_DEADLOCK FALSE

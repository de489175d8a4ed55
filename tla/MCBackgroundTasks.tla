-------------------------- MODULE MCBackgroundTasks --------------------------
(***************************************************************************)
(* An instance of BackgroundTasks: a child with a first task a and the     *)
(* continuations b and c, and the only task d of a child of another root.  *)
(***************************************************************************)
EXTENDS BackgroundTasks

CONSTANTS a, b, c, d, k1, k2, r1, r2

Child == (a :> k1) @@ (b :> k1) @@ (c :> k1) @@ (d :> k2)
Root  == (a :> r1) @@ (b :> r1) @@ (c :> r1) @@ (d :> r2)
MCChildOf == [t \in Tasks |-> Child[t]]
MCRootOf  == [t \in Tasks |-> Root[t]]

Budget(tasks, late, stops, waits, count) ==
  [tasks |-> tasks, late |-> late, stops |-> stops, waits |-> waits, faults |-> count]

\* Three turns of one child, two children of one root or of two; a task that is
\* waited for while its terminal write fails and its root is stopped.
TurnsAndRoots ==
  {Budget({a, b, c}, {b}, {r1}, {}, 0), Budget({a, b}, {a, b}, {r1, All}, {}, 1),
   Budget({a, b}, {}, {r1}, {b}, 1), Budget({a}, {}, {All}, {a}, 1),
   Budget({a, d}, {}, {r1, All}, {}, 1), Budget({a, b, d}, {}, {}, {}, 0)}
=============================================================================

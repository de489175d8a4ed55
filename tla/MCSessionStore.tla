----------------------------- MODULE MCSessionStore -----------------------------
(***************************************************************************)
(* Instances of SessionStore: clients of one process, two processes, and a *)
(* ledger whose commits arrive in any order.                               *)
(***************************************************************************)
EXTENDS SessionStore

CONSTANTS user, guard, first, second, compact,           \* messages, reservations, a compaction
          made, begun, won, dropped, again, commit, open,      \* one attempt and its verdicts
          child, stray, used, reused,                    \* links and usage
          p1, p2, att1, att2, att3

\* first and second reserve the summary for different messages.
Kind ==
  (user :> "append") @@ (guard :> "guarded") @@ (first :> "reserve") @@ (second :> "reserve")
  @@ (compact :> "compact")
  @@ [j \in {made, begun, won, dropped, again, commit, open, child, stray, used, reused} |-> "commit"]

Created(x, op, links) == [type |-> "created", id |-> x, attempt |-> x, operation |-> op,
                          role |-> "summary", model |-> "m", links |-> links]
Used(id, x) == [type |-> "usage", id |-> id, attempt |-> x, model |-> "m", request |-> "r"]
Attempt(type, id) == [type |-> type, id |-> id, attempt |-> att1]

\* again repeats begun under a new event id; open and commit compete; stray
\* links to another operation, reused to a request already counted.
Event ==
  (user :> [type |-> "user"]) @@ (guard :> [type |-> "reply"]) @@ (compact :> [type |-> "checkpoint"])
  @@ [j \in {first, second} |-> [type |-> "summary_reserved", id |-> j, reservation |-> j,
                                 operation |-> "op", source |-> j]]
  @@ (made :> Created(att1, "op", {})) @@ (child :> Created(att2, "op", {att1})) @@ (stray :> Created(att3, "other", {att2}))
  @@ (used :> Used("used", att1)) @@ (reused :> Used("reused", att2))
  @@ (begun :> Attempt("started", "begun")) @@ (again :> Attempt("started", "again"))
  @@ (won :> Attempt("succeeded", "won")) @@ (dropped :> Attempt("cancelled", "dropped"))
  @@ (commit :> [type |-> "summary_committed", id |-> "commit", reservation |-> first, attempt |-> att1])
  @@ (open :> [type |-> "summary_failed_open", id |-> "open", reservation |-> first])

MCKindOf  == [j \in Jobs |-> Kind[j]]
MCEventOf == [j \in Jobs |-> Event[j]]
Alone == [j \in Jobs |-> p1]
Apart == [j \in Jobs |-> IF j = user THEN p2 ELSE p1]

Budget(jobs, faults_, crashes_) == [jobs |-> jobs, faults |-> faults_, crashes |-> crashes_]

\* A conversation that is compacted while something fails; an attempt with a
\* retried and a competing ending, then with two verdicts; links and usage.
OneProcess ==
  {Budget({user, first, second, compact}, 1, 1),
   Budget({user, guard, compact}, 1, 1),
   Budget({made, begun, again, won, dropped}, 0, 0),
   Budget({first, made, begun, won, commit, open}, 0, 0),
   Budget({made, child, stray, begun, used, reused}, 0, 0)}
TwoProcesses == {Budget({user, guard, compact}, 0, 0)}
=============================================================================

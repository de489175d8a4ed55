----------------------------- MODULE SessionLedger -----------------------------
(***************************************************************************)
(* The ledger a session file carries beside the conversation: one summary  *)
(* reservation, its terminal event, and the attempts of the preflight      *)
(* orchestration.  Nothing is indexed on disk: what the ledger says is     *)
(* recomputed from the whole history (projectSessionLedger), and an event  *)
(* is admitted when the history with it can still be projected.            *)
(*                                                                         *)
(* Events are records [type, id, ...]; a started, succeeded, failed,       *)
(* validation_failed or cancelled event is an attempt_lifecycle event with *)
(* that transition.                                                        *)
(***************************************************************************)
EXTENDS Integers, Sequences, FiniteSets

Conversation == {"user", "reply", "checkpoint"}
Verdicts == {"summary_committed", "summary_failed_open", "summary_cancelled"}
Endings  == {"succeeded", "failed", "validation_failed", "cancelled"}

IsLedger(e) == e.type \notin Conversation

\* What at most one event of a history may decide.
Domain(e) ==
  IF e.type \in Verdicts THEN <<"verdict">>
  ELSE IF e.type = "summary_reserved" THEN <<e.type>>
  ELSE IF e.type \in Endings THEN <<"ending", e.attempt>> ELSE <<e.type, e.attempt>>

\* An event without its envelope.
Payload(e) == [field \in DOMAIN e \ {"id"} |-> e[field]]

\* Positions of the ledger events that are the first of their id and domain.
Unique(es) ==
  {i \in DOMAIN es : IsLedger(es[i]) /\
     \A j \in 1..i-1 : IsLedger(es[j]) => es[j].id # es[i].id /\ Domain(es[j]) # Domain(es[i])}

\* Two events share an id and differ, or decide one domain differently.
Diverges(es) ==
  \E i, j \in DOMAIN es :
    /\ j < i /\ IsLedger(es[i]) /\ IsLedger(es[j])
    /\ IF es[j].id = es[i].id THEN es[j] # es[i]
       ELSE Domain(es[j]) = Domain(es[i]) /\ Payload(es[j]) # Payload(es[i])

\* A unique event of one of these types, for this attempt, before position i.
Seen(es, i, types, attempt) ==
  \E j \in Unique(es) : j < i /\ es[j].type \in types /\ es[j].attempt = attempt

\* Faulty variant: an attempt may end without having started.
TransitionUnstarted(es, i, e) ==
  /\ Seen(es, i, {"created"}, e.attempt)
  /\ ~Seen(es, i, Endings, e.attempt)

\* applyLifecycle: what must have happened to the attempt before, and what not.
Transition(es, i, e) ==
  /\ Seen(es, i, {"created"}, e.attempt)
  /\ e.type = "started" => ~Seen(es, i, Endings, e.attempt)
  /\ e.type \in Endings \ {"cancelled"} => Seen(es, i, {"started"}, e.attempt)
  /\ e.type \in Endings => ~Seen(es, i, Endings, e.attempt)

\* applyUsage: of the attempt's own model, and no request of another attempt.
Usage(es, i, e) ==
  /\ \E j \in Unique(es) : j < i /\ es[j].type = "created"
                           /\ es[j].attempt = e.attempt /\ es[j].model = e.model
  /\ \A j \in Unique(es) : j < i /\ es[j].type = "usage" /\ es[j].request = e.request
                           /\ es[j].model = e.model => es[j].attempt = e.attempt

\* A verdict owns the undecided reservation; a commit names a summary attempt of the
\* reservation's operation that has succeeded.
Verdict(es, i, e) ==
  \E r \in Unique(es) :
    /\ r < i /\ es[r].type = "summary_reserved" /\ es[r].reservation = e.reservation
    /\ \A v \in Unique(es) : v < i => es[v].type \notin Verdicts
    /\ e.type = "summary_committed" =>
         /\ Seen(es, i, {"succeeded"}, e.attempt)
         /\ \E c \in Unique(es) : es[c].type = "created" /\ es[c].attempt = e.attempt
                                  /\ es[c].role = "summary" /\ es[c].operation = es[r].operation

\* A reservation does not follow a meaningful user event.
Reservation(es, i) == \A j \in 1..i-1 : es[j].type # "user"

Admissible(es, i) ==
  LET e == es[i]
  IN /\ e.type = "summary_reserved" => Reservation(es, i)
     /\ e.type \in Verdicts => Verdict(es, i, e)
     /\ e.type \in Endings \cup {"started"} => Transition(es, i, e)
     /\ e.type = "usage" => Usage(es, i, e)

\* validateAttemptLineage: links (parent, forkedFrom) stay within an operation,
\* lead to attempts of the history and never in a circle.
Lineage(es) ==
  LET created == {es[i] : i \in {j \in Unique(es) : es[j].type = "created"}}
      Link(c, d) == d.attempt \in c.links
  IN /\ \A c \in created : \A a \in c.links :
          \E d \in created : d.attempt = a /\ d # c /\ d.operation = c.operation
     /\ \A ring \in (SUBSET created) \ {{}} : \E c \in ring : \A d \in ring : ~Link(c, d)

\* projectSessionLedger returns: the history can be read.
Projects(es) ==
  /\ ~Diverges(es)
  /\ \A i \in Unique(es) : Admissible(es, i)
  /\ Lineage(es)

\* admitLedgerEvent
Admission(es, e) ==
  LET combined == Append(es, e)
  IN IF ~Projects(combined) THEN "rejected"
     ELSE IF Len(combined) \in Unique(combined) THEN "committed" ELSE "duplicate"

=============================================================================

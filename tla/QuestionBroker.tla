--------------------------- MODULE QuestionBroker ---------------------------
(***************************************************************************)
(* questions/broker.ts: the queue between the tool calls that ask the user *)
(* and the one dialog that shows a question at a time.  Its methods run to *)
(* completion, so they are functions of the broker's state; QuestionDialog *)
(* applies them in the steps that call them.                               *)
(*                                                                         *)
(* A request stands for its token, which is fresh for every ask().  The    *)
(* broker also remembers tokens it settled; they only choose the wording   *)
(* of a refusal, since no settled token is ever active again.              *)
(***************************************************************************)
EXTENDS Naturals, FiniteSets, Sequences

CONSTANTS
  Requests,      \* the calls of the question tool
  QuestionsOf,   \* the questions of each, as [id, multiple, custom]
  Options,       \* the options every question has
  None           \* no request

ASSUME RequestsAssumption ==
  /\ None \notin Requests /\ IsFiniteSet(Options) /\ Options # {}
  /\ \A r \in Requests :
       /\ Len(QuestionsOf[r]) \in 1..6 /\ DOMAIN QuestionsOf[r] = 1..Len(QuestionsOf[r])
       /\ \A i \in DOMAIN QuestionsOf[r] :
            QuestionsOf[r][i].multiple \in BOOLEAN /\ QuestionsOf[r][i].custom \in BOOLEAN
       /\ \A i, j \in DOMAIN QuestionsOf[r] : QuestionsOf[r][i].id = QuestionsOf[r][j].id => i = j

VARIABLES
  broker,    \* the request shown, those behind it, and whether it is closed
  result,    \* what each ask() resolved with
  asked      \* auxiliary: the requests in the order of their calls

Dismissed == [outcome |-> "dismissed"]

NewBroker == [active |-> None, queue |-> <<>>, closed |-> FALSE]

\* Faulty variant: close() forgets the request that is shown.
WaitingBehind(b) == b.queue

Waiting(b) == IF b.active = None THEN b.queue ELSE <<b.active>> \o b.queue

Advance(b) ==
  IF b.closed \/ b.active # None \/ b.queue = <<>> THEN b
  ELSE [b EXCEPT !.active = Head(b.queue), !.queue = Tail(b.queue)]

\* normalizeResult: whether a result fits the request it is given for.
Normal(r, res) ==
  \/ res.outcome = "dismissed"
  \/ /\ DOMAIN res.picks = DOMAIN QuestionsOf[r]
     /\ \A q \in DOMAIN QuestionsOf[r] :
          /\ QuestionsOf[r][q].multiple \/ Cardinality(res.picks[q]) <= 1
          /\ QuestionsOf[r][q].custom \/ ~res.custom[q]
          /\ res.picks[q] \subseteq Options

\* answer() and dismiss(): only the active request, and only what fits it.
Accepts(b, r, res) == b.active = r /\ Normal(r, res)

Enqueued(b, r) == Advance([b EXCEPT !.queue = Append(@, r)])
Settled(b)     == Advance([b EXCEPT !.active = None])
Closed(b)      == [active |-> None, queue |-> <<>>, closed |-> TRUE]
=============================================================================

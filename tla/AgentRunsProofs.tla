--------------------------- MODULE AgentRunsProofs ---------------------------
(***************************************************************************)
(* Theorems about AgentRuns, for any runs, runners, sessions, plans and    *)
(* limits, and any number of failing writes, aborts, closed runners and    *)
(* deaths of the process.                                                  *)
(***************************************************************************)
EXTENDS AgentRuns, Queues, SequenceTheorems, FiniteSetTheorems, TLAPS

-----------------------------------------------------------------------------
(* Queues *)

\* push adds the pushed entry and nothing else.
LEMMA AppendFacts ==
  ASSUME NEW S, NEW s \in Seq(S), NEW x \in S
  PROVE  /\ Append(s, x) \in Seq(S)
         /\ \A y : InSeq(Append(s, x), y) <=> InSeq(s, y) \/ y = x
         /\ Distinct(s) /\ ~InSeq(s, x) => Distinct(Append(s, x))
  <1> DEFINE a == Append(s, x)
  <1>1. /\ a \in Seq(S) /\ Len(a) = Len(s) + 1 /\ DOMAIN a = 1..Len(s) + 1
        /\ \A i \in DOMAIN s : i \in DOMAIN a /\ a[i] = s[i]
        /\ Len(s) + 1 \in DOMAIN a /\ a[Len(s) + 1] = x
        /\ \A i \in DOMAIN a : i \in DOMAIN s \/ i = Len(s) + 1
    OBVIOUS
  <1> HIDE DEF a
  <1> QED BY <1>1 DEF InSeq, Distinct, a

\* shift removes the first entry, and all of it when entries are distinct.
LEMMA TailFacts ==
  ASSUME NEW S, NEW s \in Seq(S), s # <<>>
  PROVE  /\ Tail(s) \in Seq(S)
         /\ InSeq(s, Head(s))
         /\ \A y : InSeq(Tail(s), y) => InSeq(s, y)
         /\ \A y : InSeq(s, y) /\ y # Head(s) => InSeq(Tail(s), y)
         /\ Distinct(s) => Distinct(Tail(s)) /\ ~InSeq(Tail(s), Head(s))
  <1> DEFINE a == Tail(s)
  <1>1. /\ a \in Seq(S) /\ 1 \in DOMAIN s /\ Head(s) = s[1]
        /\ \A i \in DOMAIN a : i + 1 \in DOMAIN s /\ a[i] = s[i + 1] /\ i + 1 # 1
        /\ \A i \in DOMAIN s : i # 1 => i - 1 \in DOMAIN a /\ a[i - 1] = s[i]
        /\ \A i, j \in DOMAIN a : i + 1 = j + 1 => i = j
    OBVIOUS
  <1> HIDE DEF a
  <1> QED BY <1>1 DEF InSeq, Distinct, a

-----------------------------------------------------------------------------
(* The inductive invariant: types *)

Working == {"reading", "greeting", "asking", "committing", "confirming", "recording", "speaking", "persisting",
            "executing", "running", "settling", "clearing", "summarising"}
Places == Working \cup {"idle", "queued", "done"}

\* Why a batch is settled or a commit fails.
Failures == {"", "cancelled", "closed", "storage", "tool"}

CallIdsOf(r) == UNION {Ids(calls) : calls \in Turns[r]}
AllIds == {None} \cup UNION {CallIdsOf(r) : r \in Runs}
ItemType == [kind : {"text", "call", "result", "checkpoint"}, id : AllIds, run : Runs, content : Contents]

Shared ==
  /\ line \in [Sessions -> Seq(Runs)] /\ step \in [Runs -> Places] /\ outcome \in [Runs -> Outcomes]
  /\ plan \in [Runs -> Runs \cup {None}] /\ handoff \in HandoffType /\ newest \in [Sessions -> Runs \cup {None}]

Local ==
  /\ DOMAIN known = Runs /\ DOMAIN turn = Runs /\ DOMAIN past = Runs /\ DOMAIN tried = Runs /\ DOMAIN todo = Runs
  /\ text \subseteq Runs /\ used \in [Runs -> Nat] /\ steps \in [Runs -> Nat] /\ persisted \in [Runs -> Nat]
  /\ failure \in [Runs -> Failures]
  /\ \A r \in Runs : turn[r] = <<>> \/ turn[r] \in Turns[r]

Types ==
  /\ Shared /\ Local
  /\ hist \in [Sessions -> Seq(ItemType)] /\ executed \subseteq Runs \X AllIds
  /\ DOMAIN draining = Runners

-----------------------------------------------------------------------------
(* The queue of a session, and what close() waits for *)

LineFits(s) ==
  /\ Distinct(line[s])
  /\ \A r \in Runs : InSeq(line[s], r) <=> SessionOf[r] = s /\ step[r] \notin {"idle", "done"}

\* Only the first run of a queue is past it.
HeadFits(r) == step[r] \in Working => Head(line[SessionOf[r]]) = r

OutcomeFits(r) == outcome[r] = "none" <=> step[r] # "done"

\* A closed runner takes no further runs.
DrainFits(q) == q \in closed => Unfinished(q) \subseteq draining[q]

QueuesFit ==
  /\ \A s \in Sessions : LineFits(s)
  /\ \A r \in Runs : HeadFits(r) /\ OutcomeFits(r)
  /\ \A q \in Runners : DrainFits(q)

-----------------------------------------------------------------------------
(* Receipts and plans *)

\* The generation of a session is its newest planning run, still on its way;
\* its receipt is one of that run.
GenerationFits(s) ==
  LET r == handoff.generation[s]
  IN r # None => SessionOf[r] = s /\ newest[s] = r /\ step[r] \notin {"idle", "done"}

CurrentFits(s) == LET r == handoff.current[s] IN r # None => r \in handoff.receipts /\ SessionOf[r] = s

\* The run is over and its answer, which has text, stands in the session.
Proposed(r) == step[r] = "done" /\ outcome[r] = "answered" /\ r \in text

\* A plan is in one of three places: a receipt, an approved plan, a build; and
\* in none before its run is done.
PlaceFits(r) ==
  /\ r \in handoff.receipts \cup handoff.approved => Proposed(r)
  /\ r \in handoff.receipts => r \notin handoff.approved
  /\ \A b \in Runs : plan[b] = r => Proposed(r) /\ r \notin handoff.receipts \cup handoff.approved

BuildFits(b) == step[b] = "idle" => plan[b] = None

HandoffFits ==
  /\ \A s \in Sessions : GenerationFits(s) /\ CurrentFits(s)
  /\ \A r \in Runs : PlaceFits(r) /\ BuildFits(r)
  /\ ReceiptIsCurrent /\ PlanRunsOnce

-----------------------------------------------------------------------------
(* Items *)

\* Only a run that left the queue has written; while it works, nobody else does.
ItemFits(s, i) ==
  LET r == hist[s][i].run
  IN /\ SessionOf[r] = s /\ step[r] \notin {"idle", "queued"}
     /\ step[r] \in Working => \A j \in i .. Len(hist[s]) : hist[s][j].run = r

ItemsFit == TurnsStayWhole /\ \A s \in Sessions : \A i \in DOMAIN hist[s] : ItemFits(s, i)

SkipsAreResults ==
  \A s \in Sessions : \A i \in DOMAIN hist[s] : hist[s][i].content = "skipped" => hist[s][i].kind = "result"

-----------------------------------------------------------------------------
(* The batch of a run *)

Batching == {"recording", "speaking", "persisting", "executing", "running", "settling", "clearing"}

Entry(r, i) == hist[SessionOf[r]][i]
Begun(r) == {e \in executed : e[1] = r}
IdsTo(r, n) == {turn[r][k].id : k \in 1 .. n}

\* The calls that were persisted and whose settlement was not tried.
Open(r) == IdsTo(r, persisted[r]) \ tried[r]

\* todo is about the calls from number n on, and those before it are settled.
AtNumber(r, n) ==
  /\ n \in 1 .. Len(turn[r]) /\ tried[r] = IdsTo(r, n - 1)
  /\ todo[r] \in Seq([id : AllIds, content : {"", "ran", "failed", "interrupted", "skipped"}])
  /\ Len(todo[r]) >= 1 /\ n + Len(todo[r]) - 1 <= Len(turn[r])
  /\ \A k \in 1 .. Len(todo[r]) : todo[r][k].id = turn[r][n + k - 1].id

RunningAt(r, n) == AtNumber(r, n) /\ Len(todo[r]) = 1
SettlingAt(r, n) ==
  /\ AtNumber(r, n)
  /\ \A k \in 2 .. Len(todo[r]) : todo[r][k].content = "skipped"
  /\ IF failure[r] = "" THEN Len(todo[r]) = 1 ELSE n + Len(todo[r]) - 1 = Len(turn[r])

BatchFits(r) ==
  LET n == Len(turn[r])
  IN /\ step[r] \in Batching =>
          /\ turn[r] # <<>> /\ \A i, j \in 1 .. n : turn[r][i].id = turn[r][j].id => i = j
          /\ persisted[r] <= n /\ IdsTo(r, persisted[r]) \subseteq known[r]
     /\ step[r] \in {"recording", "speaking"} => persisted[r] = 0
     /\ step[r] \in {"recording", "speaking", "persisting", "executing"} => tried[r] = {}
     /\ step[r] = "persisting" => persisted[r] < n
     /\ step[r] \in {"executing", "running", "settling"} => persisted[r] = n
     /\ step[r] = "running" => \E k \in 1 .. n : RunningAt(r, k)
     /\ step[r] = "settling" => \E k \in 1 .. n : SettlingAt(r, k)
     /\ step[r] \in {"idle", "queued", "reading", "greeting", "summarising"} =>
          Mine(r) = {} /\ Begun(r) = {} /\ turn[r] = <<>> /\ persisted[r] = 0
     /\ step[r] = "summarising" => KindOf[r] = "compact"
     /\ step[r] = "clearing" => failure[r] # ""

\* The ids of the results a run wrote, and of its calls that wait for one.
Results(r) == {Entry(r, j).id : j \in {i \in Mine(r) : Entry(r, i).kind = "result"}}
Unanswered(r) == {Entry(r, j).id : j \in {i \in Calls(r) : ~Answered(r, i)}}
Spoke(r) == \E i \in Mine(r) : Entry(r, i).content = "answer"

\* What has a result was tried; what was started was tried, or is being settled.
ResultsFit(r) ==
  step[r] \in Working =>
    /\ Results(r) \subseteq known[r] /\ Results(r) \cap Ids(turn[r]) \subseteq tried[r]
    /\ \A e \in Begun(r) :
         /\ e[2] \in known[r]
         /\ e[2] \in Ids(turn[r]) \ tried[r] =>
              /\ step[r] \in {"running", "settling"} /\ e[2] = Head(todo[r]).id
              /\ step[r] = "settling" => Head(todo[r]).content # "skipped"

\* The outcomes of a run that no failing write and no death cut off.
Told == {"answered", "cancelled", "closed", "failed", "unreplayable", "invalid", "limit", "loop", "denied", "telemetry",
         "tool"}

\* The run can still report, or reported, that it settled what it called.
Sound(r) ==
  \/ step[r] \in Working /\ ~(step[r] = "clearing" /\ failure[r] = "storage")
  \/ outcome[r] \in Told

CallsFit(r) ==
  /\ Sound(r) => Unanswered(r) \subseteq Open(r)
  /\ step[r] \in Working \ {"persisting", "executing", "running", "settling", "clearing"}
       \/ outcome[r] \in Told => Open(r) = {}

\* An answer is written by a commit that nothing stopped.
LastIsAnswer(r) == \E i \in Mine(r) : Entry(r, i).content = "answer" /\ \A j \in Mine(r) : j <= i

AnswerFits(r) ==
  /\ Spoke(r) =>
       \/ step[r] = "confirming" /\ failure[r] \in {"", "storage"}
       \/ step[r] = "done" /\ outcome[r] \notin {"cancelled", "closed"}
  /\ (step[r] = "confirming" /\ failure[r] = "") \/ (outcome[r] = "answered" /\ KindOf[r] # "compact")
     => (r \in text => LastIsAnswer(r))

\* What the rest of a batch may still execute and persist is counted already.
CountsFit(r) ==
  LET n == Len(turn[r])
  IN /\ used[r] <= MaxCalls /\ steps[r] <= MaxSteps
     /\ IsFiniteSet(Begun(r)) /\ Cardinality(Begun(r)) <= used[r] /\ Cardinality(Calls(r)) <= used[r]
     /\ step[r] \in {"recording", "speaking", "persisting"} =>
          Cardinality(Begun(r)) + n <= used[r] /\ Cardinality(Calls(r)) + n - persisted[r] <= used[r]
     /\ step[r] = "executing" => Cardinality(Begun(r)) + n <= used[r]
     /\ step[r] \in {"running", "settling"} => \A k \in 1 .. n :
          AtNumber(r, k) => Cardinality(Begun(r)) + n - k <= used[r]
     /\ \A a, b \in past[r] : SameCalls(a, b) => a = b

RunFits(r) == BatchFits(r) /\ ResultsFit(r) /\ CallsFit(r) /\ AnswerFits(r) /\ CountsFit(r)

IInv ==
  /\ Types /\ QueuesFit /\ HandoffFits /\ ItemsFit /\ SkipsAreResults /\ SkipsAreHonest
  /\ \A r \in Runs : RunFits(r)

-----------------------------------------------------------------------------
(* What a step of a run leaves alone *)

\* The steps of a run touch its own transcript and batch only.
Frame(r) ==
  /\ \A o \in Runs \ {r} :
       /\ step'[o] = step[o] /\ outcome'[o] = outcome[o] /\ known'[o] = known[o] /\ turn'[o] = turn[o]
       /\ past'[o] = past[o] /\ used'[o] = used[o] /\ steps'[o] = steps[o] /\ persisted'[o] = persisted[o]
       /\ tried'[o] = tried[o] /\ todo'[o] = todo[o] /\ failure'[o] = failure[o]
       /\ o \in text' <=> o \in text
  /\ executed' = executed \/ \E id \in AllIds : executed' = executed \cup {<<r, id>>}

\* A run goes on, or leaves the queue; if it answered it may leave a receipt.
Goes(r) ==
  /\ \E place \in Working : step' = [step EXCEPT ![r] = place]
  /\ UNCHANGED <<line, outcome, plan, handoff, newest>>

Ends(r) ==
  /\ step' = [step EXCEPT ![r] = "done"]
  /\ \E answer \in Outcomes \ {"none"} : outcome' = [outcome EXCEPT ![r] = answer]
  /\ line' = [line EXCEPT ![SessionOf[r]] = Tail(@)]
  /\ \/ handoff' = Retire(handoff, r)
     \/ handoff' = Retire(Issue(handoff, r), r) /\ r \in text /\ outcome'[r] = "answered"
  /\ UNCHANGED <<plan, newest>>

\* What a run writes is its own.
Writes(r) == \E item \in ItemType : item.run = r /\ Written(SessionOf[r], item)

Control(r) ==
  /\ step[r] \notin {"idle", "done"} /\ Head(line[SessionOf[r]]) = r
  /\ Goes(r) \/ Ends(r)
  /\ hist' = hist \/ (step[r] \in Working /\ Writes(r))
  /\ Goes(r) \/ (r \in text' <=> r \in text)
  /\ UNCHANGED <<aborted, closed, draining>>

\* A run that takes a step is the first of its session's queue.
LEMMA WorkerIsFirst ==
  ASSUME Types, QueuesFit, NEW r \in Runs, step[r] \in Working \/ (Stands(r, "queued") /\ MyTurn(r))
  PROVE  step[r] \notin {"idle", "done"} /\ Head(line[SessionOf[r]]) = r /\ SessionOf[r] \in Sessions
         /\ line[SessionOf[r]] \in Seq(Runs) /\ line[SessionOf[r]] # <<>>
  <1>1. step[r] \notin {"idle", "done"}  BY DEF Working, Stands
  <1>2. SessionOf[r] \in Sessions  BY HandoffAssumption
  <1>3. InSeq(line[SessionOf[r]], r)  BY <1>1, <1>2 DEF QueuesFit, LineFits
  <1>4. line[SessionOf[r]] \in Seq(Runs)  BY <1>2 DEF Types, Shared
  <1>5. line[SessionOf[r]] # <<>>  BY <1>3, <1>4 DEF InSeq
  <1>6. Head(line[SessionOf[r]]) = r  BY DEF QueuesFit, HeadFits, MyTurn
  <1> QED BY <1>1, <1>2, <1>4, <1>5, <1>6

LEMMA HandoffTypes ==
  ASSUME handoff \in HandoffType, NEW r \in Runs
  PROVE  /\ Issue(handoff, r) \in HandoffType /\ Retire(handoff, r) \in HandoffType
         /\ Retire(Issue(handoff, r), r) \in HandoffType
  BY HandoffAssumption DEF HandoffType, Issue, Retire

\* How the shared variables move.
LEMMA SharedMoves ==
  ASSUME Types, QueuesFit, NEW r \in Runs, step[r] \in Working \/ (Stands(r, "queued") /\ MyTurn(r)), Goes(r) \/ Ends(r)
  PROVE  Shared' /\ \A o \in Runs \ {r} : step'[o] = step[o] /\ outcome'[o] = outcome[o]
  <1>1. SessionOf[r] \in Sessions /\ line[SessionOf[r]] \in Seq(Runs) /\ line[SessionOf[r]] # <<>>  BY WorkerIsFirst
  <1>2. Tail(line[SessionOf[r]]) \in Seq(Runs)  BY <1>1
  <1>3. CASE Goes(r)  BY <1>3 DEF Goes, Types, Shared, Places
  <1>4. CASE Ends(r)
    <2>1. handoff' \in HandoffType  BY <1>4, HandoffTypes DEF Ends, Types, Shared
    <2>2. line' \in [Sessions -> Seq(Runs)]  BY <1>4, <1>2, <1>1 DEF Ends, Types, Shared
    <2>3. step' \in [Runs -> Places] /\ outcome' \in [Runs -> Outcomes]  BY <1>4 DEF Ends, Types, Shared, Places
    <2> QED BY <1>4, <2>1, <2>2, <2>3 DEF Ends, Types, Shared
  <1> QED BY <1>3, <1>4

LEMMA EndEnds ==
  ASSUME NEW r \in Runs, NEW answer \in Outcomes \ {"none"}, End(r, answer)
  PROVE  Ends(r) /\ UNCHANGED executed /\ step' = [step EXCEPT ![r] = "done"] /\ outcome' = [outcome EXCEPT ![r] = answer]
  BY DEF End, Settled, Ends, Leave

LEMMA GoGoes ==
  ASSUME NEW r \in Runs, NEW place \in Working, Go(r, place)
  PROVE  Goes(r) /\ UNCHANGED executed /\ step' = [step EXCEPT ![r] = place] /\ outcome' = outcome
  BY DEF Go, Goes

\* Why a run is interrupted.
LEMMA Interruptions ==
  ASSUME NEW r \in Runs
  PROVE  Interruption(r) \in {"", "cancelled", "closed"}
  BY DEF Interruption

LEMMA Limits == MaxSteps \in Nat /\ MaxPerStep \in Nat /\ MaxCalls \in Nat
  BY RunsAssumption

LEMMA NextStepMoves ==
  ASSUME Types, NEW r \in Runs, NextStep(r)
  PROVE  /\ Goes(r) \/ Ends(r)
         /\ UNCHANGED executed
         /\ \/ outcome' = [outcome EXCEPT ![r] = Interruption(r)] /\ Interruption(r) # "" /\ UNCHANGED steps
               /\ step' = [step EXCEPT ![r] = "done"]
            \/ outcome' = [outcome EXCEPT ![r] = "limit"] /\ UNCHANGED steps /\ step' = [step EXCEPT ![r] = "done"]
            \/ UNCHANGED outcome /\ step' = [step EXCEPT ![r] = "asking"] /\ steps[r] < MaxSteps
               /\ steps' = [steps EXCEPT ![r] = @ + 1]
  <1>1. Interruption(r) # "" => Interruption(r) \in Outcomes \ {"none"}  BY Interruptions DEF Outcomes
  <1>2. "limit" \in Outcomes \ {"none"} /\ "asking" \in Working  BY DEF Outcomes, Working
  <1>3. CASE Interruption(r) # ""  BY <1>1, <1>3, EndEnds DEF NextStep
  <1>4. CASE Interruption(r) = "" /\ steps[r] >= MaxSteps  BY <1>2, <1>4, EndEnds DEF NextStep
  <1>5. CASE Interruption(r) = "" /\ ~(steps[r] >= MaxSteps)
    <2>1. Go(r, "asking") /\ steps' = [steps EXCEPT ![r] = @ + 1]  BY <1>5 DEF NextStep
    <2>2. steps[r] < MaxSteps
      <3>1. steps[r] \in Nat  BY DEF Types, Local
      <3>2. MaxSteps \in Nat  BY Limits
      <3>3. ~(steps[r] >= MaxSteps)  BY <1>5
      <3> QED BY <3>1, <3>2, <3>3
    <2> QED BY <1>2, <2>1, <2>2, GoGoes
  <1> QED BY <1>3, <1>4, <1>5

-----------------------------------------------------------------------------
(* One lemma per step of a run: what it may touch *)

\* What holds of every step of a run.
Moves(r) == Types' /\ Control(r) /\ Frame(r)

LEMMA ItemTypes ==
  ASSUME NEW r \in Runs, NEW content \in Contents
  PROVE  /\ Item("text", None, r, content) \in ItemType /\ Item("checkpoint", None, r, content) \in ItemType
         /\ \A id \in AllIds : Item("call", id, r, content) \in ItemType /\ Item("result", id, r, content) \in ItemType
         /\ \A kind, id, c : Item(kind, id, r, c).run = r
  BY DEF Item, ItemType, AllIds

LEMMA WriteMoves ==
  ASSUME Types, NEW r \in Runs, NEW item \in ItemType, item.run = r,
         Written(SessionOf[r], item) \/ UNCHANGED hist
  PROVE  hist' \in [Sessions -> Seq(ItemType)] /\ (hist' = hist \/ Writes(r))
  <1>1. SessionOf[r] \in Sessions  BY HandoffAssumption
  <1>2. hist[SessionOf[r]] \in Seq(ItemType)  BY <1>1 DEF Types
  <1>3. Append(hist[SessionOf[r]], item) \in Seq(ItemType)  BY <1>2
  <1> QED BY <1>1, <1>3 DEF Types, Written, Writes

LEMMA Spoken == "" \in Contents /\ "ran" \in Contents /\ "failed" \in Contents /\ "interrupted" \in Contents
                /\ "skipped" \in Contents /\ "user" \in Contents /\ "reply" \in Contents /\ "answer" \in Contents
  BY DEF Contents

\* The places and outcomes the steps name.
LEMMA PlaceNames ==
  /\ \A place \in Working : place \in Places
  /\ "reading" \in Working /\ "greeting" \in Working /\ "asking" \in Working /\ "committing" \in Working
  /\ "confirming" \in Working /\ "recording" \in Working /\ "speaking" \in Working /\ "persisting" \in Working
  /\ "executing" \in Working /\ "running" \in Working /\ "settling" \in Working /\ "clearing" \in Working
  /\ "summarising" \in Working
  BY DEF Places, Working

LEMMA OutcomeNames ==
  \A answer \in {"answered", "cancelled", "closed", "failed", "unreplayable", "invalid", "limit", "loop", "denied",
                 "storage", "telemetry", "tool", "lost"} : answer \in Outcomes \ {"none"}
  BY DEF Outcomes

LEMMA StartMoves ==
  ASSUME Types, QueuesFit, NEW r \in Runs, Start(r)
  PROVE  Moves(r)
  <1>1. step[r] \notin {"idle", "done"} /\ Head(line[SessionOf[r]]) = r  BY WorkerIsFirst DEF Start
  <1>2. (Goes(r) \/ Ends(r)) /\ UNCHANGED executed
    BY EndEnds, GoGoes, Interruptions, PlaceNames, OutcomeNames DEF Start
  <1>3. Shared' /\ \A o \in Runs \ {r} : step'[o] = step[o] /\ outcome'[o] = outcome[o]
    BY <1>2, SharedMoves DEF Start
  <1>4. UNCHANGED <<hist, transcript, batch, signals>>  BY DEF Start
  <1>5. Types'  BY <1>2, <1>3, <1>4 DEF Types, Local, transcript, batch, signals
  <1>6. Control(r)  BY <1>1, <1>2, <1>4 DEF Control, transcript, signals
  <1>7. Frame(r)  BY <1>2, <1>3, <1>4 DEF Frame, transcript, batch
  <1> QED BY <1>5, <1>6, <1>7 DEF Moves

LEMMA ReadMoves ==
  ASSUME Types, QueuesFit, NEW r \in Runs, Read(r)
  PROVE  Moves(r)
  <1>0. step[r] = "reading" /\ step[r] \in Working  BY DEF Read, Stands, Working
  <1>1. step[r] \notin {"idle", "done"} /\ Head(line[SessionOf[r]]) = r  BY <1>0, WorkerIsFirst
  <1>2. (Goes(r) \/ Ends(r)) /\ UNCHANGED executed
    BY EndEnds, GoGoes, Interruptions, PlaceNames, OutcomeNames DEF Read
  <1>3. Shared' /\ \A o \in Runs \ {r} : step'[o] = step[o] /\ outcome'[o] = outcome[o]
    BY <1>0, <1>2, SharedMoves
  <1>4. UNCHANGED <<hist, turn, text, past, used, steps, batch, signals>>  BY DEF Read
  <1>5. DOMAIN known' = Runs /\ \A o \in Runs \ {r} : known'[o] = known[o]  BY DEF Read, Types, Local
  <1>6. Types'  BY <1>2, <1>3, <1>4, <1>5 DEF Types, Local, batch, signals
  <1>7. Control(r)  BY <1>1, <1>2, <1>4 DEF Control, signals
  <1>8. Frame(r)  BY <1>2, <1>3, <1>4, <1>5 DEF Frame, batch
  <1> QED BY <1>6, <1>7, <1>8 DEF Moves

LEMMA GreetMoves ==
  ASSUME Types, QueuesFit, NEW r \in Runs, Greet(r)
  PROVE  Moves(r)
  <1>0. step[r] = "greeting" /\ step[r] \in Working  BY DEF Greet, Stands, Working
  <1>1. step[r] \notin {"idle", "done"} /\ Head(line[SessionOf[r]]) = r  BY <1>0, WorkerIsFirst
  <1> DEFINE item == Item("text", None, r, "user")
  <1>2. item \in ItemType /\ item.run = r  BY ItemTypes, Spoken
  <1>3. /\ Written(SessionOf[r], item) \/ UNCHANGED hist
        /\ (Goes(r) \/ Ends(r)) /\ UNCHANGED executed
        /\ UNCHANGED steps \/ steps' = [steps EXCEPT ![r] = @ + 1]
    <2>1. CASE Refused(SessionOf[r], item) /\ End(r, "storage") /\ UNCHANGED steps
      BY <2>1, EndEnds, OutcomeNames DEF Refused
    <2>2. CASE Acknowledged(SessionOf[r], item) /\ NextStep(r)
      BY <2>2, NextStepMoves DEF Acknowledged
    <2> QED BY <2>1, <2>2 DEF Greet
  <1> HIDE DEF item
  <1>4. hist' \in [Sessions -> Seq(ItemType)] /\ (hist' = hist \/ Writes(r))  BY <1>2, <1>3, WriteMoves
  <1>5. Shared' /\ \A o \in Runs \ {r} : step'[o] = step[o] /\ outcome'[o] = outcome[o]
    BY <1>0, <1>3, SharedMoves
  <1>6. UNCHANGED <<known, turn, text, past, used, batch, signals>>  BY DEF Greet
  <1>7. steps' \in [Runs -> Nat] /\ \A o \in Runs \ {r} : steps'[o] = steps[o]
    <2>1. UNCHANGED steps \/ steps' = [steps EXCEPT ![r] = @ + 1]  BY <1>3
    <2>2. steps \in [Runs -> Nat]  BY DEF Types, Local
    <2> QED BY <2>1, <2>2
  <1>8. Types'  BY <1>3, <1>4, <1>5, <1>6, <1>7 DEF Types, Local, batch, signals
  <1>9. Control(r)  BY <1>0, <1>1, <1>3, <1>4, <1>6 DEF Control, signals
  <1>10. Frame(r)  BY <1>3, <1>5, <1>6, <1>7 DEF Frame, batch
  <1> QED BY <1>8, <1>9, <1>10 DEF Moves

LEMMA ProviderFailsMoves ==
  ASSUME Types, QueuesFit, NEW r \in Runs, ProviderFails(r)
  PROVE  Moves(r)
  <1>0. step[r] = "asking" /\ step[r] \in Working  BY DEF ProviderFails, Stands, Working
  <1>1. step[r] \notin {"idle", "done"} /\ Head(line[SessionOf[r]]) = r  BY <1>0, WorkerIsFirst
  <1>2. (Goes(r) \/ Ends(r)) /\ UNCHANGED executed
    BY EndEnds, OutcomeNames DEF ProviderFails
  <1>3. Shared' /\ \A o \in Runs \ {r} : step'[o] = step[o] /\ outcome'[o] = outcome[o]
    BY <1>0, <1>2, SharedMoves
  <1>4. UNCHANGED <<hist, transcript, batch, signals>>  BY DEF ProviderFails
  <1>5. Types'  BY <1>2, <1>3, <1>4 DEF Types, Local, transcript, batch, signals
  <1>6. Control(r)  BY <1>1, <1>2, <1>4 DEF Control, transcript, signals
  <1>7. Frame(r)  BY <1>2, <1>3, <1>4 DEF Frame, transcript, batch
  <1> QED BY <1>5, <1>6, <1>7 DEF Moves

\* What a provider answers is a sequence of calls.
LEMMA Answers ==
  ASSUME NEW r \in Runs, NEW calls \in Turns[r]
  PROVE  calls \in Seq(Range(calls)) /\ Len(calls) \in Nat /\ DOMAIN calls = 1 .. Len(calls)
         /\ \A i \in 1 .. Len(calls) : calls[i].id \in AllIds /\ calls[i].id \in Ids(calls)
  <1>1. calls \in Seq(Range(calls))  BY RunsAssumption
  <1>2. Len(calls) \in Nat /\ DOMAIN calls = 1 .. Len(calls)  BY <1>1
  <1> QED BY <1>1, <1>2 DEF AllIds, CallIdsOf, Ids

LEMMA Rejections ==
  ASSUME NEW r \in Runs, NEW calls, Rejection(r, calls) # ""
  PROVE  Rejection(r, calls) \in {"cancelled", "closed", "invalid", "limit", "loop", "denied"}
  BY Interruptions DEF Rejection

LEMMA AnswerMoves ==
  ASSUME Types, QueuesFit, NEW r \in Runs, Answer(r)
  PROVE  Moves(r)
  <1>0. step[r] = "asking" /\ step[r] \in Working  BY DEF Answer, Stands, Working
  <1>1. step[r] \notin {"idle", "done"} /\ Head(line[SessionOf[r]]) = r  BY <1>0, WorkerIsFirst
  <1>2. PICK calls \in Turns[r], spoken \in BOOLEAN :
       \/ /\ Rejection(r, calls) # ""
          /\ End(r, Rejection(r, calls))
          /\ UNCHANGED <<transcript, batch>>
       \/ /\ Rejection(r, calls) = ""
          /\ turn' = [turn EXCEPT ![r] = calls]
          /\ text' = IF spoken THEN text \cup {r} ELSE text \ {r}
          /\ past' = [past EXCEPT ![r] = IF calls = <<>> THEN @ ELSE @ \cup {calls}]
          /\ used' = [used EXCEPT ![r] = @ + Len(calls)]
          /\ persisted' = [persisted EXCEPT ![r] = 0]
          /\ tried' = [tried EXCEPT ![r] = {}]
          /\ Go(r, IF calls = <<>> THEN "committing" ELSE "recording")
          /\ UNCHANGED <<known, steps, todo, failure>>
    BY DEF Answer
  <1>3. UNCHANGED <<hist, signals>>  BY DEF Answer
  <1>4. CASE Rejection(r, calls) # ""
    <2>1. End(r, Rejection(r, calls)) /\ UNCHANGED <<transcript, batch>>  BY <1>2, <1>4
    <2>2. Ends(r) /\ UNCHANGED executed  BY <1>4, <2>1, EndEnds, Rejections, OutcomeNames
    <2>3. Shared' /\ \A o \in Runs \ {r} : step'[o] = step[o] /\ outcome'[o] = outcome[o]
      BY <1>0, <2>2, SharedMoves
    <2>4. Types'  BY <1>3, <2>1, <2>2, <2>3 DEF Types, Local, transcript, batch, signals
    <2>5. Control(r)  BY <1>1, <1>3, <2>1, <2>2 DEF Control, transcript, signals
    <2>6. Frame(r)  BY <2>1, <2>2, <2>3 DEF Frame, transcript, batch
    <2> QED BY <2>4, <2>5, <2>6 DEF Moves
  <1>5. CASE Rejection(r, calls) = ""
    <2>1. Goes(r) /\ UNCHANGED executed  BY <1>2, <1>5, GoGoes, PlaceNames
    <2>2. Shared' /\ \A o \in Runs \ {r} : step'[o] = step[o] /\ outcome'[o] = outcome[o]
      BY <1>0, <2>1, SharedMoves
    <2>3. Local' /\ \A o \in Runs \ {r} : turn'[o] = turn[o] /\ past'[o] = past[o] /\ used'[o] = used[o]
                   /\ persisted'[o] = persisted[o] /\ tried'[o] = tried[o] /\ (o \in text' <=> o \in text)
      <3>1. used' \in [Runs -> Nat] /\ \A o \in Runs \ {r} : used'[o] = used[o]
        <4>1. used \in [Runs -> Nat] /\ Len(calls) \in Nat /\ used' = [used EXCEPT ![r] = @ + Len(calls)]
          BY <1>2, <1>5, Answers DEF Types, Local
        <4> QED BY <4>1
      <3>2. persisted' \in [Runs -> Nat] /\ \A o \in Runs \ {r} : persisted'[o] = persisted[o]
        <4>1. persisted' = [persisted EXCEPT ![r] = 0] /\ persisted \in [Runs -> Nat]  BY <1>2, <1>5 DEF Types, Local
        <4> QED BY <4>1
      <3>3. text' \subseteq Runs /\ \A o \in Runs \ {r} : o \in text' <=> o \in text
        <4>1. text' = text \cup {r} \/ text' = text \ {r}  BY <1>2, <1>5
        <4>2. text \subseteq Runs  BY DEF Types, Local
        <4> QED BY <4>1, <4>2
      <3>4. /\ DOMAIN turn' = Runs /\ \A o \in Runs \ {r} : turn'[o] = turn[o]
            /\ \A o \in Runs : turn'[o] = <<>> \/ turn'[o] \in Turns[o]
        BY <1>2, <1>5 DEF Types, Local
      <3>5. DOMAIN past' = Runs /\ \A o \in Runs \ {r} : past'[o] = past[o]  BY <1>2, <1>5 DEF Types, Local
      <3>6. DOMAIN tried' = Runs /\ \A o \in Runs \ {r} : tried'[o] = tried[o]  BY <1>2, <1>5 DEF Types, Local
      <3>7. UNCHANGED <<known, steps, todo, failure>>  BY <1>2, <1>5
      <3> QED BY <3>1, <3>2, <3>3, <3>4, <3>5, <3>6, <3>7 DEF Types, Local
    <2>4. UNCHANGED <<known, steps, todo, failure>>  BY <1>2, <1>5
    <2>5. Types'  BY <1>3, <2>1, <2>2, <2>3 DEF Types, signals
    <2>6. Control(r)  BY <1>1, <1>3, <2>1 DEF Control, signals
    <2>7. Frame(r)  BY <2>1, <2>2, <2>3, <2>4 DEF Frame
    <2> QED BY <2>5, <2>6, <2>7 DEF Moves
  <1> QED BY <1>4, <1>5

LEMMA CommitMoves ==
  ASSUME Types, QueuesFit, NEW r \in Runs, Commit(r)
  PROVE  Moves(r)
  <1>0. step[r] = "committing" /\ step[r] \in Working  BY DEF Commit, Stands, Working
  <1>1. step[r] \notin {"idle", "done"} /\ Head(line[SessionOf[r]]) = r  BY <1>0, WorkerIsFirst
  <1> DEFINE item == Item("text", None, r, "answer")
  <1>2. item \in ItemType /\ item.run = r  BY ItemTypes, Spoken
  <1>3. /\ Written(SessionOf[r], item) \/ UNCHANGED hist
        /\ \E why \in Failures : Go(r, "confirming") /\ failure' = [failure EXCEPT ![r] = why]
    <2>1. Interruption(r) \in Failures /\ "storage" \in Failures /\ "" \in Failures
      BY Interruptions DEF Failures
    <2> QED BY <2>1 DEF Commit, Refused
  <1> HIDE DEF item
  <1>4. hist' \in [Sessions -> Seq(ItemType)] /\ (hist' = hist \/ Writes(r))  BY <1>2, <1>3, WriteMoves
  <1>5. Goes(r) /\ UNCHANGED executed  BY <1>3, GoGoes, PlaceNames
  <1>6. Shared' /\ \A o \in Runs \ {r} : step'[o] = step[o] /\ outcome'[o] = outcome[o]
    BY <1>0, <1>5, SharedMoves
  <1>7. UNCHANGED <<transcript, persisted, tried, todo, signals>>  BY DEF Commit
  <1>8. failure' \in [Runs -> Failures] /\ \A o \in Runs \ {r} : failure'[o] = failure[o]
    BY <1>3 DEF Types, Local
  <1>9. Types'  BY <1>4, <1>5, <1>6, <1>7, <1>8 DEF Types, Local, transcript, signals
  <1>10. Control(r)  BY <1>0, <1>1, <1>4, <1>5, <1>7 DEF Control, signals
  <1>11. Frame(r)  BY <1>5, <1>6, <1>7, <1>8 DEF Frame, transcript
  <1> QED BY <1>9, <1>10, <1>11 DEF Moves

LEMMA FailureNames == \A why \in Failures \ {""} : why \in Outcomes \ {"none"} /\ why # "answered"
  BY DEF Failures, Outcomes

LEMMA ConfirmMoves ==
  ASSUME Types, QueuesFit, NEW r \in Runs, Confirm(r)
  PROVE  Moves(r)
  <1>0. step[r] = "confirming" /\ step[r] \in Working  BY DEF Confirm, Stands, Working
  <1>1. step[r] \notin {"idle", "done"} /\ Head(line[SessionOf[r]]) = r  BY <1>0, WorkerIsFirst
  <1>2. Ends(r) /\ UNCHANGED executed
    <2>1. CASE End(r, "telemetry")  BY <2>1, EndEnds, OutcomeNames
    <2>2. CASE Verdict(r) # "" /\ End(r, Verdict(r))
      <3>1. failure[r] \in Failures  BY DEF Types, Local
      <3> QED BY <2>2, <3>1, EndEnds, FailureNames DEF Verdict
    <2>3. CASE /\ Settled(r, "answered")
               /\ handoff' = Retire(IF KindOf[r] = "plan" /\ r \in text THEN Issue(handoff, r) ELSE handoff, r)
               /\ UNCHANGED <<plan, executed, newest>>
      <3>1. outcome'[r] = "answered"  BY <2>3 DEF Settled, Types, Shared
      <3>2. "answered" \in Outcomes \ {"none"}  BY OutcomeNames
      <3>3. handoff' = Retire(handoff, r) \/ (handoff' = Retire(Issue(handoff, r), r) /\ r \in text)
        <4> DEFINE h == IF KindOf[r] = "plan" /\ r \in text THEN Issue(handoff, r) ELSE handoff
        <4>1. h = handoff \/ (h = Issue(handoff, r) /\ r \in text)  OBVIOUS
        <4>2. handoff' = Retire(h, r)  BY <2>3
        <4> HIDE DEF h
        <4>3. CASE h = handoff  BY <4>2, <4>3
        <4>4. CASE h = Issue(handoff, r) /\ r \in text  BY <4>2, <4>4
        <4> QED BY <4>1, <4>3, <4>4
      <3> QED BY <2>3, <3>1, <3>2, <3>3 DEF Settled, Ends, Leave
    <2> QED BY <2>1, <2>2, <2>3 DEF Confirm
  <1>3. Shared' /\ \A o \in Runs \ {r} : step'[o] = step[o] /\ outcome'[o] = outcome[o]
    BY <1>0, <1>2, SharedMoves
  <1>4. UNCHANGED <<hist, transcript, batch, signals>>  BY DEF Confirm
  <1>5. Types'  BY <1>2, <1>3, <1>4 DEF Types, Local, transcript, batch, signals
  <1>6. Control(r)  BY <1>1, <1>2, <1>4 DEF Control, transcript, signals
  <1>7. Frame(r)  BY <1>2, <1>3, <1>4 DEF Frame, transcript, batch
  <1> QED BY <1>5, <1>6, <1>7 DEF Moves

LEMMA RecordMoves ==
  ASSUME Types, QueuesFit, NEW r \in Runs, Record(r)
  PROVE  Moves(r)
  <1>0. step[r] = "recording" /\ step[r] \in Working  BY DEF Record, Stands, Working
  <1>1. step[r] \notin {"idle", "done"} /\ Head(line[SessionOf[r]]) = r  BY <1>0, WorkerIsFirst
  <1>2. (Goes(r) \/ Ends(r)) /\ UNCHANGED executed
    BY EndEnds, GoGoes, PlaceNames, OutcomeNames DEF Record
  <1>3. Shared' /\ \A o \in Runs \ {r} : step'[o] = step[o] /\ outcome'[o] = outcome[o]
    BY <1>0, <1>2, SharedMoves
  <1>4. UNCHANGED <<hist, transcript, batch, signals>>  BY DEF Record
  <1>5. Types'  BY <1>2, <1>3, <1>4 DEF Types, Local, transcript, batch, signals
  <1>6. Control(r)  BY <1>1, <1>2, <1>4 DEF Control, transcript, signals
  <1>7. Frame(r)  BY <1>2, <1>3, <1>4 DEF Frame, transcript, batch
  <1> QED BY <1>5, <1>6, <1>7 DEF Moves

LEMMA SpeakMoves ==
  ASSUME Types, QueuesFit, NEW r \in Runs, Speak(r)
  PROVE  Moves(r)
  <1>0. step[r] = "speaking" /\ step[r] \in Working  BY DEF Speak, Stands, Working
  <1>1. step[r] \notin {"idle", "done"} /\ Head(line[SessionOf[r]]) = r  BY <1>0, WorkerIsFirst
  <1> DEFINE item == Item("text", None, r, "reply")
  <1>2. item \in ItemType /\ item.run = r  BY ItemTypes, Spoken
  <1>3. /\ Written(SessionOf[r], item) \/ UNCHANGED hist
        /\ (Goes(r) \/ Ends(r)) /\ UNCHANGED executed
    BY EndEnds, GoGoes, Interruptions, PlaceNames, OutcomeNames DEF Speak, Refused, Acknowledged
  <1> HIDE DEF item
  <1>4. hist' \in [Sessions -> Seq(ItemType)] /\ (hist' = hist \/ Writes(r))  BY <1>2, <1>3, WriteMoves
  <1>5. Shared' /\ \A o \in Runs \ {r} : step'[o] = step[o] /\ outcome'[o] = outcome[o]
    BY <1>0, <1>3, SharedMoves
  <1>6. UNCHANGED <<transcript, batch, signals>>  BY DEF Speak
  <1>7. Types'  BY <1>3, <1>4, <1>5, <1>6 DEF Types, Local, transcript, batch, signals
  <1>8. Control(r)  BY <1>0, <1>1, <1>3, <1>4, <1>6 DEF Control, transcript, signals
  <1>9. Frame(r)  BY <1>3, <1>5, <1>6 DEF Frame, transcript, batch
  <1> QED BY <1>7, <1>8, <1>9 DEF Moves

LEMMA SummariseMoves ==
  ASSUME Types, QueuesFit, NEW r \in Runs, Summarise(r)
  PROVE  Moves(r)
  <1>0. step[r] = "summarising" /\ step[r] \in Working  BY DEF Summarise, Stands, Working
  <1>1. step[r] \notin {"idle", "done"} /\ Head(line[SessionOf[r]]) = r  BY <1>0, WorkerIsFirst
  <1> DEFINE item == Item("checkpoint", None, r, "")
  <1>2. item \in ItemType /\ item.run = r  BY ItemTypes, Spoken
  <1>3. /\ Written(SessionOf[r], item) \/ UNCHANGED hist
        /\ Ends(r) /\ UNCHANGED executed
    BY EndEnds, Interruptions, OutcomeNames DEF Summarise
  <1> HIDE DEF item
  <1>4. hist' \in [Sessions -> Seq(ItemType)] /\ (hist' = hist \/ Writes(r))  BY <1>2, <1>3, WriteMoves
  <1>5. Shared' /\ \A o \in Runs \ {r} : step'[o] = step[o] /\ outcome'[o] = outcome[o]
    BY <1>0, <1>3, SharedMoves
  <1>6. UNCHANGED <<transcript, batch, signals>>  BY DEF Summarise
  <1>7. Types'  BY <1>3, <1>4, <1>5, <1>6 DEF Types, Local, transcript, batch, signals
  <1>8. Control(r)  BY <1>0, <1>1, <1>3, <1>4, <1>6 DEF Control, transcript, signals
  <1>9. Frame(r)  BY <1>3, <1>5, <1>6 DEF Frame, transcript, batch
  <1> QED BY <1>7, <1>8, <1>9 DEF Moves

\* The calls of a batch.
LEMMA BatchCalls ==
  ASSUME Types, NEW r \in Runs, BatchFits(r), step[r] \in Batching
  PROVE  /\ turn[r] \in Turns[r] /\ Len(turn[r]) \in Nat \ {0} /\ DOMAIN turn[r] = 1 .. Len(turn[r])
         /\ turn[r] \in Seq(Range(turn[r]))
         /\ \A i \in 1 .. Len(turn[r]) : turn[r][i].id \in AllIds /\ turn[r][i].id \in Ids(turn[r])
         /\ \A i, j \in 1 .. Len(turn[r]) : turn[r][i].id = turn[r][j].id => i = j
         /\ persisted[r] \in 0 .. Len(turn[r]) /\ IdsTo(r, persisted[r]) \subseteq known[r]
         /\ Ids(turn[r]) = IdsTo(r, Len(turn[r]))
  <1>1. turn[r] # <<>> /\ turn[r] \in Turns[r]  BY DEF BatchFits, Types, Local
  <1>2. turn[r] \in Seq(Range(turn[r])) /\ Len(turn[r]) \in Nat /\ DOMAIN turn[r] = 1 .. Len(turn[r])
        /\ \A i \in 1 .. Len(turn[r]) : turn[r][i].id \in AllIds /\ turn[r][i].id \in Ids(turn[r])
    BY <1>1, Answers
  <1>3. Len(turn[r]) # 0  BY <1>1, <1>2
  <1>4. persisted[r] \in Nat /\ persisted[r] <= Len(turn[r])  BY DEF BatchFits, Types, Local
  <1>5. \A i, j \in 1 .. Len(turn[r]) : turn[r][i].id = turn[r][j].id => i = j  BY DEF BatchFits
  <1>6. IdsTo(r, persisted[r]) \subseteq known[r]  BY DEF BatchFits
  <1>7. Ids(turn[r]) = IdsTo(r, Len(turn[r]))  BY <1>2 DEF Ids, IdsTo
  <1> QED BY <1>1, <1>2, <1>3, <1>4, <1>5, <1>6, <1>7

\* The first entry of todo is about the call it says, and IndexOf finds that call.
LEMMA AtNumberFacts ==
  ASSUME Types, NEW r \in Runs, BatchFits(r), step[r] \in Batching, NEW n \in Nat, AtNumber(r, n)
  PROVE  /\ n \in 1 .. Len(turn[r]) /\ todo[r] # <<>> /\ todo[r][1] = Head(todo[r])
         /\ Head(todo[r]).id = turn[r][n].id /\ Head(todo[r]).id \in AllIds
         /\ Head(todo[r]).content \in Contents \ {"user", "reply", "answer"} /\ IndexOf(r, Head(todo[r]).id) = n
         /\ Head(todo[r]).id \notin tried[r]
         /\ tried[r] \cup {Head(todo[r]).id} = IdsTo(r, n)
  <1>1. n \in 1 .. Len(turn[r])  BY DEF AtNumber
  <1>2. /\ todo[r] \in Seq([id : AllIds, content : {"", "ran", "failed", "interrupted", "skipped"}])
        /\ Len(todo[r]) >= 1 /\ \A k \in 1 .. Len(todo[r]) : todo[r][k].id = turn[r][n + k - 1].id
        /\ tried[r] = IdsTo(r, n - 1)
    BY DEF AtNumber
  <1>3. todo[r] # <<>> /\ todo[r][1] = Head(todo[r]) /\ 1 \in 1 .. Len(todo[r])
        /\ Head(todo[r]) \in [id : AllIds, content : {"", "ran", "failed", "interrupted", "skipped"}]
    <2> DEFINE S == [id : AllIds, content : {"", "ran", "failed", "interrupted", "skipped"}]
    <2>1. todo[r] \in Seq(S) /\ Len(todo[r]) >= 1  BY <1>2
    <2> HIDE DEF S
    <2>2. todo[r] # <<>> /\ todo[r][1] = Head(todo[r]) /\ 1 \in 1 .. Len(todo[r]) /\ Head(todo[r]) \in S  BY <2>1
    <2> QED BY <2>2 DEF S
  <1>4. Head(todo[r]).id = turn[r][n].id
    <2>1. todo[r][1].id = turn[r][n + 1 - 1].id  BY <1>2, <1>3
    <2>2. n + 1 - 1 = n  OBVIOUS
    <2>3. todo[r][1].id = turn[r][n].id  BY <2>1, <2>2, Zenon
    <2> QED BY <1>3, <2>3, Zenon
  <1>5. \A i, j \in 1 .. Len(turn[r]) : turn[r][i].id = turn[r][j].id => i = j  BY DEF BatchFits
  <1>6. DOMAIN turn[r] = 1 .. Len(turn[r]) /\ Len(turn[r]) \in Nat  BY BatchCalls
  <1>7. IndexOf(r, Head(todo[r]).id) = n  BY <1>1, <1>4, <1>5, <1>6 DEF IndexOf
  <1>8. Head(todo[r]).id \notin tried[r]
    <2>1. \A k \in 1 .. n - 1 : k \in 1 .. Len(turn[r]) /\ k # n  BY <1>1, <1>6
    <2> QED BY <1>1, <1>2, <1>4, <1>5, <2>1 DEF IdsTo
  <1>9. tried[r] \cup {Head(todo[r]).id} = IdsTo(r, n)
    <2>1. \A k : k \in 1 .. n <=> k \in 1 .. n - 1 \/ k = n  BY <1>1, <1>6
    <2>2. tried[r] = IdsTo(r, n - 1)  BY <1>2
    <2>3. IdsTo(r, n) = IdsTo(r, n - 1) \cup {turn[r][n].id}  BY <2>1, Zenon DEF IdsTo
    <2> QED BY <1>4, <2>2, <2>3
  <1>10. Head(todo[r]).content \in Contents \ {"user", "reply", "answer"}  BY <1>3 DEF Contents
  <1> QED BY <1>1, <1>3, <1>4, <1>7, <1>8, <1>9, <1>10

LEMMA SettleLeftMoves ==
  ASSUME Types, NEW r \in Runs, NEW t, NEW why \in Failures \ {""}, SettleLeft(r, t, why)
  PROVE  /\ Goes(r) \/ Ends(r)
         /\ UNCHANGED executed
         /\ failure' \in [Runs -> Failures] /\ \A o \in Runs \ {r} : failure'[o] = failure[o]
         /\ \/ Untouched(r, t) = {} /\ UNCHANGED failure
               /\ step' = [step EXCEPT ![r] = "done"] /\ outcome' = [outcome EXCEPT ![r] = why]
            \/ Untouched(r, t) # {} /\ failure' = [failure EXCEPT ![r] = why]
               /\ step' = [step EXCEPT ![r] = "clearing"] /\ UNCHANGED outcome
  <1>0. failure \in [Runs -> Failures]  BY DEF Types, Local
  <1>1. CASE Untouched(r, t) = {} /\ End(r, why) /\ UNCHANGED failure
    BY <1>0, <1>1, EndEnds, FailureNames
  <1>2. CASE Untouched(r, t) # {} /\ Go(r, "clearing") /\ failure' = [failure EXCEPT ![r] = why]
    <2>1. failure' \in [Runs -> Failures] /\ \A o \in Runs \ {r} : failure'[o] = failure[o]  BY <1>0, <1>2
    <2> QED BY <1>2, <2>1, GoGoes, PlaceNames
  <1> QED BY <1>1, <1>2 DEF SettleLeft

\* The three ways on from before the i-th call.
LEMMA AtCallMoves ==
  ASSUME Types, NEW r \in Runs, BatchFits(r), step[r] \in Batching, NEW i \in Nat \ {0}, AtCall(r, i)
  PROVE  /\ Goes(r) \/ Ends(r)
         /\ executed' = executed \/ \E id \in AllIds : executed' = executed \cup {<<r, id>>}
         /\ executed' \subseteq Runs \X AllIds
         /\ failure' \in [Runs -> Failures] /\ \A o \in Runs \ {r} : failure'[o] = failure[o]
         /\ steps' \in [Runs -> Nat] /\ \A o \in Runs \ {r} : steps'[o] = steps[o]
         /\ DOMAIN todo' = Runs /\ \A o \in Runs \ {r} : todo'[o] = todo[o]
  <1>0. failure \in [Runs -> Failures] /\ steps \in [Runs -> Nat] /\ DOMAIN todo = Runs
        /\ executed \subseteq Runs \X AllIds
    BY DEF Types, Local
  <1>1. CASE PastLast(r, i) /\ NextStep(r) /\ UNCHANGED <<todo, failure>>
    <2>1. (Goes(r) \/ Ends(r)) /\ UNCHANGED executed /\ (UNCHANGED steps \/ steps' = [steps EXCEPT ![r] = @ + 1])
      BY <1>1, NextStepMoves
    <2>2. steps' \in [Runs -> Nat] /\ \A o \in Runs \ {r} : steps'[o] = steps[o]  BY <1>0, <2>1
    <2> QED BY <1>0, <1>1, <2>1, <2>2
  <1>2. CASE /\ ~PastLast(r, i) /\ Interruption(r) = ""
             /\ step' = [step EXCEPT ![r] = "running"]
             /\ todo' = [todo EXCEPT ![r] = <<Result(turn[r][i].id, "")>>]
             /\ executed' = executed \cup {<<r, turn[r][i].id>>}
             /\ UNCHANGED <<line, outcome, plan, handoff, newest, steps, failure>>
    <2>1. i \in 1 .. Len(turn[r])
      <3>1. ~(i > Len(turn[r]))  BY <1>2 DEF PastLast
      <3>2. Len(turn[r]) \in Nat  BY BatchCalls
      <3> QED BY <3>1, <3>2
    <2>2. turn[r][i].id \in AllIds  BY <2>1, BatchCalls
    <2>3. Goes(r)  BY <1>2, PlaceNames DEF Goes
    <2>4. DOMAIN todo' = Runs /\ \A o \in Runs \ {r} : todo'[o] = todo[o]  BY <1>0, <1>2
    <2>6. UNCHANGED <<steps, failure>> /\ executed' = executed \cup {<<r, turn[r][i].id>>}  BY <1>2
    <2>7. <<r, turn[r][i].id>> \in Runs \X AllIds  BY <2>2
    <2>5. executed' \subseteq Runs \X AllIds  BY <1>0, <2>6, <2>7
    <2> QED BY <1>0, <2>2, <2>3, <2>4, <2>5, <2>6
  <1>3. CASE /\ ~PastLast(r, i) /\ Interruption(r) # ""
             /\ Go(r, "settling")
             /\ todo' = [todo EXCEPT ![r] = Skips(SubSeq(turn[r], i, Len(turn[r])))]
             /\ failure' = [failure EXCEPT ![r] = Interruption(r)]
             /\ UNCHANGED steps
    <2>1. Goes(r) /\ UNCHANGED executed  BY <1>3, GoGoes, PlaceNames
    <2>2. Interruption(r) \in Failures  BY Interruptions DEF Failures
    <2>3. DOMAIN todo' = Runs /\ \A o \in Runs \ {r} : todo'[o] = todo[o]  BY <1>0, <1>3
    <2>4. failure' \in [Runs -> Failures] /\ \A o \in Runs \ {r} : failure'[o] = failure[o]  BY <1>0, <1>3, <2>2
    <2>5. UNCHANGED steps  BY <1>3
    <2> QED BY <1>0, <2>1, <2>3, <2>4, <2>5
  <1> QED BY <1>1, <1>2, <1>3 DEF AtCall

LEMMA InterruptionFails ==
  ASSUME NEW r \in Runs, Interruption(r) # ""
  PROVE  Interruption(r) \in Failures \ {""}
  BY Interruptions DEF Failures

LEMMA StorageFails == "storage" \in Failures \ {""}
  BY DEF Failures

LEMMA PersistMoves ==
  ASSUME Types, QueuesFit, NEW r \in Runs, BatchFits(r), Persist(r)
  PROVE  Moves(r)
  <1>0. step[r] = "persisting" /\ step[r] \in Working /\ step[r] \in Batching
    BY DEF Persist, Stands, Working, Batching
  <1>1. step[r] \notin {"idle", "done"} /\ Head(line[SessionOf[r]]) = r  BY <1>0, WorkerIsFirst
  <1> DEFINE n == persisted[r] + 1
             id == turn[r][n].id
             item == Item("call", id, r, "")
  <1>2. n \in 1 .. Len(turn[r])
    <2>1. persisted[r] < Len(turn[r])  BY <1>0 DEF BatchFits
    <2>2. persisted[r] \in 0 .. Len(turn[r]) /\ Len(turn[r]) \in Nat  BY <1>0, BatchCalls
    <2> QED BY <2>1, <2>2
  <1>3. item \in ItemType /\ item.run = r
    <2>1. id \in AllIds  BY <1>0, <1>2, BatchCalls
    <2> HIDE DEF id
    <2> QED BY <2>1, ItemTypes, Spoken
  <1>4. /\ Written(SessionOf[r], item) \/ UNCHANGED hist
        /\ UNCHANGED known \/ known' = [known EXCEPT ![r] = @ \cup {id}]
        /\ UNCHANGED persisted \/ persisted' = [persisted EXCEPT ![r] = n]
        /\ \/ \E why \in Failures \ {""} : SettleLeft(r, tried[r], why)
           \/ (Go(r, "executing") \/ Go(r, "persisting")) /\ UNCHANGED failure
    BY InterruptionFails, StorageFails DEF Persist, Refused, Acknowledged
  <1>5. UNCHANGED <<turn, text, past, used, steps, tried, todo, signals>>  BY DEF Persist
  <1> HIDE DEF item, id, n
  <1>6. hist' \in [Sessions -> Seq(ItemType)] /\ (hist' = hist \/ Writes(r))  BY <1>3, <1>4, WriteMoves
  <1>7. /\ Goes(r) \/ Ends(r)
        /\ UNCHANGED executed
        /\ failure' \in [Runs -> Failures] /\ \A o \in Runs \ {r} : failure'[o] = failure[o]
    <2>1. failure \in [Runs -> Failures]  BY DEF Types, Local
    <2> QED BY <1>4, <2>1, SettleLeftMoves, GoGoes, PlaceNames
  <1>8. Shared' /\ \A o \in Runs \ {r} : step'[o] = step[o] /\ outcome'[o] = outcome[o]
    BY <1>0, <1>7, SharedMoves
  <1>9. DOMAIN known' = Runs /\ \A o \in Runs \ {r} : known'[o] = known[o]  BY <1>4 DEF Types, Local
  <1>10. persisted' \in [Runs -> Nat] /\ \A o \in Runs \ {r} : persisted'[o] = persisted[o]
    <2>1. persisted \in [Runs -> Nat] /\ n \in Nat  BY <1>2 DEF Types, Local
    <2>2. UNCHANGED persisted \/ persisted' = [persisted EXCEPT ![r] = n]  BY <1>4
    <2> QED BY <2>1, <2>2
  <1>11. Types'  BY <1>5, <1>6, <1>7, <1>8, <1>9, <1>10 DEF Types, Local, signals
  <1>12. Control(r)  BY <1>0, <1>1, <1>5, <1>6, <1>7 DEF Control, signals
  <1>13. Frame(r)  BY <1>5, <1>7, <1>8, <1>9, <1>10 DEF Frame
  <1> QED BY <1>11, <1>12, <1>13 DEF Moves

LEMMA ExecuteMoves ==
  ASSUME Types, QueuesFit, NEW r \in Runs, BatchFits(r), Execute(r)
  PROVE  Moves(r)
  <1>0. step[r] = "executing" /\ step[r] \in Working /\ step[r] \in Batching
    BY DEF Execute, Stands, Working, Batching
  <1>1. step[r] \notin {"idle", "done"} /\ Head(line[SessionOf[r]]) = r  BY <1>0, WorkerIsFirst
  <1>2. AtCall(r, 1) /\ UNCHANGED <<hist, known, turn, text, past, used, persisted, tried, signals>>  BY DEF Execute
  <1>3. /\ Goes(r) \/ Ends(r)
        /\ executed' = executed \/ \E id \in AllIds : executed' = executed \cup {<<r, id>>}
        /\ executed' \subseteq Runs \X AllIds
        /\ failure' \in [Runs -> Failures] /\ \A o \in Runs \ {r} : failure'[o] = failure[o]
        /\ steps' \in [Runs -> Nat] /\ \A o \in Runs \ {r} : steps'[o] = steps[o]
        /\ DOMAIN todo' = Runs /\ \A o \in Runs \ {r} : todo'[o] = todo[o]
    <2>1. 1 \in Nat \ {0}  OBVIOUS
    <2> QED BY <1>0, <1>2, <2>1, AtCallMoves
  <1>4. Shared' /\ \A o \in Runs \ {r} : step'[o] = step[o] /\ outcome'[o] = outcome[o]
    BY <1>0, <1>3, SharedMoves
  <1>5. Types'  BY <1>2, <1>3, <1>4 DEF Types, Local, signals
  <1>6. Control(r)  BY <1>1, <1>2, <1>3 DEF Control, signals
  <1>7. Frame(r)  BY <1>2, <1>3, <1>4 DEF Frame
  <1> QED BY <1>5, <1>6, <1>7 DEF Moves

LEMMA ToolReturnsMoves ==
  ASSUME Types, QueuesFit, NEW r \in Runs, ToolReturns(r)
  PROVE  Moves(r)
  <1>0. step[r] = "running" /\ step[r] \in Working  BY DEF ToolReturns, Stands, Working
  <1>1. step[r] \notin {"idle", "done"} /\ Head(line[SessionOf[r]]) = r  BY <1>0, WorkerIsFirst
  <1>2. /\ Go(r, "settling")
        /\ \E todos : todo' = [todo EXCEPT ![r] = todos]
        /\ \E why \in Failures : failure' = [failure EXCEPT ![r] = why]
        /\ UNCHANGED <<hist, transcript, persisted, tried, signals>>
    <2>1. Interruption(r) \in Failures /\ "tool" \in Failures /\ "" \in Failures
      BY Interruptions DEF Failures
    <2>2. Go(r, "settling") /\ UNCHANGED <<hist, transcript, persisted, tried, signals>>  BY DEF ToolReturns
    <2>3. \E todos : todo' = [todo EXCEPT ![r] = todos]  BY DEF ToolReturns
    <2>4. \E why \in Failures : failure' = [failure EXCEPT ![r] = why]  BY <2>1 DEF ToolReturns
    <2> QED BY <2>2, <2>3, <2>4
  <1>3. Goes(r) /\ UNCHANGED executed  BY <1>2, GoGoes, PlaceNames
  <1>4. Shared' /\ \A o \in Runs \ {r} : step'[o] = step[o] /\ outcome'[o] = outcome[o]
    BY <1>0, <1>3, SharedMoves
  <1>5. /\ DOMAIN todo' = Runs /\ failure' \in [Runs -> Failures]
        /\ \A o \in Runs \ {r} : todo'[o] = todo[o] /\ failure'[o] = failure[o]
    BY <1>2 DEF Types, Local
  <1>6. Types'  BY <1>2, <1>3, <1>4, <1>5 DEF Types, Local, transcript, signals
  <1>7. Control(r)  BY <1>1, <1>2, <1>3 DEF Control, transcript, signals
  <1>8. Frame(r)  BY <1>2, <1>3, <1>4, <1>5 DEF Frame, transcript
  <1> QED BY <1>6, <1>7, <1>8 DEF Moves

LEMMA SettleMoves ==
  ASSUME Types, QueuesFit, NEW r \in Runs, BatchFits(r), Settle(r)
  PROVE  Moves(r)
  <1>0. step[r] = "settling" /\ step[r] \in Working /\ step[r] \in Batching
    BY DEF Settle, Stands, Working, Batching
  <1>1. step[r] \notin {"idle", "done"} /\ Head(line[SessionOf[r]]) = r  BY <1>0, WorkerIsFirst
  <1>2. PICK n \in 1 .. Len(turn[r]) : SettlingAt(r, n)  BY <1>0 DEF BatchFits
  <1>3. n \in Nat /\ AtNumber(r, n)
    <2>1. Len(turn[r]) \in Nat  BY <1>0, BatchCalls
    <2>2. n \in Nat  BY <2>1
    <2>3. AtNumber(r, n)  BY <1>2 DEF SettlingAt
    <2> QED BY <2>2, <2>3
  <1>4. Appending(r) \in ItemType /\ Appending(r).run = r
    <2>1. Head(todo[r]).id \in AllIds /\ Head(todo[r]).content \in Contents  BY <1>0, <1>3, AtNumberFacts
    <2> QED BY <2>1, ItemTypes DEF Appending
  <1>5. IndexOf(r, Head(todo[r]).id) + 1 = n + 1 /\ n + 1 \in Nat \ {0}  BY <1>0, <1>3, AtNumberFacts
  <1>6. UNCHANGED <<known, turn, text, past, used, persisted, signals>>
        /\ (Written(SessionOf[r], Appending(r)) \/ UNCHANGED hist)
        /\ (tried' = [tried EXCEPT ![r] = Touched(r)])
    BY DEF Settle, Refused, Acknowledged, Touched
  <1>7. failure \in [Runs -> Failures] /\ steps \in [Runs -> Nat] /\ DOMAIN todo = Runs /\ executed \subseteq Runs \X AllIds
    BY DEF Types, Local
  <1>8. /\ Goes(r) \/ Ends(r)
        /\ executed' = executed \/ \E id \in AllIds : executed' = executed \cup {<<r, id>>}
        /\ executed' \subseteq Runs \X AllIds
        /\ failure' \in [Runs -> Failures] /\ \A o \in Runs \ {r} : failure'[o] = failure[o]
        /\ steps' \in [Runs -> Nat] /\ \A o \in Runs \ {r} : steps'[o] = steps[o]
        /\ DOMAIN todo' = Runs /\ \A o \in Runs \ {r} : todo'[o] = todo[o]
    <2>1. CASE SettleLeft(r, Touched(r), "storage") /\ UNCHANGED <<todo, steps>>
      BY <1>7, <2>1, SettleLeftMoves, StorageFails
    <2>2. CASE Go(r, "settling") /\ todo' = [todo EXCEPT ![r] = Tail(@)] /\ UNCHANGED <<failure, steps>>
      BY <1>7, <2>2, GoGoes, PlaceNames
    <2>3. CASE failure[r] # "" /\ End(r, failure[r]) /\ UNCHANGED <<todo, failure, steps>>
      <3>1. failure[r] \in Outcomes \ {"none"}  BY <1>7, <2>3, FailureNames
      <3> QED BY <1>7, <2>3, <3>1, EndEnds
    <2>4. CASE AtCall(r, n + 1)
      BY <1>0, <1>5, <2>4, AtCallMoves
    <2> QED BY <1>5, <2>1, <2>2, <2>3, <2>4 DEF Settle
  <1>9. hist' \in [Sessions -> Seq(ItemType)] /\ (hist' = hist \/ Writes(r))  BY <1>4, <1>6, WriteMoves
  <1>10. Shared' /\ \A o \in Runs \ {r} : step'[o] = step[o] /\ outcome'[o] = outcome[o]
    BY <1>0, <1>8, SharedMoves
  <1>11. DOMAIN tried' = Runs /\ \A o \in Runs \ {r} : tried'[o] = tried[o]  BY <1>6 DEF Types, Local
  <1>12. Types'  BY <1>6, <1>8, <1>9, <1>10, <1>11 DEF Types, Local, signals
  <1>13. Control(r)  BY <1>0, <1>1, <1>6, <1>8, <1>9 DEF Control, signals
  <1>14. Frame(r)  BY <1>6, <1>8, <1>10, <1>11 DEF Frame
  <1> QED BY <1>12, <1>13, <1>14 DEF Moves

LEMMA InPrefix ==
  ASSUME NEW n \in Nat, NEW p \in 0 .. n, NEW i \in 1 .. p
  PROVE  i \in 1 .. n
  OBVIOUS

LEMMA ClearMoves ==
  ASSUME Types, QueuesFit, NEW r \in Runs, BatchFits(r), failure[r] # "", Clear(r)
  PROVE  Moves(r)
  <1>0. step[r] = "clearing" /\ step[r] \in Working /\ step[r] \in Batching
    BY DEF Clear, Stands, Working, Batching
  <1>1. step[r] \notin {"idle", "done"} /\ Head(line[SessionOf[r]]) = r  BY <1>0, WorkerIsFirst
  <1>2. PICK i \in Untouched(r, tried[r]) :
          LET item == Item("result", turn[r][i].id, r, "skipped")
          IN /\ tried' = [tried EXCEPT ![r] = @ \cup {turn[r][i].id}]
             /\ \/ Refused(SessionOf[r], item) /\ End(r, "storage")
                \/ /\ Acknowledged(SessionOf[r], item)
                   /\ IF Untouched(r, tried'[r]) = {} THEN End(r, failure[r]) ELSE Go(r, "clearing")
             /\ UNCHANGED <<transcript, persisted, todo, failure, signals>>
    BY DEF Clear
  <1> DEFINE item == Item("result", turn[r][i].id, r, "skipped")
  <1>3. item \in ItemType /\ item.run = r
    <2>1. i \in 1 .. persisted[r]  BY DEF Untouched
    <2>2. persisted[r] \in 0 .. Len(turn[r]) /\ Len(turn[r]) \in Nat  BY <1>0, BatchCalls
    <2>3. i \in 1 .. Len(turn[r])  BY <2>1, <2>2, InPrefix
    <2>4. turn[r][i].id \in AllIds  BY <1>0, <2>3, BatchCalls
    <2> QED BY <2>4, ItemTypes, Spoken
  <1>4. UNCHANGED <<transcript, persisted, todo, failure, signals>>
        /\ (Written(SessionOf[r], item) \/ UNCHANGED hist)
        /\ (End(r, "storage") \/ End(r, failure[r]) \/ Go(r, "clearing"))
    BY <1>2 DEF Refused, Acknowledged
  <1> HIDE DEF item
  <1>5. failure[r] \in Outcomes \ {"none"}
    <2>1. failure[r] \in Failures  BY DEF Types, Local
    <2> QED BY <2>1, FailureNames
  <1>6. (Goes(r) \/ Ends(r)) /\ UNCHANGED executed  BY <1>4, <1>5, EndEnds, GoGoes, PlaceNames, OutcomeNames
  <1>7. hist' \in [Sessions -> Seq(ItemType)] /\ (hist' = hist \/ Writes(r))  BY <1>3, <1>4, WriteMoves
  <1>8. Shared' /\ \A o \in Runs \ {r} : step'[o] = step[o] /\ outcome'[o] = outcome[o]
    BY <1>0, <1>6, SharedMoves
  <1>9. DOMAIN tried' = Runs /\ \A o \in Runs \ {r} : tried'[o] = tried[o]
    <2>1. tried' = [tried EXCEPT ![r] = @ \cup {turn[r][i].id}]  BY <1>2
    <2> QED BY <2>1 DEF Types, Local
  <1>10. Types'  BY <1>4, <1>6, <1>7, <1>8, <1>9 DEF Types, Local, transcript, signals
  <1>11. Control(r)  BY <1>0, <1>1, <1>4, <1>6, <1>7 DEF Control, transcript, signals
  <1>12. Frame(r)  BY <1>4, <1>6, <1>8, <1>9 DEF Frame, transcript
  <1> QED BY <1>10, <1>11, <1>12 DEF Moves

-----------------------------------------------------------------------------
(* The queues *)

LEMMA WorkMoves ==
  ASSUME IInv, NEW r \in Runs, Work(r)
  PROVE  Moves(r)
  <1>1. Types /\ QueuesFit /\ BatchFits(r)  BY DEF IInv, RunFits
  <1>2. Clear(r) => failure[r] # ""  BY <1>1 DEF Clear, BatchFits, Stands
  <1> QED BY <1>1, <1>2, StartMoves, ReadMoves, GreetMoves, ProviderFailsMoves, AnswerMoves, CommitMoves, ConfirmMoves,
             RecordMoves, SpeakMoves, PersistMoves, ExecuteMoves, ToolReturnsMoves, SettleMoves, ClearMoves,
             SummariseMoves DEF Work

LEMMA WorkKeepsQueues ==
  ASSUME Types, QueuesFit, NEW r \in Runs, Moves(r)
  PROVE  QueuesFit'
  <1> DEFINE s == SessionOf[r]
  <1>1. /\ step[r] \notin {"idle", "done"} /\ Head(line[s]) = r /\ UNCHANGED <<closed, draining>>
        /\ \A o \in Runs \ {r} : step'[o] = step[o] /\ outcome'[o] = outcome[o]
        /\ Goes(r) \/ Ends(r)
    BY DEF Moves, Control, Frame
  <1>2. step \in [Runs -> Places] /\ outcome \in [Runs -> Outcomes] /\ line \in [Sessions -> Seq(Runs)]
        /\ s \in Sessions /\ \A o \in Runs : SessionOf[o] \in Sessions
    BY HandoffAssumption DEF Types, Shared
  <1>3. InSeq(line[s], r) /\ Distinct(line[s]) /\ line[s] \in Seq(Runs) /\ line[s] # <<>>
    <2>1. InSeq(line[s], r) /\ Distinct(line[s]) /\ line[s] \in Seq(Runs)  BY <1>1, <1>2 DEF QueuesFit, LineFits
    <2>2. line[s] # <<>>  BY <2>1 DEF InSeq
    <2> QED BY <2>1, <2>2
  <1>4. CASE Goes(r)
    <2>1. /\ step'[r] \in Working /\ UNCHANGED <<line, outcome>>  BY <1>2, <1>4 DEF Goes
    <2>2. step'[r] \notin {"idle", "done"}  BY <2>1 DEF Working
    <2>3. \A t \in Sessions : LineFits(t)'  BY <1>1, <2>1, <2>2 DEF QueuesFit, LineFits
    <2>4. \A o \in Runs : HeadFits(o)'  BY <1>1, <2>1 DEF QueuesFit, HeadFits
    <2>5. \A o \in Runs : OutcomeFits(o)'  BY <1>1, <2>1, <2>2 DEF QueuesFit, OutcomeFits
    <2>6. \A q \in Runners : DrainFits(q)'
      BY <1>1, <2>2 DEF QueuesFit, DrainFits, Unfinished
    <2> QED BY <2>3, <2>4, <2>5, <2>6 DEF QueuesFit
  <1>5. CASE Ends(r)
    <2>1. step'[r] = "done" /\ outcome'[r] # "none" /\ line' = [line EXCEPT ![s] = Tail(@)]  BY <1>2, <1>5 DEF Ends
    <2>2. /\ Distinct(Tail(line[s])) /\ ~InSeq(Tail(line[s]), r)
          /\ \A o \in Runs \ {r} : InSeq(Tail(line[s]), o) <=> InSeq(line[s], o)
      BY <1>1, <1>3, TailFacts
    <2>3. line'[s] = Tail(line[s]) /\ \A t \in Sessions \ {s} : line'[t] = line[t]  BY <1>2, <2>1
    <2>4. \A t \in Sessions : LineFits(t)'
      <3>1. LineFits(s)'
        <4>1. \A o \in Runs : InSeq(line'[s], o) <=> SessionOf[o] = s /\ step'[o] \notin {"idle", "done"}
          BY <1>1, <1>2, <2>1, <2>2, <2>3 DEF QueuesFit, LineFits
        <4> QED BY <2>2, <2>3, <4>1 DEF LineFits
      <3>2. ASSUME NEW t \in Sessions \ {s} PROVE LineFits(t)'
        BY <1>1, <2>3, <3>2 DEF QueuesFit, LineFits
      <3> QED BY <3>1, <3>2
    <2>5. \A o \in Runs : HeadFits(o)'
      <3>1. SUFFICES ASSUME NEW o \in Runs, step'[o] \in Working PROVE Head(line'[SessionOf[o]]) = o
        BY DEF HeadFits
      <3>2. o # r  BY <2>1, <3>1 DEF Working
      <3>3. Head(line[SessionOf[o]]) = o  BY <1>1, <3>1, <3>2 DEF QueuesFit, HeadFits
      <3>4. SessionOf[o] # s  BY <1>1, <3>2, <3>3
      <3> QED BY <1>2, <2>3, <3>3, <3>4
    <2>6. \A o \in Runs : OutcomeFits(o)'  BY <1>1, <2>1 DEF QueuesFit, OutcomeFits
    <2>7. \A q \in Runners : DrainFits(q)'
      BY <1>1, <2>1 DEF QueuesFit, DrainFits, Unfinished
    <2> QED BY <2>4, <2>5, <2>6, <2>7 DEF QueuesFit
  <1> QED BY <1>1, <1>4, <1>5

\* A call of the runner: refused at once, or last in its session's queue.
Refuses(r) ==
  /\ step' = [step EXCEPT ![r] = "done"] /\ UNCHANGED line
  /\ \E answer \in Outcomes \ {"none"} : outcome' = [outcome EXCEPT ![r] = answer]

Enters(r) ==
  /\ RunnerOf[r] \notin closed /\ UNCHANGED outcome
  /\ step' = [step EXCEPT ![r] = "queued"] /\ line' = [line EXCEPT ![SessionOf[r]] = Append(@, r)]

LEMMA CallKeepsQueues ==
  ASSUME Types, QueuesFit, NEW r \in Runs, step[r] = "idle", Refuses(r) \/ Enters(r), UNCHANGED <<closed, draining>>
  PROVE  QueuesFit' /\ line' \in [Sessions -> Seq(Runs)] /\ step' \in [Runs -> Places] /\ outcome' \in [Runs -> Outcomes]
         /\ \A o \in Runs \ {r} : step'[o] = step[o] /\ outcome'[o] = outcome[o]
  <1> DEFINE s == SessionOf[r]
  <1>1. step \in [Runs -> Places] /\ outcome \in [Runs -> Outcomes] /\ line \in [Sessions -> Seq(Runs)]
        /\ s \in Sessions /\ \A o \in Runs : SessionOf[o] \in Sessions
    BY HandoffAssumption DEF Types, Shared
  <1>2. CASE Refuses(r)
    <2>1. step'[r] = "done" /\ outcome'[r] # "none" /\ UNCHANGED line
          /\ \A o \in Runs \ {r} : step'[o] = step[o] /\ outcome'[o] = outcome[o]
      BY <1>1, <1>2 DEF Refuses
    <2>2. \A t \in Sessions : LineFits(t)'  BY <2>1 DEF QueuesFit, LineFits
    <2>3. \A o \in Runs : HeadFits(o)'  BY <2>1 DEF QueuesFit, HeadFits, Working
    <2>4. \A o \in Runs : OutcomeFits(o)'  BY <2>1 DEF QueuesFit, OutcomeFits
    <2>5. \A q \in Runners : DrainFits(q)'  BY <2>1 DEF QueuesFit, DrainFits, Unfinished
    <2> QED BY <1>1, <1>2, <2>1, <2>2, <2>3, <2>4, <2>5 DEF QueuesFit, Refuses, Places
  <1>3. CASE Enters(r)
    <2>1. /\ step'[r] = "queued" /\ UNCHANGED outcome /\ RunnerOf[r] \notin closed
          /\ \A o \in Runs \ {r} : step'[o] = step[o]
          /\ line'[s] = Append(line[s], r) /\ \A t \in Sessions \ {s} : line'[t] = line[t]
      BY <1>1, <1>3 DEF Enters
    <2>2. line[s] \in Seq(Runs) /\ Distinct(line[s]) /\ ~InSeq(line[s], r)  BY <1>1 DEF QueuesFit, LineFits
    <2>3. /\ Append(line[s], r) \in Seq(Runs) /\ Distinct(Append(line[s], r))
          /\ \A o : InSeq(Append(line[s], r), o) <=> InSeq(line[s], o) \/ o = r
      BY <2>2, AppendFacts
    <2>4. \A t \in Sessions : LineFits(t)'
      <3>1. LineFits(s)'
        <4>1. \A o \in Runs : InSeq(line'[s], o) <=> SessionOf[o] = s /\ step'[o] \notin {"idle", "done"}
          BY <1>1, <2>1, <2>3 DEF QueuesFit, LineFits
        <4> QED BY <2>1, <2>3, <4>1 DEF LineFits
      <3>2. ASSUME NEW t \in Sessions \ {s} PROVE LineFits(t)'
        BY <2>1, <3>2 DEF QueuesFit, LineFits
      <3> QED BY <3>1, <3>2
    <2>5. \A o \in Runs : HeadFits(o)'
      <3>1. SUFFICES ASSUME NEW o \in Runs, step'[o] \in Working PROVE Head(line'[SessionOf[o]]) = o
        BY DEF HeadFits
      <3>2. o # r /\ step[o] \in Working  BY <2>1, <3>1 DEF Working
      <3>3. Head(line[SessionOf[o]]) = o /\ InSeq(line[SessionOf[o]], o)
        BY <1>1, <3>2 DEF QueuesFit, HeadFits, LineFits, Working
      <3>4. CASE SessionOf[o] = s
        <4>1. line[s] # <<>>  BY <3>3, <3>4 DEF InSeq
        <4>2. Head(Append(line[s], r)) = Head(line[s])  BY <2>2, <4>1
        <4> QED BY <2>1, <3>3, <3>4, <4>2
      <3>5. CASE SessionOf[o] # s  BY <1>1, <2>1, <3>3, <3>5
      <3> QED BY <3>4, <3>5
    <2>6. \A o \in Runs : OutcomeFits(o)'  BY <2>1 DEF QueuesFit, OutcomeFits
    <2>7. \A q \in Runners : DrainFits(q)'  BY <2>1 DEF QueuesFit, DrainFits, Unfinished
    <2>8. line' \in [Sessions -> Seq(Runs)]  BY <1>1, <1>3, <2>3 DEF Enters
    <2> QED BY <1>1, <1>3, <2>1, <2>4, <2>5, <2>6, <2>7, <2>8 DEF QueuesFit, Enters, Places
  <1> QED BY <1>2, <1>3

-----------------------------------------------------------------------------
(* Receipts and plans *)

\* What the operations of the handoff leave.
LEMMA Retired ==
  ASSUME handoff \in HandoffType, NEW r \in Runs
  PROVE  LET h == Retire(handoff, r)
         IN /\ h.receipts = handoff.receipts /\ h.approved = handoff.approved /\ h.current = handoff.current
            /\ \A s \in Sessions : h.generation[s] # None =>
                 h.generation[s] = handoff.generation[s] /\ (s = SessionOf[r] => h.generation[s] # r)
  BY HandoffAssumption DEF HandoffType, Retire

LEMMA Issued ==
  ASSUME handoff \in HandoffType, NEW r \in Runs
  PROVE  LET h == Retire(Issue(handoff, r), r)
         IN \/ h = Retire(handoff, r)
            \/ /\ handoff.generation[SessionOf[r]] = r
               /\ h.receipts = handoff.receipts \cup {r} /\ h.approved = handoff.approved
               /\ h.current = [handoff.current EXCEPT ![SessionOf[r]] = r]
               /\ \A s \in Sessions : h.generation[s] # None =>
                    h.generation[s] = handoff.generation[s] /\ s # SessionOf[r]
  <1> DEFINE s == SessionOf[r]
             h == Issue(handoff, r)
  <1>0. s \in Sessions  BY HandoffAssumption
  <1>1. CASE handoff.generation[s] # r
    <2>1. h = handoff  BY <1>1 DEF Issue
    <2> QED BY <2>1
  <1>2. CASE handoff.generation[s] = r
    <2>1. h = [handoff EXCEPT !.generation[s] = None, !.receipts = @ \cup {r}, !.current[s] = r]
      BY <1>2 DEF Issue
    <2>2. h.generation = [handoff.generation EXCEPT ![s] = None] /\ h.receipts = handoff.receipts \cup {r}
          /\ h.approved = handoff.approved /\ h.current = [handoff.current EXCEPT ![s] = r]
      BY <2>1 DEF HandoffType
    <2>3. h.generation[s] = None /\ None # r  BY <1>0, <2>2, HandoffAssumption DEF HandoffType
    <2>4. Retire(h, r) = h  BY <2>3 DEF Retire
    <2>5. \A t \in Sessions : h.generation[t] # None => h.generation[t] = handoff.generation[t] /\ t # s
      BY <1>0, <2>2 DEF HandoffType
    <2> QED BY <1>2, <2>2, <2>4, <2>5
  <1> QED BY <1>1, <1>2

LEMMA WorkKeepsHandoff ==
  ASSUME Types, HandoffFits, NEW r \in Runs, Moves(r)
  PROVE  HandoffFits'
  <1> DEFINE s == SessionOf[r]
  <1>1. /\ step[r] \notin {"idle", "done"} /\ UNCHANGED <<plan, newest>>
        /\ \A o \in Runs \ {r} : step'[o] = step[o] /\ outcome'[o] = outcome[o] /\ (o \in text' <=> o \in text)
        /\ Goes(r) \/ Ends(r)
    BY DEF Moves, Control, Frame, Goes, Ends
  <1>2. step \in [Runs -> Places] /\ outcome \in [Runs -> Outcomes] /\ handoff \in HandoffType
        /\ plan \in [Runs -> Runs \cup {None}] /\ newest \in [Sessions -> Runs \cup {None}]
        /\ s \in Sessions /\ None \notin Runs /\ \A o \in Runs : SessionOf[o] \in Sessions
    BY HandoffAssumption DEF Types, Shared
  <1>3. step'[r] # "idle"  BY <1>1, <1>2 DEF Goes, Ends, Working
  <1>4. \A o \in Runs : BuildFits(o)'  BY <1>1, <1>3 DEF HandoffFits, BuildFits
  <1>5. PlanRunsOnce'  BY <1>1 DEF HandoffFits, PlanRunsOnce
  <1>6. r \notin handoff.receipts \cup handoff.approved /\ \A b \in Runs : plan[b] # r
    BY <1>1 DEF HandoffFits, PlaceFits, Proposed
  <1>7. \A t \in Sessions : handoff.generation[t] \in Runs \cup {None} /\ handoff.current[t] \in Runs \cup {None}
    BY <1>2 DEF HandoffType
  <1>8. CASE UNCHANGED handoff /\ step'[r] # "done"
    <2>1. \A t \in Sessions : GenerationFits(t)' /\ CurrentFits(t)'
      BY <1>1, <1>3, <1>7, <1>8 DEF HandoffFits, GenerationFits, CurrentFits
    <2>2. \A o \in Runs : PlaceFits(o)'  BY <1>1, <1>6, <1>8 DEF HandoffFits, PlaceFits, Proposed
    <2>3. ReceiptIsCurrent'
      <3>1. SUFFICES ASSUME NEW o \in handoff.receipts
                     PROVE newest[SessionOf[o]] = o /\ handoff.current[SessionOf[o]] = o
                           /\ outcome'[o] = "answered" /\ o \in text'
        BY <1>1, <1>8 DEF ReceiptIsCurrent
      <3>2. o \in Runs /\ o # r  BY <1>2, <1>6 DEF HandoffType
      <3> QED BY <1>1, <3>2 DEF HandoffFits, ReceiptIsCurrent
    <2> QED BY <1>4, <1>5, <2>1, <2>2, <2>3 DEF HandoffFits
  <1>9. CASE handoff' = Retire(handoff, r) /\ step'[r] = "done"
    <2>1. /\ handoff'.receipts = handoff.receipts /\ handoff'.approved = handoff.approved
          /\ handoff'.current = handoff.current
          /\ \A t \in Sessions : handoff'.generation[t] # None =>
               handoff'.generation[t] = handoff.generation[t] /\ (t = s => handoff'.generation[t] # r)
      BY <1>2, <1>9, Retired
    <2>2. \A t \in Sessions : GenerationFits(t)'
      <3>1. SUFFICES ASSUME NEW t \in Sessions, handoff'.generation[t] # None PROVE GenerationFits(t)'
        BY DEF GenerationFits
      <3>2. handoff'.generation[t] = handoff.generation[t] /\ GenerationFits(t)  BY <2>1, <3>1 DEF HandoffFits
      <3>3. handoff.generation[t] # r  BY <2>1, <3>1, <3>2 DEF GenerationFits
      <3> QED BY <1>1, <1>7, <3>1, <3>2, <3>3 DEF GenerationFits
    <2>3. \A t \in Sessions : CurrentFits(t)'  BY <2>1 DEF HandoffFits, CurrentFits
    <2>4. \A o \in Runs : PlaceFits(o)'  BY <1>1, <1>6, <1>9, <2>1 DEF HandoffFits, PlaceFits, Proposed
    <2>5. ReceiptIsCurrent'
      <3>1. SUFFICES ASSUME NEW o \in handoff.receipts
                     PROVE newest[SessionOf[o]] = o /\ handoff.current[SessionOf[o]] = o
                           /\ outcome'[o] = "answered" /\ o \in text'
        BY <1>1, <2>1 DEF ReceiptIsCurrent
      <3>2. o \in Runs /\ o # r  BY <1>2, <1>6 DEF HandoffType
      <3> QED BY <1>1, <3>2 DEF HandoffFits, ReceiptIsCurrent
    <2> QED BY <1>4, <1>5, <2>2, <2>3, <2>4, <2>5 DEF HandoffFits
  <1>10. CASE /\ handoff.generation[s] = r
              /\ handoff'.receipts = handoff.receipts \cup {r} /\ handoff'.approved = handoff.approved
              /\ handoff'.current = [handoff.current EXCEPT ![s] = r]
              /\ \A t \in Sessions : handoff'.generation[t] # None =>
                   handoff'.generation[t] = handoff.generation[t] /\ t # s
              /\ step'[r] = "done" /\ outcome'[r] = "answered" /\ r \in text'
    <2>1. newest[s] = r  BY <1>2, <1>10 DEF HandoffFits, GenerationFits
    <2>2. \A t \in Sessions : GenerationFits(t)'
      <3>1. SUFFICES ASSUME NEW t \in Sessions, handoff'.generation[t] # None PROVE GenerationFits(t)'
        BY DEF GenerationFits
      <3>2. handoff'.generation[t] = handoff.generation[t] /\ GenerationFits(t) /\ t # s
        BY <1>10, <3>1 DEF HandoffFits
      <3>3. handoff.generation[t] # r  BY <3>1, <3>2 DEF GenerationFits
      <3> QED BY <1>1, <1>7, <3>1, <3>2, <3>3 DEF GenerationFits
    <2>3. \A t \in Sessions : IF t = s THEN handoff'.current[t] = r ELSE handoff'.current[t] = handoff.current[t]
      BY <1>2, <1>10 DEF HandoffType
    <2>4. \A t \in Sessions : CurrentFits(t)'  BY <1>10, <2>3 DEF HandoffFits, CurrentFits
    <2>5. \A o \in Runs : PlaceFits(o)'  BY <1>1, <1>6, <1>10 DEF HandoffFits, PlaceFits, Proposed
    <2>6. ReceiptIsCurrent'
      <3>1. SUFFICES ASSUME NEW o \in handoff.receipts \cup {r}
                     PROVE newest[SessionOf[o]] = o /\ handoff'.current[SessionOf[o]] = o
                           /\ outcome'[o] = "answered" /\ o \in text'
        BY <1>1, <1>10 DEF ReceiptIsCurrent
      <3>2. CASE o = r  BY <1>2, <1>10, <2>1, <2>3, <3>2
      <3>3. CASE o # r
        <4>1. o \in handoff.receipts /\ o \in Runs  BY <1>2, <3>1, <3>3 DEF HandoffType
        <4>2. newest[SessionOf[o]] = o /\ handoff.current[SessionOf[o]] = o /\ outcome[o] = "answered" /\ o \in text
          BY <4>1 DEF HandoffFits, ReceiptIsCurrent
        <4>3. SessionOf[o] # s  BY <2>1, <3>3, <4>2
        <4> QED BY <1>1, <1>2, <2>3, <3>3, <4>1, <4>2, <4>3
      <3> QED BY <3>2, <3>3
    <2> QED BY <1>4, <1>5, <2>2, <2>4, <2>5, <2>6 DEF HandoffFits
  <1>11. CASE Goes(r)
    <2>1. UNCHANGED handoff /\ step'[r] # "done"  BY <1>2, <1>11 DEF Goes, Working
    <2> QED BY <1>8, <2>1
  <1>12. CASE Ends(r)
    <2>1. step'[r] = "done"  BY <1>2, <1>12 DEF Ends
    <2>2. ~Goes(r)  BY <1>2, <2>1 DEF Goes, Working
    <2>3. r \in text' <=> r \in text  BY <2>2 DEF Moves, Control
    <2>4. CASE handoff' = Retire(handoff, r)  BY <1>9, <2>1, <2>4
    <2>5. CASE handoff' = Retire(Issue(handoff, r), r) /\ r \in text /\ outcome'[r] = "answered"
      BY <1>2, <1>9, <1>10, <2>1, <2>3, <2>5, Issued
    <2> QED BY <1>12, <2>4, <2>5 DEF Ends
  <1> QED BY <1>1, <1>11, <1>12

-----------------------------------------------------------------------------
(* The steps that are not a run's *)

\* Queues, handoff and types at once.
Ground == Types /\ QueuesFit /\ HandoffFits

LEMMA SubmitKeepsGround ==
  ASSUME Ground, NEW r \in Runs, Submit(r)
  PROVE  Ground' /\ (Refuses(r) \/ Enters(r))
  <1> USE DEF Ground
  <1> DEFINE s == SessionOf[r]
  <1>1. step[r] = "idle" /\ UNCHANGED <<hist, transcript, batch, plan, executed, signals>>  BY DEF Submit
  <1>2. step \in [Runs -> Places] /\ outcome \in [Runs -> Outcomes] /\ handoff \in HandoffType
        /\ plan \in [Runs -> Runs \cup {None}] /\ newest \in [Sessions -> Runs \cup {None}]
        /\ s \in Sessions /\ None \notin Runs /\ \A o \in Runs : SessionOf[o] \in Sessions
    BY HandoffAssumption DEF Types, Shared
  <1>3. Refuses(r) \/ Enters(r)  BY OutcomeNames DEF Submit, Refuse, Refuses, Enqueue, Enters
  <1>4. /\ QueuesFit' /\ line' \in [Sessions -> Seq(Runs)] /\ step' \in [Runs -> Places] /\ outcome' \in [Runs -> Outcomes]
        /\ \A o \in Runs \ {r} : step'[o] = step[o] /\ outcome'[o] = outcome[o]
    BY <1>1, <1>3, CallKeepsQueues DEF signals
  <1>5. step'[r] # "idle"  BY <1>2, <1>3 DEF Refuses, Enters
  <1>6. r \notin handoff.receipts \cup handoff.approved /\ \A b \in Runs : plan[b] # r
    BY <1>1 DEF HandoffFits, PlaceFits, Proposed
  <1>7. \A o \in Runs : BuildFits(o)'  BY <1>1, <1>4, <1>5 DEF HandoffFits, BuildFits
  <1>8. PlanRunsOnce'  BY <1>1 DEF HandoffFits, PlanRunsOnce
  <1>9. \A t \in Sessions : handoff.generation[t] \in Runs \cup {None} /\ handoff.current[t] \in Runs \cup {None}
                            /\ handoff.generation[t] # r /\ handoff.current[t] # r
    BY <1>1, <1>2, <1>6 DEF HandoffType, HandoffFits, GenerationFits, CurrentFits
  <1>10. CASE UNCHANGED <<handoff, newest>>
    <2>1. \A t \in Sessions : GenerationFits(t)' /\ CurrentFits(t)'
      BY <1>4, <1>9, <1>10 DEF HandoffFits, GenerationFits, CurrentFits
    <2>2. \A o \in Runs : PlaceFits(o)'  BY <1>1, <1>4, <1>6, <1>10 DEF HandoffFits, PlaceFits, Proposed, transcript
    <2>3. ReceiptIsCurrent'
      <3>1. SUFFICES ASSUME NEW o \in handoff.receipts
                     PROVE newest[SessionOf[o]] = o /\ handoff.current[SessionOf[o]] = o
                           /\ outcome'[o] = "answered" /\ o \in text
        BY <1>1, <1>10 DEF ReceiptIsCurrent, transcript
      <3>2. o \in Runs /\ o # r  BY <1>2, <1>6 DEF HandoffType
      <3> QED BY <1>4, <3>2 DEF HandoffFits, ReceiptIsCurrent
    <2>4. HandoffFits'  BY <1>7, <1>8, <2>1, <2>2, <2>3 DEF HandoffFits
    <2>5. Types'  BY <1>1, <1>4, <1>10 DEF Types, Shared, Local, transcript, batch, signals
    <2> QED BY <1>3, <1>4, <2>4, <2>5
  <1>11. CASE handoff' = Begin(handoff, r) /\ newest' = [newest EXCEPT ![s] = r] /\ Enters(r)
    <2>1. /\ handoff' \in HandoffType /\ newest' \in [Sessions -> Runs \cup {None}]
          /\ handoff'.receipts = handoff.receipts \ {handoff.current[s]} /\ handoff'.approved = handoff.approved
          /\ \A t \in Sessions : IF t = s THEN handoff'.current[t] = None /\ handoff'.generation[t] = r /\ newest'[t] = r
               ELSE /\ handoff'.current[t] = handoff.current[t] /\ handoff'.generation[t] = handoff.generation[t]
                    /\ newest'[t] = newest[t]
      BY <1>2, <1>11 DEF HandoffType, Begin
    <2>2. step'[r] = "queued"  BY <1>2, <1>11 DEF Enters
    <2>3. \A t \in Sessions : GenerationFits(t)'
      BY <1>4, <1>9, <2>1, <2>2 DEF HandoffFits, GenerationFits
    <2>4. \A t \in Sessions : CurrentFits(t)'
      <3>1. SUFFICES ASSUME NEW t \in Sessions, handoff'.current[t] # None PROVE CurrentFits(t)'
        BY DEF CurrentFits
      <3>2. t # s /\ handoff'.current[t] = handoff.current[t] /\ CurrentFits(t)  BY <2>1, <3>1 DEF HandoffFits
      <3>3. handoff.current[s] # handoff.current[t]
        BY <1>2, <1>9, <3>1, <3>2 DEF HandoffFits, CurrentFits
      <3> QED BY <2>1, <3>1, <3>2, <3>3 DEF CurrentFits
    <2>5. \A o \in Runs : PlaceFits(o)'  BY <1>1, <1>4, <1>6, <2>1 DEF HandoffFits, PlaceFits, Proposed, transcript
    <2>6. ReceiptIsCurrent'
      <3>1. SUFFICES ASSUME NEW o \in handoff.receipts \ {handoff.current[s]}
                     PROVE newest'[SessionOf[o]] = o /\ handoff'.current[SessionOf[o]] = o
                           /\ outcome'[o] = "answered" /\ o \in text
        BY <1>1, <2>1 DEF ReceiptIsCurrent, transcript
      <3>2. o \in Runs /\ o # r  BY <1>2, <1>6 DEF HandoffType
      <3>3. newest[SessionOf[o]] = o /\ handoff.current[SessionOf[o]] = o /\ outcome[o] = "answered" /\ o \in text
        BY <3>1 DEF HandoffFits, ReceiptIsCurrent
      <3>4. SessionOf[o] # s  BY <3>1, <3>3
      <3> QED BY <1>2, <1>4, <2>1, <3>2, <3>3, <3>4
    <2>7. HandoffFits'  BY <1>7, <1>8, <2>3, <2>4, <2>5, <2>6 DEF HandoffFits
    <2>8. Types'  BY <1>1, <1>4, <2>1 DEF Types, Shared, Local, transcript, batch, signals
    <2> QED BY <1>3, <1>4, <2>7, <2>8
  <1>12. UNCHANGED <<handoff, newest>>
         \/ (handoff' = Begin(handoff, r) /\ newest' = [newest EXCEPT ![s] = r] /\ Enters(r))
    BY DEF Submit, Refuse, Enqueue, Enters
  <1> QED BY <1>10, <1>11, <1>12

\* What the boundary does with one plan.
LEMMA Taken ==
  ASSUME handoff \in HandoffType, NEW r \in Runs
  PROVE  /\ Take(handoff, r) \in HandoffType /\ Take(handoff, r).generation = handoff.generation
         /\ Take(handoff, r).current = handoff.current /\ Take(handoff, r).receipts = handoff.receipts
         /\ Take(handoff, r).approved = handoff.approved \ {r}
  BY DEF HandoffType, Take

LEMMA DiscardKeepsGround ==
  ASSUME Ground, NEW r \in Runs, Discard(r)
  PROVE  Ground'
  <1> USE DEF Ground
  <1>1. UNCHANGED <<hist, line, step, transcript, batch, outcome, plan, executed, signals, newest>>
        /\ handoff' = Take(handoff, r)
    BY DEF Discard
  <1>2. handoff' \in HandoffType /\ handoff'.generation = handoff.generation /\ handoff'.current = handoff.current
        /\ handoff'.receipts = handoff.receipts /\ handoff'.approved = handoff.approved \ {r}
    BY <1>1, Taken DEF Types, Shared
  <1>3. Types'  BY <1>1, <1>2 DEF Types, Shared, Local, transcript, batch, signals
  <1>4. QueuesFit'  BY <1>1 DEF QueuesFit, LineFits, HeadFits, OutcomeFits, DrainFits, Unfinished, signals
  <1>5. HandoffFits'
    BY <1>1, <1>2 DEF HandoffFits, GenerationFits, CurrentFits, PlaceFits, Proposed, BuildFits, ReceiptIsCurrent, PlanRunsOnce, transcript
  <1> QED BY <1>3, <1>4, <1>5

LEMMA ApproveKeepsGround ==
  ASSUME Ground, NEW s \in Sessions, NEW r \in Runs, Approve(s, r)
  PROVE  Ground'
  <1> USE DEF Ground
  <1>1. UNCHANGED <<hist, line, step, transcript, batch, outcome, plan, executed, signals, newest>>
        /\ handoff' = Consume(handoff, s, r) /\ r \in handoff.receipts /\ SessionOf[r] = s
    BY DEF Approve, Consumable
  <1>2. handoff \in HandoffType /\ None \notin Runs  BY HandoffAssumption DEF Types, Shared
  <1>3. /\ handoff' \in HandoffType /\ handoff'.generation = handoff.generation
        /\ handoff'.receipts = handoff.receipts \ {r} /\ handoff'.approved = handoff.approved \cup {r}
        /\ \A t \in Sessions : handoff'.current[t] = IF t = s /\ handoff.current[s] = r THEN None ELSE handoff.current[t]
    BY <1>1, <1>2 DEF HandoffType, Consume
  <1>4. handoff.current[s] = r  BY <1>1 DEF HandoffFits, ReceiptIsCurrent
  <1>5. Types'  BY <1>1, <1>3 DEF Types, Shared, Local, transcript, batch, signals
  <1>6. QueuesFit'  BY <1>1 DEF QueuesFit, LineFits, HeadFits, OutcomeFits, DrainFits, Unfinished, signals
  <1>7. \A t \in Sessions : GenerationFits(t)'  BY <1>1, <1>3 DEF HandoffFits, GenerationFits
  <1>8. \A t \in Sessions : CurrentFits(t)'
    <2>1. SUFFICES ASSUME NEW t \in Sessions, handoff'.current[t] # None PROVE CurrentFits(t)'
      BY DEF CurrentFits
    <2>2. t # s /\ handoff'.current[t] = handoff.current[t] /\ CurrentFits(t)  BY <1>3, <1>4, <2>1 DEF HandoffFits
    <2>3. handoff.current[t] # r  BY <1>1, <2>1, <2>2 DEF CurrentFits
    <2> QED BY <1>3, <2>1, <2>2, <2>3 DEF CurrentFits
  <1>9. \A o \in Runs : PlaceFits(o)' /\ BuildFits(o)'  BY <1>1, <1>3 DEF HandoffFits, PlaceFits, Proposed, BuildFits, transcript
  <1>10. ReceiptIsCurrent'
    <2>1. SUFFICES ASSUME NEW o \in handoff.receipts, o # r
                   PROVE newest[SessionOf[o]] = o /\ handoff'.current[SessionOf[o]] = o
                         /\ outcome[o] = "answered" /\ o \in text
      BY <1>1, <1>3 DEF ReceiptIsCurrent, transcript
    <2>2. o \in Runs /\ SessionOf[o] \in Sessions  BY <1>2, HandoffAssumption DEF HandoffType
    <2>3. newest[SessionOf[o]] = o /\ handoff.current[SessionOf[o]] = o /\ outcome[o] = "answered" /\ o \in text
      BY <2>1 DEF HandoffFits, ReceiptIsCurrent
    <2>4. SessionOf[o] # s  BY <1>4, <2>1, <2>3
    <2> QED BY <1>3, <2>2, <2>3, <2>4
  <1>11. PlanRunsOnce'  BY <1>1 DEF HandoffFits, PlanRunsOnce
  <1>12. HandoffFits'  BY <1>7, <1>8, <1>9, <1>10, <1>11 DEF HandoffFits
  <1> QED BY <1>5, <1>6, <1>12

\* A submission that takes at most one plan and gives it to at most one build.
LEMMA PlanKeepsHandoff ==
  ASSUME Ground, NEW r \in Runs, NEW a \in Runs, step[r] = "idle", step'[r] # "idle",
         \A o \in Runs \ {r} : step'[o] = step[o] /\ outcome'[o] = outcome[o],
         UNCHANGED <<text, newest>>,
         \/ UNCHANGED <<plan, handoff>>
         \/ a \in handoff.approved /\ handoff' = Take(handoff, a) /\ UNCHANGED plan
         \/ /\ a \in handoff.approved /\ handoff' = Take(handoff, a) /\ SessionOf[a] = SessionOf[r] /\ KindOf[r] = "build"
            /\ plan' = [plan EXCEPT ![r] = a]
  PROVE  HandoffFits'
  <1> USE DEF Ground
  <1>1. step \in [Runs -> Places] /\ handoff \in HandoffType /\ plan \in [Runs -> Runs \cup {None}]
        /\ None \notin Runs /\ \A o \in Runs : SessionOf[o] \in Sessions
    BY HandoffAssumption DEF Types, Shared
  <1>2. r \notin handoff.receipts \cup handoff.approved /\ \A b \in Runs : plan[b] # r
    BY DEF HandoffFits, PlaceFits, Proposed
  <1>3. plan[r] = None  BY DEF HandoffFits, BuildFits
  <1>4. /\ handoff'.generation = handoff.generation /\ handoff'.current = handoff.current
        /\ handoff'.receipts = handoff.receipts
        /\ handoff'.approved = handoff.approved \/ (a \in handoff.approved /\ handoff'.approved = handoff.approved \ {a})
    BY <1>1, Taken
  <1>5. \A t \in Sessions : handoff.generation[t] \in Runs \cup {None} /\ handoff.current[t] \in Runs \cup {None}
                            /\ handoff.generation[t] # r /\ handoff.current[t] # r
    BY <1>1, <1>2 DEF HandoffType, HandoffFits, GenerationFits, CurrentFits
  <1>6. \A t \in Sessions : GenerationFits(t)' /\ CurrentFits(t)'
    BY <1>4, <1>5 DEF HandoffFits, GenerationFits, CurrentFits
  <1>7. ReceiptIsCurrent'
    <2>1. SUFFICES ASSUME NEW o \in handoff.receipts
                   PROVE newest[SessionOf[o]] = o /\ handoff.current[SessionOf[o]] = o
                         /\ outcome'[o] = "answered" /\ o \in text
      BY <1>4 DEF ReceiptIsCurrent
    <2>2. o \in Runs /\ o # r  BY <1>1, <1>2 DEF HandoffType
    <2> QED BY <2>2 DEF HandoffFits, ReceiptIsCurrent
  <1>8. CASE UNCHANGED plan
    <2>1. \A o \in Runs : PlaceFits(o)'  BY <1>2, <1>4, <1>8 DEF HandoffFits, PlaceFits, Proposed
    <2>2. \A o \in Runs : BuildFits(o)'  BY <1>8 DEF HandoffFits, BuildFits
    <2>3. PlanRunsOnce'  BY <1>8 DEF HandoffFits, PlanRunsOnce
    <2> QED BY <1>6, <1>7, <2>1, <2>2, <2>3 DEF HandoffFits
  <1>9. CASE /\ a \in handoff.approved /\ handoff' = Take(handoff, a)
             /\ SessionOf[a] = SessionOf[r] /\ KindOf[r] = "build" /\ plan' = [plan EXCEPT ![r] = a]
    <2>1. handoff'.approved = handoff.approved \ {a}  BY <1>1, <1>9, Taken
    <2>2. plan'[r] = a /\ \A b \in Runs \ {r} : plan'[b] = plan[b]  BY <1>1, <1>9
    <2>3. a # r /\ step[a] = "done" /\ a \notin handoff.receipts /\ \A b \in Runs : plan[b] # a
      BY <1>2, <1>9 DEF HandoffFits, PlaceFits, Proposed
    <2>4. \A o \in Runs : PlaceFits(o)'
      <3>1. ASSUME NEW o \in Runs, o # a PROVE PlaceFits(o)'
        <4>1. \A b \in Runs : plan'[b] = o => plan[b] = o  BY <2>2, <3>1
        <4> QED BY <1>2, <1>4, <2>1, <3>1, <4>1 DEF HandoffFits, PlaceFits, Proposed
      <3>2. PlaceFits(a)'  BY <1>4, <2>1, <2>3 DEF HandoffFits, PlaceFits, Proposed
      <3> QED BY <3>1, <3>2
    <2>5. \A o \in Runs : BuildFits(o)'  BY <2>2 DEF HandoffFits, BuildFits
    <2>6. PlanRunsOnce'  BY <1>1, <1>9, <2>2, <2>3 DEF HandoffFits, PlanRunsOnce
    <2> QED BY <1>6, <1>7, <2>4, <2>5, <2>6 DEF HandoffFits
  <1> QED BY <1>8, <1>9

LEMMA SubmitPlanKeepsGround ==
  ASSUME Ground, NEW r \in Runs, NEW a \in Runs, SubmitPlan(r, a)
  PROVE  Ground' /\ (Refuses(r) \/ Enters(r))
  <1> USE DEF Ground
  <1>1. step[r] = "idle" /\ UNCHANGED <<hist, turn, text, past, used, steps, batch, executed, signals, newest>>
    BY DEF SubmitPlan
  <1>2. handoff \in HandoffType /\ plan \in [Runs -> Runs \cup {None}] /\ step \in [Runs -> Places]  BY DEF Types, Shared
  <1>3. Refuses(r) \/ Enters(r)
    BY OutcomeNames DEF SubmitPlan, Refuse, Refuses, Enqueue, Enters
  <1>4. /\ QueuesFit' /\ line' \in [Sessions -> Seq(Runs)] /\ step' \in [Runs -> Places] /\ outcome' \in [Runs -> Outcomes]
        /\ \A o \in Runs \ {r} : step'[o] = step[o] /\ outcome'[o] = outcome[o]
    BY <1>1, <1>3, CallKeepsQueues DEF signals
  <1>5. step'[r] # "idle"  BY <1>2, <1>3 DEF Refuses, Enters
  <1>6. \/ UNCHANGED <<plan, handoff>>
        \/ a \in handoff.approved /\ handoff' = Take(handoff, a) /\ UNCHANGED plan
        \/ /\ a \in handoff.approved /\ handoff' = Take(handoff, a) /\ SessionOf[a] = SessionOf[r] /\ KindOf[r] = "build"
           /\ plan' = [plan EXCEPT ![r] = a]
    BY DEF SubmitPlan, Takable
  <1>7. HandoffFits'  BY <1>1, <1>4, <1>5, <1>6, PlanKeepsHandoff
  <1>8. handoff' \in HandoffType /\ plan' \in [Runs -> Runs \cup {None}]  BY <1>2, <1>6, Taken
  <1>9. DOMAIN known' = Runs
    <2>1. UNCHANGED known \/ known' = [known EXCEPT ![r] = known[a]]  BY DEF SubmitPlan
    <2> QED BY <2>1 DEF Types, Local
  <1>10. Types'  BY <1>1, <1>4, <1>8, <1>9 DEF Types, Shared, Local, batch, signals
  <1> QED BY <1>3, <1>4, <1>7, <1>10

LEMMA SignalKeepsGround ==
  ASSUME Ground, NEW q \in Runners, Abort(q) \/ Close(q)
  PROVE  Ground'
  <1> USE DEF Ground
  <1>1. UNCHANGED <<hist, line, step, transcript, batch, outcome, plan, executed, handoff, newest>>
    BY DEF Abort, Close
  <1>2. HandoffFits'
    BY <1>1 DEF HandoffFits, GenerationFits, CurrentFits, PlaceFits, Proposed, BuildFits, ReceiptIsCurrent, PlanRunsOnce, transcript
  <1>3. DOMAIN draining' = Runners  BY DEF Abort, Close, Types
  <1>4. Types'  BY <1>1, <1>3 DEF Types, Shared, Local, transcript, batch
  <1>5. \A p \in Runners : DrainFits(p)'
    <2>1. CASE Abort(q)  BY <1>1, <2>1 DEF Abort, QueuesFit, DrainFits, Unfinished
    <2>2. CASE Close(q)
      <3>1. ASSUME NEW p \in Runners, p # q PROVE DrainFits(p)'
        BY <1>1, <2>2, <3>1 DEF Close, QueuesFit, DrainFits, Unfinished, Types
      <3>2. DrainFits(q)'
        <4>1. draining'[q] = Unfinished(q)  BY <2>2 DEF Close, Pending, Types
        <4> QED BY <1>1, <4>1 DEF DrainFits, Unfinished
      <3> QED BY <3>1, <3>2
    <2> QED BY <2>1, <2>2
  <1>6. QueuesFit'  BY <1>1, <1>5 DEF QueuesFit, LineFits, HeadFits, OutcomeFits
  <1> QED BY <1>2, <1>4, <1>6

LEMMA CrashKeepsGround ==
  ASSUME Ground, Crash
  PROVE  Ground' /\ \A r \in Runs : step'[r] = (IF step[r] \in {"idle", "done"} THEN step[r] ELSE "done")
         /\ outcome'[r] = (IF step[r] \in {"idle", "done"} THEN outcome[r] ELSE "lost")
  <1> USE DEF Ground
  <1>1. \A r \in Runs : step'[r] = (IF step[r] \in {"idle", "done"} THEN step[r] ELSE "done")
         /\ outcome'[r] = (IF step[r] \in {"idle", "done"} THEN outcome[r] ELSE "lost")
    BY DEF Crash
  <1>2. step' \in [Runs -> Places] /\ outcome' \in [Runs -> Outcomes]
    <2>1. DOMAIN step' = Runs /\ DOMAIN outcome' = Runs /\ step' = [x \in Runs |-> step'[x]] /\ outcome' = [x \in Runs |-> outcome'[x]]
      BY DEF Crash
    <2>2. \A r \in Runs : step'[r] \in Places /\ outcome'[r] \in Outcomes
      BY <1>1 DEF Types, Shared, Places, Outcomes
    <2> QED BY <2>1, <2>2
  <1>3. /\ line' = [s \in Sessions |-> <<>>] /\ handoff' = NoHandoff /\ newest' = [s \in Sessions |-> None]
        /\ closed' = {} /\ draining' = [q \in Runners |-> None]
        /\ UNCHANGED <<hist, transcript, batch, plan, executed>>
    BY DEF Crash
  <1>4. handoff' \in HandoffType  BY <1>3 DEF HandoffType, NoHandoff
  <1>5. newest' \in [Sessions -> Runs \cup {None}] /\ line' \in [Sessions -> Seq(Runs)]  BY <1>3
  <1>6. Types'  BY <1>2, <1>3, <1>4, <1>5 DEF Types, Shared, Local, transcript, batch
  <1>7. QueuesFit'
    <2>1. \A s \in Sessions : LineFits(s)'  BY <1>1, <1>3 DEF LineFits, Distinct, InSeq
    <2>2. \A r \in Runs : HeadFits(r)'  BY <1>1 DEF HeadFits, Working
    <2>3. \A r \in Runs : OutcomeFits(r)'  BY <1>1 DEF QueuesFit, OutcomeFits
    <2>4. \A q \in Runners : DrainFits(q)'  BY <1>3 DEF DrainFits
    <2> QED BY <2>1, <2>2, <2>3, <2>4 DEF QueuesFit
  <1>8. HandoffFits'
    <2>1. /\ handoff'.receipts = {} /\ handoff'.approved = {}
          /\ \A s \in Sessions : handoff'.generation[s] = None /\ handoff'.current[s] = None
      BY <1>3 DEF NoHandoff
    <2>2. \A r \in Runs : PlaceFits(r)' /\ BuildFits(r)'  BY <1>1, <1>3, <2>1 DEF HandoffFits, PlaceFits, Proposed, BuildFits, transcript
    <2>3. PlanRunsOnce'  BY <1>3 DEF HandoffFits, PlanRunsOnce
    <2> QED BY <2>1, <2>2, <2>3 DEF HandoffFits, GenerationFits, CurrentFits, ReceiptIsCurrent
  <1> QED BY <1>1, <1>6, <1>7, <1>8

-----------------------------------------------------------------------------
(* What a written item changes *)

\* The file of the run's session is one item longer, the other files are as they were.
LEMMA WrittenFacts ==
  ASSUME Types, NEW r \in Runs, NEW item \in ItemType, Written(SessionOf[r], item)
  PROVE  LET s == SessionOf[r]
         IN /\ s \in Sessions /\ Len(hist[s]) \in Nat /\ DOMAIN hist[s] = 1 .. Len(hist[s])
            /\ Len(hist'[s]) = Len(hist[s]) + 1 /\ DOMAIN hist'[s] = 1 .. Len(hist[s]) + 1
            /\ hist'[s][Len(hist[s]) + 1] = item
            /\ \A i \in 1 .. Len(hist[s]) : hist'[s][i] = hist[s][i]
            /\ \A t \in Sessions \ {s} : hist'[t] = hist[t]
  <1> DEFINE s == SessionOf[r]
             h == hist[s]
  <1>1. s \in Sessions /\ h \in Seq(ItemType) /\ DOMAIN hist = Sessions  BY HandoffAssumption DEF Types
  <1>2. hist'[s] = Append(h, item) /\ \A t \in Sessions \ {s} : hist'[t] = hist[t]  BY <1>1 DEF Written
  <1> HIDE DEF h
  <1>3. /\ Len(h) \in Nat /\ DOMAIN h = 1 .. Len(h) /\ Len(Append(h, item)) = Len(h) + 1
        /\ DOMAIN Append(h, item) = 1 .. Len(h) + 1 /\ Append(h, item)[Len(h) + 1] = item
        /\ \A i \in 1 .. Len(h) : Append(h, item)[i] = h[i]
    BY <1>1
  <1> QED BY <1>1, <1>2, <1>3 DEF h

\* The items of the run that writes, and those of the others.
LEMMA MineAfterWrite ==
  ASSUME Types, NEW r \in Runs, NEW item \in ItemType, item.run = r, Written(SessionOf[r], item),
         NEW n, n = Len(hist[SessionOf[r]]) + 1
  PROVE  /\ n \in Nat /\ n \notin Mine(r) /\ Mine(r)' = Mine(r) \cup {n} /\ Entry(r, n)' = item
         /\ \A i \in Mine(r) : i \in Nat /\ i < n /\ Entry(r, i)' = Entry(r, i)
         /\ Calls(r)' = Calls(r) \cup (IF item.kind = "call" THEN {n} ELSE {})
         /\ \A o \in Runs \ {r} : Mine(o)' = Mine(o) /\ \A i \in Mine(o) : Entry(o, i)' = Entry(o, i)
  <1> DEFINE s == SessionOf[r]
  <1>1. /\ s \in Sessions /\ Len(hist[s]) \in Nat /\ DOMAIN hist[s] = 1 .. Len(hist[s])
        /\ DOMAIN hist'[s] = 1 .. Len(hist[s]) + 1
        /\ hist'[s][Len(hist[s]) + 1] = item
    BY WrittenFacts
  <1>2. (\A i \in 1 .. Len(hist[s]) : hist'[s][i] = hist[s][i]) /\ \A t \in Sessions \ {s} : hist'[t] = hist[t]
    BY WrittenFacts
  <1>3. /\ n \in Nat /\ DOMAIN hist'[s] = DOMAIN hist[s] \cup {n} /\ n \notin DOMAIN hist[s]
        /\ hist'[s][n] = item /\ \A i \in DOMAIN hist[s] : hist'[s][i] = hist[s][i] /\ i \in Nat /\ i < n
    BY <1>1, <1>2
  <1>4. Mine(r)' = Mine(r) \cup {n} /\ n \notin Mine(r)  BY <1>3 DEF Mine
  <1>5. Entry(r, n)' = item  BY <1>3 DEF Entry
  <1>6. \A i \in Mine(r) : i \in Nat /\ i < n /\ Entry(r, i)' = Entry(r, i)  BY <1>3 DEF Mine, Entry
  <1>7. Calls(r)' = Calls(r) \cup (IF item.kind = "call" THEN {n} ELSE {})
    <2>1. \A i \in Mine(r) : hist'[s][i] = hist[s][i]  BY <1>3 DEF Mine
    <2> QED BY <1>3, <1>4, <2>1 DEF Calls
  <1>8. ASSUME NEW o \in Runs \ {r} PROVE Mine(o)' = Mine(o) /\ \A i \in Mine(o) : Entry(o, i)' = Entry(o, i)
    <2>1. CASE SessionOf[o] = s  BY <1>3, <1>8, <2>1 DEF Mine, Entry
    <2>2. CASE SessionOf[o] # s
      <3>1. SessionOf[o] \in Sessions  BY HandoffAssumption
      <3>2. hist'[SessionOf[o]] = hist[SessionOf[o]]  BY <1>2, <2>2, <3>1
      <3> QED BY <3>2 DEF Mine, Entry
    <2> QED BY <2>1, <2>2
  <1> QED BY <1>3, <1>4, <1>5, <1>6, <1>7, <1>8

LEMMA WorkKeepsItems ==
  ASSUME Types, QueuesFit, ItemsFit, NEW r \in Runs, Moves(r)
  PROVE  ItemsFit'
  <1> DEFINE s == SessionOf[r]
  <1>1. /\ step[r] \notin {"idle", "done"} /\ Head(line[s]) = r
        /\ \A o \in Runs \ {r} : step'[o] = step[o]
        /\ step'[r] \notin {"idle", "queued"}
        /\ hist' = hist \/ (step[r] \in Working /\ Writes(r))
    <2>1. step \in [Runs -> Places]  BY DEF Types, Shared
    <2>2. step'[r] \in Working \cup {"done"}  BY <2>1 DEF Moves, Control, Goes, Ends
    <2>3. step[r] \in Places  BY <2>1
    <2> QED BY <2>2, <2>3 DEF Moves, Control, Frame, Working, Places
  <1>2. \A t \in Sessions : \A i \in DOMAIN hist[t] : hist[t][i].run \in Runs
        /\ SessionOf[hist[t][i].run] = t /\ step[hist[t][i].run] \notin {"idle", "queued"}
    <2>1. SUFFICES ASSUME NEW t \in Sessions, NEW i \in DOMAIN hist[t]
                   PROVE hist[t][i].run \in Runs /\ SessionOf[hist[t][i].run] = t
                         /\ step[hist[t][i].run] \notin {"idle", "queued"}
      OBVIOUS
    <2>2. hist[t] \in Seq(ItemType)  BY DEF Types
    <2>3. hist[t][i] \in ItemType  BY <2>1, <2>2
    <2> QED BY <2>1, <2>3 DEF ItemsFit, ItemFits, ItemType
  <1>3. CASE hist' = hist
    <2>1. TurnsStayWhole'  BY <1>3 DEF ItemsFit, TurnsStayWhole
    <2>2. ASSUME NEW t \in Sessions, NEW i \in DOMAIN hist[t] PROVE ItemFits(t, i)'
      <3>1. ItemFits(t, i) /\ hist[t][i].run \in Runs  BY <1>2 DEF ItemsFit
      <3>2. CASE hist[t][i].run = r
        <4>1. step[r] \in Working
          <5>1. step[r] # "queued" /\ step[r] \in Places  BY <1>2, <3>2 DEF Types, Shared
          <5> QED BY <1>1, <5>1 DEF Places
        <4> QED BY <1>1, <1>3, <3>1, <3>2, <4>1 DEF ItemFits
      <3>3. CASE hist[t][i].run # r  BY <1>1, <1>3, <3>1, <3>3 DEF ItemFits
      <3> QED BY <3>2, <3>3
    <2> QED BY <1>3, <2>1, <2>2 DEF ItemsFit
  <1>4. CASE step[r] \in Working /\ Writes(r)
    <2>1. PICK item \in ItemType : item.run = r /\ Written(s, item)  BY <1>4 DEF Writes
    <2> DEFINE n == Len(hist[s]) + 1
    <2>2. /\ s \in Sessions /\ Len(hist[s]) \in Nat /\ DOMAIN hist[s] = 1 .. Len(hist[s])
          /\ Len(hist'[s]) = n /\ DOMAIN hist'[s] = 1 .. n
          /\ hist'[s][n].run = r /\ \A i \in 1 .. Len(hist[s]) : hist'[s][i] = hist[s][i]
          /\ \A t \in Sessions \ {s} : hist'[t] = hist[t]
      BY <2>1, WrittenFacts
    <2>3. \A i \in 1 .. Len(hist[s]) : hist[s][i].run = r => \A j \in i .. Len(hist[s]) : hist[s][j].run = r
      BY <1>4, <2>2 DEF ItemsFit, ItemFits
    <2>4. TurnsStayWhole'
      <3>1. ASSUME NEW i \in 1 .. n - 1, hist'[s][i].run # hist'[s][i + 1].run, NEW j \in i + 1 .. n
            PROVE hist'[s][j].run # hist'[s][i].run
        <4>1. i \in 1 .. Len(hist[s]) /\ hist'[s][i] = hist[s][i]  BY <2>2, <3>1
        <4>2. CASE j = n
          <5>1. CASE i = n - 1  BY <2>2, <3>1, <4>2, <5>1
          <5>2. CASE i # n - 1
            <6>1. i + 1 \in 1 .. Len(hist[s]) /\ i + 1 \in i .. Len(hist[s])  BY <2>2, <3>1, <5>2
            <6>2. hist'[s][i + 1] = hist[s][i + 1]  BY <2>2, <6>1
            <6>3. hist[s][i].run # r  BY <2>3, <3>1, <4>1, <6>1, <6>2
            <6> QED BY <2>2, <4>1, <4>2, <6>3
          <5> QED BY <5>1, <5>2
        <4>3. CASE j # n
          <5>1. i \in 1 .. Len(hist[s]) - 1 /\ j \in i + 1 .. Len(hist[s]) /\ i + 1 \in 1 .. Len(hist[s]) /\ j \in 1 .. Len(hist[s])
            BY <2>2, <3>1, <4>3
          <5>2. hist'[s][i + 1] = hist[s][i + 1] /\ hist'[s][j] = hist[s][j]  BY <2>2, <5>1
          <5>3. hist[s][i].run # hist[s][i + 1].run  BY <3>1, <4>1, <5>2
          <5>4. hist[s][j].run # hist[s][i].run  BY <2>2, <5>1, <5>3 DEF ItemsFit, TurnsStayWhole
          <5> QED BY <4>1, <5>2, <5>4
        <4> QED BY <4>2, <4>3
      <3>2. SUFFICES ASSUME NEW t \in Sessions, NEW i \in 1 .. Len(hist'[t]) - 1, hist'[t][i].run # hist'[t][i + 1].run,
                            NEW j \in i + 1 .. Len(hist'[t])
                     PROVE hist'[t][j].run # hist'[t][i].run
        BY DEF TurnsStayWhole
      <3>3. CASE t = s
        <4>1. i \in 1 .. n - 1 /\ j \in i + 1 .. n  BY <2>2, <3>2, <3>3
        <4> QED BY <3>1, <3>2, <3>3, <4>1
      <3>4. CASE t # s
        <4>1. hist'[t] = hist[t]  BY <2>2, <3>4
        <4>2. \A k \in 1 .. Len(hist[t]) - 1 : hist[t][k].run # hist[t][k + 1].run
                => \A l \in k + 1 .. Len(hist[t]) : hist[t][l].run # hist[t][k].run
          BY DEF ItemsFit, TurnsStayWhole
        <4> QED BY <3>2, <4>1, <4>2
      <3> QED BY <3>3, <3>4
    <2>5. ASSUME NEW t \in Sessions, NEW i \in DOMAIN hist'[t] PROVE ItemFits(t, i)'
      <3>1. CASE t = s
        <4>1. CASE i = n
          <5>1. hist'[s][n].run = r /\ \A j \in n .. n : j = n  BY <2>2
          <5> QED BY <1>1, <2>2, <3>1, <4>1, <5>1 DEF ItemFits
        <4>2. CASE i # n
          <5>1. i \in 1 .. Len(hist[s]) /\ hist'[s][i] = hist[s][i]  BY SMTT(20), <2>2, <2>5, <3>1, <4>2
          <5>2. ItemFits(s, i) /\ hist[s][i].run \in Runs  BY <1>2, <2>2, <5>1 DEF ItemsFit
          <5>3. CASE hist[s][i].run = r
            <6>1. ASSUME NEW j \in i .. n PROVE hist'[s][j].run = r
              <7>1. CASE j = n  BY <2>2, <7>1
              <7>2. CASE j # n
                <8>1. j \in i .. Len(hist[s]) /\ j \in 1 .. Len(hist[s])  BY <2>2, <5>1, <6>1, <7>2
                <8> QED BY <2>2, <2>3, <5>1, <5>3, <8>1
              <7> QED BY <7>1, <7>2
            <6> QED BY <1>1, <2>2, <3>1, <5>1, <5>3, <6>1 DEF ItemFits
          <5>4. CASE hist[s][i].run # r
            <6> DEFINE o == hist[s][i].run
            <6>1. o \in Runs /\ o # r /\ SessionOf[o] = s /\ step'[o] = step[o]  BY <1>1, <1>2, <2>2, <5>1, <5>2, <5>4
            <6>2. step[o] \notin Working
              <7>1. step[o] \in Working => Head(line[s]) = o  BY <6>1 DEF QueuesFit, HeadFits
              <7> QED BY <1>1, <6>1, <7>1
            <6>3. step[o] \notin {"idle", "queued"}  BY <1>2, <2>2, <5>1
            <6> QED BY <3>1, <5>1, <6>1, <6>2, <6>3 DEF ItemFits
          <5> QED BY <5>3, <5>4
        <4> QED BY <4>1, <4>2
      <3>2. CASE t # s
        <4>1. hist'[t] = hist[t]  BY <2>2, <3>2
        <4>2. i \in DOMAIN hist[t] /\ ItemFits(t, i) /\ hist[t][i].run \in Runs /\ SessionOf[hist[t][i].run] = t
          BY <1>2, <2>5, <4>1 DEF ItemsFit
        <4>3. hist[t][i].run # r  BY <3>2, <4>2
        <4> QED BY <1>1, <4>1, <4>2, <4>3 DEF ItemFits
      <3> QED BY <3>1, <3>2
    <2> QED BY <2>4, <2>5 DEF ItemsFit
  <1> QED BY <1>1, <1>3, <1>4

-----------------------------------------------------------------------------
(* What a run's items say after a step *)

\* No item was written.
LEMMA NothingWritten ==
  ASSUME NEW r \in Runs, UNCHANGED hist
  PROVE  /\ Mine(r)' = Mine(r) /\ Calls(r)' = Calls(r) /\ Results(r)' = Results(r)
         /\ Unanswered(r)' = Unanswered(r) /\ (Spoke(r)' <=> Spoke(r)) /\ (LastIsAnswer(r)' <=> LastIsAnswer(r))
  BY DEF Mine, Calls, Results, Unanswered, Answered, Entry, Spoke, LastIsAnswer

\* One item was written.
LEMMA ItemWritten ==
  ASSUME Types, NEW r \in Runs, NEW item \in ItemType, item.run = r, Written(SessionOf[r], item)
  PROVE  /\ \E n \in Nat : n \notin Calls(r) /\ Calls(r)' = Calls(r) \cup (IF item.kind = "call" THEN {n} ELSE {})
         /\ Results(r)' = Results(r) \cup (IF item.kind = "result" THEN {item.id} ELSE {})
         /\ item.kind = "call" => Unanswered(r)' \subseteq Unanswered(r) \cup {item.id}
         /\ item.kind = "result" => Unanswered(r)' \subseteq Unanswered(r) \ {item.id}
         /\ item.kind \notin {"call", "result"} => Unanswered(r)' \subseteq Unanswered(r)
         /\ Spoke(r)' <=> (Spoke(r) \/ item.content = "answer")
         /\ item.content = "answer" => LastIsAnswer(r)'
  <1>1. PICK n : n = Len(hist[SessionOf[r]]) + 1  OBVIOUS
  <1>2. /\ n \in Nat /\ n \notin Mine(r) /\ Mine(r)' = Mine(r) \cup {n} /\ Entry(r, n)' = item
        /\ \A i \in Mine(r) : i \in Nat /\ i < n /\ Entry(r, i)' = Entry(r, i)
        /\ Calls(r)' = Calls(r) \cup (IF item.kind = "call" THEN {n} ELSE {})
    BY <1>1, MineAfterWrite
  <1>3. Calls(r) \subseteq Mine(r) /\ \A i \in Calls(r) : Entry(r, i).kind = "call"  BY DEF Calls, Entry
  <1>4. \A i : Answered(r, i) <=> \E j \in Mine(r) : j > i /\ Entry(r, j).kind = "result" /\ Entry(r, j).id = Entry(r, i).id
    BY DEF Answered, Entry
  <1>5. \A i : Answered(r, i)' <=> \E j \in Mine(r)' : j > i /\ Entry(r, j)'.kind = "result" /\ Entry(r, j)'.id = Entry(r, i)'.id
    BY DEF Answered, Entry
  <1>6. ASSUME NEW i \in Calls(r) PROVE Answered(r, i) => Answered(r, i)'
    BY <1>2, <1>3, <1>4, <1>5, <1>6
  <1>7. ASSUME item.kind = "result", NEW i \in Calls(r), Entry(r, i).id = item.id PROVE Answered(r, i)'
    <2>1. i \in Mine(r) /\ i \in Nat /\ i < n /\ Entry(r, i)' = Entry(r, i)  BY <1>2, <1>3, <1>7
    <2>2. n > i  BY <1>2, <2>1
    <2> QED BY <1>2, <1>5, <1>7, <2>1, <2>2
  <1>8. Results(r)' = Results(r) \cup (IF item.kind = "result" THEN {item.id} ELSE {})
    BY <1>2 DEF Results
  <1>9. item.kind = "call" => Unanswered(r)' \subseteq Unanswered(r) \cup {item.id}
    BY <1>2, <1>3, <1>6 DEF Unanswered
  <1>10. item.kind = "result" => Unanswered(r)' \subseteq Unanswered(r) \ {item.id}
    BY <1>2, <1>3, <1>6, <1>7 DEF Unanswered
  <1>11. item.kind \notin {"call", "result"} => Unanswered(r)' \subseteq Unanswered(r)
    BY <1>2, <1>3, <1>6 DEF Unanswered
  <1>12. Spoke(r)' <=> (Spoke(r) \/ item.content = "answer")  BY <1>2 DEF Spoke
  <1>13. item.content = "answer" => LastIsAnswer(r)'
    <2>1. \A i \in Mine(r)' : i <= n  BY <1>2
    <2> QED BY <1>2, <2>1 DEF LastIsAnswer
  <1>14. n \notin Calls(r)  BY <1>2, <1>3
  <1> QED BY <1>2, <1>8, <1>9, <1>10, <1>11, <1>12, <1>13, <1>14

-----------------------------------------------------------------------------
(* The other runs *)

\* What a run wrote stays its own while others write.
LEMMA OthersItems ==
  ASSUME NEW o \in Runs, Mine(o)' = Mine(o), \A i \in Mine(o) : Entry(o, i)' = Entry(o, i)
  PROVE  /\ Calls(o)' = Calls(o) /\ Results(o)' = Results(o)
         /\ Unanswered(o)' = Unanswered(o) /\ (Spoke(o)' <=> Spoke(o)) /\ (LastIsAnswer(o)' <=> LastIsAnswer(o))
  <1>1. Calls(o) = {i \in Mine(o) : Entry(o, i).kind = "call"} /\ Calls(o)' = {i \in Mine(o)' : Entry(o, i)'.kind = "call"}
    BY DEF Calls, Entry
  <1>2. Calls(o)' = Calls(o)  BY <1>1
  <1>3. \A i : Answered(o, i) <=> \E j \in Mine(o) : j > i /\ Entry(o, j).kind = "result" /\ Entry(o, j).id = Entry(o, i).id
    BY DEF Answered, Entry
  <1>4. \A i : Answered(o, i)' <=> \E j \in Mine(o)' : j > i /\ Entry(o, j)'.kind = "result" /\ Entry(o, j)'.id = Entry(o, i)'.id
    BY DEF Answered, Entry
  <1>5. \A i \in Calls(o) : i \in Mine(o) /\ (Answered(o, i)' <=> Answered(o, i))  BY <1>1, <1>3, <1>4
  <1>6. Unanswered(o)' = Unanswered(o)  BY <1>2, <1>5 DEF Unanswered
  <1>7. Results(o)' = Results(o)  BY DEF Results
  <1>8. Spoke(o)' <=> Spoke(o)  BY DEF Spoke
  <1>9. LastIsAnswer(o)' <=> LastIsAnswer(o)  BY DEF LastIsAnswer
  <1> QED BY <1>2, <1>6, <1>7, <1>8, <1>9

\* A run whose state and items nobody touched.
Alone(o) ==
  /\ step'[o] = step[o] /\ outcome'[o] = outcome[o] /\ known'[o] = known[o] /\ turn'[o] = turn[o]
  /\ past'[o] = past[o] /\ used'[o] = used[o] /\ steps'[o] = steps[o] /\ persisted'[o] = persisted[o]
  /\ tried'[o] = tried[o] /\ todo'[o] = todo[o] /\ failure'[o] = failure[o]
  /\ o \in text' <=> o \in text
  /\ Begun(o)' = Begun(o) /\ Mine(o)' = Mine(o) /\ \A i \in Mine(o) : Entry(o, i)' = Entry(o, i)

LEMMA AloneFits ==
  ASSUME NEW o \in Runs, RunFits(o), Alone(o)
  PROVE  RunFits(o)'
  <1>1. /\ Calls(o)' = Calls(o) /\ Results(o)' = Results(o)
        /\ Unanswered(o)' = Unanswered(o) /\ (Spoke(o)' <=> Spoke(o)) /\ (LastIsAnswer(o)' <=> LastIsAnswer(o))
    BY OthersItems DEF Alone
  <1>2. /\ step'[o] = step[o] /\ outcome'[o] = outcome[o] /\ known'[o] = known[o] /\ turn'[o] = turn[o]
        /\ past'[o] = past[o] /\ used'[o] = used[o] /\ steps'[o] = steps[o] /\ persisted'[o] = persisted[o]
        /\ tried'[o] = tried[o] /\ todo'[o] = todo[o] /\ failure'[o] = failure[o]
        /\ (o \in text' <=> o \in text) /\ Begun(o)' = Begun(o) /\ Mine(o)' = Mine(o)
    BY DEF Alone
  <1>3. (\A n : IdsTo(o, n)' = IdsTo(o, n)) /\ Open(o)' = Open(o)
    <2>1. \A n : IdsTo(o, n)' = IdsTo(o, n)  BY <1>2 DEF IdsTo
    <2> QED BY <1>2, <2>1 DEF Open
  <1>4. \A n : (AtNumber(o, n)' <=> AtNumber(o, n)) /\ (RunningAt(o, n)' <=> RunningAt(o, n))
               /\ (SettlingAt(o, n)' <=> SettlingAt(o, n))
    <2>1. \A n : AtNumber(o, n)' <=> AtNumber(o, n)  BY <1>2, <1>3 DEF AtNumber
    <2> QED BY <1>2, <2>1 DEF RunningAt, SettlingAt
  <1>5. BatchFits(o)'
    <2>1. IdsTo(o, persisted[o])' = IdsTo(o, persisted[o])  BY <1>2 DEF IdsTo
    <2>2. BatchFits(o)  BY DEF RunFits
    <2> QED BY ZenonT(30), <1>2, <1>4, <2>1, <2>2 DEF BatchFits
  <1>6. ResultsFit(o)'  BY <1>1, <1>2 DEF RunFits, ResultsFit
  <1>7. CallsFit(o)'
    <2>1. Sound(o)' <=> Sound(o)  BY <1>2 DEF Sound
    <2> QED BY <1>1, <1>2, <1>3, <2>1 DEF RunFits, CallsFit
  <1>8. AnswerFits(o)'  BY <1>1, <1>2 DEF RunFits, AnswerFits
  <1>9. CountsFit(o)'  BY <1>1, <1>2, <1>4 DEF RunFits, CountsFit
  <1> QED BY <1>5, <1>6, <1>7, <1>8, <1>9 DEF RunFits

\* While a run takes a step the others are left alone.
LEMMA WorkLeavesAlone ==
  ASSUME Types, NEW r \in Runs, Moves(r), NEW o \in Runs \ {r}
  PROVE  Alone(o)
  <1>1. Begun(o)' = Begun(o)
    <2>1. executed' = executed \/ \E id \in AllIds : executed' = executed \cup {<<r, id>>}  BY DEF Moves, Frame
    <2> QED BY <2>1 DEF Begun
  <1>2. Mine(o)' = Mine(o) /\ \A i \in Mine(o) : Entry(o, i)' = Entry(o, i)
    <2>1. CASE hist' = hist  BY <2>1 DEF Mine, Entry
    <2>2. CASE Writes(r)
      <3>1. PICK item \in ItemType : item.run = r /\ Written(SessionOf[r], item)  BY <2>2 DEF Writes
      <3> QED BY <3>1, MineAfterWrite
    <2> QED BY <2>1, <2>2 DEF Moves, Control
  <1> QED BY <1>1, <1>2 DEF Moves, Frame, Alone

-----------------------------------------------------------------------------
(* How a run may end *)

\* An ended run fits if its outcome is true of what it wrote.
LEMMA EndFits ==
  ASSUME NEW r \in Runs, CountsFit(r), step'[r] = "done",
         outcome'[r] \in Told => Unanswered(r)' = {} /\ Open(r)' = {},
         outcome'[r] \in {"cancelled", "closed"} => ~Spoke(r)',
         outcome'[r] = "answered" /\ KindOf[r] # "compact" => (r \in text' => LastIsAnswer(r)'),
         used'[r] = used[r], steps'[r] = steps[r], past'[r] = past[r], Begun(r)' = Begun(r),
         Cardinality(Calls(r)') <= used[r]
  PROVE  RunFits(r)'
  <1>1. step'[r] \notin Working /\ step'[r] \notin Batching  BY DEF Working, Batching
  <1>2. BatchFits(r)'  BY <1>1 DEF BatchFits
  <1>3. ResultsFit(r)'  BY <1>1 DEF ResultsFit
  <1>4. CallsFit(r)'  BY <1>1 DEF CallsFit, Sound, Told
  <1>5. AnswerFits(r)'  BY DEF AnswerFits
  <1>6. CountsFit(r)'  BY DEF CountsFit
  <1> QED BY <1>2, <1>3, <1>4, <1>5, <1>6 DEF RunFits

\* A run that has no batch settled all its calls, so it may end as it likes
\* but not as answered.
Plain == {"queued", "reading", "greeting", "asking", "committing", "recording", "speaking", "summarising"}

LEMMA PlainFacts ==
  ASSUME Types, QueuesFit, NEW r \in Runs, RunFits(r), step[r] \in Plain
  PROVE  Unanswered(r) = {} /\ Open(r) = {} /\ ~Spoke(r)
  <1>1. CASE step[r] = "queued"
    <2>1. Mine(r) = {} /\ persisted[r] = 0  BY <1>1 DEF RunFits, BatchFits
    <2> QED BY <2>1 DEF Unanswered, Calls, Open, IdsTo, Spoke
  <1>2. CASE step[r] # "queued"
    <2>1. step[r] \in Working \ {"persisting", "executing", "running", "settling", "clearing"}  BY <1>2 DEF Plain, Working
    <2>2. Open(r) = {} /\ Sound(r)  BY <2>1 DEF RunFits, CallsFit, Sound, Told
    <2>3. Unanswered(r) = {}  BY <2>2 DEF RunFits, CallsFit
    <2>4. step[r] \notin {"confirming", "done"}  BY DEF Plain
    <2>5. ~Spoke(r)  BY <2>4 DEF RunFits, AnswerFits
    <2> QED BY <2>2, <2>3, <2>5
  <1> QED BY <1>1, <1>2

\* Nothing a run counts changes.
Still(r) ==
  /\ turn'[r] = turn[r] /\ persisted'[r] = persisted[r] /\ tried'[r] = tried[r]
  /\ used'[r] = used[r] /\ steps'[r] = steps[r] /\ past'[r] = past[r] /\ executed' = executed

LEMMA PlainEnds ==
  ASSUME Types, QueuesFit, NEW r \in Runs, RunFits(r), step[r] \in Plain, Still(r), UNCHANGED hist,
         step'[r] = "done", outcome'[r] # "answered"
  PROVE  RunFits(r)'
  <1>1. Unanswered(r)' = {} /\ ~Spoke(r)' /\ Calls(r)' = Calls(r)  BY PlainFacts, NothingWritten
  <1>2. Open(r)' = {}  BY PlainFacts DEF Open, IdsTo, Still
  <1>3. Begun(r)' = Begun(r)  BY DEF Still, Begun
  <1>4. CountsFit(r) /\ Cardinality(Calls(r)') <= used[r]  BY <1>1 DEF RunFits, CountsFit
  <1> QED BY <1>1, <1>2, <1>3, <1>4, EndFits DEF Still

\* A run that a failing write or a death cuts off promises nothing.
LEMMA FailedEnds ==
  ASSUME NEW r \in Runs, RunFits(r), step'[r] = "done", outcome'[r] \in {"storage", "lost"},
         used'[r] = used[r], steps'[r] = steps[r], past'[r] = past[r], executed' = executed,
         Calls(r)' = Calls(r)
  PROVE  RunFits(r)'
  <1>1. CountsFit(r) /\ Cardinality(Calls(r)') <= used[r]  BY DEF RunFits, CountsFit
  <1>2. Begun(r)' = Begun(r)  BY DEF Begun
  <1>3. outcome'[r] \notin Told /\ outcome'[r] \notin {"answered", "cancelled", "closed"}  BY DEF Told
  <1> QED BY <1>1, <1>2, <1>3, EndFits

-----------------------------------------------------------------------------
(* A run before its first model step *)

\* A run that has not said, called or counted anything.
Blank(r) ==
  /\ step[r] \in {"idle", "queued", "reading", "greeting", "summarising", "done"} /\ outcome[r] # "answered"
  /\ step[r] = "summarising" => KindOf[r] = "compact"
  /\ Mine(r) = {} /\ Begun(r) = {} /\ turn[r] = <<>> /\ persisted[r] = 0
  /\ used[r] \in Nat /\ used[r] <= MaxCalls /\ steps[r] <= MaxSteps
  /\ \A a, b \in past[r] : SameCalls(a, b) => a = b

BlankRunsFit == \A r \in Runs : Blank(r) => RunFits(r)

LEMMA BlankFits == BlankRunsFit
  <1> SUFFICES ASSUME NEW r \in Runs, Blank(r) PROVE RunFits(r)  BY DEF BlankRunsFit
  <1>1. /\ step[r] \in {"idle", "queued", "reading", "greeting", "summarising", "done"}
        /\ step[r] = "summarising" => KindOf[r] = "compact"
        /\ Mine(r) = {} /\ Begun(r) = {} /\ turn[r] = <<>> /\ persisted[r] = 0
    BY DEF Blank
  <1>2. Calls(r) = {} /\ Results(r) = {} /\ Unanswered(r) = {} /\ ~Spoke(r) /\ Open(r) = {}
    <2>1. IdsTo(r, 0) = {}  BY DEF IdsTo
    <2> QED BY <1>1, <2>1 DEF Calls, Results, Unanswered, Spoke, Open
  <1>3. BatchFits(r)  BY <1>1 DEF BatchFits, Batching
  <1>4. ResultsFit(r)
    <2>1. Results(r) \subseteq known[r] /\ Results(r) \cap Ids(turn[r]) \subseteq tried[r]  BY <1>2
    <2> QED BY <1>1, <2>1 DEF ResultsFit
  <1>5. CallsFit(r)  BY <1>2 DEF CallsFit, Told
  <1>6. AnswerFits(r)  BY <1>1, <1>2 DEF AnswerFits, Blank
  <1>7. CountsFit(r)
    <2>1. IsFiniteSet(Begun(r)) /\ Cardinality(Begun(r)) = 0 /\ Cardinality(Calls(r)) = 0  BY <1>1, <1>2, FS_EmptySet
    <2>2. used[r] \in Nat /\ used[r] <= MaxCalls /\ steps[r] <= MaxSteps
      BY DEF Blank
    <2>3. 0 <= used[r]  BY <2>2
    <2> QED BY <1>1, <2>1, <2>2, <2>3 DEF Blank, CountsFit
  <1> QED BY <1>3, <1>4, <1>5, <1>6, <1>7 DEF RunFits

LEMMA BlankStays ==
  ASSUME Types, NEW r \in Runs, RunFits(r), step[r] \in {"idle", "queued", "reading", "greeting", "summarising"},
         step'[r] \in {"queued", "reading", "greeting", "summarising", "done"}, outcome'[r] # "answered",
         step'[r] = "summarising" => KindOf[r] = "compact",
         Mine(r)' = Mine(r), Begun(r)' = Begun(r),
         turn'[r] = turn[r], persisted'[r] = persisted[r], used'[r] = used[r], steps'[r] = steps[r], past'[r] = past[r]
  PROVE  RunFits(r)'
  <1>1. Mine(r) = {} /\ Begun(r) = {} /\ turn[r] = <<>> /\ persisted[r] = 0  BY DEF RunFits, BatchFits
  <1>2. used[r] \in Nat  BY DEF Types, Local
  <1>3. Blank(r)'  BY <1>1, <1>2 DEF Blank, RunFits, CountsFit
  <1>4. BlankRunsFit'  BY BlankFits, PTL
  <1> QED BY <1>3, <1>4 DEF BlankRunsFit

LEMMA StartFits ==
  ASSUME Types, QueuesFit, NEW r \in Runs, RunFits(r), Start(r)
  PROVE  RunFits(r)'
  <1>1. step[r] = "queued" /\ UNCHANGED <<hist, transcript, batch>>  BY DEF Start, Stands
  <1>2. \/ \E why \in {"closed", "cancelled"} : End(r, why)
        \/ Go(r, "greeting") \/ (Go(r, "summarising") /\ KindOf[r] = "compact") \/ Go(r, "reading")
    <2>1. CASE KindOf[r] = "compact"  BY <2>1, Interruptions DEF Start
    <2>2. CASE KindOf[r] = "build"  BY <2>2, Interruptions DEF Start
    <2>3. CASE KindOf[r] \notin {"build", "compact"}  BY <2>3, Interruptions DEF Start
    <2> QED BY <2>1, <2>2, <2>3
  <1>3. /\ step'[r] \in {"greeting", "summarising", "reading", "done"} /\ executed' = executed
        /\ step'[r] = "summarising" => KindOf[r] = "compact"
        /\ outcome'[r] # "answered"
    <2>1. step \in [Runs -> Places] /\ outcome \in [Runs -> Outcomes] /\ outcome[r] = "none"
      BY <1>1 DEF Types, Shared, QueuesFit, OutcomeFits
    <2> QED BY <1>2, <2>1 DEF End, Settled, Go
  <1>4. Mine(r)' = Mine(r) /\ Begun(r)' = Begun(r)  BY <1>1, <1>3 DEF Mine, Begun
  <1> QED BY <1>1, <1>3, <1>4, BlankStays DEF transcript, batch

\* How the places and outcomes read after a step.
LEMMA AfterEnd ==
  ASSUME Types, NEW r \in Runs, NEW answer, End(r, answer)
  PROVE  step'[r] = "done" /\ outcome'[r] = answer /\ executed' = executed
  BY DEF Types, Shared, End, Settled

LEMMA AfterGo ==
  ASSUME Types, QueuesFit, NEW r \in Runs, step[r] # "done", NEW place, Go(r, place)
  PROVE  step'[r] = place /\ outcome'[r] = "none" /\ executed' = executed
  BY DEF Types, Shared, Go, QueuesFit, OutcomeFits

LEMMA ReadFits ==
  ASSUME Types, QueuesFit, NEW r \in Runs, RunFits(r), Read(r)
  PROVE  RunFits(r)'
  <1>1. step[r] = "reading" /\ UNCHANGED <<hist, turn, text, past, used, steps, batch>>  BY DEF Read, Stands
  <1>2. (\E why \in {"storage", "unreplayable", "closed", "cancelled"} : End(r, why)) \/ Go(r, "greeting")
    BY Interruptions DEF Read
  <1>3. step'[r] \in {"greeting", "done"} /\ outcome'[r] # "answered" /\ executed' = executed
    BY <1>1, <1>2, AfterEnd, AfterGo
  <1>4. Mine(r)' = Mine(r) /\ Begun(r)' = Begun(r)  BY <1>1, <1>3 DEF Mine, Begun
  <1> QED BY <1>1, <1>3, <1>4, BlankStays DEF batch

\* A compaction writes nothing but its checkpoint.
LEMMA SummariseFits ==
  ASSUME Types, QueuesFit, NEW r \in Runs, RunFits(r), Summarise(r)
  PROVE  RunFits(r)'
  <1>1. step[r] = "summarising" /\ step[r] \in Plain /\ UNCHANGED <<transcript, batch>>
    BY DEF Summarise, Stands, Plain
  <1>2. KindOf[r] = "compact"  BY <1>1 DEF RunFits, BatchFits
  <1>3. \/ (\E why \in {"storage", "unreplayable", "closed", "cancelled"} : End(r, why)) /\ UNCHANGED hist
        \/ Written(SessionOf[r], Item("checkpoint", None, r, "")) /\ End(r, "answered")
    BY Interruptions DEF Summarise
  <1>4. CASE (\E why \in {"storage", "unreplayable", "closed", "cancelled"} : End(r, why)) /\ UNCHANGED hist
    <2>1. step'[r] = "done" /\ outcome'[r] # "answered" /\ executed' = executed  BY <1>4, AfterEnd
    <2> QED BY <1>1, <1>4, <2>1, PlainEnds DEF Still, transcript, batch
  <1>5. CASE Written(SessionOf[r], Item("checkpoint", None, r, "")) /\ End(r, "answered")
    <2> DEFINE item == Item("checkpoint", None, r, "")
    <2>1. item \in ItemType /\ item.run = r /\ item.kind = "checkpoint"  BY ItemTypes, Spoken DEF Item
    <2>2. Written(SessionOf[r], item)  BY <1>5
    <2> HIDE DEF item
    <2>3. Unanswered(r)' \subseteq Unanswered(r) /\ \E n \in Nat : Calls(r)' = Calls(r) \cup {}
      BY <2>1, <2>2, ItemWritten
    <2>4. Unanswered(r)' = {} /\ Open(r)' = {} /\ Calls(r)' = Calls(r)
      BY <1>1, <2>3, PlainFacts DEF Open, IdsTo, transcript, batch
    <2>5. step'[r] = "done" /\ outcome'[r] = "answered" /\ executed' = executed  BY <1>5, AfterEnd
    <2>6. Begun(r)' = Begun(r)  BY <2>5 DEF Begun
    <2>7. CountsFit(r) /\ Cardinality(Calls(r)') <= used[r]  BY <2>4 DEF RunFits, CountsFit
    <2> QED BY <1>1, <1>2, <2>4, <2>5, <2>6, <2>7, EndFits DEF transcript, batch
  <1> QED BY <1>3, <1>4, <1>5

-----------------------------------------------------------------------------
(* A run between two batches *)

\* A run that asks, or commits, has settled everything.
LEMMA QuietFits ==
  ASSUME NEW r \in Runs, step'[r] \in {"asking", "committing"}, outcome'[r] = "none",
         Results(r)' \subseteq known'[r], Results(r)' \cap Ids(turn'[r]) \subseteq tried'[r],
         \A e \in Begun(r)' : e[2] \in known'[r] /\ e[2] \notin Ids(turn'[r]) \ tried'[r],
         Unanswered(r)' = {}, Open(r)' = {}, ~Spoke(r)', used'[r] <= MaxCalls, steps'[r] <= MaxSteps,
         IsFiniteSet(Begun(r)'), Cardinality(Begun(r)') <= used'[r], Cardinality(Calls(r)') <= used'[r],
         \A a, b \in past'[r] : SameCalls(a, b) => a = b
  PROVE  RunFits(r)'
  <1>1. BatchFits(r)'  BY DEF BatchFits, Batching
  <1>2. ResultsFit(r)'  BY DEF ResultsFit, Ids
  <1>3. CallsFit(r)'  BY DEF CallsFit, Told
  <1>4. AnswerFits(r)'  BY DEF AnswerFits
  <1>5. CountsFit(r)'  BY DEF CountsFit
  <1> QED BY <1>1, <1>2, <1>3, <1>4, <1>5 DEF RunFits

LEMMA PlaceTypes ==
  ASSUME Types, NEW r \in Runs
  PROVE  used[r] \in Nat /\ steps[r] \in Nat /\ persisted[r] \in Nat /\ failure[r] \in Failures
         /\ step[r] \in Places /\ outcome[r] \in Outcomes
  BY DEF Types, Shared, Local

\* After a step of the run itself that begins no tool.
LEMMA BegunStays ==
  ASSUME NEW r \in Runs, executed' = executed
  PROVE  Begun(r)' = Begun(r)
  BY DEF Begun

LEMMA GreetFits ==
  ASSUME Types, QueuesFit, NEW r \in Runs, RunFits(r), Greet(r)
  PROVE  RunFits(r)'
  <1> DEFINE item == Item("text", None, r, "user")
  <1>1. item \in ItemType /\ item.run = r /\ item.kind = "text" /\ item.content = "user"  BY ItemTypes, Spoken DEF Item
  <1>2. /\ step[r] = "greeting" /\ UNCHANGED <<known, turn, text, past, used, batch>>
        /\ \/ Refused(SessionOf[r], item) /\ End(r, "storage") /\ UNCHANGED steps
           \/ Acknowledged(SessionOf[r], item) /\ NextStep(r)
    BY DEF Greet, Stands
  <1> HIDE DEF item
  <1>3. Mine(r) = {} /\ Begun(r) = {} /\ turn[r] = <<>> /\ persisted[r] = 0 /\ step[r] \in Plain
    BY <1>2 DEF RunFits, BatchFits, Plain
  <1>4. Calls(r) = {} /\ Results(r) = {} /\ Unanswered(r) = {} /\ ~Spoke(r) /\ Open(r) = {}
    BY <1>3, PlainFacts DEF Calls, Results
  <1>5. Written(SessionOf[r], item) =>
          Calls(r)' = {} /\ Results(r)' = {} /\ Unanswered(r)' = {} /\ ~Spoke(r)'
    <2>1. Written(SessionOf[r], item) =>
            /\ \E n \in Nat : Calls(r)' = Calls(r) \cup {}
            /\ Results(r)' = Results(r) \cup {} /\ Unanswered(r)' \subseteq Unanswered(r) /\ (Spoke(r)' <=> Spoke(r))
      BY <1>1, ItemWritten
    <2> QED BY <1>4, <2>1
  <1>6. Open(r)' = {}  BY <1>2, <1>4 DEF Open, IdsTo, batch
  <1>7. CountsFit(r)  BY DEF RunFits
  <1>8. CASE Refused(SessionOf[r], item) /\ End(r, "storage") /\ UNCHANGED steps
    <2>1. Calls(r)' = Calls(r)  BY <1>4, <1>5, <1>8, NothingWritten DEF Refused
    <2> QED BY <1>2, <1>8, <2>1, AfterEnd, FailedEnds
  <1>9. CASE Acknowledged(SessionOf[r], item) /\ NextStep(r)
    <2>1. Calls(r)' = {} /\ Results(r)' = {} /\ Unanswered(r)' = {} /\ ~Spoke(r)'
      BY <1>5, <1>9 DEF Acknowledged
    <2>2. executed' = executed  BY <1>9, NextStepMoves
    <2>3. Begun(r)' = {}  BY <1>3, <2>2 DEF Begun
    <2>4. Cardinality(Calls(r)') = 0 /\ IsFiniteSet(Begun(r)') /\ Cardinality(Begun(r)') = 0  BY <2>1, <2>3, FS_EmptySet
    <2>5. used'[r] = used[r] /\ used[r] \in Nat /\ used[r] <= MaxCalls /\ past'[r] = past[r] /\ steps[r] \in Nat
      BY <1>2, <1>7, PlaceTypes DEF CountsFit
    <2>6. \A a, b \in past'[r] : SameCalls(a, b) => a = b  BY <1>7, <2>5 DEF CountsFit
    <2>7. CASE step'[r] = "done"
      <3>1. outcome'[r] # "answered" /\ UNCHANGED steps
        <4>1. step' = [step EXCEPT ![r] = "asking"] => step'[r] = "asking"  BY DEF Types, Shared
        <4>2. outcome \in [Runs -> Outcomes]  BY DEF Types, Shared
        <4> QED BY <1>9, <2>7, <4>1, <4>2, NextStepMoves, Interruptions
      <3>2. steps'[r] = steps[r] /\ Begun(r)' = Begun(r) /\ 0 <= used[r]  BY <1>3, <2>3, <2>5, <3>1
      <3> QED BY <1>6, <1>7, <2>1, <2>4, <2>5, <2>7, <3>1, <3>2, EndFits
    <2>8. CASE step'[r] # "done"
      <3>1. step' = [step EXCEPT ![r] = "asking"] /\ UNCHANGED outcome /\ steps' = [steps EXCEPT ![r] = @ + 1]
            /\ steps[r] < MaxSteps
        <4>1. step' = [step EXCEPT ![r] = "done"] => step'[r] = "done"  BY DEF Types, Shared
        <4> QED BY <1>9, <2>8, <4>1, NextStepMoves
      <3>2. step'[r] = "asking" /\ outcome'[r] = "none"
        BY <1>2, <3>1 DEF Types, Shared, QueuesFit, OutcomeFits
      <3>3. steps'[r] <= MaxSteps
        <4>1. steps'[r] = steps[r] + 1  BY <3>1 DEF Types, Local
        <4> QED BY <2>5, <3>1, <4>1, Limits
      <3>4. Ids(turn'[r]) = {}  BY <1>2, <1>3 DEF Ids
      <3>5. 0 <= used'[r]  BY <2>5
      <3> QED BY <1>6, <2>1, <2>3, <2>4, <2>5, <2>6, <3>2, <3>3, <3>4, <3>5, QuietFits
    <2> QED BY <2>7, <2>8
  <1> QED BY <1>2, <1>8, <1>9

LEMMA ProviderFailsFits ==
  ASSUME Types, QueuesFit, NEW r \in Runs, RunFits(r), ProviderFails(r)
  PROVE  RunFits(r)'
  <1>1. step[r] \in Plain /\ UNCHANGED <<hist, transcript, batch>>
        /\ \E why \in {"cancelled", "failed"} : End(r, why)
    BY DEF ProviderFails, Stands, Plain
  <1>2. step'[r] = "done" /\ outcome'[r] # "answered" /\ executed' = executed  BY <1>1, AfterEnd
  <1> QED BY <1>1, <1>2, PlainEnds DEF Still, transcript, batch

\* As many ids as calls: each call has its own.
LEMMA OwnIds ==
  ASSUME NEW r \in Runs, NEW calls \in Turns[r], Cardinality(Ids(calls)) = Len(calls)
  PROVE  \A i, j \in 1 .. Len(calls) : calls[i].id = calls[j].id => i = j
  <1> DEFINE n == Len(calls)
             f == [i \in 1 .. n |-> calls[i].id]
  <1>1. n \in Nat /\ DOMAIN calls = 1 .. n  BY Answers
  <1>2. f \in Surjection(1 .. n, Ids(calls))  BY <1>1 DEF Surjection, Ids
  <1>3. IsFiniteSet(1 .. n) /\ Cardinality(1 .. n) = n
    <2>1. n \in Nat  BY <1>1
    <2> HIDE DEF n
    <2>2. IsFiniteSet(1 .. n) /\ Cardinality(1 .. n) = (IF 1 > n THEN 0 ELSE n - 1 + 1)  BY <2>1, FS_Interval
    <2> QED BY <2>1, <2>2
  <1> HIDE DEF f
  <1>4. f \in Injection(1 .. n, Ids(calls))  BY <1>2, <1>3, FS_Surjection
  <1>5. \A i, j \in 1 .. n : f[i] = f[j] => i = j  BY <1>4 DEF Injection, IsInjective
  <1> QED BY <1>5 DEF f

\* The items of a file are finitely many, so are a run's calls among them.
LEMMA CallsFinite ==
  ASSUME Types, NEW r \in Runs
  PROVE  IsFiniteSet(Calls(r)) /\ Cardinality(Calls(r)) \in Nat
  <1> DEFINE s == SessionOf[r]
  <1>1. hist[s] \in Seq(ItemType)  BY HandoffAssumption DEF Types
  <1>2. DOMAIN hist[s] = 1 .. Len(hist[s]) /\ Len(hist[s]) \in Nat  BY <1>1
  <1>3. IsFiniteSet(1 .. Len(hist[s]))  BY <1>2, FS_Interval
  <1>4. Calls(r) \subseteq 1 .. Len(hist[s])  BY <1>2 DEF Calls, Mine
  <1> QED BY <1>3, <1>4, FS_Subset, FS_CardinalityType

\* A run that persists the calls of a batch has started none of them.
LEMMA WaitingFits ==
  ASSUME NEW r \in Runs, step'[r] \in {"recording", "speaking", "persisting"}, outcome'[r] = "none",
         turn'[r] # <<>>, \A i, j \in 1 .. Len(turn'[r]) : turn'[r][i].id = turn'[r][j].id => i = j,
         persisted'[r] < Len(turn'[r]), persisted'[r] <= Len(turn'[r]),
         step'[r] # "persisting" => persisted'[r] = 0 /\ Open(r)' = {},
         IdsTo(r, persisted[r])' \subseteq known'[r], tried'[r] = {},
         Results(r)' \subseteq known'[r], Results(r)' \cap Ids(turn'[r]) = {},
         \A e \in Begun(r)' : e[2] \in known'[r] /\ e[2] \notin Ids(turn'[r]),
         Unanswered(r)' \subseteq Open(r)', ~Spoke(r)', used'[r] <= MaxCalls, steps'[r] <= MaxSteps,
         IsFiniteSet(Begun(r)'), Cardinality(Begun(r)') <= used'[r], Cardinality(Calls(r)') <= used'[r],
         Cardinality(Begun(r)') + Len(turn'[r]) <= used'[r],
         Cardinality(Calls(r)') + Len(turn'[r]) - persisted'[r] <= used'[r],
         \A a, b \in past'[r] : SameCalls(a, b) => a = b
  PROVE  RunFits(r)'
  <1>1. BatchFits(r)'  BY DEF BatchFits, Batching
  <1>2. ResultsFit(r)'  BY DEF ResultsFit, Ids
  <1>3. CallsFit(r)'  BY DEF CallsFit, Told
  <1>4. AnswerFits(r)'  BY DEF AnswerFits
  <1>5. CountsFit(r)'  BY DEF CountsFit
  <1> QED BY <1>1, <1>2, <1>3, <1>4, <1>5 DEF RunFits

LEMMA SameCallsFacts ==
  ASSUME NEW a, NEW b, SameCalls(a, b)
  PROVE  SameCalls(b, a)
  BY DEF SameCalls

\* What beginning a batch, or ending the loop, takes from its calls.
LEMMA Admitted ==
  ASSUME Types, NEW r \in Runs, NEW calls \in Turns[r], Rejection(r, calls) = "", CountsFit(r)
  PROVE  /\ Ids(calls) \cap known[r] = {} /\ Len(calls) \in Nat
         /\ \A i, j \in 1 .. Len(calls) : calls[i].id = calls[j].id => i = j
         /\ used[r] + Len(calls) <= MaxCalls
         /\ calls # <<>> => \A a, b \in past[r] \cup {calls} : SameCalls(a, b) => a = b
  <1>0. \A why \in {"invalid", "limit", "loop", "denied"} : why # ""  OBVIOUS
  <1>1. Interruption(r) = ""  BY DEF Rejection
  <1>2. Fresh(r, calls)  BY <1>0, <1>1 DEF Rejection
  <1>3. WithinLimits(r, calls)  BY <1>0, <1>1, <1>2 DEF Rejection
  <1>4. ~Repeats(r, calls)  BY <1>0, <1>1, <1>2, <1>3 DEF Rejection
  <1>5. calls # <<>> => \A a, b \in past[r] \cup {calls} : SameCalls(a, b) => a = b
    BY <1>4, SameCallsFacts DEF Repeats, CountsFit
  <1> QED BY <1>2, <1>3, <1>5, OwnIds, Answers DEF Fresh, WithinLimits

LEMMA AnswerFitsRun ==
  ASSUME Types, QueuesFit, NEW r \in Runs, RunFits(r), Answer(r)
  PROVE  RunFits(r)'
  <1>1. step[r] = "asking" /\ step[r] \in Plain /\ UNCHANGED hist  BY DEF Answer, Stands, Plain
  <1>2. PICK calls \in Turns[r] :
       \/ /\ Rejection(r, calls) # ""
          /\ End(r, Rejection(r, calls))
          /\ UNCHANGED <<transcript, batch>>
       \/ /\ Rejection(r, calls) = ""
          /\ turn' = [turn EXCEPT ![r] = calls]
          /\ past' = [past EXCEPT ![r] = IF calls = <<>> THEN @ ELSE @ \cup {calls}]
          /\ used' = [used EXCEPT ![r] = @ + Len(calls)]
          /\ persisted' = [persisted EXCEPT ![r] = 0]
          /\ tried' = [tried EXCEPT ![r] = {}]
          /\ Go(r, IF calls = <<>> THEN "committing" ELSE "recording")
          /\ UNCHANGED <<known, steps>>
    BY DEF Answer
  <1>3. CASE Rejection(r, calls) # ""
    <2>1. step'[r] = "done" /\ outcome'[r] # "answered" /\ executed' = executed /\ UNCHANGED <<transcript, batch>>
      BY <1>2, <1>3, AfterEnd, Rejections
    <2> QED BY <1>1, <2>1, PlainEnds DEF Still, transcript, batch
  <1>4. CASE Rejection(r, calls) = ""
    <2>1. /\ Ids(calls) \cap known[r] = {} /\ Len(calls) \in Nat
          /\ \A i, j \in 1 .. Len(calls) : calls[i].id = calls[j].id => i = j
          /\ used[r] + Len(calls) <= MaxCalls
          /\ calls # <<>> => \A a, b \in past[r] \cup {calls} : SameCalls(a, b) => a = b
      BY <1>4, Admitted DEF RunFits
    <2>2. turn'[r] = calls /\ persisted'[r] = 0 /\ tried'[r] = {} /\ known'[r] = known[r] /\ steps'[r] = steps[r]
          /\ past'[r] = (IF calls = <<>> THEN past[r] ELSE past[r] \cup {calls})
      <3>1. DOMAIN turn = Runs /\ DOMAIN persisted = Runs /\ DOMAIN tried = Runs /\ DOMAIN past = Runs
        BY DEF Types, Local
      <3> QED BY <1>2, <1>4, <3>1
    <2>3. used'[r] = used[r] + Len(calls) /\ used[r] \in Nat
      <3>1. used \in [Runs -> Nat]  BY DEF Types, Local
      <3> QED BY <1>2, <1>4, <3>1
    <2>4. step'[r] = (IF calls = <<>> THEN "committing" ELSE "recording") /\ outcome'[r] = "none" /\ executed' = executed
      <3>1. Go(r, IF calls = <<>> THEN "committing" ELSE "recording")  BY <1>2, <1>4
      <3> QED BY <1>1, <3>1, AfterGo
    <2>5. Calls(r)' = Calls(r) /\ Results(r)' = Results(r) /\ Unanswered(r)' = {} /\ ~Spoke(r)' /\ Begun(r)' = Begun(r)
      BY <1>1, <2>4, NothingWritten, PlainFacts, BegunStays
    <2>6. Open(r)' = {} /\ IdsTo(r, persisted[r])' = {}
      <3>1. IdsTo(r, persisted[r])' = {}  BY <2>2 DEF IdsTo
      <3> QED BY <3>1 DEF Open
    <2>7. Results(r) \subseteq known[r] /\ \A e \in Begun(r) : e[2] \in known[r]
      BY <1>1 DEF RunFits, ResultsFit, Working
    <2>8. Results(r)' \subseteq known'[r] /\ Results(r)' \cap Ids(turn'[r]) = {}
          /\ \A e \in Begun(r)' : e[2] \in known'[r] /\ e[2] \notin Ids(turn'[r])
      BY <2>1, <2>2, <2>5, <2>7
    <2>9. /\ steps'[r] <= MaxSteps /\ used'[r] <= MaxCalls /\ IsFiniteSet(Begun(r)')
          /\ Cardinality(Begun(r)') <= used[r] /\ Cardinality(Calls(r)') <= used[r]
      BY <2>1, <2>2, <2>3, <2>5 DEF RunFits, CountsFit
    <2>10. Cardinality(Begun(r)') \in Nat /\ Cardinality(Calls(r)') \in Nat
      BY <2>9, FS_CardinalityType, CallsFinite, <2>5
    <2>11. /\ Cardinality(Begun(r)') + Len(calls) <= used'[r] /\ Cardinality(Calls(r)') + Len(calls) - 0 <= used'[r]
           /\ Cardinality(Begun(r)') <= used'[r] /\ Cardinality(Calls(r)') <= used'[r]
      BY <2>1, <2>3, <2>9, <2>10
    <2>12. \A a, b \in past'[r] : SameCalls(a, b) => a = b
      BY <2>1, <2>2 DEF RunFits, CountsFit
    <2>13. CASE calls = <<>>
      BY <2>2, <2>4, <2>5, <2>6, <2>8, <2>9, <2>11, <2>12, <2>13, QuietFits
    <2>14. CASE calls # <<>>
      <3>1. 0 < Len(calls)
        <4>1. calls \in Seq(Range(calls))  BY Answers
        <4> QED BY <2>14, <4>1
      <3>2. step'[r] = "recording" /\ persisted'[r] < Len(turn'[r]) /\ persisted'[r] <= Len(turn'[r])
        BY <2>1, <2>2, <2>4, <2>14, <3>1
      <3>3. /\ Cardinality(Begun(r)') + Len(turn'[r]) <= used'[r]
            /\ Cardinality(Calls(r)') + Len(turn'[r]) - persisted'[r] <= used'[r]
        BY <2>2, <2>11
      <3>4. turn'[r] # <<>> /\ \A i, j \in 1 .. Len(turn'[r]) : turn'[r][i].id = turn'[r][j].id => i = j
        BY <2>1, <2>2, <2>14
      <3> QED BY <2>2, <2>4, <2>5, <2>6, <2>8, <2>9, <2>11, <2>12, <3>2, <3>3, <3>4, WaitingFits
    <2> QED BY <2>13, <2>14
  <1> QED BY <1>3, <1>4

\* The end of the loop: a commit that is decided before its write.
LEMMA CommitFits ==
  ASSUME Types, QueuesFit, NEW r \in Runs, RunFits(r), Commit(r)
  PROVE  RunFits(r)'
  <1> DEFINE item == Item("text", None, r, "answer")
  <1>1. item \in ItemType /\ item.run = r /\ item.kind = "text" /\ item.content = "answer"  BY ItemTypes, Spoken DEF Item
  <1>2. step[r] = "committing" /\ step[r] \in Plain /\ UNCHANGED <<transcript, persisted, tried, todo>>
    BY DEF Commit, Stands, Plain
  <1>3. /\ Go(r, "confirming")
        /\ \/ \E why \in Failures \ {""} : failure' = [failure EXCEPT ![r] = why] /\ UNCHANGED hist
           \/ failure' = [failure EXCEPT ![r] = "storage"] /\ Written(SessionOf[r], item)
           \/ failure' = [failure EXCEPT ![r] = ""] /\ Written(SessionOf[r], item)
           \/ failure' = [failure EXCEPT ![r] = ""] /\ r \notin text /\ UNCHANGED hist
    BY InterruptionFails, StorageFails DEF Commit, Refused
  <1> HIDE DEF item
  <1>4. step'[r] = "confirming" /\ outcome'[r] = "none" /\ executed' = executed  BY <1>2, <1>3, AfterGo
  <1>5. Unanswered(r) = {} /\ Open(r) = {} /\ ~Spoke(r)  BY <1>2, PlainFacts
  <1>6. Written(SessionOf[r], item) =>
          /\ \E n \in Nat : Calls(r)' = Calls(r) \cup {}
          /\ Results(r)' = Results(r) \cup {} /\ Unanswered(r)' \subseteq Unanswered(r) /\ LastIsAnswer(r)'
    BY <1>1, ItemWritten
  <1>7. Calls(r)' = Calls(r) /\ Results(r)' = Results(r) /\ Unanswered(r)' = {}
    BY <1>3, <1>5, <1>6, NothingWritten
  <1>8. Open(r)' = {} /\ Begun(r)' = Begun(r)
    BY <1>2, <1>4, <1>5, BegunStays DEF Open, IdsTo, transcript
  <1>9. BatchFits(r)'  BY <1>4 DEF BatchFits, Batching
  <1>10. ResultsFit(r)'
    <2>1. step[r] \in Working /\ step[r] \notin {"running", "settling"}  BY <1>2 DEF Working
    <2>2. /\ Results(r) \subseteq known[r] /\ Results(r) \cap Ids(turn[r]) \subseteq tried[r]
          /\ \A e \in Begun(r) : e[2] \in known[r] /\ e[2] \notin Ids(turn[r]) \ tried[r]
      BY <2>1 DEF RunFits, ResultsFit
    <2>3. known' = known /\ turn' = turn /\ tried' = tried  BY <1>2 DEF transcript
    <2> QED BY <1>7, <1>8, <2>2, <2>3 DEF ResultsFit, Ids
  <1>11. CallsFit(r)'  BY <1>7, <1>8 DEF CallsFit, Told
  <1>12. AnswerFits(r)'
    <2>1. failure \in [Runs -> Failures]  BY DEF Types, Local
    <2>2. Spoke(r)' => failure'[r] \in {"", "storage"}  BY <1>3, <1>5, <2>1, NothingWritten
    <2>3. failure'[r] = "" => (r \in text' => LastIsAnswer(r)')  BY <1>2, <1>3, <1>6, <2>1 DEF transcript
    <2> QED BY <1>4, <2>2, <2>3 DEF AnswerFits
  <1>13. CountsFit(r)'  BY <1>2, <1>4, <1>7, <1>8 DEF RunFits, CountsFit, transcript
  <1> QED BY <1>9, <1>10, <1>11, <1>12, <1>13 DEF RunFits

LEMMA ConfirmFits ==
  ASSUME Types, QueuesFit, NEW r \in Runs, RunFits(r), Confirm(r)
  PROVE  RunFits(r)'
  <1>1. step[r] = "confirming" /\ UNCHANGED <<hist, transcript, batch>>  BY DEF Confirm, Stands
  <1>2. /\ step'[r] = "done" /\ executed' = executed
        /\ \/ outcome'[r] = "telemetry"
           \/ failure[r] # "" /\ outcome'[r] = failure[r]
           \/ failure[r] = "" /\ outcome'[r] = "answered"
    <2>1. CASE End(r, "telemetry")  BY <2>1, AfterEnd
    <2>2. CASE failure[r] # "" /\ End(r, failure[r])  BY <2>2, AfterEnd
    <2>3. CASE failure[r] = "" /\ Settled(r, "answered") /\ UNCHANGED executed
      BY <2>3 DEF Settled, Types, Shared
    <2> QED BY <2>1, <2>2, <2>3 DEF Confirm, Verdict
  <1>3. step[r] \in Working \ {"persisting", "executing", "running", "settling", "clearing"}  BY <1>1 DEF Working
  <1>4. Unanswered(r) = {} /\ Open(r) = {}  BY <1>3 DEF RunFits, CallsFit, Sound, Told
  <1>5. /\ Spoke(r) => failure[r] \in {"", "storage"}
        /\ failure[r] = "" => (r \in text => LastIsAnswer(r))
    BY <1>1 DEF RunFits, AnswerFits
  <1>6. /\ Unanswered(r)' = {} /\ Calls(r)' = Calls(r) /\ (Spoke(r)' <=> Spoke(r))
        /\ (LastIsAnswer(r)' <=> LastIsAnswer(r)) /\ Begun(r)' = Begun(r)
    BY <1>1, <1>2, <1>4, NothingWritten, BegunStays
  <1>7. Open(r)' = {} /\ text' = text  BY <1>1, <1>4 DEF Open, IdsTo, transcript, batch
  <1>8. CountsFit(r) /\ Cardinality(Calls(r)') <= used[r]  BY <1>6 DEF RunFits, CountsFit
  <1>9. used'[r] = used[r] /\ steps'[r] = steps[r] /\ past'[r] = past[r]  BY <1>1 DEF transcript
  <1>10. failure[r] \in Failures /\ "answered" \notin Failures /\ "telemetry" \notin Failures
    BY PlaceTypes DEF Failures
  <1>11. outcome'[r] \in {"cancelled", "closed"} => ~Spoke(r)'  BY <1>2, <1>5, <1>6
  <1>12. outcome'[r] = "answered" => (r \in text' => LastIsAnswer(r)')  BY <1>2, <1>5, <1>6, <1>7, <1>10
  <1> QED BY <1>2, <1>6, <1>7, <1>8, <1>9, <1>11, <1>12, EndFits

\* What is known of a run whose batch was not persisted yet.
LEMMA UnbegunFacts ==
  ASSUME Types, NEW r \in Runs, RunFits(r), step[r] \in {"recording", "speaking", "persisting"}
  PROVE  /\ turn[r] # <<>> /\ \A i, j \in 1 .. Len(turn[r]) : turn[r][i].id = turn[r][j].id => i = j
         /\ Len(turn[r]) \in Nat \ {0} /\ persisted[r] \in Nat /\ persisted[r] < Len(turn[r])
         /\ IdsTo(r, persisted[r]) \subseteq known[r] /\ tried[r] = {}
         /\ Results(r) \subseteq known[r] /\ Results(r) \cap Ids(turn[r]) = {}
         /\ \A e \in Begun(r) : e[2] \in known[r] /\ e[2] \notin Ids(turn[r])
         /\ Unanswered(r) \subseteq Open(r) /\ ~Spoke(r) /\ used[r] <= MaxCalls /\ steps[r] <= MaxSteps
         /\ IsFiniteSet(Begun(r)) /\ Cardinality(Begun(r)) <= used[r] /\ Cardinality(Calls(r)) <= used[r]
         /\ Cardinality(Begun(r)) + Len(turn[r]) <= used[r]
         /\ Cardinality(Calls(r)) + Len(turn[r]) - persisted[r] <= used[r]
         /\ \A a, b \in past[r] : SameCalls(a, b) => a = b
  <1>1. step[r] \in Batching /\ step[r] \in Working /\ step[r] \notin {"running", "settling", "clearing", "confirming", "done"}
    BY DEF Batching, Working
  <1>2. BatchFits(r) /\ ResultsFit(r) /\ CallsFit(r) /\ AnswerFits(r) /\ CountsFit(r)  BY DEF RunFits
  <1>3. Len(turn[r]) \in Nat \ {0}  BY <1>1, <1>2, BatchCalls
  <1>4. tried[r] = {} /\ turn[r] # <<>> /\ IdsTo(r, persisted[r]) \subseteq known[r]
        /\ \A i, j \in 1 .. Len(turn[r]) : turn[r][i].id = turn[r][j].id => i = j
    BY <1>1, <1>2 DEF BatchFits
  <1>5. persisted[r] \in Nat /\ persisted[r] < Len(turn[r])
    <2>1. persisted[r] = 0 \/ persisted[r] < Len(turn[r])  BY <1>2 DEF BatchFits
    <2>2. persisted[r] \in Nat  BY PlaceTypes
    <2> QED BY <1>3, <2>1, <2>2
  <1>6. Results(r) \subseteq known[r] /\ Results(r) \cap Ids(turn[r]) = {}
        /\ \A e \in Begun(r) : e[2] \in known[r] /\ e[2] \notin Ids(turn[r])
    BY <1>1, <1>2, <1>4 DEF ResultsFit
  <1>7. Unanswered(r) \subseteq Open(r)  BY <1>1, <1>2 DEF CallsFit, Sound, Told
  <1>8. ~Spoke(r)  BY <1>1, <1>2 DEF AnswerFits
  <1> QED BY <1>2, <1>3, <1>4, <1>5, <1>6, <1>7, <1>8 DEF CountsFit

LEMMA RecordFits ==
  ASSUME Types, QueuesFit, NEW r \in Runs, RunFits(r), Record(r)
  PROVE  RunFits(r)'
  <1>1. step[r] = "recording" /\ step[r] \in Plain /\ UNCHANGED <<hist, transcript, batch>>
        /\ (End(r, "telemetry") \/ Go(r, "speaking") \/ Go(r, "persisting"))
    BY DEF Record, Stands, Plain
  <1>2. CASE End(r, "telemetry")
    <2>1. step'[r] = "done" /\ outcome'[r] # "answered" /\ executed' = executed  BY <1>2, AfterEnd
    <2> QED BY <1>1, <2>1, PlainEnds DEF Still, transcript, batch
  <1>3. CASE Go(r, "speaking") \/ Go(r, "persisting")
    <2>1. step'[r] \in {"speaking", "persisting"} /\ outcome'[r] = "none" /\ executed' = executed
      BY <1>1, <1>3, AfterGo
    <2>2. persisted[r] = 0  BY <1>1 DEF RunFits, BatchFits
    <2>3. UNCHANGED <<known, turn, past, used, steps, persisted, tried>>  BY <1>1 DEF transcript, batch
    <2>4. Calls(r)' = Calls(r) /\ Results(r)' = Results(r) /\ Unanswered(r)' = Unanswered(r) /\ (Spoke(r)' <=> Spoke(r))
          /\ Begun(r)' = Begun(r)
      BY <1>1, <2>1, NothingWritten, BegunStays
    <2>5. Open(r)' = Open(r) /\ Open(r) = {} /\ IdsTo(r, persisted[r])' = IdsTo(r, persisted[r])
      BY <1>1, <2>3, PlainFacts DEF Open, IdsTo
    <2>6. persisted'[r] <= Len(turn'[r])  BY <1>1, <2>3, UnbegunFacts
    <2> QED BY <1>1, <2>1, <2>2, <2>3, <2>4, <2>5, <2>6, UnbegunFacts, WaitingFits
  <1> QED BY <1>1, <1>2, <1>3

LEMMA SpeakFits ==
  ASSUME Types, QueuesFit, NEW r \in Runs, RunFits(r), Speak(r)
  PROVE  RunFits(r)'
  <1> DEFINE item == Item("text", None, r, "reply")
  <1>1. item \in ItemType /\ item.run = r /\ item.kind = "text" /\ item.content = "reply"  BY ItemTypes, Spoken DEF Item
  <1>2. /\ step[r] = "speaking" /\ step[r] \in Plain /\ UNCHANGED <<transcript, batch>>
        /\ \/ (\E why \in {"cancelled", "closed"} : End(r, why)) /\ UNCHANGED hist
           \/ Refused(SessionOf[r], item) /\ End(r, "storage")
           \/ Acknowledged(SessionOf[r], item) /\ Go(r, "persisting")
    BY Interruptions DEF Speak, Stands, Plain
  <1> HIDE DEF item
  <1>3. UNCHANGED <<known, turn, past, used, steps, persisted, tried>>  BY <1>2 DEF transcript, batch
  <1>4. Written(SessionOf[r], item) =>
          /\ \E n \in Nat : Calls(r)' = Calls(r) \cup {}
          /\ Results(r)' = Results(r) \cup {} /\ Unanswered(r)' \subseteq Unanswered(r) /\ (Spoke(r)' <=> Spoke(r))
    BY <1>1, ItemWritten
  <1>5. CASE (\E why \in {"cancelled", "closed"} : End(r, why)) /\ UNCHANGED hist
    <2>1. step'[r] = "done" /\ outcome'[r] # "answered" /\ executed' = executed  BY <1>5, AfterEnd
    <2> QED BY <1>2, <1>3, <1>5, <2>1, PlainEnds DEF Still
  <1>6. CASE Refused(SessionOf[r], item) /\ End(r, "storage")
    <2>1. Calls(r)' = Calls(r)  BY <1>4, <1>6, NothingWritten DEF Refused
    <2> QED BY <1>3, <1>6, <2>1, AfterEnd, FailedEnds
  <1>7. CASE Acknowledged(SessionOf[r], item) /\ Go(r, "persisting")
    <2>1. step'[r] = "persisting" /\ outcome'[r] = "none" /\ executed' = executed  BY <1>2, <1>7, AfterGo
    <2>2. Calls(r)' = Calls(r) /\ Results(r)' = Results(r) /\ Unanswered(r)' \subseteq Unanswered(r) /\ (Spoke(r)' <=> Spoke(r))
          /\ Begun(r)' = Begun(r)
      BY <1>4, <1>7, <2>1, BegunStays DEF Acknowledged
    <2>3. Open(r)' = Open(r) /\ IdsTo(r, persisted[r])' = IdsTo(r, persisted[r])
      BY <1>3 DEF Open, IdsTo
    <2>4. Unanswered(r)' \subseteq Open(r)'  BY <1>2, <2>2, <2>3, UnbegunFacts
    <2>5. persisted'[r] <= Len(turn'[r])  BY <1>2, <1>3, UnbegunFacts
    <2> QED BY <1>2, <1>3, <2>1, <2>2, <2>3, <2>4, <2>5, UnbegunFacts, WaitingFits
  <1> QED BY <1>2, <1>5, <1>6, <1>7

-----------------------------------------------------------------------------
(* A run in its batch *)

\* What every run in a batch has said, called and counted.
LEMMA BatchFacts ==
  ASSUME Types, NEW r \in Runs, RunFits(r), step[r] \in Batching
  PROVE  /\ turn[r] # <<>> /\ \A i, j \in 1 .. Len(turn[r]) : turn[r][i].id = turn[r][j].id => i = j
         /\ Len(turn[r]) \in Nat \ {0} /\ persisted[r] \in Nat /\ persisted[r] <= Len(turn[r])
         /\ IdsTo(r, persisted[r]) \subseteq known[r]
         /\ Results(r) \subseteq known[r] /\ Results(r) \cap Ids(turn[r]) \subseteq tried[r]
         /\ \A e \in Begun(r) : e[2] \in known[r]
         /\ ~Spoke(r) /\ used[r] <= MaxCalls /\ steps[r] <= MaxSteps
         /\ IsFiniteSet(Begun(r)) /\ Cardinality(Begun(r)) <= used[r] /\ Cardinality(Calls(r)) <= used[r]
         /\ used[r] \in Nat /\ Cardinality(Begun(r)) \in Nat /\ Cardinality(Calls(r)) \in Nat
         /\ \A a, b \in past[r] : SameCalls(a, b) => a = b
  <1>1. step[r] \in Working /\ step[r] \notin {"confirming", "done"}  BY DEF Batching, Working
  <1>2. BatchFits(r) /\ ResultsFit(r) /\ AnswerFits(r) /\ CountsFit(r)  BY DEF RunFits
  <1>3. Len(turn[r]) \in Nat \ {0}  BY <1>2, BatchCalls
  <1>4. turn[r] # <<>> /\ IdsTo(r, persisted[r]) \subseteq known[r] /\ persisted[r] <= Len(turn[r])
        /\ \A i, j \in 1 .. Len(turn[r]) : turn[r][i].id = turn[r][j].id => i = j
    BY <1>2 DEF BatchFits
  <1>5. Results(r) \subseteq known[r] /\ Results(r) \cap Ids(turn[r]) \subseteq tried[r]
        /\ \A e \in Begun(r) : e[2] \in known[r]
    BY <1>1, <1>2 DEF ResultsFit
  <1>6. ~Spoke(r)  BY <1>1, <1>2 DEF AnswerFits
  <1>7. IsFiniteSet(Begun(r)) /\ Cardinality(Begun(r)) \in Nat  BY <1>2, FS_CardinalityType DEF CountsFit
  <1> QED BY <1>2, <1>3, <1>4, <1>5, <1>6, <1>7, PlaceTypes, CallsFinite DEF CountsFit

\* Settling what a failed batch left, or ending at once because nothing is.
LEMMA LeftFits ==
  ASSUME Types, QueuesFit, NEW r \in Runs, RunFits(r), step[r] \in {"persisting", "settling"},
         NEW t, NEW why \in Failures \ {""}, SettleLeft(r, t, why), tried'[r] = t,
         UNCHANGED <<known, turn, past, used, persisted>>, steps' = steps,
         Results(r)' \subseteq known[r], Results(r)' \cap Ids(turn[r]) \subseteq t,
         \A e \in Begun(r) : e[2] \notin Ids(turn[r]) \ t,
         why # "storage" => Unanswered(r)' \subseteq IdsTo(r, persisted[r]) \ t,
         ~Spoke(r)', Cardinality(Calls(r)') <= used[r]
  PROVE  RunFits(r)'
  <1>0. step[r] \in Batching  BY DEF Batching
  <1>1. Untouched(r, t) = {} <=> IdsTo(r, persisted[r]) \ t = {}  BY DEF Untouched, IdsTo
  <1>2. Open(r)' = IdsTo(r, persisted[r]) \ t /\ IdsTo(r, persisted[r])' = IdsTo(r, persisted[r])
    BY DEF Open, IdsTo
  <1>3. CountsFit(r)  BY DEF RunFits
  <1>4. CASE Untouched(r, t) = {} /\ End(r, why)
    <2>1. step'[r] = "done" /\ outcome'[r] = why /\ executed' = executed  BY <1>4, AfterEnd
    <2>2. outcome'[r] # "answered"  BY <2>1 DEF Failures
    <2>3. outcome'[r] \in Told => Unanswered(r)' = {} /\ Open(r)' = {}
      <3>1. why \in Told => why # "storage"  BY DEF Told
      <3> QED BY <1>1, <1>2, <1>4, <2>1, <3>1
    <2> QED BY <1>3, <2>1, <2>2, <2>3, BegunStays, EndFits
  <1>5. CASE Untouched(r, t) # {} /\ Go(r, "clearing") /\ failure' = [failure EXCEPT ![r] = why]
    <2>1. step'[r] = "clearing" /\ outcome'[r] = "none" /\ executed' = executed  BY <1>0, <1>5, AfterGo
    <2>2. failure'[r] = why  BY <1>5 DEF Types, Local
    <2>3. Begun(r)' = Begun(r)  BY <2>1, BegunStays
    <2>4. BatchFits(r)'  BY ZenonT(30), <1>0, <1>2, <2>1, <2>2, BatchFacts DEF BatchFits, Batching
    <2>5. ResultsFit(r)'  BY <1>0, <2>1, <2>3, BatchFacts DEF ResultsFit, Ids
    <2>6. CallsFit(r)'
      <3>1. Sound(r)' => why # "storage"  BY <2>1, <2>2 DEF Sound, Told
      <3> QED BY <1>2, <2>1, <3>1 DEF CallsFit, Told
    <2>7. AnswerFits(r)'  BY <2>1 DEF AnswerFits
    <2>8. CountsFit(r)'  BY <1>0, <2>1, <2>3, BatchFacts DEF CountsFit
    <2> QED BY <2>4, <2>5, <2>6, <2>7, <2>8 DEF RunFits
  <1> QED BY <1>4, <1>5 DEF SettleLeft

\* Everything is persisted and nothing was started.
LEMMA ReadyFits ==
  ASSUME NEW r \in Runs, step'[r] = "executing", outcome'[r] = "none",
         turn'[r] # <<>>, \A i, j \in 1 .. Len(turn'[r]) : turn'[r][i].id = turn'[r][j].id => i = j,
         persisted'[r] = Len(turn'[r]), persisted'[r] <= Len(turn'[r]),
         IdsTo(r, persisted[r])' \subseteq known'[r], tried'[r] = {},
         Results(r)' \subseteq known'[r], Results(r)' \cap Ids(turn'[r]) = {},
         \A e \in Begun(r)' : e[2] \in known'[r] /\ e[2] \notin Ids(turn'[r]),
         Unanswered(r)' \subseteq Open(r)', ~Spoke(r)', used'[r] <= MaxCalls, steps'[r] <= MaxSteps,
         IsFiniteSet(Begun(r)'), Cardinality(Begun(r)') <= used'[r], Cardinality(Calls(r)') <= used'[r],
         Cardinality(Begun(r)') + Len(turn'[r]) <= used'[r],
         \A a, b \in past'[r] : SameCalls(a, b) => a = b
  PROVE  RunFits(r)'
  <1>1. BatchFits(r)'  BY DEF BatchFits, Batching
  <1>2. ResultsFit(r)'  BY DEF ResultsFit, Ids
  <1>3. CallsFit(r)'
    <2>1. step'[r] \notin Working \ {"persisting", "executing", "running", "settling", "clearing"}  OBVIOUS
    <2> QED BY <2>1 DEF CallsFit, Told
  <1>4. AnswerFits(r)'  BY DEF AnswerFits
  <1>5. CountsFit(r)'  BY DEF CountsFit
  <1> QED BY <1>1, <1>2, <1>3, <1>4, <1>5 DEF RunFits

LEMMA PersistFits ==
  ASSUME Types, QueuesFit, NEW r \in Runs, RunFits(r), Persist(r)
  PROVE  RunFits(r)'
  <1>0. step[r] = "persisting" /\ step[r] \in Batching  BY DEF Persist, Stands, Batching
  <1>1. PICK n, id : n = persisted[r] + 1 /\ id = turn[r][n].id  OBVIOUS
  <1>2. n \in 1 .. Len(turn[r]) /\ n \in Nat /\ Len(turn[r]) \in Nat /\ n = persisted[r] + 1 /\ persisted[r] \in Nat
    <2>1. persisted[r] \in Nat /\ Len(turn[r]) \in Nat /\ persisted[r] < Len(turn[r])  BY <1>0, UnbegunFacts
    <2> QED BY <1>1, <2>1
  <1>3. id \in AllIds /\ id \in Ids(turn[r])  BY <1>0, <1>1, <1>2, BatchCalls DEF RunFits
  <1> DEFINE item == Item("call", id, r, "")
  <1>4. item \in ItemType /\ item.run = r /\ item.kind = "call" /\ item.id = id /\ item.content = ""
    BY <1>3, ItemTypes, Spoken DEF Item
  <1>5. /\ \/ \E why \in Failures \ {""} : SettleLeft(r, tried[r], why) /\ UNCHANGED <<hist, known, persisted>>
           \/ Refused(SessionOf[r], item) /\ SettleLeft(r, tried[r], "storage") /\ UNCHANGED <<known, persisted>>
           \/ /\ Acknowledged(SessionOf[r], item)
              /\ known' = [known EXCEPT ![r] = @ \cup {id}]
              /\ persisted' = [persisted EXCEPT ![r] = n]
              /\ Go(r, IF n = Len(turn[r]) THEN "executing" ELSE "persisting")
        /\ UNCHANGED <<turn, text, past, used, steps, tried, todo>>
    BY <1>1, InterruptionFails DEF Persist
  <1> HIDE DEF item
  <1>6. Written(SessionOf[r], item) =>
          /\ \E m \in Nat : m \notin Calls(r) /\ Calls(r)' = Calls(r) \cup {m}
          /\ Results(r)' = Results(r) \cup {} /\ Unanswered(r)' \subseteq Unanswered(r) \cup {id}
          /\ (Spoke(r)' <=> Spoke(r))
    BY <1>4, ItemWritten
  <1>7. /\ used[r] \in Nat /\ Cardinality(Calls(r)) \in Nat /\ Cardinality(Begun(r)) \in Nat /\ IsFiniteSet(Calls(r))
        /\ Cardinality(Calls(r)) + Len(turn[r]) - persisted[r] <= used[r]
        /\ Cardinality(Begun(r)) + Len(turn[r]) <= used[r]
    BY <1>0, BatchFacts, UnbegunFacts, CallsFinite
  <1>8. Written(SessionOf[r], item) => Cardinality(Calls(r)') = Cardinality(Calls(r)) + 1
    BY <1>6, <1>7, FS_AddElement
  <1>9. Written(SessionOf[r], item) =>
          Cardinality(Calls(r)') <= used[r] /\ Cardinality(Calls(r)') + Len(turn[r]) - n <= used[r]
    <2>1. SUFFICES ASSUME Written(SessionOf[r], item)
                   PROVE  Cardinality(Calls(r)') <= used[r] /\ Cardinality(Calls(r)') + Len(turn[r]) - n <= used[r]
      OBVIOUS
    <2>2. Cardinality(Calls(r)') = Cardinality(Calls(r)) + 1  BY <1>8, <2>1
    <2> DEFINE c == Cardinality(Calls(r))
               l == Len(turn[r])
               p == persisted[r]
               u == used[r]
    <2>3. c \in Nat /\ l \in Nat /\ p \in Nat /\ u \in Nat /\ c + l - p <= u /\ n = p + 1 /\ n \in 1 .. l  BY <1>2, <1>7
    <2> HIDE DEF c, l, p, u
    <2>4. c + 1 <= u /\ c + 1 + l - n <= u  BY <2>3
    <2> QED BY <2>2, <2>4 DEF c, l, u
  <1>10. CASE \E why \in Failures \ {""} : SettleLeft(r, tried[r], why) /\ UNCHANGED <<hist, known, persisted>>
    <2>1. PICK why \in Failures \ {""} : SettleLeft(r, tried[r], why) /\ UNCHANGED <<hist, known, persisted>>  BY <1>10
    <2>2. Calls(r)' = Calls(r) /\ Results(r)' = Results(r) /\ Unanswered(r)' = Unanswered(r) /\ (Spoke(r)' <=> Spoke(r))
      BY <2>1, NothingWritten
    <2>3. Results(r) \subseteq known[r] /\ Results(r) \cap Ids(turn[r]) = {} /\ tried[r] = {}
          /\ (\A e \in Begun(r) : e[2] \notin Ids(turn[r])) /\ ~Spoke(r) /\ Cardinality(Calls(r)) <= used[r]
          /\ Unanswered(r) \subseteq Open(r)
      BY <1>0, UnbegunFacts
    <2>4. /\ Results(r)' \subseteq known[r] /\ Results(r)' \cap Ids(turn[r]) \subseteq tried[r]
          /\ (\A e \in Begun(r) : e[2] \notin Ids(turn[r]) \ tried[r]) /\ ~Spoke(r)' /\ Cardinality(Calls(r)') <= used[r]
      BY <2>2, <2>3
    <2>5. Unanswered(r)' \subseteq IdsTo(r, persisted[r]) \ tried[r]
      BY <2>2, <2>3 DEF Open
    <2> QED BY <1>0, <1>5, <2>1, <2>4, <2>5, LeftFits
  <1>11. CASE Refused(SessionOf[r], item) /\ SettleLeft(r, tried[r], "storage") /\ UNCHANGED <<known, persisted>>
    <2>1. Results(r)' = Results(r) /\ (Spoke(r)' <=> Spoke(r)) /\ Cardinality(Calls(r)') <= used[r]
      <3>1. CASE UNCHANGED hist  BY <1>0, <3>1, NothingWritten, UnbegunFacts
      <3>2. CASE Written(SessionOf[r], item)  BY <1>6, <1>9, <3>2
      <3> QED BY <1>11, <3>1, <3>2 DEF Refused
    <2>3. tried[r] = {} /\ Results(r)' \subseteq known[r] /\ Results(r)' \cap Ids(turn[r]) \subseteq tried[r]
          /\ (\A e \in Begun(r) : e[2] \notin Ids(turn[r]) \ tried[r]) /\ ~Spoke(r)'
      BY <1>0, <2>1, UnbegunFacts
    <2> QED BY <1>0, <1>5, <1>11, <2>1, <2>3, StorageFails, LeftFits
  <1>12. CASE /\ Acknowledged(SessionOf[r], item)
              /\ known' = [known EXCEPT ![r] = @ \cup {id}]
              /\ persisted' = [persisted EXCEPT ![r] = n]
              /\ Go(r, IF n = Len(turn[r]) THEN "executing" ELSE "persisting")
    <2>1. step'[r] = (IF n = Len(turn[r]) THEN "executing" ELSE "persisting") /\ outcome'[r] = "none" /\ executed' = executed
      <3>1. Go(r, IF n = Len(turn[r]) THEN "executing" ELSE "persisting")  BY <1>12
      <3> QED BY <1>0, <3>1, AfterGo
    <2>2. /\ Results(r)' = Results(r) /\ Unanswered(r)' \subseteq Unanswered(r) \cup {id} /\ (Spoke(r)' <=> Spoke(r))
          /\ Cardinality(Calls(r)') <= used[r] /\ Cardinality(Calls(r)') + Len(turn[r]) - n <= used[r]
          /\ Begun(r)' = Begun(r)
      BY <1>6, <1>9, <1>12, <2>1, BegunStays DEF Acknowledged
    <2>3. known'[r] = known[r] \cup {id} /\ persisted'[r] = n  BY <1>12 DEF Types, Local
    <2>4. turn' = turn /\ past' = past /\ used' = used /\ steps' = steps /\ tried' = tried  BY <1>5
    <2>5. IdsTo(r, persisted[r])' = IdsTo(r, persisted[r]) \cup {id}
      <3>1. 1 .. n = (1 .. persisted[r]) \cup {n}  BY <1>2
      <3> QED BY <1>1, <2>3, <2>4, <3>1 DEF IdsTo
    <2>6. tried[r] = {} /\ IdsTo(r, persisted[r]) \subseteq known[r] /\ Unanswered(r) \subseteq Open(r)
      BY <1>0, UnbegunFacts
    <2>7. Open(r)' = Open(r) \cup {id}
      BY <2>4, <2>5, <2>6 DEF Open
    <2>8. Unanswered(r)' \subseteq Open(r)'  BY <2>2, <2>6, <2>7
    <2>9. IdsTo(r, persisted[r])' \subseteq known'[r] /\ tried'[r] = {}  BY <2>3, <2>4, <2>5, <2>6
    <2>10. /\ turn'[r] # <<>> /\ \A i, j \in 1 .. Len(turn'[r]) : turn'[r][i].id = turn'[r][j].id => i = j
      BY <1>0, <2>4, UnbegunFacts
    <2>11. /\ Results(r)' \subseteq known'[r] /\ Results(r)' \cap Ids(turn'[r]) = {}
           /\ \A e \in Begun(r)' : e[2] \in known'[r] /\ e[2] \notin Ids(turn'[r])
           /\ ~Spoke(r)'
      BY <1>0, <2>2, <2>3, <2>4, UnbegunFacts
    <2>12. /\ used'[r] <= MaxCalls /\ steps'[r] <= MaxSteps
           /\ IsFiniteSet(Begun(r)') /\ Cardinality(Begun(r)') <= used'[r] /\ Cardinality(Calls(r)') <= used'[r]
           /\ Cardinality(Begun(r)') + Len(turn'[r]) <= used'[r]
           /\ Cardinality(Calls(r)') + Len(turn'[r]) - persisted'[r] <= used'[r]
           /\ \A a, b \in past'[r] : SameCalls(a, b) => a = b
      BY <1>0, <2>2, <2>3, <2>4, UnbegunFacts
    <2>13. CASE n = Len(turn[r])
      <3>1. step'[r] = "executing" /\ persisted'[r] = Len(turn'[r]) /\ persisted'[r] <= Len(turn'[r])
        BY <1>2, <2>1, <2>3, <2>4, <2>13
      <3> QED BY <2>1, <2>8, <2>9, <2>10, <2>11, <2>12, <3>1, ReadyFits
    <2>14. CASE n # Len(turn[r])
      <3>1. step'[r] = "persisting" /\ persisted'[r] < Len(turn'[r]) /\ persisted'[r] <= Len(turn'[r])
        BY <1>2, <2>1, <2>3, <2>4, <2>14
      <3> QED BY <2>1, <2>8, <2>9, <2>10, <2>11, <2>12, <3>1, WaitingFits
    <2> QED BY <2>13, <2>14
  <1> QED BY <1>5, <1>10, <1>11, <1>12

\* The entries of todo.
Entries == [id : AllIds, content : {"", "ran", "failed", "interrupted", "skipped"}]

\* What is skipped from call number m on, alone or behind the result of call number m - 1.
LEMMA SkipsFacts ==
  ASSUME Types, NEW r \in Runs, BatchFits(r), step[r] \in Batching, NEW m \in 1 .. Len(turn[r]) + 1
  PROVE  LET s == Skips(SubSeq(turn[r], m, Len(turn[r])))
         IN /\ s \in Seq(Entries) /\ Len(s) = Len(turn[r]) - m + 1
            /\ \A k \in 1 .. Len(s) : s[k].id = turn[r][m + k - 1].id /\ s[k].content = "skipped"
  <1> DEFINE t == turn[r]
             n == Len(t)
             u == SubSeq(t, m, n)
             s == Skips(u)
  <1>1. t \in Seq(Range(t)) /\ n \in Nat /\ m \in 1 .. n + 1 /\ \A i \in 1 .. n : t[i].id \in AllIds  BY BatchCalls
  <1> HIDE DEF t
  <1>2. Len(u) = n - m + 1 /\ u \in Seq(Range(t)) /\ \A k \in 1 .. n - m + 1 : u[k] = t[m + k - 1] /\ m + k - 1 \in 1 .. n
    <2>1. \A i \in m .. n : i \in 1 .. n  BY <1>1
    <2>2. u \in Seq(Range(t))  BY <1>1, <2>1, SubSeqProperties
    <2>3. Len(u) = (IF m <= n THEN n - m + 1 ELSE 0)  BY <1>1, <2>1, SubSeqProperties
    <2>4. \A k \in 1 .. n - m + 1 : u[k] = t[m + k - 1]  BY <1>1, <2>1, SubSeqProperties
    <2>5. \A k \in 1 .. n - m + 1 : m + k - 1 \in 1 .. n  BY <1>1
    <2>6. Len(u) = n - m + 1  BY <1>1, <2>3
    <2> QED BY <2>2, <2>4, <2>5, <2>6
  <1> HIDE DEF u
  <1>3. DOMAIN u = 1 .. n - m + 1 /\ n - m + 1 \in Nat  BY <1>1, <1>2
  <1>4. s = [k \in 1 .. n - m + 1 |-> Result(u[k].id, "skipped")]  BY <1>3 DEF Skips
  <1>5. \A k \in 1 .. n - m + 1 : s[k] \in Entries /\ s[k].id = t[m + k - 1].id /\ s[k].content = "skipped"
    BY <1>1, <1>2, <1>4 DEF Result, Entries
  <1>6. s \in Seq(Entries) /\ Len(s) = n - m + 1
    <2>1. DOMAIN s = 1 .. n - m + 1  BY <1>4
    <2> HIDE DEF s
    <2>2. s = [k \in 1 .. n - m + 1 |-> s[k]]  BY <1>4, <2>1 DEF s
    <2>3. s \in [1 .. n - m + 1 -> Entries]  BY <1>5, <2>2
    <2> QED BY <1>3, <2>3
  <1> QED BY <1>5, <1>6 DEF t, u

\* Only one call can be the one todo begins with.
OneNumber ==
  \A r \in Runs : \A i, k \in 1 .. Len(turn[r]) :
    /\ \A a, b \in 1 .. Len(turn[r]) : turn[r][a].id = turn[r][b].id => a = b
    /\ Len(turn[r]) \in Nat /\ AtNumber(r, i) /\ AtNumber(r, k)
    => i = k

LEMMA NumberIsOne == OneNumber
  <1> SUFFICES ASSUME NEW r \in Runs, NEW i \in 1 .. Len(turn[r]), NEW k \in 1 .. Len(turn[r]), Len(turn[r]) \in Nat,
                      \A a, b \in 1 .. Len(turn[r]) : turn[r][a].id = turn[r][b].id => a = b,
                      AtNumber(r, i), AtNumber(r, k)
               PROVE  i = k
    BY DEF OneNumber
  <1>1. todo[r] \in Seq(Entries) /\ Len(todo[r]) >= 1  BY DEF AtNumber, Entries
  <1>2. 1 \in 1 .. Len(todo[r])
    <2>1. Len(todo[r]) \in Nat  BY <1>1
    <2> QED BY <1>1, <2>1
  <1>3. todo[r][1].id = turn[r][i + 1 - 1].id /\ todo[r][1].id = turn[r][k + 1 - 1].id  BY <1>2 DEF AtNumber
  <1>4. i + 1 - 1 = i /\ k + 1 - 1 = k  OBVIOUS
  <1> QED BY <1>3, <1>4

\* A run that executes or settles call number i.
Acting(r, i) ==
  /\ step[r] \in {"running", "settling"} /\ outcome[r] = "none" /\ turn[r] # <<>>
  /\ \A k, j \in 1 .. Len(turn[r]) : turn[r][k].id = turn[r][j].id => k = j
  /\ Len(turn[r]) \in Nat /\ persisted[r] = Len(turn[r]) /\ IdsTo(r, persisted[r]) \subseteq known[r]
  /\ i \in 1 .. Len(turn[r]) /\ AtNumber(r, i)
  /\ step[r] = "running" => RunningAt(r, i)
  /\ step[r] = "settling" => SettlingAt(r, i)
  /\ Results(r) \subseteq known[r] /\ Results(r) \cap Ids(turn[r]) \subseteq tried[r]
  /\ \A e \in Begun(r) :
       /\ e[2] \in known[r]
       /\ e[2] \in Ids(turn[r]) \ tried[r] =>
            e[2] = Head(todo[r]).id /\ (step[r] = "settling" => Head(todo[r]).content # "skipped")
  /\ Unanswered(r) \subseteq Open(r) /\ ~Spoke(r) /\ used[r] <= MaxCalls /\ steps[r] <= MaxSteps
  /\ IsFiniteSet(Begun(r)) /\ Cardinality(Begun(r)) <= used[r] /\ Cardinality(Calls(r)) <= used[r]
  /\ Cardinality(Begun(r)) + Len(turn[r]) - i <= used[r]
  /\ \A a, b \in past[r] : SameCalls(a, b) => a = b

LEMMA ActingFits ==
  ASSUME NEW r \in Runs, NEW i, Acting(r, i)
  PROVE  RunFits(r)
  <1> USE DEF Acting
  <1>1. BatchFits(r)
    <2>1. step[r] = "running" => \E k \in 1 .. Len(turn[r]) : RunningAt(r, k)  OBVIOUS
    <2>2. step[r] = "settling" => \E k \in 1 .. Len(turn[r]) : SettlingAt(r, k)  OBVIOUS
    <2>3. persisted[r] <= Len(turn[r])  OBVIOUS
    <2> QED BY <2>1, <2>2, <2>3 DEF BatchFits, Batching
  <1>2. ResultsFit(r)  BY DEF ResultsFit, Ids
  <1>3. CallsFit(r)
    <2>1. step[r] \notin Working \ {"persisting", "executing", "running", "settling", "clearing"}  OBVIOUS
    <2> QED BY <2>1 DEF CallsFit, Told
  <1>4. AnswerFits(r)  BY DEF AnswerFits
  <1>5. CountsFit(r)
    <2>1. OneNumber  BY NumberIsOne
    <2>2. \A k \in 1 .. Len(turn[r]) : AtNumber(r, k) => i = k  BY <2>1 DEF OneNumber
    <2>3. \A k \in 1 .. Len(turn[r]) : AtNumber(r, k) => Cardinality(Begun(r)) + Len(turn[r]) - k <= used[r]
      BY <2>2
    <2> QED BY <2>3 DEF CountsFit
  <1> QED BY <1>1, <1>2, <1>3, <1>4, <1>5 DEF RunFits

ActingIsFit == \A r \in Runs : \A i : Acting(r, i) => RunFits(r)

LEMMA ActingIsAlwaysFit == ActingIsFit
  BY ActingFits DEF ActingIsFit

LEMMA ActingLater ==
  ASSUME NEW r \in Runs, NEW i, Acting(r, i)'
  PROVE  RunFits(r)'
  <1>1. ActingIsFit'  BY ActingIsAlwaysFit, PTL
  <1> QED BY <1>1 DEF ActingIsFit

LEMMA ToolReturnsFits ==
  ASSUME Types, QueuesFit, NEW r \in Runs, RunFits(r), ToolReturns(r)
  PROVE  RunFits(r)'
  <1>0. step[r] = "running" /\ step[r] \in Batching /\ step[r] \in Working  BY DEF ToolReturns, Stands, Batching, Working
  <1>1. PICK i \in 1 .. Len(turn[r]) : RunningAt(r, i)  BY <1>0 DEF RunFits, BatchFits
  <1>2. AtNumber(r, i) /\ i \in Nat /\ Len(turn[r]) \in Nat
    <2>1. Len(turn[r]) \in Nat  BY <1>0, BatchFacts
    <2> QED BY <1>1, <2>1 DEF RunningAt
  <1>3. PICK id : id = Head(todo[r]).id  OBVIOUS
  <1>4. id = turn[r][i].id /\ id \in AllIds /\ IndexOf(r, id) = i  BY <1>0, <1>2, <1>3, AtNumberFacts DEF RunFits
  <1> DEFINE left == Skips(SubSeq(turn[r], i + 1, Len(turn[r])))
  <1>5. /\ left \in Seq(Entries) /\ Len(left) = Len(turn[r]) - i
        /\ \A k \in 1 .. Len(left) : left[k].id = turn[r][i + k].id /\ left[k].content = "skipped"
    <2>1. i + 1 \in 1 .. Len(turn[r]) + 1  BY <1>2
    <2>2. LET s == left
          IN /\ s \in Seq(Entries) /\ Len(s) = Len(turn[r]) - (i + 1) + 1
             /\ \A k \in 1 .. Len(s) : s[k].id = turn[r][i + 1 + k - 1].id /\ s[k].content = "skipped"
      BY <1>0, <2>1, SkipsFacts DEF RunFits
    <2>3. Len(turn[r]) - (i + 1) + 1 = Len(turn[r]) - i  BY <1>2
    <2>4. \A k \in 1 .. Len(left) : i + 1 + k - 1 = i + k
      <3> HIDE DEF left
      <3>1. Len(left) \in Nat  BY <2>2
      <3> QED BY <1>2, <3>1
    <2> HIDE DEF left
    <2> QED BY <2>2, <2>3, <2>4
  <1>6. PICK content \in {"ran", "failed", "interrupted"}, why \in Failures, rest \in Seq(Entries) :
          /\ todo' = [todo EXCEPT ![r] = <<Result(id, content)>> \o rest]
          /\ failure' = [failure EXCEPT ![r] = why]
          /\ (rest = <<>> /\ why = "") \/ (rest = left /\ why # "")
    <2>1. "tool" \in Failures \ {""} /\ "" \in Failures  BY DEF Failures
    <2>2. <<>> \in Seq(Entries) /\ left \in Seq(Entries)  BY <1>5
    <2> QED BY <1>3, <1>4, <2>1, <2>2, InterruptionFails DEF ToolReturns
  <1> DEFINE done == why = ""
  <1>6a. (done => Len(rest) = 0) /\ (~done => rest = left)
    BY <1>6
  <1> HIDE DEF done
  <1>7. Go(r, "settling") /\ UNCHANGED <<hist, transcript, persisted, tried>>  BY DEF ToolReturns
  <1> HIDE DEF left
  <1> DEFINE next == <<Result(id, content)>> \o rest
  <1>8. /\ next \in Seq(Entries) /\ Len(next) = 1 + Len(rest) /\ Len(rest) \in Nat
        /\ next[1] = Result(id, content) /\ Head(next) = Result(id, content)
        /\ \A k \in 2 .. Len(next) : next[k] = rest[k - 1] /\ k - 1 \in 1 .. Len(rest)
    <2>1. rest \in Seq(Entries)  OBVIOUS
    <2>2. Result(id, content) \in Entries  BY <1>4 DEF Result, Entries
    <2> DEFINE x == Result(id, content)
    <2> HIDE DEF x
    <2>3. x \in Entries  BY <2>2 DEF x
    <2>4. /\ <<x>> \o rest \in Seq(Entries) /\ Len(<<x>> \o rest) = 1 + Len(rest) /\ Len(rest) \in Nat
          /\ (<<x>> \o rest)[1] = x /\ Head(<<x>> \o rest) = x
          /\ \A k \in 2 .. 1 + Len(rest) : (<<x>> \o rest)[k] = rest[k - 1] /\ k - 1 \in 1 .. Len(rest)
      BY <2>1, <2>3
    <2> QED BY <2>4 DEF x
  <1> HIDE DEF next
  <1>8a. Len(rest) \in Nat /\ Len(next) \in Nat /\ Len(next) = 1 + Len(rest)
    <2>1. Len(rest) \in Nat /\ Len(next) = 1 + Len(rest)  BY <1>8
    <2> QED BY <2>1
  <1>9. todo'[r] = next /\ failure'[r] = why
    <2>1. todo' = [todo EXCEPT ![r] = next]  BY <1>6 DEF next
    <2> QED BY <1>6, <2>1 DEF Types, Local
  <1>10. AtNumber(r, i)'
    <2>1. turn' = turn /\ tried' = tried  BY <1>7 DEF transcript
    <2>2. IdsTo(r, i - 1)' = IdsTo(r, i - 1)  BY <2>1 DEF IdsTo
    <2>3. Len(next) >= 1 /\ i + Len(next) - 1 <= Len(turn[r])
      <3>1. Len(rest) = 0 \/ Len(rest) = Len(turn[r]) - i  BY <1>5, <1>6a
      <3> QED BY <1>1, <1>2, <1>8a, <3>1
    <2>4. \A k \in 1 .. Len(next) : next[k].id = turn[r][i + k - 1].id
      <3> SUFFICES ASSUME NEW k \in 1 .. Len(next) PROVE next[k].id = turn[r][i + k - 1].id  OBVIOUS
      <3>1. CASE k = 1
        <4>1. i + k - 1 = i /\ next[k].id = id  BY <1>2, <1>8, <3>1 DEF Result
        <4> QED BY <1>4, <4>1
      <3>2. CASE k # 1
        <4>1. k \in 2 .. Len(next) /\ i + (k - 1) = i + k - 1  BY <1>2, <1>8, <3>2
        <4>2. rest = left  BY <1>6a, <1>8a, <4>1
        <4>3. next[k] = left[k - 1] /\ k - 1 \in 1 .. Len(left)  BY <1>8, <4>1, <4>2
        <4>4. left[k - 1].id = turn[r][i + (k - 1)].id  BY <1>5, <4>3
        <4> QED BY <4>1, <4>3, <4>4
      <3> QED BY <3>1, <3>2
    <2> QED BY <1>1, <1>2, <1>8, <1>9, <2>1, <2>2, <2>3, <2>4 DEF AtNumber, Entries
  <1>11. SettlingAt(r, i)'
    <2>1. \A k \in 2 .. Len(next) : next[k].content = "skipped"
      <3> SUFFICES ASSUME NEW k \in 2 .. Len(next) PROVE next[k].content = "skipped"  OBVIOUS
      <3>1. rest = left  BY <1>6a, <1>8a
      <3>2. next[k] = left[k - 1] /\ k - 1 \in 1 .. Len(left)  BY <1>8, <3>1
      <3> QED BY <1>5, <3>2
    <2>2. IF done THEN Len(next) = 1 ELSE i + Len(next) - 1 = Len(turn[r])
      <3>1. done => Len(rest) = 0  BY <1>6a
      <3>2. ~done => Len(rest) = Len(turn[r]) - i  BY <1>5, <1>6a
      <3> QED BY <1>2, <1>8a, <3>1, <3>2
    <2>3. turn' = turn  BY <1>7 DEF transcript
    <2> QED BY <1>9, <1>10, <2>1, <2>2, <2>3 DEF SettlingAt, done
  <1>12. step'[r] = "settling" /\ outcome'[r] = "none" /\ executed' = executed  BY <1>0, <1>7, AfterGo
  <1>13. /\ Calls(r)' = Calls(r) /\ Results(r)' = Results(r) /\ Unanswered(r)' = Unanswered(r) /\ (Spoke(r)' <=> Spoke(r))
         /\ Begun(r)' = Begun(r)
    BY <1>7, <1>12, NothingWritten, BegunStays
  <1>14. UNCHANGED <<known, turn, past, used, steps, persisted, tried>>  BY <1>7 DEF transcript
  <1>15. Open(r)' = Open(r) /\ IdsTo(r, persisted[r])' = IdsTo(r, persisted[r])  BY <1>14 DEF Open, IdsTo
  <1>16. Unanswered(r) \subseteq Open(r)  BY <1>0 DEF RunFits, CallsFit, Sound, Told
  <1>17. persisted[r] = Len(turn[r])  BY <1>0 DEF RunFits, BatchFits
  <1>18. \A e \in Begun(r) : e[2] \in Ids(turn[r]) \ tried[r] => e[2] = id
    BY <1>0, <1>3 DEF RunFits, ResultsFit
  <1>19. Head(todo'[r]).id = id /\ Head(todo'[r]).content # "skipped"  BY <1>8, <1>9 DEF Result
  <1>20. Cardinality(Begun(r)) + Len(turn[r]) - i <= used[r]  BY <1>0, <1>2 DEF RunFits, CountsFit
  <1>21. /\ turn'[r] # <<>> /\ \A k, j \in 1 .. Len(turn'[r]) : turn'[r][k].id = turn'[r][j].id => k = j
         /\ Len(turn'[r]) \in Nat /\ persisted'[r] = Len(turn'[r]) /\ IdsTo(r, persisted[r])' \subseteq known'[r]
         /\ i \in 1 .. Len(turn'[r])
    BY <1>0, <1>1, <1>14, <1>15, <1>17, BatchFacts
  <1>22. /\ Results(r)' \subseteq known'[r] /\ Results(r)' \cap Ids(turn'[r]) \subseteq tried'[r] /\ ~Spoke(r)'
    BY <1>0, <1>13, <1>14, BatchFacts
  <1>23. \A e \in Begun(r)' :
           /\ e[2] \in known'[r]
           /\ e[2] \in Ids(turn'[r]) \ tried'[r] =>
                e[2] = Head(todo'[r]).id /\ (step'[r] = "settling" => Head(todo'[r]).content # "skipped")
    <2>1. \A e \in Begun(r) : e[2] \in known[r]  BY <1>0, BatchFacts
    <2> QED BY <1>13, <1>14, <1>18, <1>19, <2>1
  <1>24. /\ used'[r] <= MaxCalls /\ steps'[r] <= MaxSteps /\ IsFiniteSet(Begun(r)')
         /\ Cardinality(Begun(r)') <= used'[r] /\ Cardinality(Calls(r)') <= used'[r]
         /\ \A a, b \in past'[r] : SameCalls(a, b) => a = b
    BY <1>0, <1>13, <1>14, BatchFacts
  <1>25. Acting(r, i)'
    BY <1>10, <1>11, <1>12, <1>13, <1>14, <1>15, <1>16, <1>20, <1>21, <1>22, <1>23, <1>24 DEF Acting
  <1> QED BY <1>25, ActingLater

\* Between two calls: the next one is started, or skipped with what follows,
\* or the model is asked again.
LEMMA NextCallFits ==
  ASSUME Types, QueuesFit, NEW r \in Runs, RunFits(r), step[r] \in {"executing", "settling"},
         persisted[r] = Len(turn[r]), NEW i \in Nat \ {0}, i <= Len(turn[r]) + 1, AtCall(r, i),
         UNCHANGED <<known, turn, text, past, used, persisted>>, tried'[r] = IdsTo(r, i - 1),
         Calls(r)' = Calls(r), Results(r)' \subseteq known[r], Results(r)' \cap Ids(turn[r]) \subseteq IdsTo(r, i - 1),
         \A e \in Begun(r) : e[2] \notin Ids(turn[r]) \ IdsTo(r, i - 1),
         Unanswered(r)' \subseteq IdsTo(r, Len(turn[r])) \ IdsTo(r, i - 1), ~Spoke(r)',
         Cardinality(Begun(r)) + Len(turn[r]) - (i - 1) <= used[r]
  PROVE  RunFits(r)'
  <1>0. step[r] \in Batching  BY DEF Batching
  <1>1. /\ turn[r] # <<>> /\ \A k, j \in 1 .. Len(turn[r]) : turn[r][k].id = turn[r][j].id => k = j
        /\ Len(turn[r]) \in Nat \ {0} /\ IdsTo(r, persisted[r]) \subseteq known[r]
        /\ \A e \in Begun(r) : e[2] \in known[r]
    BY <1>0, BatchFacts
  <1>2. /\ used[r] <= MaxCalls /\ steps[r] <= MaxSteps
        /\ IsFiniteSet(Begun(r)) /\ Cardinality(Begun(r)) <= used[r] /\ Cardinality(Calls(r)) <= used[r]
        /\ used[r] \in Nat /\ Cardinality(Begun(r)) \in Nat /\ Cardinality(Calls(r)) \in Nat
        /\ \A a, b \in past[r] : SameCalls(a, b) => a = b
    BY <1>0, BatchFacts
  <1>3. /\ Ids(turn[r]) = IdsTo(r, Len(turn[r])) /\ \A k \in 1 .. Len(turn[r]) : turn[r][k].id \in AllIds
    BY <1>0, BatchCalls DEF RunFits
  <1>4. /\ IdsTo(r, persisted[r])' = IdsTo(r, Len(turn[r])) /\ IdsTo(r, i - 1)' = IdsTo(r, i - 1)
        /\ Open(r)' = IdsTo(r, Len(turn[r])) \ IdsTo(r, i - 1)
    BY DEF Open, IdsTo
  <1>5. CASE PastLast(r, i) /\ NextStep(r)
    <2>1. i - 1 = Len(turn[r])  BY <1>1, <1>5 DEF PastLast
    <2>2. Unanswered(r)' = {} /\ Open(r)' = {}  BY <1>4, <2>1
    <2>3. executed' = executed  BY <1>5, NextStepMoves
    <2>4. Begun(r)' = Begun(r)  BY <2>3, BegunStays
    <2>5. CASE step'[r] = "done"
      <3>1. step' = [step EXCEPT ![r] = "asking"] => step'[r] = "asking"  BY DEF Types, Shared
      <3>2. outcome \in [Runs -> Outcomes]  BY DEF Types, Shared
      <3>3. outcome'[r] # "answered" /\ steps' = steps  BY <1>5, <2>5, <3>1, <3>2, NextStepMoves, Interruptions
      <3>4. Cardinality(Calls(r)') <= used[r]  BY <1>2
      <3>5. CountsFit(r)  BY DEF RunFits
      <3> QED BY <2>2, <2>4, <2>5, <3>3, <3>4, <3>5, EndFits
    <2>6. CASE step'[r] # "done"
      <3>1. step' = [step EXCEPT ![r] = "done"] => step'[r] = "done"  BY DEF Types, Shared
      <3>2. step' = [step EXCEPT ![r] = "asking"] /\ UNCHANGED outcome /\ steps' = [steps EXCEPT ![r] = @ + 1]
            /\ steps[r] < MaxSteps
        BY <1>5, <2>6, <3>1, NextStepMoves
      <3>3. step'[r] = "asking" /\ outcome'[r] = "none"
        BY <3>2 DEF Types, Shared, QueuesFit, OutcomeFits
      <3>4. steps'[r] <= MaxSteps
        <4>1. steps'[r] = steps[r] + 1 /\ steps[r] \in Nat  BY <3>2 DEF Types, Local
        <4> QED BY <3>2, <4>1, Limits
      <3>5. tried'[r] = Ids(turn[r]) /\ turn'[r] = turn[r] /\ known'[r] = known[r]  BY <1>3, <2>1
      <3>6. \A e \in Begun(r)' : e[2] \in known'[r] /\ e[2] \notin Ids(turn'[r]) \ tried'[r]
        BY <1>1, <2>4, <3>5
      <3> QED BY <1>2, <2>2, <2>4, <3>3, <3>4, <3>5, <3>6, QuietFits
    <2> QED BY <2>5, <2>6
  <1>6. ASSUME ~PastLast(r, i)
        PROVE  /\ i \in 1 .. Len(turn[r]) /\ i - 1 \in Nat /\ turn[r][i].id \in Ids(turn[r]) /\ turn[r][i].id \in known[r]
               /\ turn[r][i].id \notin IdsTo(r, i - 1)
    <2>1. i \in 1 .. Len(turn[r])  BY <1>1, <1>6 DEF PastLast
    <2>2. turn[r][i].id \in IdsTo(r, Len(turn[r]))  BY <2>1 DEF IdsTo
    <2>3. \A k \in 1 .. i - 1 : k \in 1 .. Len(turn[r]) /\ k # i  BY <1>1, <2>1
    <2>4. turn[r][i].id \notin IdsTo(r, i - 1)  BY <1>1, <2>1, <2>3 DEF IdsTo
    <2> QED BY <1>1, <1>3, <2>1, <2>2, <2>4
  <1>7. ASSUME ~PastLast(r, i), NEW items \in Seq(Entries), todo'[r] = items, Len(items) >= 1,
               i + Len(items) - 1 <= Len(turn[r]), \A k \in 1 .. Len(items) : items[k].id = turn[r][i + k - 1].id
        PROVE  AtNumber(r, i)'
    BY <1>4, <1>6, <1>7 DEF AtNumber, Entries
  <1>8. CASE /\ ~PastLast(r, i)
             /\ step' = [step EXCEPT ![r] = "running"]
             /\ todo' = [todo EXCEPT ![r] = <<Result(turn[r][i].id, "")>>]
             /\ executed' = executed \cup {<<r, turn[r][i].id>>}
             /\ UNCHANGED <<line, outcome, plan, handoff, newest, steps, failure>>
    <2>0. ~PastLast(r, i) /\ executed' = executed \cup {<<r, turn[r][i].id>>} /\ UNCHANGED steps  BY <1>8
    <2> DEFINE id == turn[r][i].id
               items == <<Result(id, "")>>
    <2>1. id \in AllIds /\ id \in Ids(turn[r]) /\ id \in known[r] /\ id \notin IdsTo(r, i - 1)  BY <1>3, <1>6, <1>8
    <2>2. step'[r] = "running" /\ outcome'[r] = "none" /\ todo'[r] = items
      BY <1>8 DEF Types, Shared, Local, QueuesFit, OutcomeFits
    <2>3. /\ items \in Seq(Entries) /\ Len(items) = 1 /\ items[1].id = id /\ Head(items).id = id
          /\ \A k \in 1 .. Len(items) : k = 1
      <3> DEFINE x == Result(id, "")
      <3>1. x \in Entries /\ x.id = id  BY <2>1 DEF Result, Entries
      <3> HIDE DEF x
      <3>2. <<x>> \in Seq(Entries) /\ Len(<<x>>) = 1 /\ <<x>>[1] = x /\ Head(<<x>>) = x  BY <3>1
      <3>3. \A k \in 1 .. 1 : k = 1  OBVIOUS
      <3> QED BY <3>1, <3>2, <3>3 DEF x
    <2> HIDE DEF items
    <2>4. RunningAt(r, i)' /\ AtNumber(r, i)'
      <3>1. i + 1 - 1 = i /\ i <= Len(turn[r]) /\ i \in 1 .. Len(turn[r])  BY <1>1, <1>6, <2>0
      <3>2. Len(items) >= 1 /\ i + Len(items) - 1 <= Len(turn[r])  BY <2>3, <3>1
      <3>3. \A k \in 1 .. Len(items) : items[k].id = turn[r][i + k - 1].id  BY <2>3, <3>1
      <3>4. AtNumber(r, i)'  BY <1>7, <1>8, <2>2, <2>3, <3>2, <3>3
      <3> QED BY <2>2, <2>3, <3>4 DEF RunningAt
    <2>5. Begun(r)' = Begun(r) \cup {<<r, id>>}  BY <2>0 DEF Begun
    <2>6. IsFiniteSet(Begun(r)') /\ Cardinality(Begun(r)') <= Cardinality(Begun(r)) + 1
          /\ Cardinality(Begun(r)') \in Nat
      <3>1. /\ IsFiniteSet(Begun(r) \cup {<<r, id>>})
            /\ \/ Cardinality(Begun(r) \cup {<<r, id>>}) = Cardinality(Begun(r))
               \/ Cardinality(Begun(r) \cup {<<r, id>>}) = Cardinality(Begun(r)) + 1
        BY <1>2, FS_AddElement
      <3> QED BY <1>2, <2>5, <3>1, FS_CardinalityType
    <2>7. Cardinality(Begun(r)') <= used'[r] /\ Cardinality(Begun(r)') + Len(turn'[r]) - i <= used'[r]
      <3> DEFINE c == Cardinality(Begun(r)')
                 b == Cardinality(Begun(r))
                 n == Len(turn[r])
      <3>1. c \in Nat /\ b \in Nat /\ n \in Nat /\ c <= b + 1 /\ b + n - (i - 1) <= used[r] /\ i \in 1 .. n /\ used[r] \in Nat
        BY <1>1, <1>2, <1>6, <2>0, <2>6
      <3> HIDE DEF c, b, n
      <3>2. c <= used[r] /\ c + n - i <= used[r]  BY <3>1
      <3> QED BY <3>2 DEF c, n
    <2>8. \A e \in Begun(r)' :
           /\ e[2] \in known'[r]
           /\ e[2] \in Ids(turn'[r]) \ tried'[r] =>
                e[2] = Head(todo'[r]).id /\ (step'[r] = "settling" => Head(todo'[r]).content # "skipped")
      <3>1. \A e \in Begun(r)' : e \in Begun(r) \/ e[2] = id  BY <2>5
      <3>2. step'[r] # "settling" /\ Head(todo'[r]).id = id  BY <2>2, <2>3
      <3> QED BY <1>1, <2>1, <3>1, <3>2
    <2>9. /\ used'[r] <= MaxCalls /\ steps'[r] <= MaxSteps /\ Cardinality(Calls(r)') <= used'[r]
          /\ \A a, b \in past'[r] : SameCalls(a, b) => a = b
      BY <1>2, <2>0
    <2>10. /\ turn'[r] # <<>> /\ \A k, j \in 1 .. Len(turn'[r]) : turn'[r][k].id = turn'[r][j].id => k = j
           /\ Len(turn'[r]) \in Nat /\ persisted'[r] = Len(turn'[r]) /\ IdsTo(r, persisted[r])' \subseteq known'[r]
           /\ i \in 1 .. Len(turn'[r])
      BY <1>1, <1>4, <1>6, <2>0
    <2>11. Results(r)' \subseteq known'[r] /\ Results(r)' \cap Ids(turn'[r]) \subseteq tried'[r] /\ Unanswered(r)' \subseteq Open(r)'
      BY <1>4
    <2>12. step'[r] = "running" /\ step'[r] # "settling" /\ step'[r] \in {"running", "settling"} /\ outcome'[r] = "none"
      BY <2>2
    <2>13. Acting(r, i)'  BY <2>4, <2>6, <2>7, <2>8, <2>9, <2>10, <2>11, <2>12 DEF Acting
    <2> QED BY <2>13, ActingLater
  <1>9. CASE /\ ~PastLast(r, i) /\ Interruption(r) # ""
             /\ Go(r, "settling")
             /\ todo' = [todo EXCEPT ![r] = Skips(SubSeq(turn[r], i, Len(turn[r])))]
             /\ failure' = [failure EXCEPT ![r] = Interruption(r)]
             /\ UNCHANGED steps
    <2> DEFINE items == Skips(SubSeq(turn[r], i, Len(turn[r])))
    <2>0. ~PastLast(r, i) /\ UNCHANGED steps  BY <1>9
    <2>1. i \in 1 .. Len(turn[r]) /\ i \in 1 .. Len(turn[r]) + 1
      <3>1. i \in 1 .. Len(turn[r])  BY <1>6, <2>0
      <3> QED BY <1>1, <3>1
    <2>2. /\ items \in Seq(Entries) /\ Len(items) = Len(turn[r]) - i + 1
          /\ \A k \in 1 .. Len(items) : items[k].id = turn[r][i + k - 1].id /\ items[k].content = "skipped"
      BY <1>0, <2>1, SkipsFacts DEF RunFits
    <2>3. todo'[r] = items /\ failure'[r] # ""  BY <1>9 DEF Types, Local
    <2>4. step'[r] = "settling" /\ outcome'[r] = "none" /\ executed' = executed  BY <1>0, <1>9, AfterGo
    <2> HIDE DEF items
    <2>5. Len(items) >= 1 /\ i + Len(items) - 1 = Len(turn[r]) /\ i + Len(items) - 1 <= Len(turn[r]) /\ Len(items) \in Nat
      <3> DEFINE n == Len(turn[r])
                 m == Len(items)
      <3>1. n \in Nat /\ i \in 1 .. n /\ m = n - i + 1  BY <1>1, <2>1, <2>2
      <3> HIDE DEF n, m
      <3>2. m >= 1 /\ i + m - 1 = n /\ i + m - 1 <= n /\ m \in Nat  BY <3>1
      <3> QED BY <3>2 DEF n, m
    <2>6. AtNumber(r, i)'  BY <1>7, <1>9, <2>2, <2>3, <2>5
    <2>7. \A k \in 2 .. Len(items) : items[k].content = "skipped"
      <3>1. \A k \in 2 .. Len(items) : k \in 1 .. Len(items)  BY <2>5
      <3> QED BY <2>2, <3>1
    <2>8. SettlingAt(r, i)'  BY <2>3, <2>5, <2>6, <2>7 DEF SettlingAt
    <2>9. Begun(r)' = Begun(r)  BY <2>4, BegunStays
    <2>10. \A e \in Begun(r)' : e[2] \in known'[r] /\ e[2] \notin Ids(turn'[r]) \ tried'[r]
      BY <1>1, <2>9
    <2>11. /\ used'[r] <= MaxCalls /\ steps'[r] <= MaxSteps /\ Cardinality(Calls(r)') <= used'[r]
           /\ IsFiniteSet(Begun(r)') /\ Cardinality(Begun(r)') <= used'[r]
           /\ \A a, b \in past'[r] : SameCalls(a, b) => a = b
      BY <1>2, <2>0, <2>9
    <2>12. Cardinality(Begun(r)') + Len(turn'[r]) - i <= used'[r]
      <3> DEFINE b == Cardinality(Begun(r))
                 n == Len(turn[r])
      <3>1. b \in Nat /\ n \in Nat /\ b + n - (i - 1) <= used[r] /\ used[r] \in Nat  BY <1>1, <1>2
      <3> HIDE DEF b, n
      <3>2. b + n - i <= used[r]  BY <3>1
      <3> QED BY <2>9, <3>2 DEF b, n
    <2>13. /\ turn'[r] # <<>> /\ \A k, j \in 1 .. Len(turn'[r]) : turn'[r][k].id = turn'[r][j].id => k = j
           /\ Len(turn'[r]) \in Nat /\ persisted'[r] = Len(turn'[r]) /\ IdsTo(r, persisted[r])' \subseteq known'[r]
           /\ i \in 1 .. Len(turn'[r])
      BY <1>1, <1>4, <2>1
    <2>14. Results(r)' \subseteq known'[r] /\ Results(r)' \cap Ids(turn'[r]) \subseteq tried'[r] /\ Unanswered(r)' \subseteq Open(r)'
      BY <1>4
    <2>15. Acting(r, i)'  BY <2>4, <2>6, <2>8, <2>10, <2>11, <2>12, <2>13, <2>14 DEF Acting
    <2> QED BY <2>15, ActingLater
  <1> QED BY <1>5, <1>8, <1>9 DEF AtCall

LEMMA ExecuteFits ==
  ASSUME Types, QueuesFit, NEW r \in Runs, RunFits(r), Execute(r)
  PROVE  RunFits(r)'
  <1>1. /\ step[r] = "executing" /\ step[r] \in Batching /\ step[r] \in Working /\ step[r] \in {"executing", "settling"}
        /\ AtCall(r, 1) /\ UNCHANGED <<hist, known, turn, text, past, used, persisted, tried>>
    BY DEF Execute, Stands, Batching, Working
  <1>2. persisted[r] = Len(turn[r]) /\ tried[r] = {}  BY <1>1 DEF RunFits, BatchFits
  <1>3. Len(turn[r]) \in Nat \ {0} /\ Results(r) \subseteq known[r] /\ Results(r) \cap Ids(turn[r]) \subseteq tried[r] /\ ~Spoke(r)
    BY <1>1, BatchFacts
  <1>4. 1 \in Nat \ {0} /\ 1 <= Len(turn[r]) + 1 /\ IdsTo(r, 1 - 1) = {}  BY <1>3 DEF IdsTo
  <1>5. Calls(r)' = Calls(r) /\ Results(r)' = Results(r) /\ Unanswered(r)' = Unanswered(r) /\ (Spoke(r)' <=> Spoke(r))
    BY <1>1, NothingWritten
  <1>6. Unanswered(r)' \subseteq IdsTo(r, Len(turn[r])) \ IdsTo(r, 1 - 1)
    BY <1>1, <1>2, <1>4, <1>5 DEF RunFits, CallsFit, Sound, Open
  <1>7. \A e \in Begun(r) : e[2] \notin Ids(turn[r]) \ IdsTo(r, 1 - 1)
    BY <1>1, <1>2, <1>4 DEF RunFits, ResultsFit
  <1>8. Cardinality(Begun(r)) + Len(turn[r]) - (1 - 1) <= used[r]
    <2>1. Cardinality(Begun(r)) + Len(turn[r]) <= used[r]  BY <1>1 DEF RunFits, CountsFit
    <2>2. Cardinality(Begun(r)) \in Nat /\ used[r] \in Nat  BY <1>1, BatchFacts
    <2> QED BY <1>3, <2>1, <2>2
  <1>9. /\ tried'[r] = IdsTo(r, 1 - 1) /\ Results(r)' \subseteq known[r]
        /\ Results(r)' \cap Ids(turn[r]) \subseteq IdsTo(r, 1 - 1) /\ ~Spoke(r)'
    BY <1>1, <1>2, <1>3, <1>4, <1>5
  <1> QED BY <1>1, <1>2, <1>4, <1>5, <1>6, <1>7, <1>8, <1>9, NextCallFits

\* What is next to append, after a step that changed no call.
LEMMA NumberAfter ==
  ASSUME NEW r \in Runs, NEW m, NEW items \in Seq(Entries), todo'[r] = items, turn'[r] = turn[r],
         tried'[r] = IdsTo(r, m - 1)', m \in 1 .. Len(turn[r]), Len(items) >= 1,
         m + Len(items) - 1 <= Len(turn[r]), \A k \in 1 .. Len(items) : items[k].id = turn[r][m + k - 1].id
  PROVE  AtNumber(r, m)'
  BY DEF AtNumber, Entries

LEMMA SettleFits ==
  ASSUME Types, QueuesFit, NEW r \in Runs, RunFits(r), Settle(r)
  PROVE  RunFits(r)'
  <1>0. step[r] = "settling" /\ step[r] \in Batching /\ step[r] \in Working /\ step[r] \in {"executing", "settling"}
        /\ step[r] \in {"persisting", "settling"} /\ step[r] # "running"
    BY DEF Settle, Stands, Batching, Working
  <1>1. PICK i \in 1 .. Len(turn[r]) : SettlingAt(r, i)  BY <1>0 DEF RunFits, BatchFits
  <1>2. AtNumber(r, i) /\ i \in Nat /\ Len(turn[r]) \in Nat /\ i <= Len(turn[r]) /\ i + 1 - 1 = i
    <2>1. Len(turn[r]) \in Nat  BY <1>0, BatchFacts
    <2>2. AtNumber(r, i)  BY <1>1 DEF SettlingAt
    <2>3. i \in 1 .. Len(turn[r])  BY <1>1
    <2>4. i \in Nat /\ i <= Len(turn[r]) /\ i + 1 - 1 = i  BY <2>1, <2>3
    <2> QED BY <2>1, <2>2, <2>4
  <1>3. PICK id : id = Head(todo[r]).id  OBVIOUS
  <1>4. /\ id = turn[r][i].id /\ id \in AllIds /\ IndexOf(r, id) = i /\ id \notin tried[r] /\ tried[r] \cup {id} = IdsTo(r, i)
        /\ Head(todo[r]).content \in Contents \ {"user", "reply", "answer"}
    BY <1>0, <1>2, <1>3, AtNumberFacts DEF RunFits
  <1>5. tried[r] = IdsTo(r, i - 1)  BY <1>2 DEF AtNumber
  <1>6. persisted[r] = Len(turn[r]) /\ Ids(turn[r]) = IdsTo(r, Len(turn[r])) /\ IdsTo(r, persisted[r]) \subseteq known[r]
        /\ id \in Ids(turn[r]) /\ id \in known[r]
    <2>1. persisted[r] = Len(turn[r]) /\ IdsTo(r, persisted[r]) \subseteq known[r]
      BY <1>0 DEF RunFits, BatchFits
    <2>2. Ids(turn[r]) = IdsTo(r, Len(turn[r]))  BY <1>0, BatchCalls DEF RunFits
    <2>3. id \in IdsTo(r, Len(turn[r]))  BY <1>1, <1>4 DEF IdsTo
    <2> QED BY <2>1, <2>2, <2>3
  <1> DEFINE item == Appending(r)
  <1>7. item \in ItemType /\ item.run = r /\ item.kind = "result" /\ item.id = id /\ item.content # "answer"
    <2>1. item = Item("result", id, r, Head(todo[r]).content)  BY <1>3 DEF Appending
    <2>2. item \in ItemType  BY <1>4, <2>1, ItemTypes
    <2> QED BY <1>4, <2>1, <2>2 DEF Item
  <1> HIDE DEF item
  <1>8. UNCHANGED <<known, turn, text, past, used, persisted>> /\ tried'[r] = IdsTo(r, i)
    <2>1. tried'[r] = tried[r] \cup {id}  BY <1>3 DEF Settle, Touched, Types, Local
    <2> QED BY <1>4, <2>1 DEF Settle
  <1>9. Written(SessionOf[r], item) =>
          /\ Calls(r)' = Calls(r) /\ Results(r)' = Results(r) \cup {id} /\ Unanswered(r)' \subseteq Unanswered(r) \ {id}
          /\ (Spoke(r)' <=> Spoke(r))
    <2>1. Written(SessionOf[r], item) =>
            /\ \E n \in Nat : Calls(r)' = Calls(r) \cup {}
            /\ Results(r)' = Results(r) \cup {id} /\ Unanswered(r)' \subseteq Unanswered(r) \ {id}
            /\ (Spoke(r)' <=> Spoke(r))
      BY <1>7, ItemWritten
    <2> QED BY <2>1
  <1>10. UNCHANGED hist => Calls(r)' = Calls(r) /\ Results(r)' = Results(r) /\ (Spoke(r)' <=> Spoke(r))
    BY NothingWritten
  <1>11. Results(r) \subseteq known[r] /\ Results(r) \cap Ids(turn[r]) \subseteq tried[r] /\ ~Spoke(r)
         /\ Cardinality(Calls(r)) <= used[r] /\ Cardinality(Begun(r)) \in Nat /\ used[r] \in Nat
    BY <1>0, BatchFacts
  <1>12. \A e \in Begun(r) : e[2] \notin Ids(turn[r]) \ IdsTo(r, i)
    <2>1. \A e \in Begun(r) : e[2] \in Ids(turn[r]) \ tried[r] => e[2] = id  BY <1>0, <1>3 DEF RunFits, ResultsFit
    <2> QED BY <1>4, <2>1
  <1>13. Written(SessionOf[r], item) \/ UNCHANGED hist =>
           /\ Calls(r)' = Calls(r) /\ Results(r)' \subseteq known[r] /\ Results(r)' \cap Ids(turn[r]) \subseteq IdsTo(r, i)
           /\ ~Spoke(r)' /\ Cardinality(Calls(r)') <= used[r]
    BY <1>4, <1>6, <1>9, <1>10, <1>11
  <1>14. Written(SessionOf[r], item) => Unanswered(r)' \subseteq IdsTo(r, Len(turn[r])) \ IdsTo(r, i)
    <2>1. Unanswered(r) \subseteq IdsTo(r, Len(turn[r])) \ tried[r]
      BY <1>0, <1>6 DEF RunFits, CallsFit, Sound, Open
    <2> QED BY <1>4, <1>9, <2>1
  <1>15. Cardinality(Begun(r)) + Len(turn[r]) - i <= used[r]  BY <1>0, <1>1, <1>2 DEF RunFits, CountsFit
  <1>16. CASE Refused(SessionOf[r], item) /\ SettleLeft(r, Touched(r), "storage") /\ UNCHANGED <<todo, steps>>
    <2>1. Touched(r) = IdsTo(r, i)  BY <1>3, <1>4 DEF Touched
    <2>2. Written(SessionOf[r], item) \/ UNCHANGED hist  BY <1>16 DEF Refused
    <2>3. SettleLeft(r, IdsTo(r, i), "storage") /\ steps' = steps  BY <1>16, <2>1
    <2> QED BY <1>0, <1>8, <1>12, <1>13, <2>2, <2>3, StorageFails, LeftFits
  <1>17. CASE /\ Acknowledged(SessionOf[r], item) /\ Len(todo[r]) > 1 /\ Go(r, "settling")
              /\ todo' = [todo EXCEPT ![r] = Tail(@)] /\ UNCHANGED <<failure, steps>>
    <2> DEFINE l == todo[r]
    <2>0. Acknowledged(SessionOf[r], item) /\ Len(l) > 1 /\ Go(r, "settling")
          /\ todo' = [todo EXCEPT ![r] = Tail(@)] /\ UNCHANGED <<failure, steps>>
      BY <1>17
    <2>1. l \in Seq(Entries) /\ Len(l) >= 1 /\ i + Len(l) - 1 <= Len(turn[r]) /\ \A k \in 1 .. Len(l) : l[k].id = turn[r][i + k - 1].id
      BY <1>2 DEF AtNumber, Entries
    <2>2. \A k \in 2 .. Len(l) : l[k].content = "skipped"  BY <1>1 DEF SettlingAt
    <2>3. failure[r] # "" /\ i + Len(l) - 1 = Len(turn[r])
      <3>1. failure[r] = "" => Len(l) = 1  BY <1>1 DEF SettlingAt
      <3>2. Len(l) # 1  BY <2>0, <2>1
      <3>3. failure[r] # ""  BY <3>1, <3>2
      <3>4. i + Len(l) - 1 = Len(turn[r])  BY <1>1, <3>3 DEF SettlingAt
      <3> QED BY <3>3, <3>4
    <2>4. todo'[r] = Tail(l) /\ step'[r] = "settling" /\ outcome'[r] = "none" /\ executed' = executed
      BY <1>0, <2>0, AfterGo DEF Types, Local
    <2> HIDE DEF l
    <2>5. i + Len(l) - 1 = Len(turn[r])  BY <2>3
    <2>6. /\ Tail(l) \in Seq(Entries) /\ Len(Tail(l)) = Len(l) - 1 /\ Len(l) \in Nat
          /\ \A k \in 1 .. Len(Tail(l)) : Tail(l)[k] = l[k + 1] /\ k + 1 \in 1 .. Len(l) /\ k + 1 \in 2 .. Len(l)
      BY <2>0, <2>1
    <2>7. AtNumber(r, i + 1)'
      <3>1. IdsTo(r, i + 1 - 1)' = IdsTo(r, i)  BY <1>2, <1>8 DEF IdsTo
      <3>2. i + 1 \in 1 .. Len(turn[r]) /\ Len(Tail(l)) >= 1 /\ i + 1 + Len(Tail(l)) - 1 <= Len(turn[r])
        BY <1>2, <2>0, <2>5, <2>6
      <3>3. \A k \in 1 .. Len(Tail(l)) : i + (k + 1) - 1 = i + 1 + k - 1
        BY <1>2, <2>6
      <3>4. \A k \in 1 .. Len(Tail(l)) : Tail(l)[k].id = turn[r][i + 1 + k - 1].id
        BY <2>1, <2>6, <3>3
      <3>5. todo'[r] = Tail(l) /\ turn' = turn /\ tried'[r] = IdsTo(r, i + 1 - 1)'  BY <1>8, <2>4, <3>1
      <3>6. Tail(l) \in Seq(Entries)  BY <2>6
      <3>7. PICK m, rest : m = i + 1 /\ rest = Tail(l)  OBVIOUS
      <3>8. /\ rest \in Seq(Entries) /\ todo'[r] = rest /\ turn'[r] = turn[r] /\ tried'[r] = IdsTo(r, m - 1)'
            /\ m \in 1 .. Len(turn[r]) /\ Len(rest) >= 1 /\ m + Len(rest) - 1 <= Len(turn[r])
            /\ \A k \in 1 .. Len(rest) : rest[k].id = turn[r][m + k - 1].id
        BY <3>2, <3>4, <3>5, <3>6, <3>7
      <3>9. AtNumber(r, m)'  BY <3>8, NumberAfter
      <3> QED BY <3>7, <3>9
    <2>8. SettlingAt(r, i + 1)'
      <3>1. \A k \in 2 .. Len(Tail(l)) : Tail(l)[k].content = "skipped"
        <4>1. \A k \in 2 .. Len(Tail(l)) : k \in 1 .. Len(Tail(l))  BY <2>6
        <4> QED BY <2>2, <2>6, <4>1
      <3>2. i + 1 + Len(Tail(l)) - 1 = Len(turn[r])  BY <1>2, <2>5, <2>6
      <3>3. failure'[r] # "" /\ turn' = turn  BY <1>8, <2>0, <2>3
      <3> QED BY <2>4, <2>7, <3>1, <3>2, <3>3 DEF SettlingAt
    <2>9. Begun(r)' = Begun(r) /\ Written(SessionOf[r], item)  BY <2>0, <2>4, BegunStays DEF Acknowledged
    <2>10. Open(r)' = IdsTo(r, Len(turn[r])) \ IdsTo(r, i) /\ IdsTo(r, persisted[r])' = IdsTo(r, persisted[r])
      BY <1>6, <1>8 DEF Open, IdsTo
    <2>11. /\ turn'[r] # <<>> /\ \A k, j \in 1 .. Len(turn'[r]) : turn'[r][k].id = turn'[r][j].id => k = j
           /\ Len(turn'[r]) \in Nat /\ persisted'[r] = Len(turn'[r]) /\ IdsTo(r, persisted[r])' \subseteq known'[r]
      BY <1>0, <1>6, <1>8, <2>10, BatchFacts
    <2>12. i + 1 \in 1 .. Len(turn'[r])
      <3>1. i + 1 \in 1 .. Len(turn[r])  BY <1>2, <2>0, <2>5, <2>6
      <3> QED BY <1>8, <3>1
    <2>13. \A e \in Begun(r)' : e[2] \in known'[r] /\ e[2] \notin Ids(turn'[r]) \ tried'[r]
      <3>1. \A e \in Begun(r) : e[2] \in known[r]  BY <1>0, BatchFacts
      <3> QED BY <1>8, <1>12, <2>9, <3>1
    <2>14. Cardinality(Begun(r)') + Len(turn'[r]) - (i + 1) <= used'[r]
      <3> DEFINE b == Cardinality(Begun(r))
                 n == Len(turn[r])
      <3>1. b \in Nat /\ n \in Nat /\ b + n - i <= used[r] /\ used[r] \in Nat  BY <1>2, <1>11, <1>15
      <3> HIDE DEF b, n
      <3>2. b + n - (i + 1) <= used[r]  BY <1>2, <3>1
      <3> QED BY <1>8, <2>9, <3>2 DEF b, n
    <2>15. /\ used'[r] <= MaxCalls /\ steps'[r] <= MaxSteps /\ IsFiniteSet(Begun(r)')
           /\ Cardinality(Begun(r)') <= used'[r] /\ Cardinality(Calls(r)') <= used'[r]
           /\ \A a, b \in past'[r] : SameCalls(a, b) => a = b
      <3>1. /\ used[r] <= MaxCalls /\ steps[r] <= MaxSteps /\ IsFiniteSet(Begun(r)) /\ Cardinality(Begun(r)) <= used[r]
            /\ \A a, b \in past[r] : SameCalls(a, b) => a = b
        BY <1>0, BatchFacts
      <3>2. steps' = steps  BY <2>0
      <3> QED BY <1>8, <1>13, <2>9, <3>1, <3>2
    <2>16. Results(r)' \subseteq known'[r] /\ Results(r)' \cap Ids(turn'[r]) \subseteq tried'[r] /\ ~Spoke(r)'
           /\ Unanswered(r)' \subseteq Open(r)'
      BY <1>8, <1>13, <1>14, <2>9, <2>10
    <2>17. Acting(r, i + 1)'  BY <2>4, <2>7, <2>8, <2>11, <2>12, <2>13, <2>14, <2>15, <2>16 DEF Acting
    <2> QED BY <2>17, ActingLater
  <1>18. CASE /\ Acknowledged(SessionOf[r], item) /\ Len(todo[r]) = 1 /\ failure[r] # ""
              /\ End(r, failure[r]) /\ UNCHANGED <<todo, failure, steps>>
    <2>0. Written(SessionOf[r], item) /\ Len(todo[r]) = 1 /\ End(r, failure[r]) /\ UNCHANGED steps
      BY <1>18 DEF Acknowledged
    <2>1. i = Len(turn[r])
      <3>1. i + Len(todo[r]) - 1 = Len(turn[r])  BY <1>1, <1>18 DEF SettlingAt
      <3> QED BY <1>2, <2>0, <3>1
    <2>2. step'[r] = "done" /\ outcome'[r] = failure[r] /\ executed' = executed  BY <2>0, AfterEnd
    <2>3. outcome'[r] # "answered"
      <3>1. failure[r] \in Failures  BY PlaceTypes
      <3> QED BY <2>2, <3>1 DEF Failures
    <2>4. Unanswered(r)' = {} /\ Open(r)' = {}
      <3>1. Open(r)' = IdsTo(r, Len(turn[r])) \ IdsTo(r, i)  BY <1>6, <1>8 DEF Open, IdsTo
      <3> QED BY <1>14, <2>0, <2>1, <3>1
    <2>5. Begun(r)' = Begun(r) /\ CountsFit(r)  BY <2>2, BegunStays DEF RunFits
    <2> QED BY <1>8, <1>13, <2>0, <2>2, <2>3, <2>4, <2>5, EndFits
  <1>19. CASE Acknowledged(SessionOf[r], item) /\ AtCall(r, i + 1)
    <2>1. Written(SessionOf[r], item) /\ AtCall(r, i + 1)  BY <1>19 DEF Acknowledged
    <2>2. i + 1 \in Nat \ {0} /\ i + 1 <= Len(turn[r]) + 1  BY <1>2
    <2>3. Cardinality(Begun(r)) + Len(turn[r]) - (i + 1 - 1) <= used[r]  BY <1>2, <1>15
    <2>4. /\ tried'[r] = IdsTo(r, i + 1 - 1) /\ Results(r)' \cap Ids(turn[r]) \subseteq IdsTo(r, i + 1 - 1)
          /\ \A e \in Begun(r) : e[2] \notin Ids(turn[r]) \ IdsTo(r, i + 1 - 1)
          /\ Unanswered(r)' \subseteq IdsTo(r, Len(turn[r])) \ IdsTo(r, i + 1 - 1)
      BY <1>2, <1>8, <1>12, <1>13, <1>14, <2>1
    <2>5. Calls(r)' = Calls(r) /\ Results(r)' \subseteq known[r] /\ ~Spoke(r)'  BY <1>13, <2>1
    <2> QED BY <1>0, <1>6, <1>8, <2>1, <2>2, <2>3, <2>4, <2>5, NextCallFits
  <1> QED BY <1>3, <1>4, <1>16, <1>17, <1>18, <1>19 DEF Settle, item

LEMMA ClearFits ==
  ASSUME Types, QueuesFit, NEW r \in Runs, RunFits(r), Clear(r)
  PROVE  RunFits(r)'
  <1>0. step[r] = "clearing" /\ step[r] \in Working /\ step[r] \in Batching
    BY DEF Clear, Stands, Working, Batching
  <1>1. PICK i \in Untouched(r, tried[r]) :
          LET item == Item("result", turn[r][i].id, r, "skipped")
          IN /\ tried' = [tried EXCEPT ![r] = @ \cup {turn[r][i].id}]
             /\ \/ Refused(SessionOf[r], item) /\ End(r, "storage")
                \/ /\ Acknowledged(SessionOf[r], item)
                   /\ IF Untouched(r, tried'[r]) = {} THEN End(r, failure[r]) ELSE Go(r, "clearing")
             /\ UNCHANGED <<transcript, persisted, todo, failure, signals>>
    BY DEF Clear
  <1>2. PICK id, item : id = turn[r][i].id /\ item = Item("result", id, r, "skipped")  OBVIOUS
  <1>3. i \in 1 .. Len(turn[r]) /\ id \in AllIds /\ id \in Ids(turn[r]) /\ id \in known[r] /\ id \in IdsTo(r, persisted[r])
    <2>1. i \in 1 .. persisted[r]  BY DEF Untouched
    <2>2. persisted[r] \in 0 .. Len(turn[r]) /\ Len(turn[r]) \in Nat  BY <1>0, BatchCalls DEF RunFits
    <2>3. i \in 1 .. Len(turn[r])  BY <2>1, <2>2, InPrefix
    <2>4. id \in AllIds /\ id \in Ids(turn[r])  BY <1>0, <1>2, <2>3, BatchCalls DEF RunFits
    <2>5. id \in IdsTo(r, persisted[r])  BY <1>2, <2>1 DEF IdsTo
    <2> QED BY <1>0, <2>3, <2>4, <2>5, BatchFacts
  <1>4. item \in ItemType /\ item.run = r /\ item.kind = "result" /\ item.id = id /\ item.content = "skipped"
    BY <1>2, <1>3, ItemTypes, Spoken DEF Item
  <1>5. /\ tried'[r] = tried[r] \cup {id} /\ UNCHANGED <<known, turn, text, past, used, steps, persisted, failure>>
        /\ \/ Refused(SessionOf[r], item) /\ End(r, "storage")
           \/ /\ Acknowledged(SessionOf[r], item)
              /\ Untouched(r, tried'[r]) = {} /\ End(r, failure[r])
           \/ Acknowledged(SessionOf[r], item) /\ Untouched(r, tried'[r]) # {} /\ Go(r, "clearing")
    <2>1. tried' = [tried EXCEPT ![r] = @ \cup {id}] /\ UNCHANGED <<transcript, persisted, failure>>  BY <1>1, <1>2
    <2>2. tried'[r] = tried[r] \cup {id}  BY <2>1 DEF Types, Local
    <2> QED BY <1>1, <1>2, <2>1, <2>2 DEF transcript
  <1>6. Written(SessionOf[r], item) =>
          /\ \E n \in Nat : Calls(r)' = Calls(r) \cup {}
          /\ Results(r)' = Results(r) \cup {id} /\ Unanswered(r)' \subseteq Unanswered(r) \ {id}
          /\ (Spoke(r)' <=> Spoke(r))
    BY <1>4, ItemWritten
  <1>7. Open(r)' = Open(r) \ {id} /\ IdsTo(r, persisted[r])' = IdsTo(r, persisted[r])
    BY <1>5 DEF Open, IdsTo
  <1>8. Untouched(r, tried'[r]) = {} => Open(r)' = {}
    <2>1. Untouched(r, tried'[r]) = {} => IdsTo(r, persisted[r]) \ tried'[r] = {}  BY DEF Untouched, IdsTo
    <2> QED BY <1>5, <1>7, <2>1 DEF Open
  <1>9. failure[r] # "storage" => Unanswered(r) \subseteq Open(r)  BY <1>0 DEF RunFits, CallsFit, Sound, Told
  <1>10. failure[r] # "" /\ failure[r] \in Failures  BY <1>0, PlaceTypes DEF RunFits, BatchFits
  <1>11. \A e \in Begun(r) : e[2] \in known[r] /\ e[2] \notin Ids(turn[r]) \ tried[r]
    BY <1>0 DEF RunFits, ResultsFit
  <1>12. CASE Refused(SessionOf[r], item) /\ End(r, "storage")
    <2>1. Calls(r)' = Calls(r)  BY <1>6, <1>12, NothingWritten DEF Refused
    <2> QED BY <1>5, <1>12, <2>1, AfterEnd, FailedEnds
  <1>13. CASE Acknowledged(SessionOf[r], item) /\ Untouched(r, tried'[r]) = {} /\ End(r, failure[r])
    <2>1. step'[r] = "done" /\ outcome'[r] = failure[r] /\ executed' = executed  BY <1>13, AfterEnd
    <2>2. outcome'[r] # "answered"  BY <1>10, <2>1 DEF Failures
    <2>3. Calls(r)' = Calls(r) /\ Unanswered(r)' \subseteq Unanswered(r) \ {id} /\ (Spoke(r)' <=> Spoke(r))
      BY <1>6, <1>13 DEF Acknowledged
    <2>4. outcome'[r] \in Told => Unanswered(r)' = {} /\ Open(r)' = {}
      <3>1. failure[r] \in Told => failure[r] # "storage"  BY DEF Told
      <3> QED BY <1>7, <1>8, <1>9, <1>13, <2>1, <2>3, <3>1
    <2>5. CountsFit(r) /\ ~Spoke(r)' /\ Cardinality(Calls(r)') <= used[r]  BY <1>0, <2>3, BatchFacts DEF RunFits
    <2> QED BY <1>5, <2>1, <2>2, <2>4, <2>5, BegunStays, EndFits
  <1>14. CASE Acknowledged(SessionOf[r], item) /\ Untouched(r, tried'[r]) # {} /\ Go(r, "clearing")
    <2>1. step'[r] = "clearing" /\ outcome'[r] = "none" /\ executed' = executed  BY <1>0, <1>14, AfterGo
    <2>2. Calls(r)' = Calls(r) /\ Results(r)' = Results(r) \cup {id} /\ Unanswered(r)' \subseteq Unanswered(r) \ {id}
          /\ (Spoke(r)' <=> Spoke(r)) /\ Begun(r)' = Begun(r)
      BY <1>6, <1>14, <2>1, BegunStays DEF Acknowledged
    <2>3. failure'[r] # ""  BY <1>5, <1>10
    <2>4. BatchFits(r)'
      <3>1. /\ turn'[r] # <<>> /\ \A k, j \in 1 .. Len(turn'[r]) : turn'[r][k].id = turn'[r][j].id => k = j
            /\ persisted'[r] <= Len(turn'[r]) /\ IdsTo(r, persisted[r])' \subseteq known'[r]
        BY <1>0, <1>5, <1>7, BatchFacts
      <3> QED BY <2>1, <2>3, <3>1 DEF BatchFits, Batching
    <2>5. ResultsFit(r)'
      <3>1. Results(r)' \subseteq known'[r] /\ Results(r)' \cap Ids(turn'[r]) \subseteq tried'[r]
        BY <1>0, <1>3, <1>5, <2>2, BatchFacts
      <3>2. \A e \in Begun(r)' : e[2] \in known'[r] /\ e[2] \notin Ids(turn'[r]) \ tried'[r]
        BY <1>5, <1>11, <2>2
      <3> QED BY <3>1, <3>2 DEF ResultsFit, Ids
    <2>6. CallsFit(r)'
      <3>1. Sound(r)' => failure[r] # "storage"  BY <1>5, <2>1 DEF Sound, Told
      <3>2. Sound(r)' => Unanswered(r)' \subseteq Open(r)'  BY <1>7, <1>9, <2>2, <3>1
      <3> QED BY <2>1, <3>2 DEF CallsFit, Told
    <2>7. AnswerFits(r)'
      <3>1. ~Spoke(r)'  BY <1>0, <2>2, BatchFacts
      <3> QED BY <2>1, <3>1 DEF AnswerFits
    <2>8. CountsFit(r)'
      <3>1. /\ used'[r] <= MaxCalls /\ steps'[r] <= MaxSteps /\ Cardinality(Calls(r)') <= used'[r]
            /\ IsFiniteSet(Begun(r)') /\ Cardinality(Begun(r)') <= used'[r]
            /\ \A a, b \in past'[r] : SameCalls(a, b) => a = b
        BY <1>0, <1>5, <2>2, BatchFacts
      <3> QED BY <2>1, <3>1 DEF CountsFit
    <2> QED BY <2>4, <2>5, <2>6, <2>7, <2>8 DEF RunFits
  <1> QED BY <1>5, <1>12, <1>13, <1>14

\* Every step of a run keeps what is said of it.
LEMMA WorkFits ==
  ASSUME Types, QueuesFit, NEW r \in Runs, RunFits(r), Work(r)
  PROVE  RunFits(r)'
  BY StartFits, ReadFits, GreetFits, ProviderFailsFits, AnswerFitsRun, CommitFits, ConfirmFits, RecordFits, SpeakFits,
     PersistFits, ExecuteFits, ToolReturnsFits, SettleFits, ClearFits, SummariseFits DEF Work

-----------------------------------------------------------------------------
(* What is recorded as skipped was not started *)

\* A step that writes a skipped result, or starts a tool, does so of a call
\* that is neither started nor answered.
Marks(r) ==
  /\ \/ UNCHANGED hist
     \/ \E item \in ItemType :
          /\ item.run = r /\ Written(SessionOf[r], item)
          /\ item.content = "skipped" => item.kind = "result" /\ <<r, item.id>> \notin executed'
  /\ \A id : <<r, id>> \in executed' \ executed => id \notin Results(r)

LEMMA MarksKeepSkips ==
  ASSUME Types, ItemsFit, SkipsAreResults, SkipsAreHonest, NEW r \in Runs, Frame(r), Marks(r)
  PROVE  SkipsAreResults' /\ SkipsAreHonest'
  <1>1. \A x : x \in executed' \ executed => x[1] = r /\ \A id : x = <<r, id>> => id \notin Results(r)
    BY DEF Frame, Marks
  <1>2. ASSUME NEW s \in Sessions, NEW i \in DOMAIN hist[s], hist[s][i].content = "skipped"
        PROVE  hist[s][i].kind = "result" /\ <<hist[s][i].run, hist[s][i].id>> \notin executed'
    <2> DEFINE o == hist[s][i].run
               id == hist[s][i].id
    <2>1. hist[s][i].kind = "result" /\ <<o, id>> \notin executed  BY <1>2 DEF SkipsAreResults, SkipsAreHonest
    <2>2. ASSUME o = r PROVE id \in Results(r)
      <3>1. SessionOf[r] = s  BY <2>2 DEF ItemsFit, ItemFits
      <3>2. i \in Mine(r) /\ Entry(r, i) = hist[s][i]  BY <2>2, <3>1 DEF Mine, Entry
      <3> QED BY <2>1, <3>2 DEF Results
    <2>3. <<o, id>> \in executed' => o = r /\ id \notin Results(r)
      <3>1. <<o, id>>[1] = o  OBVIOUS
      <3> QED BY <1>1, <2>1, <3>1
    <2> QED BY <2>1, <2>2, <2>3
  <1>3. CASE UNCHANGED hist  BY <1>2, <1>3 DEF SkipsAreResults, SkipsAreHonest
  <1>4. CASE ~UNCHANGED hist
    <2>1. PICK item \in ItemType :
            /\ item.run = r /\ Written(SessionOf[r], item)
            /\ item.content = "skipped" => item.kind = "result" /\ <<r, item.id>> \notin executed'
      BY <1>4 DEF Marks
    <2>2. PICK w : w = SessionOf[r]  OBVIOUS
    <2>3. PICK n : n = Len(hist[w])  OBVIOUS
    <2>4. /\ w \in Sessions /\ n \in Nat /\ DOMAIN hist[w] = 1 .. n /\ DOMAIN hist'[w] = 1 .. n + 1 /\ hist'[w][n + 1] = item
          /\ \A i \in 1 .. n : hist'[w][i] = hist[w][i]
          /\ \A t \in Sessions \ {w} : hist'[t] = hist[t]
      BY <2>1, <2>2, <2>3, WrittenFacts
    <2>5. ASSUME NEW s \in Sessions, NEW i \in DOMAIN hist'[s], hist'[s][i].content = "skipped"
          PROVE  hist'[s][i].kind = "result" /\ <<hist'[s][i].run, hist'[s][i].id>> \notin executed'
      <3>1. CASE s # w \/ i # n + 1
        <4>1. i \in DOMAIN hist[s] /\ hist'[s][i] = hist[s][i]  BY <2>4, <2>5, <3>1
        <4> QED BY <1>2, <2>5, <4>1
      <3>2. CASE s = w /\ i = n + 1  BY <2>1, <2>4, <2>5, <3>2
      <3> QED BY <3>1, <3>2
    <2> QED BY <2>5 DEF SkipsAreResults, SkipsAreHonest
  <1> QED BY <1>3, <1>4

\* The steps that write no result and start no tool.
LEMMA QuietMarks ==
  ASSUME Types, QueuesFit, NEW r \in Runs, RunFits(r),
         \/ Start(r) \/ Read(r) \/ Greet(r) \/ ProviderFails(r) \/ Answer(r) \/ Commit(r) \/ Confirm(r)
         \/ Record(r) \/ Speak(r) \/ Persist(r) \/ ToolReturns(r) \/ Summarise(r)
  PROVE  Marks(r)
  <1>1. executed' = executed
    <2>1. (\E why : End(r, why)) \/ (\E place : Go(r, place)) \/ NextStep(r) \/ (\E t, why : SettleLeft(r, t, why))
          \/ (Confirm(r) /\ UNCHANGED executed)
      BY DEF Start, Read, Greet, ProviderFails, Answer, Commit, Confirm, Record, Speak, Persist, ToolReturns, Summarise
    <2> QED BY <2>1, NextStepMoves DEF End, Go, SettleLeft
  <1>2. SUFFICES ASSUME ~UNCHANGED hist
                 PROVE  \E item \in ItemType : item.run = r /\ Written(SessionOf[r], item) /\ item.content # "skipped"
    BY <1>1 DEF Marks
  <1>3. CASE Greet(r)
    <2>1. Written(SessionOf[r], Item("text", None, r, "user"))  BY <1>2, <1>3 DEF Greet, Refused, Acknowledged
    <2> QED BY <2>1, ItemTypes, Spoken DEF Item
  <1>4. CASE Commit(r)
    <2>1. Written(SessionOf[r], Item("text", None, r, "answer"))  BY <1>2, <1>4 DEF Commit, Refused
    <2> QED BY <2>1, ItemTypes, Spoken DEF Item
  <1>5. CASE Speak(r)
    <2>1. Written(SessionOf[r], Item("text", None, r, "reply"))  BY <1>2, <1>5 DEF Speak, Refused, Acknowledged
    <2> QED BY <2>1, ItemTypes, Spoken DEF Item
  <1>6. CASE Persist(r)
    <2>1. PICK n, id : n = persisted[r] + 1 /\ id = turn[r][n].id  OBVIOUS
    <2>2. Written(SessionOf[r], Item("call", id, r, ""))  BY <1>2, <1>6, <2>1 DEF Persist, Refused, Acknowledged
    <2>3. id \in AllIds
      <3>1. step[r] = "persisting" /\ step[r] \in Batching  BY <1>6 DEF Persist, Stands, Batching
      <3>2. persisted[r] \in Nat /\ Len(turn[r]) \in Nat /\ persisted[r] < Len(turn[r])  BY <3>1, UnbegunFacts
      <3>3. n \in 1 .. Len(turn[r])  BY <2>1, <3>2
      <3> QED BY <2>1, <3>1, <3>3, BatchCalls DEF RunFits
    <2> QED BY <2>2, <2>3, ItemTypes, Spoken DEF Item
  <1>7. CASE Summarise(r)
    <2>1. Written(SessionOf[r], Item("checkpoint", None, r, ""))  BY <1>2, <1>7 DEF Summarise
    <2> QED BY <2>1, ItemTypes, Spoken DEF Item
  <1>8. CASE Start(r) \/ Read(r) \/ ProviderFails(r) \/ Answer(r) \/ Confirm(r) \/ Record(r) \/ ToolReturns(r)
    BY <1>2, <1>8 DEF Start, Read, ProviderFails, Answer, Confirm, Record, ToolReturns
  <1> QED BY <1>3, <1>4, <1>5, <1>6, <1>7, <1>8

\* What AtCall starts.
LEMMA AtCallStarts ==
  ASSUME Types, NEW r \in Runs, NEW i, AtCall(r, i)
  PROVE  executed' = executed \/ (~PastLast(r, i) /\ executed' = executed \cup {<<r, turn[r][i].id>>})
  BY NextStepMoves DEF AtCall, Go

LEMMA ExecuteMarks ==
  ASSUME Types, QueuesFit, NEW r \in Runs, RunFits(r), Execute(r)
  PROVE  Marks(r)
  <1>1. step[r] = "executing" /\ step[r] \in Batching /\ step[r] \in Working /\ AtCall(r, 1) /\ UNCHANGED hist
    BY DEF Execute, Stands, Batching, Working
  <1>2. Results(r) \cap Ids(turn[r]) \subseteq tried[r] /\ tried[r] = {}
    BY <1>1 DEF RunFits, ResultsFit, BatchFits
  <1>3. 1 \in 1 .. Len(turn[r])
    <2>1. Len(turn[r]) \in Nat \ {0}  BY <1>1, BatchFacts
    <2> QED BY <2>1
  <1>4. turn[r][1].id \in Ids(turn[r])  BY <1>1, <1>3, BatchCalls DEF RunFits
  <1>5. \A id : <<r, id>> \in executed' \ executed => id = turn[r][1].id  BY <1>1, AtCallStarts
  <1> QED BY <1>1, <1>2, <1>4, <1>5 DEF Marks

LEMMA SettleMarks ==
  ASSUME Types, QueuesFit, NEW r \in Runs, RunFits(r), Settle(r)
  PROVE  Marks(r)
  <1>0. step[r] = "settling" /\ step[r] \in Batching /\ step[r] \in Working
    BY DEF Settle, Stands, Batching, Working
  <1>1. PICK i \in 1 .. Len(turn[r]) : SettlingAt(r, i)  BY <1>0 DEF RunFits, BatchFits
  <1>2. AtNumber(r, i) /\ i \in Nat /\ Len(turn[r]) \in Nat
    <2>1. Len(turn[r]) \in Nat  BY <1>0, BatchFacts
    <2>2. AtNumber(r, i)  BY <1>1 DEF SettlingAt
    <2> QED BY <2>1, <2>2
  <1>3. PICK id : id = Head(todo[r]).id  OBVIOUS
  <1>4. /\ id = turn[r][i].id /\ id \in AllIds /\ IndexOf(r, id) = i /\ id \notin tried[r]
        /\ Head(todo[r]).content \in Contents
    BY <1>0, <1>2, <1>3, AtNumberFacts DEF RunFits
  <1>5. id \in Ids(turn[r])  BY <1>0, <1>1, <1>4, BatchCalls DEF RunFits
  <1>6. PICK item : item = Appending(r)  OBVIOUS
  <1>7. item \in ItemType /\ item.run = r /\ item.kind = "result" /\ item.id = id /\ item.content = Head(todo[r]).content
    <2>1. item = Item("result", id, r, Head(todo[r]).content)  BY <1>3, <1>6 DEF Appending
    <2>2. item \in ItemType  BY <1>4, <2>1, ItemTypes
    <2> QED BY <2>1, <2>2 DEF Item
  <1>8. item.content = "skipped" => <<r, id>> \notin executed
    <2>1. SUFFICES ASSUME item.content = "skipped", <<r, id>> \in executed PROVE FALSE  OBVIOUS
    <2>2. <<r, id>> \in Begun(r) /\ <<r, id>>[2] = id  BY <2>1 DEF Begun
    <2>3. \A e \in Begun(r) : e[2] \in Ids(turn[r]) \ tried[r] => Head(todo[r]).content # "skipped"
      BY <1>0 DEF RunFits, ResultsFit
    <2> QED BY <1>4, <1>5, <1>7, <2>1, <2>2, <2>3
  <1>9. UNCHANGED hist \/ Written(SessionOf[r], item)  BY <1>6 DEF Settle, Refused, Acknowledged
  <1>10. executed' = executed \/ AtCall(r, i + 1)
    <2>1. executed' = executed \/ AtCall(r, IndexOf(r, id) + 1)
      BY <1>3 DEF Settle, SettleLeft, Go, End
    <2> QED BY <1>4, <2>1
  <1>11. ASSUME NEW x, <<r, x>> \in executed' \ executed
         PROVE  x # id /\ x \in Ids(turn[r]) \ tried[r]
    <2>1. ~PastLast(r, i + 1) /\ x = turn[r][i + 1].id  BY <1>10, <1>11, AtCallStarts
    <2>2. i + 1 \in 1 .. Len(turn[r]) /\ i + 1 # i  BY <1>1, <1>2, <2>1 DEF PastLast
    <2>3. \A k, j \in 1 .. Len(turn[r]) : turn[r][k].id = turn[r][j].id => k = j  BY <1>0, BatchFacts
    <2>4. x # id  BY <1>1, <1>4, <2>1, <2>2, <2>3
    <2>5. tried[r] = IdsTo(r, i - 1)  BY <1>2 DEF AtNumber
    <2>6. \A k \in 1 .. i - 1 : k \in 1 .. Len(turn[r]) /\ k # i + 1  BY <1>1, <1>2
    <2>7. x \notin tried[r]  BY <2>1, <2>2, <2>3, <2>5, <2>6 DEF IdsTo
    <2>8. x \in Ids(turn[r])  BY <1>0, <2>1, <2>2, BatchCalls DEF RunFits
    <2> QED BY <2>4, <2>7, <2>8
  <1>12. Results(r) \cap Ids(turn[r]) \subseteq tried[r]  BY <1>0, BatchFacts
  <1>13. item.content = "skipped" => <<r, item.id>> \notin executed'
    BY <1>7, <1>8, <1>11
  <1>14. \A x : <<r, x>> \in executed' \ executed => x \notin Results(r)  BY <1>11, <1>12
  <1> QED BY <1>7, <1>9, <1>13, <1>14 DEF Marks

LEMMA ClearMarks ==
  ASSUME Types, QueuesFit, NEW r \in Runs, RunFits(r), Clear(r)
  PROVE  Marks(r)
  <1>0. step[r] = "clearing" /\ step[r] \in Working /\ step[r] \in Batching
    BY DEF Clear, Stands, Working, Batching
  <1>1. PICK i \in Untouched(r, tried[r]) :
          LET item == Item("result", turn[r][i].id, r, "skipped")
          IN \/ Refused(SessionOf[r], item) /\ End(r, "storage")
             \/ /\ Acknowledged(SessionOf[r], item)
                /\ IF Untouched(r, tried'[r]) = {} THEN End(r, failure[r]) ELSE Go(r, "clearing")
    BY DEF Clear
  <1>2. PICK id, item : id = turn[r][i].id /\ item = Item("result", id, r, "skipped")  OBVIOUS
  <1>3. id \in AllIds /\ id \in Ids(turn[r]) \ tried[r]
    <2>1. i \in 1 .. persisted[r] /\ id \notin tried[r]  BY <1>2 DEF Untouched
    <2>2. persisted[r] \in 0 .. Len(turn[r]) /\ Len(turn[r]) \in Nat  BY <1>0, BatchCalls DEF RunFits
    <2>3. i \in 1 .. Len(turn[r])  BY <2>1, <2>2, InPrefix
    <2> QED BY <1>0, <1>2, <2>1, <2>3, BatchCalls DEF RunFits
  <1>4. item \in ItemType /\ item.run = r /\ item.kind = "result" /\ item.id = id
    BY <1>2, <1>3, ItemTypes, Spoken DEF Item
  <1>5. (UNCHANGED hist \/ Written(SessionOf[r], item)) /\ executed' = executed
    BY <1>1, <1>2 DEF Refused, Acknowledged, End, Go
  <1>6. <<r, id>> \notin executed
    <2>1. \A e \in Begun(r) : e[2] \notin Ids(turn[r]) \ tried[r]  BY <1>0 DEF RunFits, ResultsFit
    <2>2. <<r, id>>[1] = r /\ <<r, id>>[2] = id  OBVIOUS
    <2> QED BY <1>3, <2>1, <2>2 DEF Begun
  <1> QED BY <1>4, <1>5, <1>6 DEF Marks

LEMMA WorkMarks ==
  ASSUME Types, QueuesFit, NEW r \in Runs, RunFits(r), Work(r)
  PROVE  Marks(r)
  BY QuietMarks, ExecuteMarks, SettleMarks, ClearMarks DEF Work

-----------------------------------------------------------------------------
(* The steps that are no run's *)

\* What such a step leaves as it was: every item, and the batch of every run.
Bare == UNCHANGED <<hist, turn, text, past, used, steps, batch, executed>>

LEMMA BareKeepsItems ==
  ASSUME Types, ItemsFit, SkipsAreResults, SkipsAreHonest, UNCHANGED <<hist, executed>>,
         \A o \in Runs : step'[o] = step[o] \/ step[o] = "idle" \/ step'[o] = "done"
  PROVE  ItemsFit' /\ SkipsAreResults' /\ SkipsAreHonest'
  <1>1. TurnsStayWhole' /\ SkipsAreResults' /\ SkipsAreHonest'
    BY DEF ItemsFit, TurnsStayWhole, SkipsAreResults, SkipsAreHonest
  <1>2. ASSUME NEW s \in Sessions, NEW i \in DOMAIN hist[s] PROVE ItemFits(s, i)'
    <2>1. hist[s] \in Seq(ItemType)  BY DEF Types
    <2>2. hist[s][i] \in ItemType  BY <1>2, <2>1
    <2>3. PICK o : o = hist[s][i].run  OBVIOUS
    <2>4. o \in Runs  BY <2>2, <2>3 DEF ItemType
    <2>5. /\ SessionOf[o] = s /\ step[o] \notin {"idle", "queued"}
          /\ step[o] \in Working => \A j \in i .. Len(hist[s]) : hist[s][j].run = o
      BY <1>2, <2>3 DEF ItemsFit, ItemFits
    <2>6. step'[o] = step[o] \/ step'[o] = "done"  BY <2>4, <2>5
    <2>7. "done" \notin Working  BY DEF Working
    <2>8. /\ SessionOf[o] = s /\ step'[o] \notin {"idle", "queued"}
          /\ step'[o] \in Working => \A j \in i .. Len(hist[s]) : hist[s][j].run = o
      BY <2>5, <2>6, <2>7
    <2> QED BY <2>3, <2>8 DEF ItemFits
  <1> QED BY <1>1, <1>2 DEF ItemsFit

LEMMA BareLeavesAlone ==
  ASSUME NEW o \in Runs, RunFits(o), Bare, step'[o] = step[o], outcome'[o] = outcome[o], known'[o] = known[o]
  PROVE  RunFits(o)'
  <1>1. Alone(o)  BY DEF Bare, batch, Alone, Begun, Mine, Entry
  <1> QED BY <1>1, AloneFits

\* A run is submitted, or refused at once.
LEMMA CallFits ==
  ASSUME Types, QueuesFit, NEW r \in Runs, RunFits(r), step[r] = "idle", Bare, Refuses(r) \/ Enters(r),
         outcome'[r] # "answered"
  PROVE  RunFits(r)'
  <1>1. step'[r] \in {"queued", "done"}  BY DEF Refuses, Enters, Types, Shared
  <1>2. Mine(r)' = Mine(r) /\ Begun(r)' = Begun(r)  BY DEF Bare, Mine, Begun
  <1>3. UNCHANGED <<turn, past, used, steps, persisted>>  BY DEF Bare, batch
  <1> QED BY <1>1, <1>2, <1>3, BlankStays

LEMMA SubmitFits ==
  ASSUME Ground, (\A o \in Runs : RunFits(o)), NEW r \in Runs, Submit(r)
  PROVE  \A o \in Runs : RunFits(o)'
  <1>1. Types /\ QueuesFit  BY DEF Ground
  <1>2. step[r] = "idle" /\ Bare /\ UNCHANGED known  BY DEF Submit, Bare, transcript
  <1>3. Refuses(r) \/ Enters(r)  BY SubmitKeepsGround
  <1>4. \A o \in Runs \ {r} : step'[o] = step[o] /\ outcome'[o] = outcome[o]
    BY <1>1, <1>3 DEF Refuses, Enters, Types, Shared
  <1>5. outcome'[r] # "answered"
    <2>1. outcome'[r] = "closed" \/ outcome' = outcome  BY <1>1 DEF Submit, Refuse, Enqueue, Types, Shared
    <2>2. outcome[r] = "none"  BY <1>1, <1>2 DEF QueuesFit, OutcomeFits
    <2> QED BY <2>1, <2>2
  <1>6. RunFits(r)'  BY <1>1, <1>2, <1>3, <1>5, CallFits
  <1>7. ASSUME NEW o \in Runs \ {r} PROVE RunFits(o)'  BY <1>2, <1>4, BareLeavesAlone
  <1> QED BY <1>6, <1>7

LEMMA SubmitPlanFits ==
  ASSUME Ground, (\A o \in Runs : RunFits(o)), NEW r \in Runs, NEW a \in Runs, SubmitPlan(r, a)
  PROVE  \A o \in Runs : RunFits(o)'
  <1>1. Types /\ QueuesFit  BY DEF Ground
  <1>2. step[r] = "idle" /\ Bare  BY DEF SubmitPlan, Bare
  <1>3. Refuses(r) \/ Enters(r)
    BY OutcomeNames DEF SubmitPlan, Refuse, Enqueue, Refuses, Enters
  <1>4. \A o \in Runs \ {r} : step'[o] = step[o] /\ outcome'[o] = outcome[o] /\ known'[o] = known[o]
    <2>1. \A o \in Runs \ {r} : step'[o] = step[o] /\ outcome'[o] = outcome[o]
      BY <1>1, <1>3 DEF Refuses, Enters, Types, Shared
    <2>2. \A o \in Runs \ {r} : known'[o] = known[o]  BY <1>1 DEF SubmitPlan, Types, Local
    <2> QED BY <2>1, <2>2
  <1>5. outcome'[r] # "answered"
    <2>1. outcome'[r] \in {"closed", "denied"} \/ outcome' = outcome
      BY <1>1 DEF SubmitPlan, Refuse, Enqueue, Types, Shared
    <2>2. outcome[r] = "none"  BY <1>1, <1>2 DEF QueuesFit, OutcomeFits
    <2> QED BY <2>1, <2>2
  <1>6. RunFits(r)'  BY <1>1, <1>2, <1>3, <1>5, CallFits
  <1>7. ASSUME NEW o \in Runs \ {r} PROVE RunFits(o)'  BY <1>2, <1>4, BareLeavesAlone
  <1> QED BY <1>6, <1>7

\* The process dies: what was under way is lost.
LEMMA CrashFits ==
  ASSUME Types, (\A o \in Runs : RunFits(o)), Crash
  PROVE  \A o \in Runs : RunFits(o)' /\ (step'[o] = step[o] \/ step'[o] = "done")
  <1>1. UNCHANGED <<hist, transcript, batch, executed>>  BY DEF Crash
  <1>2. Bare /\ UNCHANGED known  BY <1>1 DEF Bare, transcript
  <1>3. ASSUME NEW o \in Runs PROVE RunFits(o)' /\ (step'[o] = step[o] \/ step'[o] = "done")
    <2>1. CASE step[o] \in {"idle", "done"}
      <3>1. step'[o] = step[o] /\ outcome'[o] = outcome[o]  BY <2>1 DEF Crash
      <3> QED BY <1>2, <3>1, BareLeavesAlone
    <2>2. CASE step[o] \notin {"idle", "done"}
      <3>1. step'[o] = "done" /\ outcome'[o] = "lost"  BY <2>2 DEF Crash
      <3>2. Calls(o)' = Calls(o)  BY <1>1, NothingWritten
      <3>3. used' = used /\ steps' = steps /\ past' = past /\ executed' = executed  BY <1>2 DEF Bare
      <3> QED BY <3>1, <3>2, <3>3, FailedEnds
    <2> QED BY <2>1, <2>2
  <1> QED BY <1>3

-----------------------------------------------------------------------------
(* The invariant *)

LEMMA InitFits == Init => IInv
  <1> SUFFICES ASSUME Init PROVE IInv  OBVIOUS
  <1>1. Types
    <2>1. Shared
      <3>0. <<>> \in Seq(Runs)  OBVIOUS
      <3>1. line \in [Sessions -> Seq(Runs)]  BY <3>0 DEF Init
      <3>2. step \in [Runs -> Places] /\ outcome \in [Runs -> Outcomes]  BY DEF Init, Places, Outcomes
      <3>3. plan \in [Runs -> Runs \cup {None}] /\ newest \in [Sessions -> Runs \cup {None}]  BY DEF Init
      <3>4. handoff \in HandoffType  BY DEF Init, NoHandoff, HandoffType
      <3> QED BY <3>1, <3>2, <3>3, <3>4 DEF Shared
    <2>2. Local  BY DEF Init, Local, Failures
    <2>3. hist \in [Sessions -> Seq(ItemType)]
      <3>1. <<>> \in Seq(ItemType)  OBVIOUS
      <3> QED BY <3>1 DEF Init
    <2> QED BY <2>1, <2>2, <2>3 DEF Init, Types
  <1>2. QueuesFit
    <2>1. \A s \in Sessions : LineFits(s)
      <3>1. Distinct(<<>>) /\ \A r : ~InSeq(<<>>, r)
        <4>1. DOMAIN <<>> = {} /\ 1 .. Len(<<>>) = {}  OBVIOUS
        <4> QED BY <4>1 DEF Distinct, InSeq
      <3>2. ASSUME NEW s \in Sessions PROVE line[s] = <<>> /\ \A r \in Runs : step[r] = "idle"  BY <3>2 DEF Init
      <3> QED BY <3>1, <3>2 DEF LineFits
    <2>2. \A r \in Runs : HeadFits(r) /\ OutcomeFits(r)  BY DEF Init, HeadFits, OutcomeFits, Working
    <2>3. \A q \in Runners : DrainFits(q)  BY DEF Init, DrainFits
    <2> QED BY <2>1, <2>2, <2>3 DEF QueuesFit
  <1>3. HandoffFits
    <2>1. /\ handoff.receipts = {} /\ handoff.approved = {}
          /\ \A s \in Sessions : handoff.generation[s] = None /\ handoff.current[s] = None
      BY DEF Init, NoHandoff
    <2>2. \A r \in Runs : plan[r] = None  BY DEF Init
    <2>3. \A r \in Runs : PlaceFits(r) /\ BuildFits(r)  BY <2>1, <2>2, HandoffAssumption DEF PlaceFits, Proposed, BuildFits
    <2> QED BY <2>1, <2>2, <2>3 DEF HandoffFits, GenerationFits, CurrentFits, ReceiptIsCurrent, PlanRunsOnce
  <1>4. ItemsFit /\ SkipsAreResults /\ SkipsAreHonest
    <2>1. \A s \in Sessions : hist[s] = <<>>  BY DEF Init
    <2>2. DOMAIN <<>> = {} /\ 1 .. Len(<<>>) - 1 = {}  OBVIOUS
    <2> QED BY <2>1, <2>2 DEF ItemsFit, TurnsStayWhole, SkipsAreResults, SkipsAreHonest
  <1>5. ASSUME NEW r \in Runs PROVE RunFits(r)
    <2>1. Mine(r) = {}
      <3>1. hist[SessionOf[r]] = <<>>  BY HandoffAssumption DEF Init
      <3> QED BY <3>1 DEF Mine
    <2>2. Begun(r) = {}  BY DEF Init, Begun
    <2>3. step[r] = "idle" /\ outcome[r] = "none" /\ turn[r] = <<>> /\ persisted[r] = 0 /\ used[r] = 0 /\ steps[r] = 0
          /\ past[r] = {}
      BY DEF Init
    <2>4. used[r] \in Nat /\ used[r] <= MaxCalls /\ steps[r] <= MaxSteps  BY <2>3, Limits
    <2>5. Blank(r)  BY <2>1, <2>2, <2>3, <2>4 DEF Blank
    <2> QED BY <2>5, BlankFits DEF BlankRunsFit
  <1> QED BY <1>1, <1>2, <1>3, <1>4, <1>5 DEF IInv

LEMMA WorkKeeps ==
  ASSUME IInv, NEW r \in Runs, Work(r)
  PROVE  IInv'
  <1>1. Types /\ QueuesFit /\ HandoffFits /\ ItemsFit /\ SkipsAreResults /\ SkipsAreHonest /\ \A o \in Runs : RunFits(o)
    BY DEF IInv
  <1>2. Moves(r) /\ Types' /\ Frame(r)  BY WorkMoves DEF Moves
  <1>3. QueuesFit'  BY <1>1, <1>2, WorkKeepsQueues
  <1>4. HandoffFits'  BY <1>1, <1>2, WorkKeepsHandoff
  <1>5. ItemsFit'  BY <1>1, <1>2, WorkKeepsItems
  <1>6. SkipsAreResults' /\ SkipsAreHonest'  BY <1>1, <1>2, WorkMarks, MarksKeepSkips
  <1>7. RunFits(r)'  BY <1>1, WorkFits
  <1>8. ASSUME NEW o \in Runs \ {r} PROVE RunFits(o)'  BY <1>1, <1>2, WorkLeavesAlone, AloneFits
  <1> QED BY <1>2, <1>3, <1>4, <1>5, <1>6, <1>7, <1>8 DEF IInv

\* The calls of a runner, its signals and the death of the process.
LEMMA OthersKeep ==
  ASSUME IInv,
         \/ \E r \in Runs : Submit(r) \/ Discard(r)
         \/ \E r, a \in Runs : SubmitPlan(r, a)
         \/ \E s \in Sessions, r \in Runs : Approve(s, r)
         \/ \E q \in Runners : Abort(q) \/ Close(q)
         \/ Crash
  PROVE  IInv'
  <1>1. Ground /\ Types /\ ItemsFit /\ SkipsAreResults /\ SkipsAreHonest /\ \A o \in Runs : RunFits(o)
    BY DEF IInv, Ground
  <1>2. SUFFICES Ground' /\ (\A o \in Runs : RunFits(o)') /\ UNCHANGED <<hist, executed>>
                 /\ \A o \in Runs : step'[o] = step[o] \/ step[o] = "idle" \/ step'[o] = "done"
    BY <1>1, BareKeepsItems DEF IInv, Ground
  <1>3. ASSUME NEW r \in Runs, Submit(r)
        PROVE  Ground' /\ (\A o \in Runs : RunFits(o)') /\ UNCHANGED <<hist, executed>>
               /\ \A o \in Runs : step'[o] = step[o] \/ step[o] = "idle" \/ step'[o] = "done"
    <2>1. Ground' /\ (Refuses(r) \/ Enters(r))  BY <1>1, <1>3, SubmitKeepsGround
    <2>2. \A o \in Runs : RunFits(o)'  BY <1>1, <1>3, SubmitFits
    <2>3. \A o \in Runs : step'[o] = step[o] \/ step[o] = "idle"
      BY <1>1, <1>3, <2>1 DEF Submit, Refuses, Enters, Types, Shared
    <2> QED BY <1>3, <2>1, <2>2, <2>3 DEF Submit
  <1>4. ASSUME NEW r \in Runs, NEW a \in Runs, SubmitPlan(r, a)
        PROVE  Ground' /\ (\A o \in Runs : RunFits(o)') /\ UNCHANGED <<hist, executed>>
               /\ \A o \in Runs : step'[o] = step[o] \/ step[o] = "idle" \/ step'[o] = "done"
    <2>1. Ground' /\ (Refuses(r) \/ Enters(r))  BY <1>1, <1>4, SubmitPlanKeepsGround
    <2>2. \A o \in Runs : RunFits(o)'  BY <1>1, <1>4, SubmitPlanFits
    <2>3. \A o \in Runs : step'[o] = step[o] \/ step[o] = "idle"
      BY <1>1, <1>4, <2>1 DEF SubmitPlan, Refuses, Enters, Types, Shared
    <2> QED BY <1>4, <2>1, <2>2, <2>3 DEF SubmitPlan
  <1>5. ASSUME Bare, UNCHANGED <<step, outcome, known>>
        PROVE  (\A o \in Runs : RunFits(o)') /\ UNCHANGED <<hist, executed>>
               /\ \A o \in Runs : step'[o] = step[o] \/ step[o] = "idle" \/ step'[o] = "done"
    <2>1. \A o \in Runs : RunFits(o)'  BY <1>1, <1>5, BareLeavesAlone
    <2> QED BY <1>5, <2>1 DEF Bare
  <1>6. ASSUME NEW r \in Runs, Discard(r) PROVE Ground' /\ Bare /\ UNCHANGED <<step, outcome, known>>
    <2>1. Ground'  BY <1>1, <1>6, DiscardKeepsGround
    <2> QED BY <1>6, <2>1 DEF Discard, Bare, transcript
  <1>7. ASSUME NEW s \in Sessions, NEW r \in Runs, Approve(s, r)
        PROVE  Ground' /\ Bare /\ UNCHANGED <<step, outcome, known>>
    <2>1. Ground'  BY <1>1, <1>7, ApproveKeepsGround
    <2> QED BY <1>7, <2>1 DEF Approve, Bare, transcript
  <1>8. ASSUME NEW q \in Runners, Abort(q) \/ Close(q) PROVE Ground' /\ Bare /\ UNCHANGED <<step, outcome, known>>
    <2>1. Ground'  BY <1>1, <1>8, SignalKeepsGround
    <2> QED BY <1>8, <2>1 DEF Abort, Close, Bare, transcript
  <1>9. CASE Crash
    <2>1. Ground'  BY <1>1, <1>9, CrashKeepsGround
    <2>2. \A o \in Runs : RunFits(o)' /\ (step'[o] = step[o] \/ step'[o] = "done")  BY <1>1, <1>9, CrashFits
    <2> QED BY <1>9, <2>1, <2>2 DEF Crash
  <1> QED BY <1>3, <1>4, <1>5, <1>6, <1>7, <1>8, <1>9

LEMMA NextKeeps ==
  ASSUME IInv, [Next]_vars
  PROVE  IInv'
  <1>1. CASE UNCHANGED vars
    <2>1. /\ UNCHANGED <<hist, line, step, outcome, plan, executed, handoff, newest, known, turn, text, past, used, steps>>
          /\ UNCHANGED <<aborted, closed, draining, persisted, tried, todo, failure>> /\ Bare
      BY <1>1 DEF vars, transcript, batch, signals, Bare
    <2>2. Types'  BY <2>1 DEF IInv, Types, Shared, Local
    <2>3. QueuesFit'  BY <2>1 DEF IInv, QueuesFit, LineFits, HeadFits, OutcomeFits, DrainFits, Unfinished
    <2>4. HandoffFits'
      BY <2>1 DEF IInv, HandoffFits, GenerationFits, CurrentFits, PlaceFits, Proposed, BuildFits, ReceiptIsCurrent, PlanRunsOnce
    <2>5. ItemsFit' /\ SkipsAreResults' /\ SkipsAreHonest'  BY <2>1, BareKeepsItems DEF IInv
    <2>6. \A r \in Runs : RunFits(r)'  BY <2>1, BareLeavesAlone DEF IInv
    <2> QED BY <2>2, <2>3, <2>4, <2>5, <2>6 DEF IInv
  <1>2. CASE Next  BY <1>2, WorkKeeps, OthersKeep DEF Next
  <1> QED BY <1>1, <1>2

\* The invariant holds in every state.
THEOREM AgentInvariance == Spec => []IInv
  BY InitFits, NextKeeps, PTL DEF Spec

-----------------------------------------------------------------------------
(* The properties *)

\* The signals and the counters of what went wrong.
Counters == aborted \subseteq Runners /\ closed \subseteq Runners /\ faults \in Nat /\ crashes \in Nat

LEMMA CountersHold == Spec => []Counters
  <1>1. Init => Counters
    <2>1. Init => aborted = {} /\ closed = {} /\ faults = 0 /\ crashes = 0  BY DEF Init
    <2> QED BY <2>1 DEF Counters
  <1>2. Counters /\ [Next]_vars => Counters'
    <2> SUFFICES ASSUME Counters, [Next]_vars PROVE Counters'  OBVIOUS
    <2>1. CASE UNCHANGED vars  BY <2>1 DEF Counters, vars, signals
    <2>2. ASSUME NEW r \in Runs, Work(r) PROVE Counters'
      <3>1. UNCHANGED <<signals, crashes>>
        BY <2>2 DEF Work, Start, Read, Greet, ProviderFails, Answer, Commit, Confirm, Record, Speak, Persist, Execute,
                    ToolReturns, Settle, Clear, Summarise
      <3>2. UNCHANGED faults \/ faults' = faults + 1
        BY <2>2 DEF Work, Start, Read, Greet, ProviderFails, Answer, Commit, Confirm, Record, Speak, Persist, Execute,
                    ToolReturns, Settle, Clear, Summarise, Refused, Acknowledged, Fails
      <3> QED BY <3>1, <3>2 DEF Counters, signals
    <2>3. ASSUME NEW r \in Runs, Submit(r) \/ Discard(r) \/ (\E a \in Runs : SubmitPlan(r, a))
                                \/ \E s \in Sessions : Approve(s, r)
          PROVE  Counters'
      BY <2>3 DEF Counters, signals, Submit, Discard, SubmitPlan, Approve
    <2>4. ASSUME NEW q \in Runners, Abort(q) \/ Close(q) PROVE Counters'  BY <2>4 DEF Counters, Abort, Close
    <2>5. CASE Crash  BY <2>5 DEF Counters, Crash
    <2> QED BY <2>1, <2>2, <2>3, <2>4, <2>5 DEF Next
  <1> QED BY <1>1, <1>2, PTL DEF Spec

LEMMA TypesFollow == IInv /\ Counters => TypeOK
  <1> SUFFICES ASSUME IInv, Counters PROVE TypeOK  OBVIOUS
  <1>1. Types /\ QueuesFit  BY DEF IInv
  <1>2. \A s \in Sessions : \A i \in DOMAIN hist[s] :
          hist[s][i].kind \in {"text", "call", "result", "checkpoint"} /\ hist[s][i].content \in Contents
    <2> SUFFICES ASSUME NEW s \in Sessions, NEW i \in DOMAIN hist[s] PROVE hist[s][i] \in ItemType  BY DEF ItemType
    <2>1. hist[s] \in Seq(ItemType)  BY <1>1 DEF Types
    <2> QED BY <2>1
  <1>3. ASSUME NEW s \in Sessions
        PROVE  /\ Range(line[s]) = {r \in Runs : SessionOf[r] = s /\ step[r] \notin {"idle", "done"}}
               /\ Cardinality(Range(line[s])) = Len(line[s])
    <2>1. line[s] \in Seq(Runs)  BY <1>1 DEF Types, Shared
    <2>2. Distinct(line[s]) /\ \A r \in Runs : InSeq(line[s], r) <=> SessionOf[r] = s /\ step[r] \notin {"idle", "done"}
      BY <1>1 DEF QueuesFit, LineFits
    <2> DEFINE q == line[s]
    <2>3. DOMAIN q = 1 .. Len(q) /\ Len(q) \in Nat /\ \A i \in DOMAIN q : q[i] \in Runs  BY <2>1
    <2>4. \A r : r \in Range(q) <=> InSeq(q, r)  BY DEF Range, InSeq
    <2>5. Range(q) \subseteq Runs  BY <2>3 DEF Range
    <2>6. Range(q) = {r \in Runs : SessionOf[r] = s /\ step[r] \notin {"idle", "done"}}  BY <2>2, <2>4, <2>5
    <2>7. Cardinality(Range(q)) = Len(q)
      <3> HIDE DEF q
      <3>1. q = [i \in 1 .. Len(q) |-> q[i]]  BY <2>1, <2>3 DEF q
      <3>2. q \in Injection(1 .. Len(q), Range(q)) /\ q \in Surjection(1 .. Len(q), Range(q))
        BY <2>2, <2>3, <3>1 DEF Injection, IsInjective, Surjection, Range, Distinct, q
      <3>3. IsFiniteSet(1 .. Len(q)) /\ Cardinality(1 .. Len(q)) = Len(q)
        <4>1. IsFiniteSet(1 .. Len(q)) /\ Cardinality(1 .. Len(q)) = (IF 1 > Len(q) THEN 0 ELSE Len(q) - 1 + 1)
          BY <2>3, FS_Interval
        <4> QED BY <2>3, <4>1
      <3> QED BY <3>2, <3>3, FS_Surjection
    <2> QED BY <2>6, <2>7
  <1>4. \A r \in Runs : outcome[r] = "none" <=> step[r] # "done"  BY <1>1 DEF QueuesFit, OutcomeFits
  <1>5. aborted \subseteq Runners /\ closed \subseteq Runners /\ faults \in Nat /\ crashes \in Nat
    BY DEF Counters
  <1> QED BY <1>1, <1>2, <1>3, <1>4, <1>5 DEF TypeOK, Types, Shared

\* Every variable has its shape, and a queue holds the runs that are submitted
\* and have not ended, each once.
THEOREM AgentTypes == Spec => []TypeOK
  BY AgentInvariance, CountersHold, TypesFollow, PTL

\* When close() has returned, nothing of the runner is under way: what it
\* waited for is done, and it took nothing since.
THEOREM CloseIsComplete == Spec => []CloseDrains
  <1>1. IInv => CloseDrains
    <2> SUFFICES ASSUME IInv, NEW q \in Runners, Drained(q) PROVE Unfinished(q) = {}  BY DEF CloseDrains
    <2>1. Unfinished(q) \subseteq draining[q] /\ \A r \in draining[q] : step[r] = "done"
      BY DEF IInv, QueuesFit, DrainFits, Drained
    <2>2. \A r \in Unfinished(q) : step[r] # "done"  BY DEF Unfinished
    <2> QED BY <2>1, <2>2
  <1> QED BY <1>1, AgentInvariance, PTL

\* A receipt is one of the newest planning run of its session; what is approved
\* or built is the answer of a planning run, approved once and built once, in
\* the session it was made in.
THEOREM PlansRunAsApproved == Spec => []PlansAreApprovedOnce
  <1>1. IInv => ApprovalsAreSound  BY DEF IInv, HandoffFits, PlaceFits, Proposed, ApprovalsAreSound
  <1>2. IInv => PlansAreApprovedOnce  BY <1>1 DEF IInv, HandoffFits, PlansAreApprovedOnce
  <1> QED BY <1>2, AgentInvariance, PTL

\* What a run writes into a session is one stretch of its file.
THEOREM TurnsDoNotMix == Spec => []TurnsStayWhole
  <1>1. IInv => TurnsStayWhole  BY DEF IInv, ItemsFit
  <1> QED BY <1>1, AgentInvariance, PTL

\* What is recorded as skipped did not run; a run that answered settled its
\* calls and said its answer last; a stopped one settled them and said none.
THEOREM ReportsHold == Spec => []ReportsAreTrue
  <1>1. IInv => ReportsAreTrue
    <2> SUFFICES ASSUME IInv PROVE ReportsAreTrue  OBVIOUS
    <2>1. ASSUME NEW r \in Runs, outcome[r] \in {"answered", "cancelled", "closed"}
          PROVE  \A i \in Calls(r) : Answered(r, i)
      <3>1. Unanswered(r) = {}  BY <2>1 DEF IInv, RunFits, CallsFit, Sound, Told
      <3> QED BY <3>1 DEF Unanswered
    <2>2. AnswersAreWhole
      <3> SUFFICES ASSUME NEW r \in Runs, outcome[r] = "answered", KindOf[r] # "compact"
                   PROVE  (\A i \in Calls(r) : Answered(r, i)) /\ (r \in text => LastIsAnswer(r))
        BY DEF AnswersAreWhole, LastIsAnswer, Entry
      <3> QED BY <2>1 DEF IInv, RunFits, AnswerFits
    <2>3. StoppedIsUnanswered
      <3> SUFFICES ASSUME NEW r \in Runs, outcome[r] \in {"cancelled", "closed"}
                   PROVE  ~Spoke(r) /\ \A i \in Calls(r) : Answered(r, i)
        BY DEF StoppedIsUnanswered, Spoke, Entry
      <3>1. step[r] = "done"  BY DEF IInv, QueuesFit, OutcomeFits
      <3> QED BY <2>1, <3>1 DEF IInv, RunFits, AnswerFits
    <2> QED BY <2>2, <2>3 DEF IInv, ReportsAreTrue
  <1> QED BY <1>1, AgentInvariance, PTL

\* A run keeps to its limits over all its answers, and never admits the same
\* calls twice.
THEOREM LimitsHold == Spec => []BudgetHolds
  <1>1. IInv => BudgetHolds
    <2> SUFFICES ASSUME IInv, NEW r \in Runs
                 PROVE  /\ Cardinality(Begun(r)) <= MaxCalls /\ steps[r] <= MaxSteps
                        /\ Cardinality(Calls(r)) <= MaxCalls
                        /\ \A a, b \in past[r] : SameCalls(a, b) => a = b
      BY DEF BudgetHolds, Begun
    <2>1. /\ used[r] <= MaxCalls /\ steps[r] <= MaxSteps /\ Cardinality(Begun(r)) <= used[r]
          /\ Cardinality(Calls(r)) <= used[r] /\ IsFiniteSet(Begun(r))
          /\ \A a, b \in past[r] : SameCalls(a, b) => a = b
      BY DEF IInv, RunFits, CountsFit
    <2>2. Types /\ used[r] \in Nat /\ MaxCalls \in Nat  BY PlaceTypes, Limits DEF IInv
    <2>3. Cardinality(Begun(r)) \in Nat /\ Cardinality(Calls(r)) \in Nat  BY <2>1, <2>2, FS_CardinalityType, CallsFinite
    <2>4. Cardinality(Begun(r)) <= MaxCalls /\ Cardinality(Calls(r)) <= MaxCalls  BY <2>1, <2>2, <2>3
    <2> QED BY <2>1, <2>4
  <1> QED BY <1>1, AgentInvariance, PTL

-----------------------------------------------------------------------------
(* Replay: what a model still sees of a file *)

\* The places from the last checkpoint of a file on.
CheckpointsOf(h) == {i \in DOMAIN h : h[i].kind = "checkpoint"}
SeenIn(h) == {i \in DOMAIN h : \A c \in CheckpointsOf(h) : c <= i}
SeenOf(h, kind) == {i \in SeenIn(h) : h[i].kind = kind}

\* Calls and results have ids of their own; a result follows the call of its
\* run that it answers, and nothing is said between the two.
IdsFit(h) ==
  /\ \A kind \in {"call", "result"} : \A i, j \in SeenOf(h, kind) : h[i].id = h[j].id => i = j
  /\ \A j \in SeenOf(h, "result") : \E i \in SeenOf(h, "call") : i < j /\ h[i].id = h[j].id /\ h[i].run = h[j].run
  /\ \A i \in SeenOf(h, "call"), j \in SeenOf(h, "result"), k \in DOMAIN h :
       h[i].id = h[j].id /\ i < k /\ k < j => h[k].kind # "text"

\* One item more.
LEMMA AppendedItem ==
  ASSUME NEW h \in Seq(ItemType), NEW item \in ItemType, NEW n, n = Len(h) + 1
  PROVE  LET g == Append(h, item)
         IN /\ n \in Nat /\ DOMAIN g = DOMAIN h \cup {n} /\ n \notin DOMAIN h /\ g[n] = item
            /\ \A i \in DOMAIN h : g[i] = h[i] /\ i \in Nat /\ i < n
  OBVIOUS

\* File g is file h and the item at place n.
Longer(h, g, n) ==
  /\ g[n].kind = "checkpoint" => SeenIn(g) = {n}
  /\ g[n].kind # "checkpoint" => SeenIn(g) = SeenIn(h) \cup {n}
  /\ \A i \in SeenIn(h) : i \in DOMAIN h /\ g[i] = h[i] /\ i \in Nat /\ i < n
  /\ n \notin SeenIn(h) /\ n \in Nat
  /\ \A k \in DOMAIN g : k = n \/ (k \in DOMAIN h /\ g[k] = h[k] /\ k \in Nat /\ k < n)

LEMMA SeenAfter ==
  ASSUME NEW h \in Seq(ItemType), NEW item \in ItemType
  PROVE  LET g == Append(h, item) n == Len(h) + 1 IN g[n] = item /\ Longer(h, g, n)
  <1>0. PICK n, g : n = Len(h) + 1 /\ g = Append(h, item)  OBVIOUS
  <1>1. /\ n \in Nat /\ DOMAIN g = DOMAIN h \cup {n} /\ n \notin DOMAIN h /\ g[n] = item
        /\ \A i \in DOMAIN h : g[i] = h[i] /\ i \in Nat /\ i < n
    BY <1>0, AppendedItem
  <1>2. item.kind = "checkpoint" => CheckpointsOf(g) = CheckpointsOf(h) \cup {n}  BY <1>1 DEF CheckpointsOf
  <1>3. item.kind # "checkpoint" => CheckpointsOf(g) = CheckpointsOf(h)  BY <1>1 DEF CheckpointsOf
  <1>4. \A c \in CheckpointsOf(h) : c \in Nat /\ c < n  BY <1>1 DEF CheckpointsOf
  <1>5. item.kind = "checkpoint" => SeenIn(g) = {n}
    <2>1. \A i \in DOMAIN g : i >= n <=> i = n  BY <1>1
    <2>2. \A c \in CheckpointsOf(h) \cup {n} : c <= n  BY <1>1, <1>4
    <2>3. n \in DOMAIN g /\ \A i \in DOMAIN g : n <= i => i = n  BY <1>1, <2>1
    <2> QED BY <1>2, <2>2, <2>3 DEF SeenIn
  <1>6. item.kind # "checkpoint" => SeenIn(g) = SeenIn(h) \cup {n}  BY <1>1, <1>3, <1>4 DEF SeenIn
  <1>7. \A i \in SeenIn(h) : i \in DOMAIN h  BY DEF SeenIn
  <1>8. n \notin SeenIn(h) /\ \A i \in SeenIn(h) : i \in DOMAIN h /\ g[i] = h[i] /\ i \in Nat /\ i < n
    BY <1>1, <1>7
  <1>9. \A k \in DOMAIN g : k = n \/ (k \in DOMAIN h /\ g[k] = h[k] /\ k \in Nat /\ k < n)  BY <1>1
  <1>10. (item.kind = "checkpoint" => SeenIn(g) = {n}) /\ (item.kind # "checkpoint" => SeenIn(g) = SeenIn(h) \cup {n})
    BY <1>5, <1>6
  <1>11. Longer(h, g, n)  BY <1>1, <1>8, <1>9, <1>10 DEF Longer
  <1> QED BY <1>0, <1>1, <1>11

\* A checkpoint hides what came before it.
LEMMA CheckpointKeepsIds ==
  ASSUME NEW h \in Seq(ItemType), NEW item \in ItemType, item.kind = "checkpoint"
  PROVE  IdsFit(Append(h, item)) /\ SeenOf(Append(h, item), "call") = {}
  <1>1. PICK n, g : n = Len(h) + 1 /\ g = Append(h, item)  OBVIOUS
  <1>2. Longer(h, g, n) /\ g[n] = item  BY <1>1, SeenAfter
  <1>3. SeenOf(g, "call") = {} /\ SeenOf(g, "result") = {}  BY <1>2 DEF SeenOf, Longer
  <1> QED BY <1>1, <1>3 DEF IdsFit

\* Text may follow anything.
LEMMA TextKeepsIds ==
  ASSUME NEW h \in Seq(ItemType), NEW item \in ItemType, item.kind = "text", IdsFit(h)
  PROVE  IdsFit(Append(h, item))
         /\ \A i \in SeenOf(Append(h, item), "call") : i \in SeenOf(h, "call") /\ Append(h, item)[i] = h[i]
  <1>1. PICK n, g : n = Len(h) + 1 /\ g = Append(h, item)  OBVIOUS
  <1>0. Longer(h, g, n) /\ g[n] = item  BY <1>1, SeenAfter
  <1>2. /\ SeenIn(g) = SeenIn(h) \cup {n} /\ g[n] = item /\ n \notin SeenIn(h) /\ n \in Nat
        /\ \A i \in SeenIn(h) : i \in DOMAIN h /\ g[i] = h[i] /\ i \in Nat /\ i < n
        /\ \A k \in DOMAIN g : k = n \/ (k \in DOMAIN h /\ g[k] = h[k])
    BY <1>0 DEF Longer
  <1>3. \A kind \in {"call", "result"} : SeenOf(g, kind) = SeenOf(h, kind)  BY <1>2 DEF SeenOf
  <1>4. \A i \in SeenOf(h, "call") \cup SeenOf(h, "result") : g[i] = h[i] /\ i \in Nat /\ i < n  BY <1>2 DEF SeenOf
  <1>5. /\ \A kind \in {"call", "result"} : \A i, j \in SeenOf(g, kind) : g[i].id = g[j].id => i = j
        /\ \A j \in SeenOf(g, "result") : \E i \in SeenOf(g, "call") : i < j /\ g[i].id = g[j].id /\ g[i].run = g[j].run
    BY <1>3, <1>4 DEF IdsFit
  <1>6. ASSUME NEW i \in SeenOf(g, "call"), NEW j \in SeenOf(g, "result"), NEW k \in DOMAIN g,
               g[i].id = g[j].id, i < k, k < j
        PROVE  g[k].kind # "text"
    <2>1. k # n  BY <1>2, <1>3, <1>4, <1>6
    <2> QED BY <1>2, <1>3, <1>4, <1>6, <2>1 DEF IdsFit
  <1>7. IdsFit(g)  BY <1>5, <1>6 DEF IdsFit
  <1>8. \A i \in SeenOf(g, "call") : i \in SeenOf(h, "call") /\ g[i] = h[i]  BY <1>3, <1>4
  <1> QED BY <1>1, <1>7, <1>8

\* A call with an id that no call has yet.
LEMMA CallKeepsIds ==
  ASSUME NEW h \in Seq(ItemType), NEW item \in ItemType, item.kind = "call", IdsFit(h),
         \A i \in SeenOf(h, "call") : h[i].id # item.id
  PROVE  /\ IdsFit(Append(h, item))
         /\ \A i \in SeenOf(Append(h, item), "call") :
              (i \in SeenOf(h, "call") /\ Append(h, item)[i] = h[i]) \/ Append(h, item)[i] = item
  <1>1. PICK n, g : n = Len(h) + 1 /\ g = Append(h, item)  OBVIOUS
  <1>0. Longer(h, g, n) /\ g[n] = item  BY <1>1, SeenAfter
  <1>2. /\ SeenIn(g) = SeenIn(h) \cup {n} /\ g[n] = item /\ n \notin SeenIn(h) /\ n \in Nat
        /\ \A i \in SeenIn(h) : i \in DOMAIN h /\ g[i] = h[i] /\ i \in Nat /\ i < n
        /\ \A k \in DOMAIN g : k = n \/ (k \in DOMAIN h /\ g[k] = h[k])
    BY <1>0 DEF Longer
  <1>3. SeenOf(g, "call") = SeenOf(h, "call") \cup {n} /\ SeenOf(g, "result") = SeenOf(h, "result")
    BY <1>2 DEF SeenOf
  <1>4. \A i \in SeenOf(h, "call") \cup SeenOf(h, "result") : g[i] = h[i] /\ i \in Nat /\ i < n  BY <1>2 DEF SeenOf
  <1>5. \A i, j \in SeenOf(g, "call") : g[i].id = g[j].id => i = j  BY <1>2, <1>3, <1>4 DEF IdsFit
  <1>6. \A i, j \in SeenOf(g, "result") : g[i].id = g[j].id => i = j  BY <1>3, <1>4 DEF IdsFit
  <1>7. \A j \in SeenOf(g, "result") : \E i \in SeenOf(g, "call") : i < j /\ g[i].id = g[j].id /\ g[i].run = g[j].run
    BY <1>3, <1>4 DEF IdsFit
  <1>8. ASSUME NEW i \in SeenOf(g, "call"), NEW j \in SeenOf(g, "result"), NEW k \in DOMAIN g,
               g[i].id = g[j].id, i < k, k < j
        PROVE  g[k].kind # "text"
    <2>1. j \in Nat /\ j < n /\ j \in SeenOf(h, "result")  BY <1>3, <1>4
    <2>2. \E l \in SeenOf(h, "call") : h[l].id = h[j].id  BY <2>1 DEF IdsFit
    <2>3. i # n  BY <1>2, <1>4, <1>8, <2>1, <2>2
    <2>4. k # n
      <3>1. i \in Nat  BY <1>2, <1>3, <1>4
      <3> QED BY <1>2, <1>8, <2>1, <3>1
    <2> QED BY <1>2, <1>3, <1>4, <1>8, <2>3, <2>4 DEF IdsFit
  <1>9. \A i \in SeenOf(g, "call") : (i \in SeenOf(h, "call") /\ g[i] = h[i]) \/ g[i] = item  BY <1>2, <1>3, <1>4
  <1>10. IdsFit(g)  BY <1>5, <1>6, <1>7, <1>8 DEF IdsFit
  <1> QED BY <1>1, <1>9, <1>10

\* The result item answers the call at c of the file h: the same id and run, no
\* result of it yet, and no text after the call.
Replies(h, item, c) ==
  /\ item.kind = "result" /\ IdsFit(h)
  /\ c \in SeenOf(h, "call") /\ h[c].id = item.id /\ h[c].run = item.run
  /\ \A k \in DOMAIN h : c < k => h[k].kind # "text"
  /\ \A j \in SeenOf(h, "result") : h[j].id # item.id

\* The file with item at its end fits, and no call of it is new.
StillFits(h, item) ==
  /\ IdsFit(Append(h, item))
  /\ \A i \in SeenOf(Append(h, item), "call") : i \in SeenOf(h, "call") /\ Append(h, item)[i] = h[i]

\* The result of a call that has none yet, and after which nothing was said.
LEMMA ResultKeepsIds ==
  ASSUME NEW h \in Seq(ItemType), NEW item \in ItemType, NEW c, Replies(h, item, c)
  PROVE  StillFits(h, item)
  <1>a. /\ item.kind = "result" /\ IdsFit(h)
        /\ c \in SeenOf(h, "call") /\ h[c].id = item.id /\ h[c].run = item.run
        /\ \A k \in DOMAIN h : c < k => h[k].kind # "text"
        /\ \A j \in SeenOf(h, "result") : h[j].id # item.id
    BY DEF Replies
  <1>b. \A p \in SeenOf(h, "call"), q \in SeenOf(h, "result"), m \in DOMAIN h :
          h[p].id = h[q].id /\ p < m /\ m < q => h[m].kind # "text"
    BY <1>a DEF IdsFit
  <1>1. PICK n, g : n = Len(h) + 1 /\ g = Append(h, item)  OBVIOUS
  <1>0. Longer(h, g, n) /\ g[n] = item  BY <1>1, SeenAfter
  <1>2. /\ SeenIn(g) = SeenIn(h) \cup {n} /\ g[n] = item /\ n \notin SeenIn(h) /\ n \in Nat
        /\ \A i \in SeenIn(h) : i \in DOMAIN h /\ g[i] = h[i] /\ i \in Nat /\ i < n
        /\ \A k \in DOMAIN g : k = n \/ (k \in DOMAIN h /\ g[k] = h[k])
    BY <1>a, <1>0 DEF Longer
  <1>3. SeenOf(g, "call") = SeenOf(h, "call") /\ SeenOf(g, "result") = SeenOf(h, "result") \cup {n}
    BY <1>a, <1>2 DEF SeenOf
  <1>4. \A i \in SeenOf(h, "call") \cup SeenOf(h, "result") : g[i] = h[i] /\ i \in Nat /\ i < n  BY <1>2 DEF SeenOf
  <1>5. \A i, j \in SeenOf(g, "call") : g[i].id = g[j].id => i = j  BY <1>a, <1>3, <1>4 DEF IdsFit
  <1>6. \A i, j \in SeenOf(g, "result") : g[i].id = g[j].id => i = j  BY <1>a, <1>2, <1>3, <1>4 DEF IdsFit
  <1>7. \A j \in SeenOf(g, "result") : \E i \in SeenOf(g, "call") : i < j /\ g[i].id = g[j].id /\ g[i].run = g[j].run
    BY <1>a, <1>2, <1>3, <1>4 DEF IdsFit
  <1>8. ASSUME NEW i \in SeenOf(g, "call"), NEW j \in SeenOf(g, "result"), NEW k \in DOMAIN g,
               g[i].id = g[j].id, i < k, k < j
        PROVE  g[k].kind # "text"
    <2>1. CASE j = n
      <3>1. i = c  BY <1>a, <1>2, <1>3, <1>4, <1>5, <1>8, <2>1
      <3>2. k # n  BY <1>2, <1>8, <2>1
      <3> QED BY <1>a, <1>2, <1>8, <3>1, <3>2
    <2>2. CASE j # n
      <3>1. j \in SeenOf(h, "result") /\ j \in Nat /\ j < n  BY <1>3, <1>4, <2>2
      <3>2. k # n /\ k \in DOMAIN h /\ g[k] = h[k]  BY <1>2, <1>8, <3>1
      <3>3. i \in SeenOf(h, "call") /\ h[i].id = h[j].id  BY <1>3, <1>4, <1>8, <3>1
      <3>4. i < k /\ k < j  BY <1>8
      <3> QED BY <1>b, <3>1, <3>2, <3>3, <3>4
    <2> QED BY <2>1, <2>2
  <1>9. IdsFit(g)  BY <1>5, <1>6, <1>7, <1>8 DEF IdsFit
  <1>10. \A i \in SeenOf(g, "call") : i \in SeenOf(h, "call") /\ g[i] = h[i]  BY <1>3, <1>4
  <1> QED BY <1>1, <1>9, <1>10 DEF StillFits

-----------------------------------------------------------------------------
(* The view of a session is what is seen of its file *)

\* Natural induction on the elements of a set, from the fact that a finite set
\* has no injection into a part of itself: if x is missing from T, then adding
\* one maps the elements of T below x into those of them that are not zero.
LEMMA Induction ==
  ASSUME NEW T, 0 \in T, \A n \in Nat : n \in T => n + 1 \in T
  PROVE  Nat \subseteq T
  <1> SUFFICES ASSUME NEW x \in Nat, x \notin T PROVE FALSE  OBVIOUS
  <1> DEFINE A == T \cap (0 .. x)
             f == [k \in A |-> k + 1]
  <1>1. IsFiniteSet(A) /\ A \subseteq 0 .. x /\ 0 \in A
    <2>1. IsFiniteSet(0 .. x)  BY FS_Interval
    <2> QED BY <2>1, FS_Subset
  <1>2. \A k \in A : k \in Nat /\ k # x /\ k + 1 \in A \ {0}
    OBVIOUS
  <1>3. f \in Injection(A, A \ {0})
    BY <1>2 DEF Injection, IsInjective
  <1>4. IsFiniteSet(A \ {0}) /\ Cardinality(A \ {0}) = Cardinality(A) - 1 /\ Cardinality(A) \in Nat
    BY <1>1, FS_RemoveElement, FS_CardinalityType
  <1> HIDE DEF A, f
  <1>5. Cardinality(A) <= Cardinality(A \ {0})
    BY <1>3, <1>4, FS_Injection
  <1> QED BY <1>4, <1>5

\* Places of a file have a last one.
LEMMA LastPlace ==
  ASSUME NEW n \in Nat, NEW S \in SUBSET (1 .. n), S # {}
  PROVE  \E m \in S : \A j \in S : j <= m
  <1> DEFINE T == {k \in Nat : \A R \in SUBSET (1 .. k) : R # {} => \E m \in R : \A j \in R : j <= m}
  <1>1. 0 \in T
    <2>1. \A R \in SUBSET (1 .. 0) : \A j \in R : FALSE  OBVIOUS
    <2> QED BY <2>1
  <1>2. ASSUME NEW k \in Nat, k \in T PROVE k + 1 \in T
    <2> SUFFICES ASSUME NEW R \in SUBSET (1 .. k + 1), R # {} PROVE \E m \in R : \A j \in R : j <= m  OBVIOUS
    <2>1. CASE k + 1 \in R
      <3>1. \A j \in R : j <= k + 1  OBVIOUS
      <3> QED BY <2>1, <3>1
    <2>2. CASE k + 1 \notin R
      <3>1. R \in SUBSET (1 .. k)
        <4>1. \A j \in R : j \in 1 .. k + 1 /\ j # k + 1  BY <2>2
        <4>2. \A j \in R : j \in 1 .. k  BY <4>1
        <4> QED BY <4>2
      <3> QED BY <1>2, <3>1
    <2> QED BY <2>1, <2>2
  <1> HIDE DEF T
  <1>3. n \in T  BY <1>1, <1>2, Induction
  <1> QED BY <1>3 DEF T

\* v is what is seen of file h: all but its first d items.
ViewIs(h, v, d) ==
  /\ d \in Nat /\ d <= Len(h) /\ v \in Seq(ItemType) /\ Len(v) = Len(h) - d
  /\ \A i \in 1 .. Len(v) : v[i] = h[i + d]
  /\ SeenIn(h) = {i \in 1 .. Len(h) : i > d}

LEMMA ViewFacts ==
  ASSUME Types, NEW s \in Sessions
  PROVE  \E d \in Nat : ViewIs(hist[s], View(s), d)
  <1>1. PICK h : h = hist[s]  OBVIOUS
  <1>2. h \in Seq(ItemType) /\ Len(h) \in Nat /\ DOMAIN h = 1 .. Len(h)
    <2>1. h \in Seq(ItemType)  BY <1>1 DEF Types
    <2> QED BY <2>1
  <1>3. Checkpoints(s) = CheckpointsOf(h)  BY <1>1 DEF Checkpoints, CheckpointsOf
  <1>4. CASE CheckpointsOf(h) = {}
    <2>1. View(s) = h  BY <1>1, <1>3, <1>4 DEF View
    <2>2. SeenIn(h) = {i \in 1 .. Len(h) : i > 0}  BY <1>2, <1>4 DEF SeenIn
    <2>3. \A i \in 1 .. Len(h) : i + 0 = i  BY <1>2
    <2>4. ViewIs(h, h, 0)  BY <1>2, <2>2, <2>3 DEF ViewIs
    <2> QED BY <1>1, <2>1, <2>4
  <1>5. CASE CheckpointsOf(h) # {}
    <2> DEFINE last == CHOOSE i \in CheckpointsOf(h) : \A j \in CheckpointsOf(h) : j <= i
    <2>1. \E m \in CheckpointsOf(h) : \A j \in CheckpointsOf(h) : j <= m
      <3>1. CheckpointsOf(h) \in SUBSET (1 .. Len(h))  BY <1>2 DEF CheckpointsOf
      <3> QED BY <1>2, <1>5, <3>1, LastPlace
    <2>2. last \in CheckpointsOf(h) /\ \A j \in CheckpointsOf(h) : j <= last  BY <2>1
    <2>3. View(s) = SubSeq(h, last, Len(h))  BY <1>1, <1>3, <1>5 DEF View
    <2> HIDE DEF last
    <2>4. last \in 1 .. Len(h)  BY <1>2, <2>2 DEF CheckpointsOf
    <2>5. PICK d \in Nat : last = d + 1  BY <1>2, <2>4
    <2> DEFINE v == SubSeq(h, last, Len(h))
    <2>6. v \in Seq(ItemType) /\ Len(v) = Len(h) - d /\ \A i \in 1 .. Len(v) : v[i] = h[i + d]
      <3>1. \A i \in last .. Len(h) : i \in 1 .. Len(h) /\ h[i] \in ItemType  BY <1>2, <2>4
      <3>2. v \in Seq(ItemType)  BY <1>2, <2>4, <3>1, SubSeqProperties
      <3>3. Len(v) = (IF last <= Len(h) THEN Len(h) - last + 1 ELSE 0)  BY <1>2, <2>4, <3>1, SubSeqProperties
      <3>4. Len(v) = Len(h) - d /\ Len(v) = Len(h) - last + 1  BY <1>2, <2>4, <2>5, <3>3
      <3>5. \A i \in 1 .. Len(h) - last + 1 : v[i] = h[last + i - 1]  BY <1>2, <2>4, <3>1, SubSeqProperties
      <3>6. \A i \in 1 .. Len(h) - last + 1 : last + i - 1 = i + d  BY <1>2, <2>4, <2>5
      <3> HIDE DEF v
      <3> QED BY <3>2, <3>4, <3>5, <3>6
    <2>7. SeenIn(h) = {i \in 1 .. Len(h) : i > d}
      <3>1. \A i \in 1 .. Len(h) : i > d <=> last <= i  BY <1>2, <2>4, <2>5
      <3>2. \A c \in CheckpointsOf(h) : c \in 1 .. Len(h)  BY <1>2 DEF CheckpointsOf
      <3>3. \A i \in 1 .. Len(h) : (\A c \in CheckpointsOf(h) : c <= i) <=> last <= i  BY <1>2, <2>2, <2>4, <3>2
      <3> QED BY <1>2, <3>1, <3>3 DEF SeenIn
    <2>8. ViewIs(h, v, d)
      <3>1. d <= Len(h)  BY <1>2, <2>4, <2>5
      <3> HIDE DEF v
      <3> QED BY <2>5, <2>6, <2>7, <3>1 DEF ViewIs
    <2> QED BY <1>1, <2>3, <2>5, <2>8
  <1> QED BY <1>4, <1>5

\* Place i of a view is place i + d of its file.
LEMMA ViewPlaces ==
  ASSUME NEW h \in Seq(ItemType), NEW v, NEW d, ViewIs(h, v, d)
  PROVE  /\ Len(v) \in Nat /\ DOMAIN v = 1 .. Len(v) /\ d \in Nat
         /\ \A i \in DOMAIN v : i \in Nat /\ i + d \in SeenIn(h) /\ v[i] = h[i + d]
         /\ \A j \in SeenIn(h) : j - d \in DOMAIN v /\ v[j - d] = h[j] /\ j \in Nat
         /\ \A i, j \in DOMAIN v : (i + d = j + d => i = j) /\ (i < j <=> i + d < j + d)
  <1>1. /\ d \in Nat /\ d <= Len(h) /\ v \in Seq(ItemType) /\ Len(v) = Len(h) - d
        /\ \A i \in 1 .. Len(v) : v[i] = h[i + d]
        /\ SeenIn(h) = {i \in 1 .. Len(h) : i > d}
    BY DEF ViewIs
  <1>2. Len(h) \in Nat /\ Len(v) \in Nat /\ DOMAIN v = 1 .. Len(v)  BY <1>1
  <1>3. \A i \in 1 .. Len(v) : i \in Nat /\ i + d \in 1 .. Len(h) /\ i + d > d  BY <1>1, <1>2
  <1>4. \A j \in SeenIn(h) : j \in Nat /\ j - d \in 1 .. Len(v) /\ (j - d) + d = j  BY <1>1, <1>2
  <1>5. \A j \in SeenIn(h) : v[j - d] = h[j]
    <2> SUFFICES ASSUME NEW j \in SeenIn(h) PROVE v[j - d] = h[j]  OBVIOUS
    <2>1. PICK i \in 1 .. Len(v) : i = j - d /\ i + d = j  BY <1>4
    <2> QED BY <1>1, <2>1
  <1>6. \A i, j \in 1 .. Len(v) : (i + d = j + d => i = j) /\ (i < j <=> i + d < j + d)  BY <1>1, <1>2
  <1> QED BY <1>1, <1>2, <1>3, <1>4, <1>5, <1>6

\* What is valid in a file is valid in its view.
LEMMA ViewFits ==
  ASSUME NEW h \in Seq(ItemType), NEW v, NEW d, ViewIs(h, v, d), IdsFit(h)
  PROVE  /\ Valid(v) /\ CallIds(v) = {h[i].id : i \in SeenOf(h, "call")}
         /\ \A i \in DOMAIN v : v[i].kind = "call" => \A j \in i + 1 .. Len(v) :
              v[j].kind = "result" /\ v[j].id = v[i].id => \A k \in i .. j : v[k].kind # "text"
  <1>1. /\ Len(v) \in Nat /\ DOMAIN v = 1 .. Len(v) /\ d \in Nat
        /\ \A i \in DOMAIN v : i \in Nat /\ i + d \in SeenIn(h) /\ v[i] = h[i + d]
        /\ \A j \in SeenIn(h) : j - d \in DOMAIN v /\ v[j - d] = h[j] /\ j \in Nat
        /\ \A i, j \in DOMAIN v : (i + d = j + d => i = j) /\ (i < j <=> i + d < j + d)
    BY ViewPlaces
  <1>2. \A i \in DOMAIN v : \A kind : v[i].kind = kind => i + d \in SeenOf(h, kind)  BY <1>1 DEF SeenOf
  <1>3. ASSUME NEW i \in DOMAIN v, v[i].kind \in {"call", "result"}, NEW j \in 1 .. i - 1, v[j].kind = v[i].kind
        PROVE  v[j].id # v[i].id
    <2>1. j \in DOMAIN v /\ i # j  BY <1>1, <1>3
    <2>2. h[i + d].id = h[j + d].id => i + d = j + d
      BY <1>2, <1>3, <2>1 DEF IdsFit
    <2> QED BY <1>1, <2>1, <2>2
  <1>4. ASSUME NEW j \in DOMAIN v, v[j].kind = "result"
        PROVE  \E i \in 1 .. j - 1 : v[i].kind = "call" /\ v[i].id = v[j].id
    <2>1. PICK c \in SeenOf(h, "call") : c < j + d /\ h[c].id = h[j + d].id  BY <1>2, <1>4 DEF IdsFit
    <2>2. c \in SeenIn(h) /\ h[c].kind = "call"  BY DEF SeenOf
    <2>3. PICK i \in DOMAIN v : i = c - d  BY <1>1, <2>2
    <2>4. v[i] = h[c] /\ i \in 1 .. j - 1  BY <1>1, <2>1, <2>2, <2>3
    <2> QED BY <1>1, <2>1, <2>2, <2>4
  <1>5. Valid(v)  BY <1>3, <1>4 DEF Valid
  <1>6. CallIds(v) = {h[i].id : i \in SeenOf(h, "call")}
    <2>1. ASSUME NEW id \in CallIds(v) PROVE id \in {h[i].id : i \in SeenOf(h, "call")}
      <3>1. PICK i \in DOMAIN v : v[i].kind = "call" /\ id = v[i].id  BY <2>1 DEF CallIds
      <3> QED BY <1>1, <1>2, <3>1
    <2>2. ASSUME NEW c \in SeenOf(h, "call") PROVE h[c].id \in CallIds(v)
      <3>1. c - d \in DOMAIN v /\ v[c - d] = h[c] /\ h[c].kind = "call"  BY <1>1 DEF SeenOf
      <3> QED BY <3>1 DEF CallIds
    <2> QED BY <2>1, <2>2
  <1>7. ASSUME NEW i \in DOMAIN v, v[i].kind = "call", NEW j \in i + 1 .. Len(v), v[j].kind = "result", v[j].id = v[i].id,
               NEW k \in i .. j
        PROVE  v[k].kind # "text"
    <2>1. j \in DOMAIN v /\ k \in DOMAIN v /\ i \in Nat /\ j \in Nat /\ k \in Nat  BY <1>1, <1>7
    <2>2. CASE k \in {i, j}  BY <1>7, <2>2
    <2>3. CASE k \notin {i, j}
      <3>1. i < k /\ k < j  BY <1>7, <2>1, <2>3
      <3>2. i + d < k + d /\ k + d < j + d  BY <1>1, <2>1, <3>1
      <3>3. i + d \in SeenOf(h, "call") /\ j + d \in SeenOf(h, "result") /\ h[i + d].id = h[j + d].id
        BY <1>1, <1>2, <1>7, <2>1
      <3>4. k + d \in DOMAIN h  BY <1>1, <2>1 DEF SeenIn
      <3>5. h[k + d].kind # "text"  BY <3>2, <3>3, <3>4 DEF IdsFit
      <3> QED BY <1>1, <2>1, <3>5
    <2> QED BY <2>2, <2>3
  <1> QED BY <1>5, <1>6, <1>7

-----------------------------------------------------------------------------
(* The inductive invariant of replay *)

\* A session is compacted by a run that then is done.
CheckpointsFit(s) == \A c \in Checkpoints(s) : step[hist[s][c].run] = "done"

\* Where a run knows every call its session's model sees; where it has calls
\* of an answer to persist.
Knowing == Working \ {"reading", "summarising", "clearing"}
Asked == {"recording", "speaking", "persisting"}

KnownFits(r) ==
  step[r] \in Knowing =>
    \A i \in SeenOf(hist[SessionOf[r]], "call") : hist[SessionOf[r]][i].id \in known[r]

NewFits(r) == step[r] \in Asked => \A k \in DOMAIN turn[r] : k > persisted[r] => turn[r][k].id \notin known[r]

\* The calls a run persisted are in its file, and it said nothing since.
PersistedFits(r) ==
  step[r] \in Batching => \A k \in 1 .. persisted[r] :
    \E i \in Calls(r) : Entry(r, i).id = turn[r][k].id /\ \A j \in Mine(r) : j > i => Entry(r, j).kind # "text"

ReplayInv ==
  /\ \A s \in Sessions : IdsFit(hist[s]) /\ CheckpointsFit(s)
  /\ \A r \in Runs : KnownFits(r) /\ NewFits(r) /\ PersistedFits(r)

\* A builder begins with a transcript that has every call of the session.
PlanIsCurrent(r) == KindOf[r] = "build" => CallIds(View(SessionOf[r])) \subseteq known[r]
CurrentPlans == \A r \in Runs : Start(r) => PlanIsCurrent(r)

-----------------------------------------------------------------------------
(* What a step of a run does to its session *)

Later(r) ==
  /\ step'[r] \in Knowing => step[r] \in Knowing
  /\ step'[r] \in Asked => step[r] \in Asked
  /\ step'[r] \in Batching => step[r] \in Batching
\* The run ends, or keeps its transcript and batch.
Same(r) ==
  step'[r] = "done" \/ (known'[r] = known[r] /\ turn'[r] = turn[r] /\ persisted'[r] = persisted[r] /\ Later(r))

Puts(r, item) == item \in ItemType /\ item.run = r /\ step[r] \in Working /\ Written(SessionOf[r], item)

\* Nothing; it takes in what the session has; it takes calls with new ids.
Idles(r) == UNCHANGED hist /\ Same(r)
Reads(r) == UNCHANGED hist /\ step'[r] = "greeting" /\ CallIds(View(SessionOf[r])) \subseteq known'[r]
Admits(r) ==
  /\ UNCHANGED hist /\ step[r] = "asking" /\ step'[r] \in {"committing", "recording"}
  /\ known'[r] = known[r] /\ persisted'[r] = 0 /\ \A k \in DOMAIN turn'[r] : turn'[r][k].id \notin known[r]
\* Text; a call, acknowledged or not; the result of a call; a checkpoint.
Says(r) ==
  \E item : Puts(r, item) /\ item.kind = "text" /\ Same(r) /\ (step'[r] \in Batching => persisted[r] = 0)
CallsOne(r) ==
  \E item :
    /\ Puts(r, item) /\ item.kind = "call" /\ item.id = turn[r][persisted[r] + 1].id
    /\ step[r] = "persisting" /\ turn'[r] = turn[r]
    /\ \/ known'[r] = known[r] \cup {item.id} /\ persisted'[r] = persisted[r] + 1 /\ step'[r] \in {"persisting", "executing"}
       \/ known'[r] = known[r] /\ persisted'[r] = persisted[r] /\ step'[r] \in {"clearing", "done"}
ResultsOne(r) ==
  \E item : \E k \in 1 .. persisted[r] :
    /\ Puts(r, item) /\ item.kind = "result" /\ item.id = turn[r][k].id /\ item.id \notin tried[r]
    /\ step[r] \in {"settling", "clearing"} /\ Same(r)
Folds(r) == \E item : Puts(r, item) /\ item.kind = "checkpoint" /\ step'[r] = "done"

Affects(r) == Idles(r) \/ Reads(r) \/ Admits(r) \/ Says(r) \/ CallsOne(r) \/ ResultsOne(r) \/ Folds(r)

LEMMA LaterPlaces ==
  ASSUME NEW r \in Runs
  PROVE  /\ step'[r] \in {"done", "summarising", "reading"} => Later(r)
         /\ step[r] = "greeting" /\ step'[r] = "asking" => Later(r)
         /\ step[r] = "committing" /\ step'[r] = "confirming" => Later(r)
         /\ step[r] \in Asked /\ step'[r] \in Asked \cup {"clearing"} => Later(r)
         /\ step[r] \in {"executing", "running", "settling"} /\ step'[r] \in {"asking", "running", "settling", "clearing"} => Later(r)
         /\ step[r] = "clearing" /\ step'[r] = "clearing" => Later(r)
  BY DEF Later, Knowing, Asked, Batching, Working

\* Every place a run can be at that it works from.
LEMMA Puttings ==
  ASSUME NEW r \in Runs, NEW item \in ItemType, item.run = r, step[r] \in Working,
         UNCHANGED hist \/ Written(SessionOf[r], item)
  PROVE  UNCHANGED hist \/ Puts(r, item)
  BY DEF Puts

LEMMA StartAffects ==
  ASSUME Types, QueuesFit, NEW r \in Runs, Start(r), PlanIsCurrent(r)
  PROVE  Affects(r)
  <1>1. step[r] = "queued" /\ UNCHANGED <<hist, transcript, batch>>  BY DEF Start, Stands
  <1>2. known'[r] = known[r] /\ turn'[r] = turn[r] /\ persisted'[r] = persisted[r]  BY <1>1 DEF transcript, batch
  <1>3. \/ \E why : End(r, why)
        \/ (Go(r, "greeting") /\ KindOf[r] = "build") \/ Go(r, "summarising") \/ Go(r, "reading")
    <2>1. CASE KindOf[r] = "compact"  BY <2>1 DEF Start
    <2>2. CASE KindOf[r] = "build"  BY <2>2 DEF Start
    <2>3. CASE KindOf[r] \notin {"build", "compact"}  BY <2>3 DEF Start
    <2> QED BY <2>1, <2>2, <2>3
  <1>4. step'[r] \in {"done", "summarising", "reading"} \/ (step'[r] = "greeting" /\ KindOf[r] = "build")
    BY <1>1, <1>3, AfterEnd, AfterGo
  <1>5. CASE step'[r] \in {"done", "summarising", "reading"}
    BY SMTT(20), <1>1, <1>2, <1>5, LaterPlaces DEF Affects, Idles, Same
  <1>6. CASE step'[r] = "greeting" /\ KindOf[r] = "build"
    BY <1>1, <1>2, <1>6 DEF Affects, Reads, PlanIsCurrent
  <1> QED BY <1>4, <1>5, <1>6

LEMMA ReadAffects ==
  ASSUME Types, QueuesFit, NEW r \in Runs, Read(r)
  PROVE  Affects(r)
  <1>1. step[r] = "reading" /\ UNCHANGED <<hist, turn, batch>>  BY DEF Read, Stands
  <1>2. \/ (\E why : End(r, why)) /\ UNCHANGED known
        \/ known' = [known EXCEPT ![r] = CallIds(View(SessionOf[r]))] /\ ((\E why : End(r, why)) \/ Go(r, "greeting"))
    BY DEF Read
  <1>3. turn'[r] = turn[r] /\ persisted'[r] = persisted[r]  BY <1>1 DEF batch
  <1>4. CASE \E why : End(r, why)
    <2>1. step'[r] = "done"  BY <1>4, AfterEnd
    <2> QED BY <1>1, <2>1 DEF Affects, Idles, Same
  <1>5. CASE known' = [known EXCEPT ![r] = CallIds(View(SessionOf[r]))] /\ Go(r, "greeting")
    <2>1. step'[r] = "greeting"  BY <1>1, <1>5, AfterGo
    <2>2. known'[r] = CallIds(View(SessionOf[r]))  BY <1>5 DEF Types, Local
    <2> QED BY <1>1, <2>1, <2>2 DEF Affects, Reads
  <1> QED BY <1>2, <1>4, <1>5

LEMMA GreetAffects ==
  ASSUME Types, QueuesFit, NEW r \in Runs, RunFits(r), Greet(r)
  PROVE  Affects(r)
  <1>1. PICK item : item = Item("text", None, r, "user")  OBVIOUS
  <1>2. item \in ItemType /\ item.run = r /\ item.kind = "text"  BY <1>1, ItemTypes, Spoken DEF Item
  <1>3. /\ step[r] = "greeting" /\ UNCHANGED <<known, turn, batch>> /\ (UNCHANGED hist \/ Written(SessionOf[r], item))
        /\ End(r, "storage") \/ NextStep(r)
    BY <1>1 DEF Greet, Stands, Refused, Acknowledged
  <1>4. step[r] \in Working /\ persisted[r] = 0  BY <1>3 DEF Working, RunFits, BatchFits
  <1>5. step'[r] \in {"done", "asking"}
    <2>1. step \in [Runs -> Places]  BY DEF Types, Shared
    <2> QED BY <1>3, <2>1, AfterEnd, NextStepMoves
  <1>6. known'[r] = known[r] /\ turn'[r] = turn[r] /\ persisted'[r] = persisted[r]  BY <1>3 DEF batch
  <1>7. Same(r) /\ (UNCHANGED hist \/ Puts(r, item))  BY <1>2, <1>3, <1>4, <1>5, <1>6, LaterPlaces, Puttings DEF Same
  <1> QED BY <1>2, <1>4, <1>7 DEF Affects, Idles, Says

LEMMA AnswerAffects ==
  ASSUME Types, QueuesFit, NEW r \in Runs, RunFits(r), Answer(r) \/ ProviderFails(r)
  PROVE  Affects(r)
  <1>1. step[r] = "asking" /\ UNCHANGED hist  BY DEF Answer, ProviderFails, Stands
  <1>2. CASE \E why : End(r, why)
    <2>1. step'[r] = "done"  BY <1>2, AfterEnd
    <2> QED BY <1>1, <2>1 DEF Affects, Idles, Same
  <1>3. ASSUME ~\E why : End(r, why) PROVE Affects(r)
    <2>1. PICK calls \in Turns[r] :
            /\ Rejection(r, calls) = "" /\ turn' = [turn EXCEPT ![r] = calls] /\ persisted' = [persisted EXCEPT ![r] = 0]
            /\ Go(r, IF calls = <<>> THEN "committing" ELSE "recording") /\ UNCHANGED known
      BY <1>3 DEF Answer, ProviderFails
    <2>2. Ids(calls) \cap known[r] = {}  BY <2>1, Admitted DEF RunFits
    <2>3. step'[r] \in {"committing", "recording"}
      <3>1. step'[r] = (IF calls = <<>> THEN "committing" ELSE "recording")
        BY <1>1, <2>1, AfterGo
      <3> QED BY <3>1
    <2>4. turn'[r] = calls /\ persisted'[r] = 0 /\ known'[r] = known[r]  BY <2>1 DEF Types, Local
    <2>5. \A k \in DOMAIN turn'[r] : turn'[r][k].id \notin known[r]  BY <2>2, <2>4 DEF Ids
    <2> QED BY <1>1, <2>3, <2>4, <2>5 DEF Affects, Admits
  <1> QED BY <1>2, <1>3

LEMMA CommitAffects ==
  ASSUME Types, QueuesFit, NEW r \in Runs, Commit(r)
  PROVE  Affects(r)
  <1>1. PICK item : item = Item("text", None, r, "answer")  OBVIOUS
  <1>2. item \in ItemType /\ item.run = r /\ item.kind = "text"  BY <1>1, ItemTypes, Spoken DEF Item
  <1>3. /\ step[r] = "committing" /\ UNCHANGED <<transcript, persisted>> /\ (UNCHANGED hist \/ Written(SessionOf[r], item))
        /\ Go(r, "confirming")
    BY <1>1 DEF Commit, Stands, Refused
  <1>4. step[r] \in Working  BY <1>3 DEF Working
  <1>5. step'[r] = "confirming" /\ step'[r] \notin Batching  BY <1>3, AfterGo DEF Batching
  <1>6. known'[r] = known[r] /\ turn'[r] = turn[r] /\ persisted'[r] = persisted[r]  BY <1>3 DEF transcript
  <1>7. Same(r) /\ (UNCHANGED hist \/ Puts(r, item))  BY <1>2, <1>3, <1>4, <1>5, <1>6, LaterPlaces, Puttings DEF Same
  <1> QED BY <1>2, <1>5, <1>7 DEF Affects, Idles, Says

LEMMA ConfirmAffects ==
  ASSUME Types, NEW r \in Runs, Confirm(r)
  PROVE  Affects(r)
  <1>1. UNCHANGED hist /\ ((\E why : End(r, why)) \/ Settled(r, "answered"))  BY DEF Confirm
  <1>2. step'[r] = "done"  BY <1>1, AfterEnd DEF Settled, Types, Shared
  <1> QED BY <1>1, <1>2 DEF Affects, Idles, Same

LEMMA RecordAffects ==
  ASSUME Types, QueuesFit, NEW r \in Runs, Record(r)
  PROVE  Affects(r)
  <1>1. /\ step[r] = "recording" /\ UNCHANGED <<hist, transcript, batch>>
        /\ ((\E why : End(r, why)) \/ Go(r, "speaking") \/ Go(r, "persisting"))
    BY DEF Record, Stands
  <1>2. step'[r] \in {"done", "speaking", "persisting"}  BY <1>1, AfterEnd, AfterGo
  <1>3. known'[r] = known[r] /\ turn'[r] = turn[r] /\ persisted'[r] = persisted[r]  BY <1>1 DEF transcript, batch
  <1>4. step[r] \in Asked /\ step'[r] \in Asked \cup {"done"}  BY <1>1, <1>2 DEF Asked
  <1>5. Same(r)  BY <1>3, <1>4, LaterPlaces DEF Same
  <1> QED BY <1>1, <1>5 DEF Affects, Idles

LEMMA SpeakAffects ==
  ASSUME Types, QueuesFit, NEW r \in Runs, RunFits(r), Speak(r)
  PROVE  Affects(r)
  <1>1. PICK item : item = Item("text", None, r, "reply")  OBVIOUS
  <1>2. item \in ItemType /\ item.run = r /\ item.kind = "text"  BY <1>1, ItemTypes, Spoken DEF Item
  <1>3. /\ step[r] = "speaking" /\ UNCHANGED <<transcript, batch>> /\ (UNCHANGED hist \/ Written(SessionOf[r], item))
        /\ ((\E why : End(r, why)) \/ Go(r, "persisting"))
    BY <1>1 DEF Speak, Stands, Refused, Acknowledged
  <1>4. step[r] \in Working /\ persisted[r] = 0  BY <1>3 DEF Working, RunFits, BatchFits
  <1>5. step[r] \in Asked /\ step'[r] \in Asked \cup {"done"}
    <2>1. step'[r] \in {"done", "persisting"}  BY <1>3, AfterEnd, AfterGo
    <2> QED BY <1>3, <2>1 DEF Asked
  <1>6. known'[r] = known[r] /\ turn'[r] = turn[r] /\ persisted'[r] = persisted[r]  BY <1>3 DEF transcript, batch
  <1>7. Same(r) /\ (UNCHANGED hist \/ Puts(r, item))  BY <1>2, <1>3, <1>4, <1>5, <1>6, LaterPlaces, Puttings DEF Same
  <1> QED BY <1>2, <1>4, <1>7 DEF Affects, Idles, Says

LEMMA PersistAffects ==
  ASSUME Types, QueuesFit, NEW r \in Runs, RunFits(r), Persist(r)
  PROVE  Affects(r)
  <1>0. step[r] = "persisting" /\ step[r] \in Batching /\ step[r] \in Working /\ step[r] \in Asked
    BY DEF Persist, Stands, Batching, Working, Asked
  <1>1. PICK n, id : n = persisted[r] + 1 /\ id = turn[r][n].id  OBVIOUS
  <1>2. n \in 1 .. Len(turn[r])
    <2>1. persisted[r] \in Nat /\ Len(turn[r]) \in Nat /\ persisted[r] < Len(turn[r])  BY <1>0, UnbegunFacts
    <2> QED BY <1>1, <2>1
  <1>3. id \in AllIds  BY <1>0, <1>1, <1>2, BatchCalls DEF RunFits
  <1>4. PICK item : item = Item("call", id, r, "")  OBVIOUS
  <1>5. item \in ItemType /\ item.run = r /\ item.kind = "call" /\ item.id = id
    BY <1>3, <1>4, ItemTypes, Spoken DEF Item
  <1>6. /\ \/ \E why \in Failures \ {""} : SettleLeft(r, tried[r], why) /\ UNCHANGED <<hist, known, persisted>>
           \/ Refused(SessionOf[r], item) /\ SettleLeft(r, tried[r], "storage") /\ UNCHANGED <<known, persisted>>
           \/ /\ Acknowledged(SessionOf[r], item)
              /\ known' = [known EXCEPT ![r] = @ \cup {id}]
              /\ persisted' = [persisted EXCEPT ![r] = n]
              /\ Go(r, IF n = Len(turn[r]) THEN "executing" ELSE "persisting")
        /\ UNCHANGED turn
    BY <1>1, <1>4, InterruptionFails DEF Persist
  <1>7. ASSUME NEW why, SettleLeft(r, tried[r], why) PROVE step'[r] \in {"done", "clearing"}
    BY <1>0, <1>7, AfterEnd, AfterGo DEF SettleLeft
  <1>8. CASE UNCHANGED <<hist, known, persisted>> /\ \E why : SettleLeft(r, tried[r], why)
    <2>1. Same(r)  BY <1>0, <1>6, <1>7, <1>8, LaterPlaces DEF Same
    <2> QED BY <1>8, <2>1 DEF Affects, Idles
  <1>9. CASE UNCHANGED <<known, persisted>> /\ Written(SessionOf[r], item) /\ \E why : SettleLeft(r, tried[r], why)
    <2>1. step'[r] \in {"clearing", "done"}  BY <1>7, <1>9
    <2> QED BY <1>0, <1>1, <1>5, <1>6, <1>9, <2>1 DEF Affects, CallsOne, Puts
  <1>10. CASE /\ Acknowledged(SessionOf[r], item)
              /\ known' = [known EXCEPT ![r] = @ \cup {id}]
              /\ persisted' = [persisted EXCEPT ![r] = n]
              /\ Go(r, IF n = Len(turn[r]) THEN "executing" ELSE "persisting")
    <2>1. step'[r] \in {"persisting", "executing"}
      <3>1. step'[r] = IF n = Len(turn[r]) THEN "executing" ELSE "persisting"  BY <1>0, <1>10, AfterGo
      <3> QED BY <3>1
    <2>2. known'[r] = known[r] \cup {id} /\ persisted'[r] = n  BY <1>10 DEF Types, Local
    <2>3. Written(SessionOf[r], item)  BY <1>10 DEF Acknowledged
    <2>4. Puts(r, item) /\ item.id = turn[r][persisted[r] + 1].id  BY <1>0, <1>1, <1>5, <2>3 DEF Puts
    <2>5. known'[r] = known[r] \cup {item.id} /\ persisted'[r] = persisted[r] + 1 /\ turn'[r] = turn[r]
      BY <1>1, <1>5, <1>6, <2>2
    <2>6. CallsOne(r)  BY <1>0, <1>5, <2>1, <2>4, <2>5 DEF CallsOne
    <2> QED BY <2>6 DEF Affects
  <1> QED BY <1>6, <1>8, <1>9, <1>10 DEF Refused

\* A tool is started or returns.
LEMMA AtCallPlaces ==
  ASSUME Types, QueuesFit, NEW r \in Runs, step[r] \in {"executing", "running", "settling"}, NEW i, AtCall(r, i)
  PROVE  step'[r] \in {"done", "asking", "running", "settling"}
  <1>1. step \in [Runs -> Places]  BY DEF Types, Shared
  <1>2. NextStep(r) \/ step' = [step EXCEPT ![r] = "running"] \/ Go(r, "settling")  BY DEF AtCall
  <1> QED BY <1>1, <1>2, NextStepMoves, AfterGo

LEMMA ToolAffects ==
  ASSUME Types, QueuesFit, NEW r \in Runs, Execute(r) \/ ToolReturns(r)
  PROVE  Affects(r)
  <1>1. /\ step[r] \in {"executing", "running", "settling"} /\ UNCHANGED <<hist, known, turn, persisted>>
        /\ AtCall(r, 1) \/ Go(r, "settling")
    BY DEF Execute, ToolReturns, Stands, transcript
  <1>2. step'[r] \in {"done", "asking", "running", "settling"}  BY <1>1, AtCallPlaces, AfterGo
  <1>3. Same(r)  BY <1>1, <1>2, LaterPlaces DEF Same
  <1> QED BY <1>1, <1>3 DEF Affects, Idles

LEMMA SettleAffects ==
  ASSUME Types, QueuesFit, NEW r \in Runs, RunFits(r), Settle(r)
  PROVE  Affects(r)
  <1>0. step[r] = "settling" /\ step[r] \in Batching /\ step[r] \in Working  BY DEF Settle, Stands, Batching, Working
  <1>1. PICK i \in 1 .. Len(turn[r]) : SettlingAt(r, i)  BY <1>0 DEF RunFits, BatchFits
  <1>2. AtNumber(r, i) /\ i \in Nat
    <2>1. Len(turn[r]) \in Nat  BY <1>0, BatchFacts
    <2>2. AtNumber(r, i)  BY <1>1 DEF SettlingAt
    <2> QED BY <2>1, <2>2
  <1>3. PICK id : id = Head(todo[r]).id  OBVIOUS
  <1>4. /\ id = turn[r][i].id /\ id \in AllIds /\ id \notin tried[r]
        /\ Head(todo[r]).content \in Contents \ {"user", "reply", "answer"}
    BY <1>0, <1>2, <1>3, AtNumberFacts DEF RunFits
  <1>5. persisted[r] = Len(turn[r])  BY <1>0 DEF RunFits, BatchFits
  <1>6. PICK item : item = Appending(r)  OBVIOUS
  <1>7. item \in ItemType /\ item.run = r /\ item.kind = "result" /\ item.id = id
    <2>1. item = Item("result", id, r, Head(todo[r]).content)  BY <1>3, <1>6 DEF Appending
    <2>2. item \in ItemType  BY <1>4, <2>1, ItemTypes
    <2> QED BY <2>1, <2>2 DEF Item
  <1>8. /\ UNCHANGED <<known, turn, persisted>> /\ (UNCHANGED hist \/ Written(SessionOf[r], item))
        /\ \/ \E why : End(r, why)
           \/ Go(r, "clearing") \/ Go(r, "settling")
           \/ \E n : AtCall(r, n)
    BY <1>6 DEF Settle, Refused, Acknowledged, SettleLeft
  <1>9. step'[r] \in {"done", "asking", "running", "settling", "clearing"}
    BY <1>0, <1>8, AfterEnd, AfterGo, AtCallPlaces
  <1>10. Same(r) /\ (UNCHANGED hist \/ Puts(r, item))
    BY <1>0, <1>7, <1>8, <1>9, LaterPlaces, Puttings DEF Same
  <1> QED BY <1>0, <1>1, <1>4, <1>5, <1>7, <1>10 DEF Affects, Idles, ResultsOne

LEMMA ClearAffects ==
  ASSUME Types, QueuesFit, NEW r \in Runs, RunFits(r), Clear(r)
  PROVE  Affects(r)
  <1>0. step[r] = "clearing" /\ step[r] \in Batching /\ step[r] \in Working  BY DEF Clear, Stands, Batching, Working
  <1>1. PICK i \in Untouched(r, tried[r]) :
          LET item == Item("result", turn[r][i].id, r, "skipped")
          IN /\ (UNCHANGED hist \/ Written(SessionOf[r], item))
             /\ ((\E why : End(r, why)) \/ Go(r, "clearing"))
             /\ UNCHANGED <<transcript, persisted>>
    BY DEF Clear, Refused, Acknowledged
  <1>2. PICK id, item : id = turn[r][i].id /\ item = Item("result", id, r, "skipped")  OBVIOUS
  <1>3. i \in 1 .. persisted[r] /\ id \notin tried[r]  BY <1>2 DEF Untouched
  <1>4. id \in AllIds
    <2>1. persisted[r] \in 0 .. Len(turn[r]) /\ Len(turn[r]) \in Nat  BY <1>0, BatchCalls DEF RunFits
    <2>2. i \in 1 .. Len(turn[r])  BY <1>3, <2>1, InPrefix
    <2> QED BY <1>0, <1>2, <2>2, BatchCalls DEF RunFits
  <1>5. item \in ItemType /\ item.run = r /\ item.kind = "result" /\ item.id = id
    BY <1>2, <1>4, ItemTypes, Spoken DEF Item
  <1>6. UNCHANGED <<known, turn, persisted>> /\ (UNCHANGED hist \/ Written(SessionOf[r], item))
        /\ ((\E why : End(r, why)) \/ Go(r, "clearing"))
    BY <1>1, <1>2 DEF transcript
  <1>7. step'[r] \in {"done", "clearing"}  BY <1>0, <1>6, AfterEnd, AfterGo
  <1>8. Same(r) /\ (UNCHANGED hist \/ Puts(r, item))
    BY <1>0, <1>5, <1>6, <1>7, LaterPlaces, Puttings DEF Same
  <1> QED BY <1>0, <1>2, <1>3, <1>5, <1>8 DEF Affects, Idles, ResultsOne

LEMMA SummariseAffects ==
  ASSUME Types, NEW r \in Runs, Summarise(r)
  PROVE  Affects(r)
  <1>1. PICK item : item = Item("checkpoint", None, r, "")  OBVIOUS
  <1>2. item \in ItemType /\ item.run = r /\ item.kind = "checkpoint"  BY <1>1, ItemTypes, Spoken DEF Item
  <1>3. step[r] \in Working /\ (UNCHANGED hist \/ Written(SessionOf[r], item)) /\ \E why : End(r, why)
    BY <1>1 DEF Summarise, Stands, Working
  <1>4. step'[r] = "done"  BY <1>3, AfterEnd
  <1> QED BY <1>2, <1>3, <1>4 DEF Affects, Idles, Folds, Same, Puts

LEMMA WorkAffects ==
  ASSUME IInv, NEW r \in Runs, Work(r), Start(r) => PlanIsCurrent(r)
  PROVE  Affects(r)
  <1>1. Types /\ QueuesFit /\ RunFits(r)  BY DEF IInv
  <1> QED BY <1>1, StartAffects, ReadAffects, GreetAffects, AnswerAffects, CommitAffects, ConfirmAffects, RecordAffects,
             SpeakAffects, PersistAffects, ToolAffects, SettleAffects, ClearAffects, SummariseAffects DEF Work

-----------------------------------------------------------------------------
(* The invariant is kept *)

\* While a run works, what it wrote is seen, and it wrote what follows.
LEMMA MineIsSeen ==
  ASSUME Types, ItemsFit, NEW r \in Runs, step[r] \in Working, CheckpointsFit(SessionOf[r]), NEW i \in Mine(r)
  PROVE  /\ i \in SeenIn(hist[SessionOf[r]])
         /\ \A k \in DOMAIN hist[SessionOf[r]] : i < k => k \in Mine(r)
  <1>1. PICK s, h : s = SessionOf[r] /\ h = hist[s]  OBVIOUS
  <1>2. s \in Sessions /\ h \in Seq(ItemType)  BY <1>1, HandoffAssumption DEF Types
  <1>3. DOMAIN h = 1 .. Len(h) /\ Len(h) \in Nat /\ i \in DOMAIN h /\ h[i].run = r  BY <1>1, <1>2 DEF Mine
  <1>4. \A j \in i .. Len(h) : h[j].run = r  BY <1>1, <1>2, <1>3 DEF ItemsFit, ItemFits
  <1>5. ASSUME NEW k \in DOMAIN h, i < k PROVE h[k].run = r
    <2>1. k \in i .. Len(h)  BY <1>3, <1>5
    <2> QED BY <1>4, <2>1
  <1>6. ASSUME NEW c \in CheckpointsOf(h) PROVE c <= i
    <2>1. c \in DOMAIN h /\ c \in Nat /\ i \in Nat  BY <1>3 DEF CheckpointsOf
    <2>2. step[h[c].run] = "done"  BY <1>1 DEF CheckpointsFit, Checkpoints, CheckpointsOf
    <2>3. ~(i < c)  BY <1>5, <2>1, <2>2 DEF Working
    <2> QED BY <2>1, <2>3
  <1> QED BY <1>1, <1>3, <1>5, <1>6 DEF SeenIn, Mine

\* A step of a run leaves the others their sessions.
LEMMA OthersKeepReplay ==
  ASSUME IInv, NEW r \in Runs, Moves(r), NEW o \in Runs \ {r}, KnownFits(o), NewFits(o), PersistedFits(o)
  PROVE  KnownFits(o)' /\ NewFits(o)' /\ PersistedFits(o)'
  <1>1. Types /\ QueuesFit  BY DEF IInv
  <1>2. Alone(o)  BY <1>1, WorkLeavesAlone
  <1>3. step'[o] = step[o] /\ known'[o] = known[o] /\ turn'[o] = turn[o] /\ persisted'[o] = persisted[o]
        /\ Mine(o)' = Mine(o) /\ \A i \in Mine(o) : Entry(o, i)' = Entry(o, i)
    BY <1>2 DEF Alone
  <1>4. Calls(o)' = Calls(o) /\ Calls(o) \subseteq Mine(o)  BY <1>3, OthersItems DEF Calls
  <1>5. NewFits(o)'  BY <1>3 DEF NewFits
  <1>6. PersistedFits(o)'  BY <1>3, <1>4 DEF PersistedFits
  <1>7. step[o] \in Working => hist'[SessionOf[o]] = hist[SessionOf[o]]
    <2> SUFFICES ASSUME step[o] \in Working PROVE hist'[SessionOf[o]] = hist[SessionOf[o]]  OBVIOUS
    <2>1. SessionOf[o] # SessionOf[r]
      <3>1. Head(line[SessionOf[o]]) = o /\ Head(line[SessionOf[r]]) = r
        BY <1>1 DEF QueuesFit, HeadFits, Moves, Control
      <3> QED BY <3>1
    <2>2. hist' = hist \/ \E item \in ItemType : item.run = r /\ Written(SessionOf[r], item)
      BY DEF Moves, Control, Writes
    <2>3. SessionOf[o] \in Sessions  BY HandoffAssumption
    <2> QED BY <1>1, <2>1, <2>2, <2>3, WrittenFacts
  <1>8. KnownFits(o)'
    <2> SUFFICES ASSUME step'[o] \in Knowing, NEW i \in SeenOf(hist'[SessionOf[o]], "call")
                 PROVE  hist'[SessionOf[o]][i].id \in known'[o]
      BY DEF KnownFits
    <2>1. step[o] \in Knowing /\ step[o] \in Working  BY <1>3 DEF Knowing
    <2>2. hist'[SessionOf[o]] = hist[SessionOf[o]]  BY <1>7, <2>1
    <2> QED BY <1>3, <2>1, <2>2 DEF KnownFits
  <1> QED BY <1>5, <1>6, <1>8

LEMMA CheckpointsStay ==
  ASSUME IInv, ReplayInv, NEW r \in Runs, Moves(r), Affects(r), NEW t \in Sessions
  PROVE  CheckpointsFit(t)'
  <1>1. Types  BY DEF IInv
  <1>2. \A o \in Runs : step[o] = "done" => step'[o] = "done"  BY DEF Moves, Control, Frame
  <1>3. \A c \in CheckpointsOf(hist[t]) : hist[t][c].run \in Runs /\ step'[hist[t][c].run] = "done"
    <2> SUFFICES ASSUME NEW c \in CheckpointsOf(hist[t]) PROVE hist[t][c].run \in Runs /\ step'[hist[t][c].run] = "done"
      OBVIOUS
    <2>1. hist[t] \in Seq(ItemType) /\ c \in DOMAIN hist[t]  BY <1>1 DEF Types, CheckpointsOf
    <2>2. hist[t][c] \in ItemType  BY <2>1
    <2>3. hist[t][c].run \in Runs  BY <2>2 DEF ItemType
    <2>4. step[hist[t][c].run] = "done"  BY DEF ReplayInv, CheckpointsFit, Checkpoints, CheckpointsOf
    <2> QED BY <1>2, <2>3, <2>4
  <1>4. CASE hist'[t] = hist[t]  BY <1>3, <1>4 DEF CheckpointsFit, Checkpoints, CheckpointsOf
  <1>5. CASE hist'[t] # hist[t]
    <2>1. PICK item : Puts(r, item) /\ (item.kind = "checkpoint" => step'[r] = "done")
      BY <1>5 DEF Affects, Idles, Reads, Admits, Says, CallsOne, ResultsOne, Folds
    <2>2. item \in ItemType /\ item.run = r /\ Written(SessionOf[r], item)  BY <2>1 DEF Puts
    <2>3. t = SessionOf[r]  BY <1>1, <1>5, <2>2, WrittenFacts
    <2>4. PICK n : n = Len(hist[t]) + 1  OBVIOUS
    <2>5. /\ DOMAIN hist[t] = 1 .. Len(hist[t]) /\ Len(hist[t]) \in Nat /\ DOMAIN hist'[t] = 1 .. n /\ hist'[t][n] = item
          /\ \A i \in 1 .. Len(hist[t]) : hist'[t][i] = hist[t][i]
      BY <1>1, <2>2, <2>3, <2>4, WrittenFacts
    <2>6. ASSUME NEW c \in DOMAIN hist'[t], hist'[t][c].kind = "checkpoint" PROVE step'[hist'[t][c].run] = "done"
      <3>1. CASE c = n  BY <2>1, <2>2, <2>5, <2>6, <3>1
      <3>2. CASE c # n
        <4>1. c \in DOMAIN hist[t]  BY <2>4, <2>5, <2>6, <3>2
        <4>2. hist'[t][c] = hist[t][c]  BY <2>5, <4>1
        <4> QED BY <1>3, <2>6, <4>1, <4>2 DEF CheckpointsOf
      <3> QED BY <3>1, <3>2
    <2> QED BY <2>6 DEF CheckpointsFit, Checkpoints
  <1> QED BY <1>4, <1>5

\* A step that keeps transcript and batch keeps what they know.
LEMMA SameKeeps ==
  ASSUME NEW r \in Runs, Same(r), KnownFits(r), NewFits(r),
         \A i \in SeenOf(hist'[SessionOf[r]], "call") :
           i \in SeenOf(hist[SessionOf[r]], "call") /\ hist'[SessionOf[r]][i] = hist[SessionOf[r]][i]
  PROVE  KnownFits(r)' /\ NewFits(r)'
  <1>1. CASE step'[r] = "done"
    <2>1. step'[r] \notin Knowing /\ step'[r] \notin Asked  BY <1>1 DEF Knowing, Asked, Working
    <2> QED BY <2>1 DEF KnownFits, NewFits
  <1>2. CASE known'[r] = known[r] /\ turn'[r] = turn[r] /\ persisted'[r] = persisted[r] /\ Later(r)
    <2>1. NewFits(r)'  BY <1>2 DEF NewFits, Later
    <2>2. KnownFits(r)'
      <3> SUFFICES ASSUME step'[r] \in Knowing, NEW i \in SeenOf(hist'[SessionOf[r]], "call")
                   PROVE  hist'[SessionOf[r]][i].id \in known'[r]
        BY DEF KnownFits
      <3>1. step[r] \in Knowing  BY <1>2 DEF Later
      <3> QED BY <1>2, <3>1 DEF KnownFits
    <2> QED BY <2>1, <2>2
  <1> QED BY <1>1, <1>2 DEF Same

\* The batch of a run that keeps it, when nothing, or no text, is written.
LEMMA SameBatch ==
  ASSUME Types, NEW r \in Runs, Same(r), PersistedFits(r),
         UNCHANGED hist \/ (\E item : Puts(r, item) /\ item.kind # "text") \/ (step'[r] \in Batching => persisted[r] = 0)
  PROVE  PersistedFits(r)'
  <1> SUFFICES ASSUME step'[r] \in Batching, NEW k \in 1 .. persisted'[r]
               PROVE  \E i \in Calls(r)' : Entry(r, i)'.id = turn'[r][k].id
                        /\ \A j \in Mine(r)' : j > i => Entry(r, j)'.kind # "text"
    BY DEF PersistedFits
  <1>1. step'[r] # "done"  BY DEF Batching
  <1>2. step[r] \in Batching /\ turn'[r] = turn[r] /\ persisted'[r] = persisted[r] /\ k \in 1 .. persisted[r]
    BY <1>1 DEF Same, Later
  <1>3. PICK i \in Calls(r) : Entry(r, i).id = turn[r][k].id /\ \A j \in Mine(r) : j > i => Entry(r, j).kind # "text"
    BY <1>2 DEF PersistedFits
  <1>4. i \in Mine(r)  BY DEF Calls
  <1>5. CASE UNCHANGED hist
    <2>1. Mine(r)' = Mine(r) /\ Calls(r)' = Calls(r)  BY <1>5, NothingWritten
    <2>2. \A j : Entry(r, j)' = Entry(r, j)  BY <1>5 DEF Entry
    <2> QED BY <1>2, <1>3, <2>1, <2>2
  <1>6. CASE \E item : Puts(r, item) /\ item.kind # "text"
    <2>1. PICK item : item \in ItemType /\ item.run = r /\ Written(SessionOf[r], item) /\ item.kind # "text"
      BY <1>6 DEF Puts
    <2>2. PICK n : n = Len(hist[SessionOf[r]]) + 1  OBVIOUS
    <2>3. /\ Mine(r)' = Mine(r) \cup {n} /\ Entry(r, n)' = item /\ \A j \in Mine(r) : Entry(r, j)' = Entry(r, j)
          /\ Calls(r)' = Calls(r) \cup (IF item.kind = "call" THEN {n} ELSE {})
      BY <2>1, <2>2, MineAfterWrite
    <2>4. i \in Calls(r)'  BY <2>3
    <2>5. \A j \in Mine(r)' : j > i => Entry(r, j)'.kind # "text"  BY <1>3, <2>1, <2>3
    <2>6. Entry(r, i)'.id = turn'[r][k].id  BY <1>2, <1>3, <1>4, <2>3
    <2> QED BY <2>4, <2>5, <2>6
  <1>7. CASE step'[r] \in Batching => persisted[r] = 0  BY <1>2, <1>7
  <1> QED BY <1>5, <1>6, <1>7

\* What a step leaves of the run's session and of the run itself.
Kept(r) == (\A t \in Sessions : IdsFit(hist[t])) /\ KnownFits(r) /\ NewFits(r) /\ PersistedFits(r)

\* Every file but the run's stays, and that one is longer by the item.
LEMMA FileAfter ==
  ASSUME Types, NEW r \in Runs, NEW item, Puts(r, item)
  PROVE  /\ item \in ItemType /\ hist[SessionOf[r]] \in Seq(ItemType) /\ SessionOf[r] \in Sessions
         /\ hist'[SessionOf[r]] = Append(hist[SessionOf[r]], item)
         /\ \A t \in Sessions \ {SessionOf[r]} : hist'[t] = hist[t]
  BY HandoffAssumption DEF Types, Puts, Written

LEMMA IdlesKeep ==
  ASSUME IInv, NEW r \in Runs, Kept(r), Idles(r)
  PROVE  Kept(r)'
  <1>1. Types /\ UNCHANGED hist /\ Same(r)  BY DEF IInv, Idles
  <1>2. PersistedFits(r)'  BY <1>1, SameBatch DEF Kept
  <1>3. KnownFits(r)' /\ NewFits(r)'  BY <1>1, SameKeeps DEF Kept
  <1> QED BY <1>1, <1>2, <1>3 DEF Kept

LEMMA ReadsKeep ==
  ASSUME IInv, NEW r \in Runs, Kept(r), Reads(r)
  PROVE  Kept(r)'
  <1>1. Types /\ UNCHANGED hist /\ step'[r] = "greeting" /\ CallIds(View(SessionOf[r])) \subseteq known'[r]
    BY DEF IInv, Reads
  <1>2. step'[r] \notin Asked /\ step'[r] \notin Batching  BY <1>1 DEF Asked, Batching
  <1>3. PICK s, h : s = SessionOf[r] /\ h = hist[s]  OBVIOUS
  <1>4. s \in Sessions /\ h \in Seq(ItemType)  BY <1>1, <1>3, HandoffAssumption DEF Types
  <1>5. PICK d \in Nat : ViewIs(h, View(s), d)  BY <1>1, <1>3, <1>4, ViewFacts
  <1>6. IdsFit(h)  BY <1>3, <1>4 DEF Kept
  <1>7. PICK v : v = View(s)  OBVIOUS
  <1>8. CallIds(v) = {h[i].id : i \in SeenOf(h, "call")}  BY <1>4, <1>5, <1>6, <1>7, ViewFits
  <1>9. hist'[SessionOf[r]] = h  BY <1>1, <1>3
  <1>10. KnownFits(r)'  BY <1>1, <1>3, <1>7, <1>8, <1>9 DEF KnownFits
  <1> QED BY <1>1, <1>2, <1>10 DEF Kept, NewFits, PersistedFits

LEMMA AdmitsKeep ==
  ASSUME IInv, NEW r \in Runs, Kept(r), Admits(r)
  PROVE  Kept(r)'
  <1>1. /\ UNCHANGED hist /\ step[r] = "asking" /\ step'[r] \in {"committing", "recording"}
        /\ known'[r] = known[r] /\ persisted'[r] = 0 /\ \A k \in DOMAIN turn'[r] : turn'[r][k].id \notin known[r]
    BY DEF Admits
  <1>2. NewFits(r)'  BY <1>1 DEF NewFits
  <1>3. PersistedFits(r)'
    <2>1. \A k \in 1 .. persisted'[r] : FALSE  BY <1>1
    <2> QED BY <2>1 DEF PersistedFits
  <1>4. step[r] \in Knowing  BY <1>1 DEF Knowing, Working
  <1>5. KnownFits(r)'  BY <1>1, <1>4 DEF Kept, KnownFits
  <1> QED BY <1>1, <1>2, <1>3, <1>5 DEF Kept

LEMMA SaysKeep ==
  ASSUME IInv, NEW r \in Runs, Kept(r), Says(r)
  PROVE  Kept(r)'
  <1>1. PICK item : Puts(r, item) /\ item.kind = "text" /\ Same(r) /\ (step'[r] \in Batching => persisted[r] = 0)
    BY DEF Says
  <1>2. Types  BY DEF IInv
  <1>3. PICK s, h, g : s = SessionOf[r] /\ h = hist[s] /\ g = hist'[s]  OBVIOUS
  <1>4. item \in ItemType /\ h \in Seq(ItemType) /\ s \in Sessions /\ g = Append(h, item)
        /\ \A t \in Sessions \ {s} : hist'[t] = hist[t]
    BY <1>1, <1>2, <1>3, FileAfter
  <1>5. IdsFit(h)  BY <1>3, <1>4 DEF Kept
  <1>6. IdsFit(g) /\ \A i \in SeenOf(g, "call") : i \in SeenOf(h, "call") /\ g[i] = h[i]  BY <1>1, <1>4, <1>5, TextKeepsIds
  <1>7. \A t \in Sessions : IdsFit(hist'[t])  BY <1>3, <1>4, <1>6 DEF Kept
  <1>8. PersistedFits(r)'  BY <1>1, <1>2, SameBatch DEF Kept
  <1>9. KnownFits(r)' /\ NewFits(r)'  BY <1>1, <1>3, <1>6, SameKeeps DEF Kept
  <1> QED BY <1>7, <1>8, <1>9 DEF Kept

LEMMA FoldsKeep ==
  ASSUME IInv, NEW r \in Runs, Kept(r), Folds(r)
  PROVE  Kept(r)'
  <1>1. PICK item : Puts(r, item) /\ item.kind = "checkpoint" /\ step'[r] = "done"  BY DEF Folds
  <1>2. Types  BY DEF IInv
  <1>3. PICK s, h, g : s = SessionOf[r] /\ h = hist[s] /\ g = hist'[s]  OBVIOUS
  <1>4. item \in ItemType /\ h \in Seq(ItemType) /\ s \in Sessions /\ g = Append(h, item)
        /\ \A t \in Sessions \ {s} : hist'[t] = hist[t]
    BY <1>1, <1>2, <1>3, FileAfter
  <1>5. IdsFit(g)  BY <1>1, <1>4, CheckpointKeepsIds
  <1>6. \A t \in Sessions : IdsFit(hist'[t])  BY <1>3, <1>4, <1>5 DEF Kept
  <1>7. step'[r] \notin Knowing /\ step'[r] \notin Asked /\ step'[r] \notin Batching
    BY <1>1 DEF Knowing, Asked, Batching, Working
  <1> QED BY <1>6, <1>7 DEF Kept, KnownFits, NewFits, PersistedFits

LEMMA CallsOneKeep ==
  ASSUME IInv, NEW r \in Runs, Kept(r), CallsOne(r)
  PROVE  Kept(r)'
  <1>1. PICK item : /\ Puts(r, item) /\ item.kind = "call" /\ item.id = turn[r][persisted[r] + 1].id
                    /\ step[r] = "persisting" /\ turn'[r] = turn[r]
                    /\ \/ known'[r] = known[r] \cup {item.id} /\ persisted'[r] = persisted[r] + 1
                          /\ step'[r] \in {"persisting", "executing"}
                       \/ known'[r] = known[r] /\ persisted'[r] = persisted[r] /\ step'[r] \in {"clearing", "done"}
    BY DEF CallsOne
  <1>2. Types /\ RunFits(r) /\ BatchFits(r)  BY DEF IInv, RunFits
  <1>3. PICK s, h, g : s = SessionOf[r] /\ h = hist[s] /\ g = hist'[s]  OBVIOUS
  <1>4. item \in ItemType /\ h \in Seq(ItemType) /\ s \in Sessions /\ g = Append(h, item)
        /\ \A t \in Sessions \ {s} : hist'[t] = hist[t]
    BY <1>1, <1>2, <1>3, FileAfter
  <1>5. step[r] \in Batching /\ step[r] \in Knowing /\ step[r] \in Asked  BY <1>1 DEF Batching, Knowing, Asked, Working
  <1>6. PICK p, l, w : p = persisted[r] /\ l = Len(turn[r]) /\ w = turn[r]  OBVIOUS
  <1>7. /\ p \in Nat /\ l \in Nat /\ p < l /\ DOMAIN w = 1 .. l
        /\ \A i, j \in 1 .. l : w[i].id = w[j].id => i = j
    <2>1. p \in Nat /\ l \in Nat /\ p < l  BY <1>1, <1>2, <1>6, UnbegunFacts
    <2>2. DOMAIN w = 1 .. l /\ \A i, j \in 1 .. l : w[i].id = w[j].id => i = j  BY <1>2, <1>5, <1>6, BatchCalls
    <2> QED BY <2>1, <2>2
  <1>8. PICK n : n = p + 1 /\ n \in 1 .. l  BY <1>7
  <1>9. item.id = w[n].id /\ item.id \notin known[r]
    <2>1. item.id = w[n].id  BY <1>1, <1>6, <1>8
    <2>2. n \in DOMAIN turn[r] /\ n > persisted[r]  BY <1>6, <1>7, <1>8
    <2> QED BY <1>5, <1>6, <2>1, <2>2 DEF Kept, NewFits
  <1>10. \A i \in SeenOf(h, "call") : h[i].id \in known[r] /\ h[i].id # item.id
    BY <1>3, <1>5, <1>9 DEF Kept, KnownFits
  <1>11. IdsFit(h)  BY <1>3, <1>4 DEF Kept
  <1>12. IdsFit(g) /\ \A i \in SeenOf(g, "call") : (i \in SeenOf(h, "call") /\ g[i] = h[i]) \/ g[i] = item
    BY <1>1, <1>4, <1>10, <1>11, CallKeepsIds
  <1>13. \A t \in Sessions : IdsFit(hist'[t])  BY <1>3, <1>4, <1>12 DEF Kept
  <1>14. KnownFits(r)'
    <2> SUFFICES ASSUME step'[r] \in Knowing, NEW i \in SeenOf(g, "call") PROVE g[i].id \in known'[r]
      BY <1>3 DEF KnownFits
    <2>1. known'[r] = known[r] \cup {item.id}  BY <1>1 DEF Knowing, Working
    <2> QED BY <1>10, <1>12, <2>1
  <1>15. NewFits(r)'
    <2> SUFFICES ASSUME step'[r] \in Asked, NEW k \in DOMAIN w, k > persisted'[r] PROVE w[k].id \notin known'[r]
      BY <1>1, <1>6 DEF NewFits
    <2>1. known'[r] = known[r] \cup {item.id} /\ persisted'[r] = n  BY <1>1, <1>6, <1>8 DEF Asked
    <2>2. k \in 1 .. l /\ k # n /\ k > p  BY <1>7, <1>8, <2>1
    <2>3. w[k].id # item.id  BY <1>7, <1>8, <1>9, <2>2
    <2>4. w[k].id \notin known[r]  BY <1>5, <1>6, <2>2 DEF Kept, NewFits
    <2> QED BY <2>1, <2>3, <2>4
  <1>16. PersistedFits(r)'
    <2> SUFFICES ASSUME step'[r] \in Batching, NEW k \in 1 .. persisted'[r]
                 PROVE  \E i \in Calls(r)' : Entry(r, i)'.id = w[k].id /\ \A j \in Mine(r)' : j > i => Entry(r, j)'.kind # "text"
      BY <1>1, <1>6 DEF PersistedFits
    <2>1. item.run = r /\ Written(SessionOf[r], item)  BY <1>1 DEF Puts
    <2>2. PICK m : m = Len(hist[SessionOf[r]]) + 1  OBVIOUS
    <2>3. /\ Mine(r)' = Mine(r) \cup {m} /\ Entry(r, m)' = item /\ m \in Nat
          /\ \A j \in Mine(r) : j \in Nat /\ j < m /\ Entry(r, j)' = Entry(r, j)
          /\ Calls(r)' = Calls(r) \cup {m}
      BY <1>1, <1>2, <1>4, <2>1, <2>2, MineAfterWrite
    <2>4. CASE k \in 1 .. p
      <3>1. PICK i \in Calls(r) : Entry(r, i).id = w[k].id /\ \A j \in Mine(r) : j > i => Entry(r, j).kind # "text"
        BY <1>5, <1>6, <2>4 DEF Kept, PersistedFits
      <3>2. i \in Mine(r)  BY DEF Calls
      <3>3. Entry(r, i)'.id = w[k].id  BY <2>3, <3>1, <3>2
      <3>4. \A j \in Mine(r)' : j > i => Entry(r, j)'.kind # "text"  BY <1>1, <2>3, <3>1
      <3> QED BY <2>3, <3>3, <3>4
    <2>5. CASE k \notin 1 .. p
      <3>1. persisted'[r] = n \/ persisted'[r] = p  BY <1>1, <1>6, <1>8
      <3>2. k = n  BY <1>7, <1>8, <2>5, <3>1
      <3>3. \A j \in Mine(r)' : ~(j > m)  BY <2>3
      <3> QED BY <1>9, <2>3, <3>2, <3>3
    <2> QED BY <2>4, <2>5
  <1> QED BY <1>13, <1>14, <1>15, <1>16 DEF Kept

LEMMA ResultsOneKeep ==
  ASSUME IInv, NEW r \in Runs, Kept(r), CheckpointsFit(SessionOf[r]), ResultsOne(r)
  PROVE  Kept(r)'
  <1>1. PICK item : \E k \in 1 .. persisted[r] :
          /\ Puts(r, item) /\ item.kind = "result" /\ item.id = turn[r][k].id /\ item.id \notin tried[r]
          /\ step[r] \in {"settling", "clearing"} /\ Same(r)
    BY DEF ResultsOne
  <1>2. PICK k \in 1 .. persisted[r] :
          /\ Puts(r, item) /\ item.kind = "result" /\ item.id = turn[r][k].id /\ item.id \notin tried[r]
          /\ step[r] \in {"settling", "clearing"} /\ Same(r)
    BY <1>1
  <1>3. Types /\ RunFits(r) /\ BatchFits(r) /\ ItemsFit  BY DEF IInv, RunFits
  <1>4. PICK s, h, g : s = SessionOf[r] /\ h = hist[s] /\ g = hist'[s]  OBVIOUS
  <1>5. item \in ItemType /\ h \in Seq(ItemType) /\ s \in Sessions /\ g = Append(h, item)
        /\ \A t \in Sessions \ {s} : hist'[t] = hist[t]
    BY <1>2, <1>3, <1>4, FileAfter
  <1>6. step[r] \in Batching /\ step[r] \in Working  BY <1>2 DEF Batching, Working
  <1>7. PICK c \in Calls(r) : Entry(r, c).id = item.id /\ \A j \in Mine(r) : j > c => Entry(r, j).kind # "text"
    BY <1>2, <1>6 DEF Kept, PersistedFits
  <1>8. c \in Mine(r) /\ h[c].kind = "call" /\ h[c].id = item.id /\ h[c].run = r /\ c \in DOMAIN h
    BY <1>4, <1>7 DEF Calls, Mine, Entry
  <1>9. c \in SeenIn(h) /\ \A m \in DOMAIN h : c < m => m \in Mine(r)  BY <1>3, <1>4, <1>6, <1>8, MineIsSeen
  <1>10. c \in SeenOf(h, "call")  BY <1>8, <1>9 DEF SeenOf
  <1>11. \A m \in DOMAIN h : c < m => h[m].kind # "text"
    <2> SUFFICES ASSUME NEW m \in DOMAIN h, c < m PROVE h[m].kind # "text"  OBVIOUS
    <2>1. m \in Mine(r)  BY <1>9
    <2>2. DOMAIN h = 1 .. Len(h) /\ Len(h) \in Nat  BY <1>5
    <2>3. m > c  BY <1>8, <2>2
    <2> QED BY <1>4, <1>7, <2>1, <2>3 DEF Entry
  <1>12. IdsFit(h)  BY <1>4, <1>5 DEF Kept
  <1>13. \A j \in SeenOf(h, "result") : h[j].id # item.id
    <2> SUFFICES ASSUME NEW j \in SeenOf(h, "result"), h[j].id = item.id PROVE FALSE  OBVIOUS
    <2>1. PICK i \in SeenOf(h, "call") : h[i].id = h[j].id /\ h[i].run = h[j].run  BY <1>12 DEF IdsFit
    <2>2. i = c  BY <1>8, <1>10, <1>12, <2>1 DEF IdsFit
    <2>3. j \in Mine(r) /\ Entry(r, j).kind = "result" /\ Entry(r, j).id = item.id
      BY <1>4, <1>8, <2>1, <2>2 DEF SeenOf, SeenIn, Mine, Entry
    <2>4. item.id \in Results(r)  BY <2>3 DEF Results
    <2>5. item.id \in Ids(turn[r])
      <3>1. persisted[r] \in 0 .. Len(turn[r]) /\ Len(turn[r]) \in Nat  BY <1>3, <1>6, BatchCalls
      <3>2. k \in 1 .. Len(turn[r])  BY <3>1, InPrefix
      <3> QED BY <1>2, <1>3, <1>6, <3>2, BatchCalls
    <2>6. Results(r) \cap Ids(turn[r]) \subseteq tried[r]  BY <1>3, <1>6, BatchFacts
    <2> QED BY <1>2, <2>4, <2>5, <2>6
  <1>14. IdsFit(g) /\ \A i \in SeenOf(g, "call") : i \in SeenOf(h, "call") /\ g[i] = h[i]
    <2>1. item.run = r  BY <1>2 DEF Puts
    <2>2. Replies(h, item, c)
      <3>1. item.kind = "result"  BY <1>2
      <3>2. \A m \in DOMAIN h : c < m => h[m].kind # "text"  BY <1>11
      <3>3. \A j \in SeenOf(h, "result") : h[j].id # item.id  BY <1>13
      <3> QED BY <1>8, <1>10, <1>12, <2>1, <3>1, <3>2, <3>3 DEF Replies
    <2>3. StillFits(h, item)  BY <1>5, <2>2, ResultKeepsIds
    <2> QED BY <1>5, <2>3 DEF StillFits
  <1>15. \A t \in Sessions : IdsFit(hist'[t])  BY <1>4, <1>5, <1>14 DEF Kept
  <1>16. PersistedFits(r)'
    <2>1. item.kind # "text"  BY <1>2
    <2> QED BY <1>2, <1>3, <2>1, SameBatch DEF Kept
  <1>17. KnownFits(r)' /\ NewFits(r)'  BY <1>2, <1>4, <1>14, SameKeeps DEF Kept
  <1> QED BY <1>15, <1>16, <1>17 DEF Kept

LEMMA WorkKeepsReplay ==
  ASSUME IInv, ReplayInv, NEW r \in Runs, Work(r), Start(r) => PlanIsCurrent(r)
  PROVE  ReplayInv'
  <1>1. Moves(r) /\ Affects(r)  BY WorkMoves, WorkAffects
  <1>2. Kept(r) /\ CheckpointsFit(SessionOf[r])  BY HandoffAssumption DEF ReplayInv, Kept
  <1>3. Kept(r)'
    BY <1>1, <1>2, IdlesKeep, ReadsKeep, AdmitsKeep, SaysKeep, CallsOneKeep, ResultsOneKeep, FoldsKeep DEF Affects
  <1>4. \A t \in Sessions : CheckpointsFit(t)'  BY <1>1, CheckpointsStay
  <1>5. ASSUME NEW o \in Runs \ {r} PROVE KnownFits(o)' /\ NewFits(o)' /\ PersistedFits(o)'
    BY <1>1, OthersKeepReplay DEF ReplayInv
  <1> QED BY <1>3, <1>4, <1>5 DEF ReplayInv, Kept

\* A step that writes nothing and at most queues or ends runs.
LEMMA BareKeepsReplay ==
  ASSUME IInv, ReplayInv, UNCHANGED <<hist, turn, persisted>>,
         \A o \in Runs : \/ step'[o] = step[o] /\ known'[o] = known[o]
                         \/ step'[o] = "done"
                         \/ step[o] = "idle" /\ step'[o] = "queued"
  PROVE  ReplayInv'
  <1>1. Types  BY DEF IInv
  <1>2. ASSUME NEW o \in Runs PROVE KnownFits(o)' /\ NewFits(o)' /\ PersistedFits(o)'
    <2>1. KnownFits(o) /\ NewFits(o) /\ PersistedFits(o)  BY DEF ReplayInv
    <2>2. CASE step'[o] = step[o] /\ known'[o] = known[o]
      <3>1. KnownFits(o)'  BY <2>1, <2>2 DEF KnownFits
      <3>2. NewFits(o)'  BY <2>1, <2>2 DEF NewFits
      <3>3. Mine(o)' = Mine(o) /\ Calls(o)' = Calls(o)  BY NothingWritten
      <3>4. \A i : Entry(o, i)' = Entry(o, i)  BY DEF Entry
      <3>5. PersistedFits(o)'  BY <2>1, <2>2, <3>3, <3>4 DEF PersistedFits
      <3> QED BY <3>1, <3>2, <3>5
    <2>3. CASE step'[o] \in {"done", "queued"}
      <3>1. step'[o] \notin Knowing /\ step'[o] \notin Asked /\ step'[o] \notin Batching
        BY <2>3 DEF Knowing, Asked, Batching, Working
      <3> QED BY <3>1 DEF KnownFits, NewFits, PersistedFits
    <2> QED BY <1>2, <2>2, <2>3
  <1>3. ASSUME NEW t \in Sessions PROVE CheckpointsFit(t)'
    <2> SUFFICES ASSUME NEW c \in DOMAIN hist[t], hist[t][c].kind = "checkpoint" PROVE step'[hist[t][c].run] = "done"
      BY DEF CheckpointsFit, Checkpoints
    <2>1. hist[t] \in Seq(ItemType)  BY <1>1 DEF Types
    <2>2. hist[t][c] \in ItemType  BY <2>1
    <2>3. hist[t][c].run \in Runs  BY <2>2 DEF ItemType
    <2>4. step[hist[t][c].run] = "done"  BY DEF ReplayInv, CheckpointsFit, Checkpoints
    <2> QED BY <2>3, <2>4
  <1> QED BY <1>2, <1>3 DEF ReplayInv

LEMMA OthersKeepSessions ==
  ASSUME IInv, ReplayInv,
         \/ \E r \in Runs : Submit(r) \/ Discard(r)
         \/ \E r, a \in Runs : SubmitPlan(r, a)
         \/ \E s \in Sessions, r \in Runs : Approve(s, r)
         \/ \E q \in Runners : Abort(q) \/ Close(q)
         \/ Crash
  PROVE  ReplayInv'
  <1>1. step \in [Runs -> Places] /\ DOMAIN known = Runs  BY DEF IInv, Types, Shared, Local
  <1>2. ASSUME NEW r \in Runs, Submit(r) \/ \E a \in Runs : SubmitPlan(r, a) PROVE ReplayInv'
    <2>1. /\ UNCHANGED <<hist, turn, persisted>> /\ step[r] = "idle"
          /\ step' = [step EXCEPT ![r] = "queued"] \/ step' = [step EXCEPT ![r] = "done"]
      BY <1>2 DEF Submit, SubmitPlan, Enqueue, Refuse, transcript, batch
    <2>2. UNCHANGED known \/ \E ids : known' = [known EXCEPT ![r] = ids]
      BY <1>2 DEF Submit, SubmitPlan, transcript
    <2>3. \A o \in Runs : \/ step'[o] = step[o] /\ known'[o] = known[o]
                          \/ step'[o] = "done"
                          \/ step[o] = "idle" /\ step'[o] = "queued"
      BY <1>1, <2>1, <2>2
    <2> QED BY <2>1, <2>3, BareKeepsReplay
  <1>3. CASE UNCHANGED <<hist, turn, persisted, step, known>>  BY <1>3, BareKeepsReplay
  <1>4. ASSUME NEW r \in Runs, Discard(r) PROVE ReplayInv'
    BY <1>3, <1>4 DEF Discard, transcript, batch
  <1>5. ASSUME NEW s \in Sessions, NEW r \in Runs, Approve(s, r) PROVE ReplayInv'
    BY <1>3, <1>5 DEF Approve, transcript, batch
  <1>6. ASSUME NEW q \in Runners, Abort(q) \/ Close(q) PROVE ReplayInv'
    BY <1>3, <1>6 DEF Abort, Close, transcript, batch
  <1>7. CASE Crash
    <2>1. UNCHANGED <<hist, turn, persisted, known>> /\ \A o \in Runs : step'[o] = step[o] \/ step'[o] = "done"
      BY <1>7 DEF Crash, transcript, batch
    <2> QED BY <2>1, BareKeepsReplay
  <1> QED BY <1>2, <1>4, <1>5, <1>6, <1>7

LEMMA InitReplays == Init => ReplayInv
  <1> SUFFICES ASSUME Init PROVE ReplayInv  OBVIOUS
  <1>1. ASSUME NEW s \in Sessions PROVE IdsFit(hist[s]) /\ CheckpointsFit(s)
    <2>1. hist[s] = <<>>  BY DEF Init
    <2>2. DOMAIN hist[s] = {}  BY <2>1
    <2> QED BY <2>2 DEF IdsFit, SeenOf, SeenIn, CheckpointsFit, Checkpoints
  <1>2. ASSUME NEW r \in Runs PROVE KnownFits(r) /\ NewFits(r) /\ PersistedFits(r)
    <2>1. step[r] = "idle"  BY DEF Init
    <2>2. step[r] \notin Knowing /\ step[r] \notin Asked /\ step[r] \notin Batching
      BY <2>1 DEF Knowing, Asked, Batching, Working
    <2> QED BY <2>2 DEF KnownFits, NewFits, PersistedFits
  <1> QED BY <1>1, <1>2 DEF ReplayInv

LEMMA NextKeepsReplay ==
  ASSUME IInv, ReplayInv, [Next]_vars, [CurrentPlans]_vars
  PROVE  ReplayInv'
  <1>1. CASE UNCHANGED vars
    <2>1. UNCHANGED <<hist, turn, persisted, step, known>>  BY <1>1 DEF vars, transcript, batch
    <2> QED BY <2>1, BareKeepsReplay
  <1>2. CASE Next /\ CurrentPlans
    <2>1. ASSUME NEW r \in Runs, Work(r) PROVE ReplayInv'
      BY <1>2, <2>1, WorkKeepsReplay DEF CurrentPlans
    <2> QED BY <1>2, <2>1, OthersKeepSessions DEF Next
  <1> QED BY <1>1, <1>2

\* What stands in the invariants makes every session replayable.
LEMMA ReplayFollows ==
  ASSUME IInv, ReplayInv
  PROVE  HistoryReplays
  <1>0. Types  BY DEF IInv
  <1>1. ASSUME NEW s \in Sessions
        PROVE  /\ Valid(View(s))
               /\ \A i \in DOMAIN View(s) : View(s)[i].kind = "call" =>
                    /\ \A j \in i + 1 .. Len(View(s)) : View(s)[j].kind = "result" /\ View(s)[j].id = View(s)[i].id
                         => \A k \in i .. j : View(s)[k].kind # "text"
                    /\ line[s] = <<>> /\ outcome[View(s)[i].run] \notin {"storage", "lost"}
                         => \E j \in i + 1 .. Len(View(s)) : View(s)[j].kind = "result" /\ View(s)[j].id = View(s)[i].id
    <2>1. PICK h, v : h = hist[s] /\ v = View(s)  OBVIOUS
    <2>2. h \in Seq(ItemType) /\ IdsFit(h)  BY <1>0, <2>1 DEF Types, ReplayInv
    <2>3. PICK d \in Nat : ViewIs(h, v, d)  BY <1>0, <2>1, ViewFacts
    <2>4. /\ Valid(v)
          /\ \A i \in DOMAIN v : v[i].kind = "call" => \A j \in i + 1 .. Len(v) :
               v[j].kind = "result" /\ v[j].id = v[i].id => \A k \in i .. j : v[k].kind # "text"
      BY <2>2, <2>3, ViewFits
    <2>5. ASSUME line[s] = <<>>, NEW i \in DOMAIN v, v[i].kind = "call", outcome[v[i].run] \notin {"storage", "lost"}
          PROVE  \E j \in i + 1 .. Len(v) : v[j].kind = "result" /\ v[j].id = v[i].id
      <3>1. /\ d \in Nat /\ i \in Nat /\ i + d \in SeenIn(h) /\ v[i] = h[i + d]
            /\ Len(v) \in Nat /\ DOMAIN v = 1 .. Len(v)
            /\ \A j \in SeenIn(h) : j - d \in DOMAIN v /\ v[j - d] = h[j] /\ j \in Nat
        BY <2>2, <2>3, ViewPlaces
      <3>2. PICK n, o : n = i + d /\ o = h[n].run  OBVIOUS
      <3>3. n \in DOMAIN h /\ n \in SeenIn(h) /\ h[n] \in ItemType  BY <2>2, <3>1, <3>2 DEF SeenIn
      <3>4. o \in Runs  BY <3>2, <3>3 DEF ItemType
      <3>5. SessionOf[o] = s /\ step[o] \notin {"idle", "queued"}
        BY <2>1, <3>2, <3>3 DEF IInv, ItemsFit, ItemFits
      <3>6. step[o] = "done"
        <4>1. ~InSeq(line[s], o)  BY <2>5 DEF InSeq
        <4> QED BY <3>4, <3>5, <4>1 DEF IInv, QueuesFit, LineFits
      <3>7. outcome[o] \in Told
        <4>1. outcome[o] \in Outcomes /\ outcome[o] # "none"  BY <1>0, <3>4, <3>6 DEF Types, Shared, IInv, QueuesFit, OutcomeFits
        <4>2. outcome[o] \notin {"storage", "lost"}  BY <2>5, <3>1, <3>2
        <4> QED BY <4>1, <4>2 DEF Outcomes, Told
      <3>8. Unanswered(o) = {}  BY <3>4, <3>7 DEF IInv, RunFits, CallsFit, Sound
      <3>9. n \in Calls(o)  BY <2>1, <2>5, <3>1, <3>2, <3>3, <3>5 DEF Calls, Mine
      <3>10. Answered(o, n)  BY <3>8, <3>9 DEF Unanswered
      <3>11. PICK j \in DOMAIN h : j > n /\ h[j].kind = "result" /\ h[j].id = h[n].id
        BY <2>1, <3>5, <3>10 DEF Answered, Mine
      <3>12. j \in SeenIn(h)
        <4>1. DOMAIN h = 1 .. Len(h) /\ Len(h) \in Nat  BY <2>2
        <4>2. \A c \in CheckpointsOf(h) : c \in Nat /\ c <= n  BY <3>3, <4>1 DEF SeenIn, CheckpointsOf
        <4>3. j \in Nat /\ n \in Nat  BY <3>3, <4>1
        <4> QED BY <3>11, <4>2, <4>3 DEF SeenIn
      <3>13. j - d \in i + 1 .. Len(v)
        <4>1. j \in Nat /\ j - d \in 1 .. Len(v)  BY <3>1, <3>12
        <4> QED BY <3>1, <3>2, <3>11, <4>1
      <3>14. v[j - d] = h[j]  BY <3>1, <3>12
      <3> QED BY <3>1, <3>2, <3>11, <3>13, <3>14
    <2> QED BY <2>1, <2>4, <2>5
  <1>2. SUFFICES ASSUME NEW s \in Sessions, NEW v, v = View(s)
                 PROVE  LET Of(i) == {j \in i + 1 .. Len(v) : v[j].kind = "result" /\ v[j].id = v[i].id}
                        IN /\ Valid(v)
                           /\ \A i \in DOMAIN v : v[i].kind = "call" =>
                                /\ \A j \in Of(i) : \A k \in i .. j : v[k].kind # "text"
                                /\ line[s] = <<>> /\ Of(i) = {} => outcome[v[i].run] \in {"storage", "lost"}
    BY DEF HistoryReplays
  <1> QED BY <1>1, <1>2

\* A session makes sense to a model whatever failed, was cancelled or died: no
\* id is repeated, nothing is said between a call and its result, and only the
\* calls of a run that died or could not write wait for their results for ever;
\* if every builder starts with a plan that knows the session's calls.  Without
\* that RepeatedIdsAreRejected fails, and with it this.
THEOREM SessionsReplay == Spec /\ [][CurrentPlans]_vars => []HistoryReplays
  <1>1. IInv /\ ReplayInv /\ [Next]_vars /\ [CurrentPlans]_vars => ReplayInv'  BY NextKeepsReplay
  <1>2. IInv /\ ReplayInv => HistoryReplays  BY ReplayFollows
  <1> QED BY <1>1, <1>2, InitReplays, AgentInvariance, PTL DEF Spec
=============================================================================

------------------------------- MODULE AgentRuns -------------------------------
(***************************************************************************)
(* Agent runs on sessions: the runner (agents/runner.ts), its model and    *)
(* tool loop (runner-loop.ts, runner-loop-limits.ts), the settlement of    *)
(* tool calls (runner-tool-execution.ts, runner-outcome.ts), the queue per *)
(* session that all runners of a process share                             *)
(* (session-operation-coordinator.ts) and the plan handoff.                *)
(*                                                                         *)
(* A session's history is the items the runs persist, its telemetry left   *)
(* out.  Between two awaits a run is atomic: a step of a run is what it    *)
(* does from one await's answer to the next await.  The signal of a        *)
(* runner's context may be aborted, a runner may be closed and the process *)
(* may die at any time.  A write may fail before or after its line reached *)
(* the file; what a cut-off write does to a file is SessionStore's matter. *)
(***************************************************************************)
EXTENDS PlanHandoff, SequencesExt, Integers

CONSTANTS
  Runners,
  RunnerOf,      \* [Runs -> Runners]
  KindOf,        \* [Runs -> Kinds]
  Turns,         \* run -> answers of its provider: sequences of calls, <<>> final
  DeniedTools,   \* tools the agent may not use
  MaxSteps,      \* limits.maxSteps
  MaxPerStep,    \* limits.maxToolCallsPerStep
  MaxCalls,      \* limits.maxTotalToolCalls
  Budgets        \* bounds: runs submitted, failing writes, deaths of the process

\* plan: run by JBP; plain: run by another agent; build: an approved plan
\* submitted for Bob; misuse: one submitted for another agent; compact.
Kinds == {"plan", "plain", "build", "misuse", "compact"}

ASSUME RunsAssumption ==
  /\ RunnerOf \in [Runs -> Runners] /\ KindOf \in [Runs -> Kinds]
  /\ MaxSteps \in Nat \ {0} /\ MaxPerStep \in Nat /\ MaxCalls \in Nat
  /\ DOMAIN Turns = Runs /\ \A r \in Runs : \A calls \in Turns[r] : calls \in Seq(Range(calls))
  /\ Budgets \subseteq [runs : SUBSET Runs, faults : Nat, crashes : Nat]

VARIABLES
  hist,       \* session -> the items of its file, in order
  line,       \* session -> the runs of its queue, the first one runs
  step,       \* where a run stands
  known,      \* run -> call ids of its transcript
  turn,       \* run -> the calls of the provider's last answer
  text,       \* runs whose last answer has text
  past,       \* run -> the call sets it admitted
  used,       \* run -> how many calls those have
  steps,      \* run -> model steps begun
  persisted,  \* run -> how many calls of the turn it appended
  tried,      \* run -> calls of the turn whose settlement was tried
  todo,       \* run -> results to append next: [id, content]
  failure,    \* run -> the failure its batch is settled for, "" while none
  outcome,    \* what a run returned
  plan,       \* run -> the approved plan it executes
  executed,   \* <<run, id>> of every tool execution begun
  aborted, closed,
  draining,   \* runner -> what its close() waits for, None while it is open
  handoff,
  newest,     \* session -> the planning run invoked last
  faults, crashes

transcript == <<known, turn, text, past, used, steps>>
batch == <<persisted, tried, todo, failure>>
signals == <<aborted, closed, draining>>
vars == <<hist, line, step, transcript, batch, outcome, plan, executed, signals, handoff, newest, faults, crashes>>

Ids(calls) == {calls[i].id : i \in DOMAIN calls}
Tools(calls) == [i \in DOMAIN calls |-> calls[i].tool]
Item(kind, id, r, content) == [kind |-> kind, id |-> id, run |-> r, content |-> content]

-----------------------------------------------------------------------------
(* The history as a model sees it *)

Checkpoints(s) == {i \in DOMAIN hist[s] : hist[s][i].kind = "checkpoint"}

\* What follows the last checkpoint; a checkpoint itself replays as text.
View(s) ==
  IF Checkpoints(s) = {} THEN hist[s]
  ELSE SubSeq(hist[s], CHOOSE i \in Checkpoints(s) : \A j \in Checkpoints(s) : j <= i, Len(hist[s]))

\* validateConversationItems
Valid(items) ==
  /\ \A i \in DOMAIN items : items[i].kind \in {"call", "result"} => \A j \in 1 .. i - 1 :
       items[j].kind = items[i].kind => items[j].id # items[i].id
  /\ \A j \in DOMAIN items : items[j].kind = "result"
       => \E i \in 1 .. j - 1 : items[i].kind = "call" /\ items[i].id = items[j].id

\* validateCompleteConversationItems
Complete(items) ==
  \A i \in DOMAIN items : items[i].kind = "call"
    => \E j \in DOMAIN items : items[j].kind = "result" /\ items[j].id = items[i].id

\* eventsToConversationItems, and eventsToModelConversationItems on top of it:
\* the latter fills in missing results, but once there is a checkpoint the
\* former refuses a call without a result before that.
Replays(s) == Valid(View(s)) /\ (Checkpoints(s) # {} => Complete(View(s)))

CallIds(items) == {items[i].id : i \in {n \in DOMAIN items : items[n].kind = "call"}}

-----------------------------------------------------------------------------
Init ==
  /\ hist = [s \in Sessions |-> <<>>] /\ line = [s \in Sessions |-> <<>>]
  /\ step = [r \in Runs |-> "idle"]
  /\ known = [r \in Runs |-> {}] /\ turn = [r \in Runs |-> <<>>] /\ text = {}
  /\ past = [r \in Runs |-> {}] /\ used = [r \in Runs |-> 0] /\ steps = [r \in Runs |-> 0]
  /\ persisted = [r \in Runs |-> 0] /\ tried = [r \in Runs |-> {}]
  /\ todo = [r \in Runs |-> <<>>] /\ failure = [r \in Runs |-> ""]
  /\ outcome = [r \in Runs |-> "none"] /\ plan = [r \in Runs |-> None]
  /\ executed = {}
  /\ aborted = {} /\ closed = {} /\ draining = [q \in Runners |-> None]
  /\ handoff = NoHandoff /\ newest = [s \in Sessions |-> None]
  /\ faults = 0 /\ crashes = 0

-----------------------------------------------------------------------------
(* How a run ends, and what interrupts it *)

\* Faulty variant: a run that failed keeps the session.
LeaveOnSuccess(r, answer) == IF answer = "answered" THEN [line EXCEPT ![SessionOf[r]] = Tail(@)] ELSE line

\* The gate of the next operation opens whatever the outcome.
Leave(r, answer) == [line EXCEPT ![SessionOf[r]] = Tail(@)]

Settled(r, answer) ==
  /\ step' = [step EXCEPT ![r] = "done"]
  /\ outcome' = [outcome EXCEPT ![r] = answer]
  /\ line' = Leave(r, answer)

\* A failed or finished run of the queue; a planning run retires its generation.
End(r, answer) ==
  /\ Settled(r, answer)
  /\ handoff' = Retire(handoff, r)
  /\ UNCHANGED <<plan, executed, newest>>

Go(r, next) ==
  /\ step' = [step EXCEPT ![r] = next]
  /\ UNCHANGED <<line, outcome, plan, executed, handoff, newest>>

Refuse(r, answer) ==
  /\ step' = [step EXCEPT ![r] = "done"]
  /\ outcome' = [outcome EXCEPT ![r] = answer]

\* runnerInterruption, toolInterruption: "" while the run may go on.
Interruption(r) ==
  IF RunnerOf[r] \in aborted THEN "cancelled" ELSE IF RunnerOf[r] \in closed THEN "closed" ELSE ""

\* Some budget allows a behaviour with these runs, and so many failures.
Within(runs, fails, deaths) ==
  \E b \in Budgets : runs \subseteq b.runs /\ fails <= b.faults /\ deaths <= b.crashes

Submitted == {r \in Runs : step[r] # "idle"}

Fails == faults' = faults + 1 /\ Within(Submitted, faults', crashes)

\* A write is acknowledged, fails, or fails after its line reached the file.
Written(s, item) == hist' = [hist EXCEPT ![s] = Append(@, item)]
Acknowledged(s, item) == Written(s, item) /\ UNCHANGED faults
Refused(s, item) ==
  /\ Fails
  /\ \/ UNCHANGED hist
     \/ Written(s, item)

Stands(r, where) == step[r] = where

-----------------------------------------------------------------------------
(* A call of the runner *)

Enqueue(r) ==
  /\ line' = [line EXCEPT ![SessionOf[r]] = Append(@, r)]
  /\ step' = [step EXCEPT ![r] = "queued"]
  /\ UNCHANGED outcome

\* run, compact
Submit(r) ==
  /\ step[r] = "idle" /\ KindOf[r] \in {"plan", "plain", "compact"}
  /\ Within(Submitted \cup {r}, faults, crashes)
  /\ \/ /\ RunnerOf[r] \in closed
        /\ Refuse(r, "closed")
        /\ UNCHANGED <<line, handoff, newest>>
     \/ /\ RunnerOf[r] \notin closed
        /\ Enqueue(r)
        /\ IF KindOf[r] = "plan"
           THEN handoff' = Begin(handoff, r) /\ newest' = [newest EXCEPT ![SessionOf[r]] = r]
           ELSE UNCHANGED <<handoff, newest>>
  /\ UNCHANGED <<hist, transcript, batch, plan, executed, signals, faults, crashes>>

\* consumePlanReceipt: the caller holds the receipt a run returned.
Approve(s, r) ==
  /\ Consumable(handoff, s, r)
  /\ handoff' = Consume(handoff, s, r)
  /\ UNCHANGED <<hist, line, step, transcript, batch, outcome, plan, executed, signals, newest, faults, crashes>>

\* discardApprovedPlan
Discard(r) ==
  /\ r \in handoff.approved
  /\ handoff' = Take(handoff, r)
  /\ UNCHANGED <<hist, line, step, transcript, batch, outcome, plan, executed, signals, newest, faults, crashes>>

\* runApprovedPlan with the plan of run a, of this session or of another.
SubmitPlan(r, a) ==
  /\ step[r] = "idle" /\ KindOf[r] \in {"build", "misuse"}
  /\ a \in (handoff.approved \cup {plan[b] : b \in Runs}) \ {None}
  /\ Within(Submitted \cup {r}, faults, crashes)
  /\ \/ /\ ~Takable(handoff, SessionOf[r], a)
        /\ Refuse(r, "denied")
        /\ UNCHANGED <<line, known, plan, handoff>>
     \/ /\ Takable(handoff, SessionOf[r], a)
        /\ handoff' = Take(handoff, a)
        /\ \/ /\ KindOf[r] = "misuse" \/ RunnerOf[r] \in closed
              /\ Refuse(r, IF KindOf[r] = "misuse" THEN "denied" ELSE "closed")
              /\ UNCHANGED <<line, known, plan>>
           \/ /\ KindOf[r] = "build" /\ RunnerOf[r] \notin closed
              /\ Enqueue(r)
              /\ plan' = [plan EXCEPT ![r] = a]
              /\ known' = [known EXCEPT ![r] = known[a]]
  /\ UNCHANGED <<hist, turn, text, past, used, steps, batch, executed, signals, newest, faults, crashes>>

-----------------------------------------------------------------------------
(* The run up to its first model step *)

\* Faulty variant: a run starts when its runner has none running.
TurnOf(r) == ~\E o \in Runs : RunnerOf[o] = RunnerOf[r] /\ step[o] \notin {"idle", "queued", "done"}

\* SessionOperationCoordinator: the operations of a session run one by one.
MyTurn(r) == Head(line[SessionOf[r]]) = r

Start(r) ==
  /\ Stands(r, "queued") /\ MyTurn(r)
  /\ IF RunnerOf[r] \in closed THEN End(r, "closed")
     ELSE IF Interruption(r) # "" THEN End(r, Interruption(r))
     ELSE Go(r, CASE KindOf[r] = "build" -> "greeting"
                  [] KindOf[r] = "compact" -> "summarising"
                  [] OTHER -> "reading")
  /\ UNCHANGED <<hist, transcript, batch, signals, faults, crashes>>

\* readOrEmpty, then the preflight, which answers with or without advice.
Read(r) ==
  /\ Stands(r, "reading")
  /\ \/ /\ Fails
        /\ End(r, "storage") /\ UNCHANGED known
     \/ /\ UNCHANGED faults
        /\ \/ ~Replays(SessionOf[r]) /\ End(r, "unreplayable") /\ UNCHANGED known
           \/ /\ Replays(SessionOf[r])
              /\ known' = [known EXCEPT ![r] = CallIds(View(SessionOf[r]))]
              /\ IF Interruption(r) # "" THEN End(r, Interruption(r)) ELSE Go(r, "greeting")
  /\ UNCHANGED <<hist, turn, text, past, used, steps, batch, signals, crashes>>

\* The head of the loop: interruption, then beginModelStep.
NextStep(r) ==
  IF Interruption(r) # "" THEN End(r, Interruption(r)) /\ UNCHANGED steps
  ELSE IF steps[r] >= MaxSteps THEN End(r, "limit") /\ UNCHANGED steps
  ELSE Go(r, "asking") /\ steps' = [steps EXCEPT ![r] = @ + 1]

\* The user's message is appended.
Greet(r) ==
  LET s == SessionOf[r] item == Item("text", None, r, "user")
  IN /\ Stands(r, "greeting")
     /\ \/ Refused(s, item) /\ End(r, "storage") /\ UNCHANGED steps
        \/ Acknowledged(s, item) /\ NextStep(r)
     /\ UNCHANGED <<known, turn, text, past, used, batch, signals, crashes>>

-----------------------------------------------------------------------------
(* The provider answers *)

\* validateConversationItems([...transcript, ...turn.items])
Fresh(r, calls) == Cardinality(Ids(calls)) = Len(calls) /\ Ids(calls) \cap known[r] = {}

\* Faulty variant: only the calls of this answer are counted.
WithinStep(r, calls) == Len(calls) <= MaxPerStep /\ Len(calls) <= MaxCalls

\* admitLoopToolCalls: the two limits, and a set of calls repeated in any order.
WithinLimits(r, calls) == Len(calls) <= MaxPerStep /\ used[r] + Len(calls) <= MaxCalls
SameCalls(a, b) ==
  \A t \in Range(Tools(a)) \cup Range(Tools(b)) :
    Cardinality({i \in DOMAIN a : a[i].tool = t}) = Cardinality({i \in DOMAIN b : b[i].tool = t})
Repeats(r, calls) == calls # <<>> /\ \E p \in past[r] : SameCalls(p, calls)

Rejection(r, calls) ==
  IF Interruption(r) # "" THEN Interruption(r)
  ELSE IF ~Fresh(r, calls) THEN "invalid"
  ELSE IF ~WithinLimits(r, calls) THEN "limit"
  ELSE IF Repeats(r, calls) THEN "loop"
  ELSE IF Range(Tools(calls)) \cap DeniedTools # {} THEN "denied"
  ELSE ""

\* The request fails.  Its telemetry does not change the outcome.
ProviderFails(r) ==
  /\ Stands(r, "asking")
  /\ End(r, IF RunnerOf[r] \in aborted THEN "cancelled" ELSE "failed")
  /\ UNCHANGED <<hist, transcript, batch, signals, faults, crashes>>

Answer(r) ==
  /\ Stands(r, "asking")
  /\ \E calls \in Turns[r], spoken \in BOOLEAN :
       \/ /\ Rejection(r, calls) # ""
          /\ End(r, Rejection(r, calls))
          /\ UNCHANGED <<transcript, batch>>
       \/ /\ Rejection(r, calls) = ""
          /\ turn' = [turn EXCEPT ![r] = calls]
          /\ text' = IF spoken THEN text \cup {r} ELSE text \ {r}
          /\ past' = [past EXCEPT ![r] = IF calls = <<>> THEN @ ELSE @ \cup {calls}]
          /\ used' = [used EXCEPT ![r] = @ + Len(calls)]
          /\ persisted' = [persisted EXCEPT ![r] = 0]
          /\ tried' = [tried EXCEPT ![r] = {}]
          /\ Go(r, IF calls = <<>> THEN "committing" ELSE "recording")
          /\ UNCHANGED <<known, steps, todo, failure>>
  /\ UNCHANGED <<hist, signals, faults, crashes>>

-----------------------------------------------------------------------------
(* The final answer: a guarded commit *)

\* RunnerCommitProtocol.begin is evaluated right before the write.
Commit(r) ==
  LET s == SessionOf[r] item == Item("text", None, r, "answer") stop == Interruption(r)
      Commits(why) == Go(r, "confirming") /\ failure' = [failure EXCEPT ![r] = why]
  IN /\ Stands(r, "committing")
     /\ \/ stop # "" /\ Commits(stop) /\ UNCHANGED <<hist, faults>>
        \/ stop = "" /\ r \in text /\ Refused(s, item) /\ Commits("storage")
        \/ /\ stop = "" /\ Commits("") /\ UNCHANGED faults
           /\ IF r \in text THEN Written(s, item) ELSE UNCHANGED hist
     /\ UNCHANGED <<transcript, persisted, tried, todo, signals, crashes>>

\* Faulty variant: a signal that came after the write still cancels.
VerdictLate(r) == IF failure[r] = "" THEN Interruption(r) ELSE failure[r]

\* RunnerCommitProtocol.committed, rejected, fail: the guard decided.
Verdict(r) == failure[r]

\* The telemetry of the answer is awaited after the commit and, if it failed,
\* fails the run whatever the commit did.  A planning run that answered and
\* said something issues its receipt.
Confirm(r) ==
  /\ Stands(r, "confirming")
  /\ \/ Fails /\ End(r, "telemetry")
     \/ UNCHANGED faults /\ Verdict(r) # "" /\ End(r, Verdict(r))
     \/ /\ UNCHANGED faults /\ Verdict(r) = ""
        /\ Settled(r, "answered")
        /\ handoff' = Retire(IF KindOf[r] = "plan" /\ r \in text THEN Issue(handoff, r) ELSE handoff, r)
        /\ UNCHANGED <<plan, executed, newest>>
  /\ UNCHANGED <<hist, transcript, batch, signals, crashes>>

-----------------------------------------------------------------------------
(* The calls of an answer are persisted, in order, after their telemetry *)

Result(id, content) == [id |-> id, content |-> content]

\* Faulty variant: whatever was persisted gets a result.
UntouchedAll(r, t) == 1 .. persisted[r]

\* The persisted calls whose settlement was not tried (t: those tried).
Untouched(r, t) == {i \in 1 .. persisted[r] : turn[r][i].id \notin t}

Skips(calls) == [i \in DOMAIN calls |-> Result(calls[i].id, "skipped")]

\* settlePersistedCalls: settle what is left, then fail with why.
SettleLeft(r, t, why) ==
  \/ Untouched(r, t) = {} /\ End(r, why) /\ UNCHANGED failure
  \/ Untouched(r, t) # {} /\ Go(r, "clearing") /\ failure' = [failure EXCEPT ![r] = why]

\* The telemetry of a turn with calls is awaited before anything is persisted.
Record(r) ==
  /\ Stands(r, "recording")
  /\ \/ Fails /\ End(r, "telemetry")
     \/ UNCHANGED faults /\ Go(r, IF r \in text THEN "speaking" ELSE "persisting")
  /\ UNCHANGED <<hist, transcript, batch, signals, crashes>>

\* Text goes first.
Speak(r) ==
  LET s == SessionOf[r] item == Item("text", None, r, "reply") stop == Interruption(r)
  IN /\ Stands(r, "speaking")
     /\ \/ stop # "" /\ End(r, stop) /\ UNCHANGED <<hist, faults>>
        \/ stop = "" /\ Refused(s, item) /\ End(r, "storage")
        \/ stop = "" /\ Acknowledged(s, item) /\ Go(r, "persisting")
     /\ UNCHANGED <<transcript, batch, signals, crashes>>

Persist(r) ==
  LET s == SessionOf[r] n == persisted[r] + 1 id == turn[r][n].id
      item == Item("call", id, r, "") stop == Interruption(r)
  IN /\ Stands(r, "persisting")
     /\ \/ /\ stop # "" /\ SettleLeft(r, tried[r], stop)
           /\ UNCHANGED <<hist, faults, known, persisted>>
        \/ /\ stop = "" /\ Refused(s, item) /\ SettleLeft(r, tried[r], "storage")
           /\ UNCHANGED <<known, persisted>>
        \/ /\ stop = "" /\ Acknowledged(s, item)
           /\ known' = [known EXCEPT ![r] = @ \cup {id}]
           /\ persisted' = [persisted EXCEPT ![r] = n]
           /\ Go(r, IF n = Len(turn[r]) THEN "executing" ELSE "persisting")
           /\ UNCHANGED failure
     /\ UNCHANGED <<turn, text, past, used, steps, tried, todo, signals, crashes>>

-----------------------------------------------------------------------------
(* executeToolBatch *)

PastLast(r, i) == i > Len(turn[r])

\* Before the i-th call: the tool is started, or what is left is skipped;
\* past the last call the model is asked again.
AtCall(r, i) ==
  \/ PastLast(r, i) /\ NextStep(r) /\ UNCHANGED <<todo, failure>>
  \/ /\ ~PastLast(r, i) /\ Interruption(r) = ""
     /\ step' = [step EXCEPT ![r] = "running"]
     /\ todo' = [todo EXCEPT ![r] = <<Result(turn[r][i].id, "")>>]
     /\ executed' = executed \cup {<<r, turn[r][i].id>>}
     /\ UNCHANGED <<line, outcome, plan, handoff, newest, steps, failure>>
  \/ /\ ~PastLast(r, i) /\ Interruption(r) # ""
     /\ Go(r, "settling")
     /\ todo' = [todo EXCEPT ![r] = Skips(SubSeq(turn[r], i, Len(turn[r])))]
     /\ failure' = [failure EXCEPT ![r] = Interruption(r)]
     /\ UNCHANGED steps

Execute(r) ==
  /\ Stands(r, "executing") /\ AtCall(r, 1)
  /\ UNCHANGED <<hist, known, turn, text, past, used, persisted, tried, signals, faults, crashes>>

IndexOf(r, id) == CHOOSE i \in DOMAIN turn[r] : turn[r][i].id = id

\* The tool ran, failed in a way the model may recover from, or failed for good.
ToolReturns(r) ==
  LET id == Head(todo[r]).id
      left == Skips(SubSeq(turn[r], IndexOf(r, id) + 1, Len(turn[r])))
      Settling(content, rest, why) ==
        /\ todo' = [todo EXCEPT ![r] = <<Result(id, content)>> \o rest]
        /\ failure' = [failure EXCEPT ![r] = why]
  IN /\ Stands(r, "running")
     /\ Go(r, "settling")
     /\ \/ Interruption(r) # "" /\ Settling("interrupted", left, Interruption(r))
        \/ Interruption(r) = "" /\ Settling("failed", left, "tool")
        \/ Interruption(r) = "" /\ Settling("ran", <<>>, "")
     /\ UNCHANGED <<hist, transcript, persisted, tried, signals, faults, crashes>>

\* onSettlementAttempt
Touched(r) == tried[r] \cup {Head(todo[r]).id}

\* settleToolCall: append the first result of todo.
Appending(r) == LET c == Head(todo[r]) IN Item("result", c.id, r, c.content)

Settle(r) ==
  LET s == SessionOf[r] id == Head(todo[r]).id
  IN /\ Stands(r, "settling")
     /\ \/ /\ Refused(s, Appending(r)) /\ SettleLeft(r, Touched(r), "storage")
           /\ tried' = [tried EXCEPT ![r] = Touched(r)] /\ UNCHANGED <<todo, steps>>
        \/ /\ Acknowledged(s, Appending(r))
           /\ tried' = [tried EXCEPT ![r] = @ \cup {id}]
           /\ \/ /\ Len(todo[r]) > 1 /\ Go(r, "settling")
                 /\ todo' = [todo EXCEPT ![r] = Tail(@)] /\ UNCHANGED <<failure, steps>>
              \/ /\ Len(todo[r]) = 1 /\ failure[r] # ""
                 /\ End(r, failure[r]) /\ UNCHANGED <<todo, failure, steps>>
              \/ Len(todo[r]) = 1 /\ failure[r] = "" /\ AtCall(r, IndexOf(r, id) + 1)
     /\ UNCHANGED <<known, turn, text, past, used, persisted, signals, crashes>>

\* What settlePersistedCalls appends, in order; a second failure leaves the rest.
Clear(r) ==
  \E i \in Untouched(r, tried[r]) :
    LET id == turn[r][i].id item == Item("result", id, r, "skipped")
    IN /\ Stands(r, "clearing") /\ \A j \in Untouched(r, tried[r]) : i <= j
       /\ tried' = [tried EXCEPT ![r] = @ \cup {id}]
       /\ \/ Refused(SessionOf[r], item) /\ End(r, "storage")
          \/ /\ Acknowledged(SessionOf[r], item)
             /\ IF Untouched(r, tried'[r]) = {} THEN End(r, failure[r]) ELSE Go(r, "clearing")
       /\ UNCHANGED <<transcript, persisted, todo, failure, signals, crashes>>

-----------------------------------------------------------------------------
(* Compaction of a session: SessionStore has its reads and its publication *)

Summarise(r) ==
  LET s == SessionOf[r]
  IN /\ Stands(r, "summarising")
     /\ \/ Fails /\ End(r, "storage") /\ UNCHANGED hist
        \/ /\ UNCHANGED faults
           /\ \/ ~Replays(s) /\ End(r, "unreplayable") /\ UNCHANGED hist
              \/ Interruption(r) # "" /\ End(r, Interruption(r)) /\ UNCHANGED hist
              \/ /\ Replays(s) /\ Interruption(r) = ""
                 /\ Written(s, Item("checkpoint", None, r, "")) /\ End(r, "answered")
     /\ UNCHANGED <<transcript, batch, signals, crashes>>

-----------------------------------------------------------------------------
(* Signals, close and the death of the process *)

Abort(q) ==
  /\ q \notin aborted /\ aborted' = aborted \cup {q}
  /\ UNCHANGED <<hist, line, step, transcript, batch, outcome, plan, executed, closed, draining,
                 handoff, newest, faults, crashes>>

Unfinished(q) == {r \in Runs : RunnerOf[r] = q /\ step[r] \notin {"idle", "done"}}

\* Faulty variant: close() waits for the run that is under way.
PendingRunning(q) == {r \in Unfinished(q) : step[r] # "queued"}

\* snapshotPendingOperations
Pending(q) == Unfinished(q)

Close(q) ==
  /\ q \notin closed /\ closed' = closed \cup {q}
  /\ draining' = [draining EXCEPT ![q] = Pending(q)]
  /\ UNCHANGED <<hist, line, step, transcript, batch, outcome, plan, executed, aborted,
                 handoff, newest, faults, crashes>>

\* close() returns once what it waits for is done.
Drained(q) == q \in closed /\ \A r \in draining[q] : step[r] = "done"

Crash ==
  /\ crashes' = crashes + 1 /\ Within(Submitted, faults, crashes')
  /\ LET lost == {r \in Runs : step[r] \notin {"idle", "done"}}
     IN /\ lost # {}
        /\ step' = [r \in Runs |-> IF r \in lost THEN "done" ELSE step[r]]
        /\ outcome' = [r \in Runs |-> IF r \in lost THEN "lost" ELSE outcome[r]]
  /\ line' = [s \in Sessions |-> <<>>]
  /\ handoff' = NoHandoff /\ newest' = [s \in Sessions |-> None]
  /\ aborted' = {} /\ closed' = {} /\ draining' = [q \in Runners |-> None]
  /\ UNCHANGED <<hist, transcript, batch, plan, executed, faults>>

-----------------------------------------------------------------------------
Work(r) ==
  \/ Start(r) \/ Read(r) \/ Greet(r) \/ ProviderFails(r) \/ Answer(r) \/ Commit(r) \/ Confirm(r)
  \/ Record(r) \/ Speak(r) \/ Persist(r) \/ Execute(r) \/ ToolReturns(r) \/ Settle(r) \/ Clear(r)
  \/ Summarise(r)

Next ==
  \/ \E r \in Runs : Submit(r) \/ Work(r) \/ Discard(r)
  \/ \E r, a \in Runs : SubmitPlan(r, a)
  \/ \E s \in Sessions, r \in Runs : Approve(s, r)
  \/ \E q \in Runners : Abort(q) \/ Close(q)
  \/ Crash

Spec == Init /\ [][Next]_vars

\* Providers, tools and the file system answer: a run that is queued or
\* awaits something goes on.
FairSpec == Spec /\ \A r \in Runs : WF_vars(Work(r))

-----------------------------------------------------------------------------
Contents == {"", "ran", "failed", "interrupted", "skipped", "user", "reply", "answer"}
Outcomes == {"none", "answered", "cancelled", "closed", "failed", "unreplayable", "invalid", "limit", "loop", "denied",
             "storage", "telemetry", "tool", "lost"}

\* Every variable has its shape, and a run is in its session's queue, once,
\* from its submission to its end.
TypeOK ==
  /\ \A s \in Sessions : \A i \in DOMAIN hist[s] :
       hist[s][i].kind \in {"text", "call", "result", "checkpoint"} /\ hist[s][i].content \in Contents
  /\ \A s \in Sessions : Range(line[s]) = {r \in Runs : SessionOf[r] = s /\ step[r] \notin {"idle", "done"}}
  /\ \A s \in Sessions : Cardinality(Range(line[s])) = Len(line[s])
  /\ outcome \in [Runs -> Outcomes] /\ \A r \in Runs : outcome[r] = "none" <=> step[r] # "done"
  /\ plan \in [Runs -> Runs \cup {None}]
  /\ handoff \in HandoffType /\ newest \in [Sessions -> Runs \cup {None}]
  /\ aborted \subseteq Runners /\ closed \subseteq Runners
  /\ faults \in Nat /\ crashes \in Nat

\* The places of the items a run wrote into its session.
Mine(r) == {i \in DOMAIN hist[SessionOf[r]] : hist[SessionOf[r]][i].run = r}
Calls(r) == {i \in Mine(r) : hist[SessionOf[r]][i].kind = "call"}

\* The call at place i is answered by a later item of its run.
Answered(r, i) ==
  \E j \in Mine(r) : j > i /\ hist[SessionOf[r]][j].kind = "result"
                     /\ hist[SessionOf[r]][j].id = hist[SessionOf[r]][i].id

\* What a session holds makes sense to a model whatever failed, was cancelled or
\* died: ids are not repeated, nothing is said between a call and its result,
\* and in a session no run works on the only calls without a result are those
\* of a run that could not write or died.  Such calls are recovered when the
\* session is replayed, unless it was compacted: then the strict conversion
\* refuses it (validateConversationItems, normalizeConversationItemsForPrompt).
HistoryReplays ==
  \A s \in Sessions :
    LET items == View(s)
        Of(i) == {j \in i + 1 .. Len(items) : items[j].kind = "result" /\ items[j].id = items[i].id}
    IN /\ Valid(items)
       /\ \A i \in DOMAIN items : items[i].kind = "call" =>
            /\ \A j \in Of(i) : \A k \in i .. j : items[k].kind # "text"
            /\ line[s] = <<>> /\ Of(i) = {} => outcome[items[i].run] \in {"storage", "lost"}

\* A result that says the tool did not run is never one of a tool that was
\* started: "the batch stopped after a terminal failure; this tool did not
\* run" (runner-tool-execution.ts).
SkipsAreHonest ==
  \A s \in Sessions : \A i \in DOMAIN hist[s] :
    hist[s][i].content = "skipped" => <<hist[s][i].run, hist[s][i].id>> \notin executed

\* A run that answered has settled every call it made, and its answer is the
\* last thing it wrote.
AnswersAreWhole ==
  \A r \in Runs : outcome[r] = "answered" /\ KindOf[r] # "compact" =>
    /\ \A i \in Calls(r) : Answered(r, i)
    /\ r \in text => \E i \in Mine(r) : hist[SessionOf[r]][i].content = "answer" /\ \A j \in Mine(r) : j <= i

\* A run reported as cancelled or closed left no answer in the session, and
\* every call it persisted has a result.
StoppedIsUnanswered ==
  \A r \in Runs : outcome[r] \in {"cancelled", "closed"} =>
    /\ \A i \in Mine(r) : hist[SessionOf[r]][i].content # "answer"
    /\ \A i \in Calls(r) : Answered(r, i)

\* What a run reports, in its results and in its outcome, is what happened.
ReportsAreTrue == SkipsAreHonest /\ AnswersAreWhole /\ StoppedIsUnanswered

\* The turns of a session do not interleave, whichever runner they go through.
TurnsStayWhole ==
  \A s \in Sessions : \A i \in 1 .. Len(hist[s]) - 1 : hist[s][i].run # hist[s][i + 1].run
    => \A j \in i + 1 .. Len(hist[s]) : hist[s][j].run # hist[s][i].run

\* Over all its answers a run has no more calls or steps than its limits, and
\* it never admits the same calls twice.
BudgetHolds ==
  \A r \in Runs :
    /\ Cardinality({e \in executed : e[1] = r}) <= MaxCalls /\ steps[r] <= MaxSteps
    /\ Cardinality(Calls(r)) <= MaxCalls
    /\ \A a, b \in past[r] : SameCalls(a, b) => a = b

\* Once close() has returned nothing of the runner is under way or will be.
CloseDrains == \A q \in Runners : Drained(q) => Unfinished(q) = {}

\* A receipt is only good while no newer planning run was invoked, and the
\* plan it stands for is an answer the session holds.
ReceiptIsCurrent ==
  \A r \in handoff.receipts :
    /\ newest[SessionOf[r]] = r /\ handoff.current[SessionOf[r]] = r
    /\ outcome[r] = "answered" /\ r \in text

\* An approved plan is submitted at most once, in its own session.
PlanRunsOnce ==
  /\ \A a, b \in Runs : plan[a] = plan[b] /\ plan[a] # None => a = b
  /\ \A r \in Runs : plan[r] # None => SessionOf[plan[r]] = SessionOf[r] /\ KindOf[r] = "build"

\* What is approved or built is a plan that was answered; it is spent when it is
\* built, and its receipt when it is approved.
ApprovalsAreSound ==
  \A a \in Runs :
    /\ a \in handoff.approved \/ (\E r \in Runs : plan[r] = a) =>
         outcome[a] = "answered" /\ a \in text /\ a \notin handoff.receipts
    /\ \A r \in Runs : plan[r] = a => a \notin handoff.approved

\* A plan can be approved only while it is the newest one of its session, and
\* one approval is good for one execution of a recorded plan.  An approval
\* stands: a planning run that begins later retires the receipts of its session
\* and leaves what was approved (begin and consume, plan-handoff.ts:52-91).
PlansAreApprovedOnce == ReceiptIsCurrent /\ PlanRunsOnce /\ ApprovalsAreSound

\* No id of a session is persisted a second time: the test "rejects a
\* repeated historical call ID before persisting or executing it again".
RepeatedIdsAreRejected ==
  \A s \in Sessions : \A i, j \in DOMAIN hist[s] :
    hist[s][i].kind = "call" /\ hist[s][j].kind = "call" /\ hist[s][i].id = hist[s][j].id => i = j

\* Every run ends, so that close(), which waits for runs, returns.
EveryRunEnds == <>[](\A r \in Runs : step[r] \in {"idle", "done"})
=============================================================================

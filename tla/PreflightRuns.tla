------------------------------ MODULE PreflightRuns ------------------------------
(***************************************************************************)
(* The preflight of a session's first prompt (agents/preflight): the gate  *)
(* of the runner, the registry of live runs that all schedulers of the     *)
(* process share, the run with its root agent, research children and       *)
(* finalizer, the authority over its one terminal record, and close().     *)
(*                                                                         *)
(* One session.  Its ledger admits one reservation, so that at most one    *)
(* run is ever created for it; later callers join the run, are turned      *)
(* away, or settle a reservation that nobody works on any more.  Writes go *)
(* through the queue of the session store: a write fails before or after   *)
(* its line reached the file, and a guarded one asks its guard last.       *)
(* Providers and tools answer when they like, or not at all until their    *)
(* signal is aborted.                                                      *)
(***************************************************************************)
EXTENDS Integers, Sequences, FiniteSets

CONSTANTS
  Calls,         \* calls of the runner's gate
  Schedulers,
  SchedulerOf,   \* [Calls -> Schedulers]
  MaxChildren,   \* most research requests of the root agent
  Capacity,      \* min(maxConcurrentChildren, maxTotalChildren)
  MaxSteps,      \* limits.maxModelSteps
  Budgets,       \* bounds: calls, closed schedulers, children, failing writes, deaths
  None

Children  == 1 .. MaxChildren
Root      == 0
Finalizer == MaxChildren + 1
Workers   == 0 .. MaxChildren + 1
Verdicts  == {"committed", "failure", "timeout", "cancelled", "orphaned"}

ASSUME CallsAssumption ==
  /\ SchedulerOf \in [Calls -> Schedulers] /\ None \notin Calls
  /\ MaxChildren \in Nat /\ Capacity \in Nat /\ MaxSteps \in Nat \ {0}
  /\ Budgets \subseteq [calls : SUBSET Calls, closed : SUBSET Schedulers,
                       children : Nat, faults : Nat, crashes : Nat]

VARIABLES
  ledger,     \* the summary the session's ledger projects to
  source,     \* whose prompt is reserved
  begun,      \* the session had a user message before it had a reservation
  queue,      \* writes the session store has not finished, in order
  line,       \* calls in the registry's chain of admissions, the first one is served
  step,       \* where a call stands
  identity,   \* call -> the prompt it asks for
  told,       \* call -> what its caller was answered
  aborted,    \* calls whose own signal is aborted
  closing,    \* scheduler -> how far its close() is
  awaited,    \* scheduler -> admissions its close() waits for
  run,        \* the call that created the run
  exec,       \* where PreflightDirectRun.execute stands
  at,         \* worker -> where it stands
  steps,      \* worker -> model steps begun
  expired,    \* children whose own deadline passed
  late,       \* the time reserved for the finalizer has begun
  authority,  \* who owns the verdict: open, claimed by the success, or asked for
  request,    \* the terminal write of a cancellation or timeout
  result,     \* what execute returned
  done,       \* what the run's done promise settled with
  faults, crashes

callers == <<line, step, identity, told, aborted, begun>>
work    == <<at, steps, expired, late>>
closes  == <<closing, awaited>>
outcome == <<exec, result, done>>
control == <<authority, request>>
vars == <<ledger, source, queue, callers, closes, run, work, outcome, control, faults, crashes>>

Job(kind, of) == [kind |-> kind, of |-> of]

\* A call is inside scheduler.run until its admission is over.
Admitting == {"waiting", "reserving", "resolving", "orphaning"}

Live == run # None /\ done = "none"

\* The signal of the caller, the deadline and close() can still ask for an end.
Listening == Live /\ exec # "precancelled"

\* The run's controller is aborted once the cancellation or timeout is durable.
Stopped == request = "durable"

Count(statuses) == Cardinality({i \in Children : at[i] \in statuses})
Asked == Count({"queued", "working", "recording", "ending", "evidence", "fatal"})
Busy  == Count({"working", "recording", "ending"})
Fatal == Count({"fatal"}) > 0

\* Faulty variant: the root and the finalizer are not told of the stop.
InterruptedChild(w) == w \in Children /\ (Stopped \/ Fatal \/ w \in expired)

\* The signal a worker sees: a child's group and its own deadline end it too.
Interrupted(w) == Stopped \/ (w \in Children /\ (Fatal \/ w \in expired))

\* Some budget allows a behaviour with so much of everything.
Within(calls, closed, children, fails, halts) ==
  \E b \in Budgets : /\ calls \subseteq b.calls /\ closed \subseteq b.closed
                     /\ children <= b.children /\ fails <= b.faults /\ halts <= b.crashes

Called == {c \in Calls : step[c] # "idle"}
Shut == {s \in Schedulers : closing[s] # "open"}
Succeeds == UNCHANGED faults
Fails == faults' = faults + 1 /\ Within(Called, Shut, Asked, faults', crashes)

-----------------------------------------------------------------------------
Init ==
  /\ ledger = "unreserved" /\ source = None /\ begun = FALSE /\ queue = <<>>
  /\ line = <<>> /\ step = [c \in Calls |-> "idle"] /\ identity = [c \in Calls |-> None]
  /\ told = [c \in Calls |-> "none"] /\ aborted = {}
  /\ closing = [s \in Schedulers |-> "open"] /\ awaited = [s \in Schedulers |-> {}]
  /\ run = None /\ exec = "none" /\ result = "none" /\ done = "none"
  /\ at = [w \in Workers |-> "none"] /\ steps = [w \in Workers |-> 0]
  /\ expired = {} /\ late = FALSE
  /\ authority = "open" /\ request = "none"
  /\ faults = 0 /\ crashes = 0

-----------------------------------------------------------------------------
(* The session store, as the preflight uses it *)

Owner(job) == queue # <<>> /\ Head(queue) = job
Unwritten == UNCHANGED <<ledger, source>>

\* The guard of the success, asked as its line is about to be written.
Claims == authority = "open"

\* The ledger takes one reservation, only in a session without messages, and
\* one verdict on it.
Accepted(job) ==
  \/ job.kind = "reserve" /\ ledger = "unreserved" /\ ~begun
  \/ job.kind \in Verdicts /\ ledger = "reserved" /\ (job.kind = "committed" => Claims)

\* The write lands in the file.
Lands(job) ==
  /\ Accepted(job)
  /\ ledger' = IF job.kind = "reserve" THEN "reserved" ELSE job.kind
  /\ source' = IF job.kind = "reserve" THEN identity[job.of] ELSE source

\* It is rejected, or fails before or after its line landed.
Errs(job) ==
  /\ IF Accepted(job) THEN Fails ELSE Succeeds
  /\ Unwritten \/ Lands(job)

-----------------------------------------------------------------------------
(* The gate of the runner, and the admission to the registry *)

Reply(c, answer) ==
  /\ step' = [step EXCEPT ![c] = "done"]
  /\ told' = [told EXCEPT ![c] = answer]

\* What a history without a verdict, and without a turn of its own, asks for.
Undecided == ledger = "reserved" \/ (ledger = "unreserved" /\ ~begun)

\* runPrimaryPreflight: read the history, ask for the prompt it has reserved
\* or for one's own, and enter the chain of admissions.
Ask(c) ==
  /\ step[c] = "idle" /\ Within(Called \cup {c}, Shut, Asked, faults, crashes)
  /\ \/ ~Undecided /\ Reply(c, "skipped") /\ UNCHANGED <<line, identity>>
     \/ /\ Undecided /\ closing[SchedulerOf[c]] # "open"
        /\ Reply(c, "closed") /\ UNCHANGED <<line, identity>>
     \/ /\ Undecided /\ closing[SchedulerOf[c]] = "open"
        /\ identity' = [identity EXCEPT ![c] = IF ledger = "reserved" THEN source ELSE c]
        /\ line' = Append(line, c) /\ step' = [step EXCEPT ![c] = "waiting"] /\ UNCHANGED told
  /\ UNCHANGED <<ledger, source, begun, queue, aborted, closes, run, work, outcome, control, faults, crashes>>

\* Faulty variant: a run that was told to end no longer counts as live.
RegisteredRunning == Live /\ request = "none"

\* The registry holds a run until its done promise settles.
Registered == Live

\* PreflightRunRegistry.admit, for the first of its chain.
Admit(c) ==
  /\ line # <<>> /\ Head(line) = c /\ step[c] = "waiting"
  /\ \/ /\ Registered /\ identity[run] = identity[c]
        /\ step' = [step EXCEPT ![c] = "following"] /\ line' = Tail(line) /\ UNCHANGED <<told, queue>>
     \/ /\ Registered /\ identity[run] # identity[c]
        /\ Reply(c, "owned") /\ line' = Tail(line) /\ UNCHANGED queue
     \/ /\ ~Registered /\ step' = [step EXCEPT ![c] = "reserving"]
        /\ queue' = Append(queue, Job("reserve", c)) /\ UNCHANGED <<line, told>>
  /\ UNCHANGED <<ledger, source, begun, identity, aborted, closes, run, work, outcome, control, faults, crashes>>

\* An admission that creates no run answers its caller and lets the next one in.
TurnedAway(c, answer) ==
  /\ Reply(c, answer) /\ line' = Tail(line)
  /\ UNCHANGED <<identity, aborted, begun, run, outcome, control, work>>

\* The callback of registry.admit once the reservation is durable: a run that
\* is unwanted by then is cancelled, else its root agent begins.
CreateRun(c, rest) ==
  /\ run' = c /\ step' = [step EXCEPT ![c] = "following"] /\ line' = Tail(line)
  /\ LET unwanted == closing[SchedulerOf[c]] # "open" \/ c \in aborted
     IN \/ /\ unwanted /\ exec' = "precancelled" /\ authority' = "cancelled"
           /\ queue' = Append(rest, Job("cancelled", c)) /\ UNCHANGED <<at, steps>>
        \/ /\ ~unwanted /\ exec' = "terminal" /\ authority' = "failure"     \* no route
           /\ queue' = Append(rest, Job("failure", c)) /\ UNCHANGED <<at, steps>>
        \/ /\ ~unwanted /\ exec' = "root" /\ queue' = rest /\ UNCHANGED authority
           /\ at' = [at EXCEPT ![Root] = "working"] /\ steps' = [steps EXCEPT ![Root] = 1]
  /\ UNCHANGED <<told, identity, aborted, begun, expired, late, result, done, request>>

\* reserveFirstSummary, and what create makes of its answer.
ReserveEnds(c) ==
  /\ Owner(Job("reserve", c))
  /\ \/ /\ ledger # "unreserved" /\ source = identity[c] /\ Unwritten /\ Succeeds
        /\ queue' = Tail(queue) /\ step' = [step EXCEPT ![c] = "resolving"]
        /\ UNCHANGED <<line, told, identity, aborted, begun, run, outcome, control, work>>
     \/ /\ ledger # "unreserved" /\ source # identity[c] /\ Unwritten /\ Succeeds
        /\ TurnedAway(c, "owned") /\ queue' = Tail(queue)
     \/ /\ ledger = "unreserved" /\ begun /\ Unwritten /\ Succeeds
        /\ TurnedAway(c, "begun") /\ queue' = Tail(queue)
     \/ /\ Unwritten \/ Lands(Head(queue))
        /\ Fails /\ TurnedAway(c, "error") /\ queue' = Tail(queue)
     \/ Lands(Head(queue)) /\ Succeeds /\ CreateRun(c, Tail(queue))
  /\ UNCHANGED <<closes, crashes>>

\* resolveExisting for a reservation without a run: read the session, replay
\* its verdict, or record that the reservation is orphaned.
Resolve(c) ==
  /\ step[c] = "resolving"
  /\ \/ Fails /\ TurnedAway(c, "error") /\ UNCHANGED queue
     \/ ledger \in Verdicts /\ Succeeds /\ TurnedAway(c, "replayed") /\ UNCHANGED queue
     \/ /\ ledger \notin Verdicts /\ Succeeds
        /\ step' = [step EXCEPT ![c] = "orphaning"] /\ queue' = Append(queue, Job("orphaned", c))
        /\ UNCHANGED <<line, told, identity, aborted, begun, run, outcome, control, work>>
  /\ Unwritten /\ UNCHANGED <<closes, crashes>>

OrphanEnds(c) ==
  /\ Owner(Job("orphaned", c)) /\ queue' = Tail(queue)
  /\ \/ Lands(Head(queue)) /\ Succeeds /\ TurnedAway(c, "orphaned")
     \/ Errs(Head(queue)) /\ TurnedAway(c, "error")
  /\ UNCHANGED <<closes, crashes>>

-----------------------------------------------------------------------------
(* PreflightDirectRun.execute: how it ends *)

\* The done promise, when the execution returns: a requested end comes first,
\* and is waited for.
Settled(res) ==
  CASE request = "writing" -> "none"
    [] request = "durable" -> authority
    [] OTHER -> res

EndExecution(res) == exec' = "ended" /\ result' = res /\ done' = Settled(res)

\* A stage that comes back under an aborted signal returns the recorded end.
Return(rest) == EndExecution(authority) /\ queue' = rest /\ UNCHANGED authority

\* terminal.failedOpen, unless another end owns the verdict.
FailOpen(rest) ==
  \/ /\ authority = "open" /\ authority' = "failure" /\ exec' = "terminal"
     /\ queue' = Append(rest, Job("failure", run)) /\ UNCHANGED <<result, done>>
  \/ authority # "open" /\ EndExecution("error") /\ queue' = rest /\ UNCHANGED authority

\* terminal.committed: nothing is claimed before the guard of the write.
Commit(rest) ==
  /\ exec' = "terminal" /\ queue' = Append(rest, Job("committed", run))
  /\ UNCHANGED <<authority, result, done>>

\* Faulty variant: only a failing write is noticed, a rejected one is not.
RejectedUnread(kind) == kind

\* What the execution makes of a verdict that the store rejects.
Rejected(kind) == "error"

\* The write of the execution's own verdict.  The success is claimed by the
\* guard, and stays claimed when the write fails after it.
VerdictEnds(kind) ==
  /\ Owner(Job(kind, run)) /\ queue' = Tail(queue)
  /\ \/ ~Accepted(Head(queue)) /\ Unwritten /\ UNCHANGED authority /\ Succeeds /\ EndExecution(Rejected(kind))
     \/ Unwritten /\ UNCHANGED authority /\ Fails /\ EndExecution("error")
     \/ /\ Accepted(Head(queue))
        /\ authority' = IF kind = "committed" THEN "claimed" ELSE authority
        /\ \/ Lands(Head(queue)) /\ Succeeds /\ EndExecution(kind)
           \/ (Unwritten \/ Lands(Head(queue))) /\ Fails /\ EndExecution("error")
  /\ UNCHANGED <<callers, closes, run, work, request, crashes>>

-----------------------------------------------------------------------------
(* Cancellation and the deadline *)

\* requestCancellation, from the creator's signal or from close().
RequestCancel ==
  IF Listening /\ authority = "open"
  THEN authority' = "cancelled" /\ request' = "writing" /\ queue' = Append(queue, Job("cancelled", run))
  ELSE UNCHANGED <<authority, request, queue>>

\* The signal of a call is aborted; only the call that created the run is heard.
Abort(c) ==
  /\ step[c] \in Admitting \cup {"following"} /\ c \notin aborted /\ aborted' = aborted \cup {c}
  /\ IF c = run THEN RequestCancel ELSE UNCHANGED <<authority, request, queue>>
  /\ Unwritten /\ UNCHANGED <<line, step, identity, told, begun, closes, run, work, outcome, faults, crashes>>

PassBoundary ==
  /\ Listening /\ ~late /\ late' = TRUE
  /\ UNCHANGED <<ledger, source, queue, callers, closes, run, at, steps, expired, outcome, control, faults, crashes>>

\* requestTimeout, at the overall deadline.
Timeout ==
  /\ Listening /\ late /\ authority = "open"
  /\ authority' = "timeout" /\ request' = "writing" /\ queue' = Append(queue, Job("timeout", run))
  /\ Unwritten /\ UNCHANGED <<callers, closes, run, work, outcome, faults, crashes>>

\* The write of a requested end.  A run that returned meanwhile settles here,
\* and so does one that was cancelled before it began.
RequestEnds(kind) ==
  /\ kind \in {"cancelled", "timeout"} /\ Owner(Job(kind, run)) /\ queue' = Tail(queue)
  /\ LET ends(written) ==
           CASE exec = "precancelled" ->
                  /\ UNCHANGED <<request, result>> /\ exec' = "ended"
                  /\ done' = IF written THEN kind ELSE "error"
             [] exec = "ended" ->
                  /\ request' = IF written THEN "durable" ELSE "failed"
                  /\ done' = (IF written THEN kind ELSE result) /\ UNCHANGED <<exec, result>>
             [] OTHER ->
                  request' = (IF written THEN "durable" ELSE "failed") /\ UNCHANGED outcome
     IN \/ Lands(Head(queue)) /\ Succeeds /\ ends(TRUE)
        \/ Errs(Head(queue)) /\ ends(FALSE)
  /\ UNCHANGED <<callers, closes, run, work, authority, crashes>>

-----------------------------------------------------------------------------
(* The executor: model steps of the root, of a child, of the finalizer *)

\* Its attempt, or the cancellation or failure of it, goes to the ledger.
Record(w, as) ==
  /\ at' = [at EXCEPT ![w] = as] /\ queue' = Append(queue, Job("record", w))
  /\ Unwritten
  /\ UNCHANGED <<callers, closes, run, steps, expired, late, outcome, control, faults, crashes>>

Answers(w) == at[w] = "working" /\ ~Interrupted(w) /\ Record(w, "recording")
ProviderFails(w) == at[w] = "working" /\ ~Interrupted(w) /\ Record(w, "ending")

\* PreflightChildrenScheduler.runChild, when its executor returned: evidence is
\* a finding or a gap.
ChildReturns(i, res, rest) ==
  /\ at' = [at EXCEPT ![i] =
       IF i \notin expired /\ (Stopped \/ Fatal \/ res = "denied") THEN "fatal" ELSE "evidence"]
  /\ queue' = rest /\ UNCHANGED <<outcome, authority>>

\* Requests that were admitted start in order; without capacity all are gaps.
Research(n, rest) ==
  /\ n <= MaxChildren /\ Within(Called, Shut, n, faults, crashes) /\ exec' = "children"
  /\ at' = [w \in Workers |->
       CASE w = Root -> "returned"
         [] w \in 1 .. n -> (IF Capacity = 0 THEN "evidence" ELSE "queued")
         [] OTHER -> at[w]]
  /\ queue' = rest /\ UNCHANGED <<result, done, authority>>

\* PreflightDirectRun.execute, when the root or the finalizer returned.
StageReturns(w, res, rest) ==
  IF Stopped THEN at' = [at EXCEPT ![w] = "returned"] /\ Return(rest)
  ELSE \/ at' = [at EXCEPT ![w] = "returned"] /\ FailOpen(rest)
       \/ res = "ok" /\ at' = [at EXCEPT ![w] = "returned"] /\ Commit(rest)
       \/ res = "ok" /\ w = Root /\ \E n \in 0 .. MaxChildren : Research(n, rest)

Returns(w, res, rest) ==
  IF w \in Children THEN ChildReturns(w, res, rest) ELSE StageReturns(w, res, rest)

\* A call in flight is given up at once: its attempt is recorded as cancelled,
\* while a tool, or the step that would follow it, just ends.
Interrupt(w) ==
  /\ at[w] = "working" /\ Interrupted(w)
  /\ \/ Record(w, "ending")
     \/ /\ steps[w] > 1 /\ Returns(w, "failed", queue)
        /\ Unwritten /\ UNCHANGED <<callers, closes, run, steps, expired, late, request, faults, crashes>>

\* After a recorded answer the executor goes on with tools and another model
\* step, or returns.
RecordEnds(w) ==
  /\ Owner(Job("record", w)) /\ Unwritten
  /\ \/ at[w] = "ending" /\ Succeeds /\ Returns(w, "failed", Tail(queue)) /\ UNCHANGED steps
     \/ at[w] = "recording" /\ Fails /\ Returns(w, "failed", Tail(queue)) /\ UNCHANGED steps
     \/ /\ at[w] = "recording" /\ Succeeds /\ UNCHANGED steps
        /\ \E res \in {"ok", "failed", "denied"} : Returns(w, res, Tail(queue))
     \/ /\ at[w] = "recording" /\ Succeeds /\ ~Interrupted(w)
        /\ w # Finalizer /\ steps[w] < MaxSteps
        /\ at' = [at EXCEPT ![w] = "working"] /\ steps' = [steps EXCEPT ![w] = @ + 1]
        /\ queue' = Tail(queue) /\ UNCHANGED <<outcome, authority>>
  /\ UNCHANGED <<callers, closes, run, expired, late, request, crashes>>

-----------------------------------------------------------------------------
(* The research children, and the finalizer *)

\* A free worker of the pool takes the next request.
TakeChild(i) ==
  /\ exec = "children" /\ at[i] = "queued" /\ \A j \in 1 .. i - 1 : at[j] # "queued"
  /\ Busy < Capacity /\ ~Stopped /\ ~Fatal
  /\ \/ at' = [at EXCEPT ![i] = "evidence"] /\ UNCHANGED steps      \* no time, or no route
     \/ ~late /\ at' = [at EXCEPT ![i] = "working"] /\ steps' = [steps EXCEPT ![i] = 1]
  /\ Unwritten
  /\ UNCHANGED <<queue, callers, closes, run, expired, late, outcome, control, faults, crashes>>

\* The deadline of a child, at the boundary at the latest.
ChildExpires(i) ==
  /\ at[i] \in {"working", "recording", "ending"} /\ i \notin expired
  /\ expired' = expired \cup {i}
  /\ Unwritten /\ UNCHANGED <<queue, callers, closes, run, at, steps, late, outcome, control, faults, crashes>>

\* Faulty variant: the first worker that finds no request left is enough.
AnyoneIdle == Busy < Capacity

\* Every worker of the pool has returned.
PoolDone == Busy = 0

\* Promise.all over the pool, and the step to the finalizer.
Gather ==
  /\ exec = "children" /\ PoolDone /\ (Count({"queued"}) = 0 \/ Stopped \/ Fatal)
  /\ \/ Stopped /\ Return(queue) /\ UNCHANGED <<at, steps>>
     \/ ~Stopped /\ FailOpen(queue) /\ UNCHANGED <<at, steps>>
     \/ /\ ~Stopped /\ ~Fatal /\ ~late /\ exec' = "finalizer"
        /\ at' = [at EXCEPT ![Finalizer] = "working"] /\ steps' = [steps EXCEPT ![Finalizer] = 1]
        /\ UNCHANGED <<queue, result, done, authority>>
  /\ Unwritten /\ UNCHANGED <<callers, closes, run, expired, late, request, faults, crashes>>

-----------------------------------------------------------------------------
(* The answer, the turn after it, close(), and the end of the process *)

\* The caller of a run, created or joined, is told what its promise settled with.
Answer(c) ==
  /\ step[c] = "following" /\ done # "none" /\ Reply(c, done)
  /\ Unwritten /\ UNCHANGED <<queue, line, identity, aborted, begun, closes, run, work, outcome, control, faults, crashes>>

\* The runner goes on with the user's turn, which begins a session without a reservation.
Dispatch(c) ==
  /\ step[c] = "done" /\ told[c] \notin {"closed", "cancelled"} /\ c \notin aborted
  /\ closing[SchedulerOf[c]] = "open"
  /\ ledger = "unreserved" /\ ~begun /\ begun' = TRUE
  /\ Unwritten /\ UNCHANGED <<queue, line, step, identity, told, aborted, closes, run, work, outcome, control, faults, crashes>>

Mine(s) == {c \in Calls : SchedulerOf[c] = s}
Runs(s) == Live /\ run \in Mine(s)

CloseCancels(s) == IF Runs(s) THEN RequestCancel ELSE UNCHANGED <<authority, request, queue>>

\* close(): cancel the run, wait for the admissions that were under way, ...
Close(s) ==
  /\ closing[s] = "open" /\ Within(Called, Shut \cup {s}, Asked, faults, crashes)
  /\ closing' = [closing EXCEPT ![s] = "admissions"]
  /\ awaited' = [awaited EXCEPT ![s] = {c \in Mine(s) : step[c] \in Admitting}]
  /\ CloseCancels(s)
  /\ Unwritten /\ UNCHANGED <<callers, run, work, outcome, faults, crashes>>

\* Faulty variant: the admissions are not waited for.
AdmissionsSkipped(s) == TRUE

AdmissionsOver(s) == \A c \in awaited[s] : step[c] \notin Admitting

\* ... cancel what they created, ...
CloseRuns(s) ==
  /\ closing[s] = "admissions" /\ AdmissionsOver(s)
  /\ closing' = [closing EXCEPT ![s] = "runs"] /\ CloseCancels(s)
  /\ Unwritten /\ UNCHANGED <<awaited, callers, run, work, outcome, faults, crashes>>

\* ... and wait for the runs.
Closed(s) ==
  /\ closing[s] = "runs" /\ ~Runs(s) /\ closing' = [closing EXCEPT ![s] = "closed"]
  /\ Unwritten /\ UNCHANGED <<queue, awaited, callers, run, work, outcome, control, faults, crashes>>

\* The process dies, with or without the line it was writing, and another one
\* opens the session.
Crash ==
  /\ Within(Called, Shut, Asked, faults, crashes + 1) /\ crashes' = crashes + 1
  /\ Unwritten \/ (queue # <<>> /\ Lands(Head(queue)))
  /\ queue' = <<>> /\ line' = <<>>
  /\ step' = [c \in Calls |-> IF step[c] \in Admitting \cup {"following"} THEN "lost" ELSE step[c]]
  /\ closing' = [s \in Schedulers |-> "open"] /\ awaited' = [s \in Schedulers |-> {}]
  /\ done' = (IF Live THEN "lost" ELSE done) /\ exec' = (IF Live THEN "lost" ELSE exec)
  /\ at' = [w \in Workers |-> "none"] /\ steps' = [w \in Workers |-> 0]
  /\ expired' = {} /\ late' = FALSE
  /\ UNCHANGED <<identity, told, aborted, begun, run, result, control, faults>>

-----------------------------------------------------------------------------
\* What the event loop and the timers do by themselves.
Progress ==
  \/ \E c \in Calls : Admit(c) \/ ReserveEnds(c) \/ Resolve(c) \/ OrphanEnds(c) \/ Answer(c)
  \/ VerdictEnds("committed") \/ VerdictEnds("failure")
  \/ RequestEnds("cancelled") \/ RequestEnds("timeout")
  \/ PassBoundary \/ Timeout \/ Gather
  \/ \E w \in Workers : Interrupt(w) \/ RecordEnds(w)
  \/ \E i \in Children : TakeChild(i) \/ ChildExpires(i)
  \/ \E s \in Schedulers : CloseRuns(s) \/ Closed(s)

\* What providers, users and the operating system do when they like.
Environment ==
  \/ \E c \in Calls : Ask(c) \/ Abort(c) \/ Dispatch(c)
  \/ \E w \in Workers : Answers(w) \/ ProviderFails(w)
  \/ \E s \in Schedulers : Close(s)
  \/ Crash

Next == Progress \/ Environment

Spec == Init /\ [][Next]_vars

\* Nothing repeats, so that it is enough that some step of the event loop is
\* taken while there is one.
FairSpec == Spec /\ WF_vars(Progress)

-----------------------------------------------------------------------------
(* Properties *)

\* The reservation is made once, gets at most one verdict, and every caller
\* that is told a verdict is told the recorded one.
Promise == INSTANCE SummaryReservation WITH
  Callers <- Calls, record <- ledger,
  heard <- [c \in Calls |-> IF told[c] \in Verdicts THEN told[c] ELSE "nothing"]

ImplementsReservation == Promise!Spec

\* Once a cancellation or the deadline is accepted the run never commits a
\* summary, a run that was stopped has that end on record, and a reservation
\* is declared orphaned only when its run is over.
RecordIsTrue ==
  /\ request # "none" => "committed" \notin {ledger, done}
  /\ request = "durable" => ledger = authority
  /\ done \in Verdicts => done = ledger
  /\ ledger = "orphaned" => ~Live

\* When a run has settled, none of its workers is busy and none of its writes
\* is waiting; when close() has returned, nothing of that scheduler goes on.
NothingOutlivesItsRun ==
  /\ ~Live => /\ \A w \in Workers : at[w] \notin {"working", "recording", "ending"}
              /\ \A k \in 1 .. Len(queue) : queue[k].kind \in {"reserve", "orphaned"}
  /\ \A s \in Schedulers : closing[s] = "closed" =>
       ~Runs(s) /\ \A c \in Mine(s) : step[c] \notin Admitting

\* The finalizer sees one piece of evidence for every admitted request, and
\* there are never more children at work than the limits allow.
EvidenceIsComplete ==
  /\ Busy <= Capacity
  /\ exec = "finalizer" =>
       \A i \in Children : at[i] \in {"none", "evidence"}
  /\ ledger = "committed" => Count({"queued", "fatal"}) = 0

\* Nobody waits for the preflight, and no close() is under way.
AllSettled ==
  /\ \A c \in Calls : step[c] \notin Admitting \cup {"following"}
  /\ \A s \in Schedulers : closing[s] \in {"open", "closed"}

\* Every caller is answered and every close() returns, whatever the providers
\* do - unless the write of the requested end failed.
EverythingSettles == <>[](AllSettled \/ request = "failed")
=============================================================================

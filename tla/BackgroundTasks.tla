--------------------------- MODULE BackgroundTasks ---------------------------
(***************************************************************************)
(* Background tasks of StrongCode: the registry of jobs, retained child    *)
(* profiles and per-child turns (background-jobs.ts), the lifecycle around *)
(* one job (background-terminal.ts), what a turn does                      *)
(* (background-launcher.ts, task-runtime.ts) and the supervisor that       *)
(* cancels a root or shuts everything down (task-supervisor.ts).           *)
(*                                                                         *)
(* A first task creates its child session; a continuation is one more turn *)
(* of that child with the child's profile, and its record is published as  *)
(* `blocked' before it runs.  The admission queue is a component of its    *)
(* own (TaskAdmission): here it refuses, admits or withdraws a task.       *)
(***************************************************************************)
EXTENDS Integers, Sequences, FiniteSets, SequencesExt

CONSTANTS
  Tasks, Children, Roots,
  ChildOf,        \* [Tasks -> Children]
  RootOf,         \* [Tasks -> Roots], the owner
  Continuations,  \* tasks started with continueBackground
  Budgets         \* bound: the tasks started, deadlines passed, roots cancelled
                  \* (All for shutdown), tasks waited for and I/O failures that
                  \* go together

Initial == Tasks \ Continuations

All    == "all"        \* the scope of shutdown
Scopes == Roots \cup {All}

ASSUME OwnersAssumption ==
  /\ All \notin Roots
  /\ ChildOf \in [Tasks -> Children] /\ RootOf \in [Tasks -> Roots]
  /\ Continuations \subseteq Tasks
  /\ Budgets \subseteq [tasks : SUBSET Tasks, late : SUBSET Tasks, stops : SUBSET Scopes,
                 waits : SUBSET Tasks, faults : Nat]
  /\ \A t, u \in Tasks : ChildOf[t] = ChildOf[u] => RootOf[t] = RootOf[u]
  /\ \A t, u \in Tasks \ Continuations : ChildOf[t] = ChildOf[u] => t = u

VARIABLES
  accepting,   \* BackgroundJobRegistry.accepting
  revoked,     \* revokedRoots
  jobs,        \* keys of jobs
  profiles,    \* keys of profiles
  failures,    \* keys of terminalFailures
  turns,       \* child -> queue of turns, the first one is active
  profile,     \* child -> what its profile promise resolved to
  step,        \* where the lifecycle of a task stands
  status,      \* terminal status the task is about to write
  result,      \* what its turn, or its withdrawal, resolved to
  disk,        \* status of its record
  published,   \* the write of the blocked record
  ready,       \* what its start returned
  aborted,     \* reason of its controller
  due,         \* tasks whose deadline has passed
  armed,       \* tasks with a live lifecycle timer
  stopping,    \* Roots \cup {All} -> cancelRoot, shutdown
  awaited,     \* Roots \cup {All} -> jobs whose end it awaits
  wait,        \* task -> where a call of TaskAccess.wait for it stands, then
               \* what it answered
  faults

registryVars == <<accepting, revoked, jobs, failures>>
stopVars     == <<stopping, awaited, wait>>
clockVars    == <<due, armed>>
vars == <<accepting, revoked, jobs, profiles, failures, turns, profile, step,
          status, result, disk, published, ready, aborted, due, armed,
          stopping, awaited, wait, faults>>

TasksOf(scope) == {t \in Tasks : scope = All \/ RootOf[t] = scope}

Terminal == {"succeeded", "failed", "cancelled", "timed_out"}

\* Steps of a turn, from its start to the settlement of its promise.
InTurn == {"entered", "opening", "requeueing", "registering", "waiting",
           "looking", "starting", "running", "concluding", "finalizing",
           "reporting"}
Live   == InTurn \cup {"queued", "withdrawn", "ended"}

\* The bound on a behaviour: what happened and what happens next fit one budget.
Within(starts, passes, halts, waits, fails) ==
  \E b \in Budgets :
    /\ {t \in Tasks : step[t] # "idle"} \cup starts \subseteq b.tasks
    /\ due \cup passes \subseteq b.late
    /\ {s \in Scopes : stopping[s] # "no"} \cup halts \subseteq b.stops
    /\ {t \in Tasks : wait[t] # "no"} \cup waits \subseteq b.waits
    /\ faults + fails <= b.faults

Succeeds == UNCHANGED faults
Fails    == Within({}, {}, {}, {}, 1) /\ faults' = faults + 1

-----------------------------------------------------------------------------
(* Turns of a child session *)

\* A queue of turns without those of `out', the others in their order.
Without(queue, out) ==
  LET Kept[n \in 0 .. Len(queue)] ==
        IF n = 0 THEN <<>>
        ELSE IF queue[n] \in out THEN Kept[n - 1]
        ELSE Append(Kept[n - 1], queue[n])
  IN Kept[Len(queue)]

\* Faulty variant: the finished turn stays at the head of the queue.
LeaveKept(t) == turns

\* finishTurn, remove: take a task's turn out of its child's queue.
Leave(t) == [turns EXCEPT ![ChildOf[t]] = Without(@, {t})]

\* Faulty variant: whoever waits is started, not only the head.
StartsAnyone(queues, c) == Range(queues[c])

\* drainTurn: the head of the queue is started.
Starts(queues, c) == IF queues[c] = <<>> THEN {} ELSE {Head(queues[c])}

\* The turn of t ends in `last' and the child's next turn starts in the same
\* microtask; a turn that starts this way disarms its lifecycle timer.
EndTurn(t, last) ==
  LET next == {u \in Starts(Leave(t), ChildOf[t]) : step[u] = "queued"}
  IN /\ turns' = Leave(t)
     /\ step' = [u \in Tasks |-> IF u = t THEN last
                                 ELSE IF u \in next THEN "entered" ELSE step[u]]
     /\ armed' = armed \ next

\* The operation of a turn returns: startPrepared settles a pending profile.
Return(t, value) ==
  /\ EndTurn(t, "ended")
  /\ result' = [result EXCEPT ![t] = value]

\* Faulty variant: a first task that never had a profile leaves it pending.
NoProfileLeft(t) == UNCHANGED profile

\* settleProfile of a first task that ends without having created its child.
NoProfile(t) ==
  profile' = IF t \in Initial /\ profile[ChildOf[t]] = "pending"
             THEN [profile EXCEPT ![ChildOf[t]] = "err"] ELSE profile

\* The error of a task whose controller was aborted carries the reason's code.
Errors(t) == IF aborted[t] = "cancelled" THEN {"error", "cancelled"} ELSE {"error"}

\* backgroundTerminalStatus
StatusOf(t) ==
  IF aborted[t] = "lifecycle" THEN "timed_out"
  ELSE IF aborted[t] # "none" THEN "cancelled" ELSE "failed"

Go(t, next) == step' = [step EXCEPT ![t] = next] /\ UNCHANGED <<turns, armed>>

\* persistBackgroundTerminal of a continuation; a first task has no record yet.
Report(t, code, error) ==
  \/ /\ t \in Continuations
     /\ status' = [status EXCEPT ![t] = code]
     /\ Go(t, "reporting")
     /\ UNCHANGED <<result, profile>>
  \/ /\ t \in Initial
     /\ Return(t, error) /\ NoProfile(t)
     /\ UNCHANGED status

-----------------------------------------------------------------------------
Init ==
  /\ accepting = TRUE /\ revoked = {} /\ jobs = {} /\ profiles = {} /\ failures = {}
  /\ turns = [c \in Children |-> <<>>]
  /\ profile = [c \in Children |-> "pending"]
  /\ step = [t \in Tasks |-> "idle"]
  /\ status = [t \in Tasks |-> "none"]
  /\ result = [t \in Tasks |-> "none"]
  /\ disk = [t \in Tasks |-> "absent"]
  /\ published = [t \in Tasks |-> "none"]
  /\ ready = [t \in Tasks |-> "none"]
  /\ aborted = [t \in Tasks |-> "none"]
  /\ due = {} /\ armed = {}
  /\ stopping = [s \in Scopes |-> "no"]
  /\ awaited = [s \in Scopes |-> {}]
  /\ wait = [t \in Tasks |-> "no"]
  /\ faults = 0

-----------------------------------------------------------------------------
(* startBackground, continueBackground *)

CanStart(t) == accepting /\ RootOf[t] \notin revoked

Refused(t) ==
  /\ ready' = [ready EXCEPT ![t] = "err"]
  /\ step' = [step EXCEPT ![t] = "refused"]
  /\ UNCHANGED <<jobs, profiles, turns, published, status, aborted, armed>>

\* The child is new, so its queue is empty and the turn starts at once, before
\* the lifecycle timer is armed: nothing disarms the timer of a first task.
StartInitial(t) ==
  /\ t \in Initial /\ step[t] = "idle" /\ Within({t}, {}, {}, {}, 0)
  /\ \/ ~CanStart(t) /\ Refused(t)
     \/ /\ CanStart(t)
        /\ jobs' = jobs \cup {t}
        /\ profiles' = profiles \cup {ChildOf[t]}
        /\ turns' = [turns EXCEPT ![ChildOf[t]] = Append(@, t)]
        /\ step' = [step EXCEPT ![t] = "entered"]
        /\ published' = [published EXCEPT ![t] = "ok"]
        /\ aborted' \in {aborted, [aborted EXCEPT ![t] = "cancelled"]}
        /\ armed' = armed \cup {t}
        /\ UNCHANGED <<ready, status>>
  /\ UNCHANGED <<accepting, revoked, failures, profile, result, disk, due, stopVars, faults>>

\* claimContinuation and startExisting; the parent's signal may have aborted.
Continue(t) ==
  /\ t \in Continuations /\ step[t] = "idle" /\ Within({t}, {}, {}, {}, 0)
  /\ \/ (~CanStart(t) \/ ChildOf[t] \notin profiles) /\ Refused(t)
     \/ /\ CanStart(t) /\ ChildOf[t] \in profiles
        /\ jobs' = jobs \cup {t}
        /\ aborted' \in {aborted, [aborted EXCEPT ![t] = "cancelled"]}
        /\ published' = [published EXCEPT ![t] = "pending"]
        /\ armed' = armed \cup {t}
        /\ \/ /\ turns[ChildOf[t]] = <<>>
              /\ turns' = [turns EXCEPT ![ChildOf[t]] = <<t>>]
              /\ step' = [step EXCEPT ![t] = "entered"]
              /\ UNCHANGED status
           \/ /\ turns[ChildOf[t]] # <<>> /\ aborted'[t] = "none"
              /\ turns' = [turns EXCEPT ![ChildOf[t]] = Append(@, t)]
              /\ step' = [step EXCEPT ![t] = "queued"]
              /\ UNCHANGED status
           \/ /\ turns[ChildOf[t]] # <<>> /\ aborted'[t] # "none"
              /\ step' = [step EXCEPT ![t] = "withdrawn"]
              /\ status' = [status EXCEPT ![t] = "cancelled"]
              /\ UNCHANGED turns
        /\ UNCHANGED <<ready, profiles>>
  /\ UNCHANGED <<accepting, revoked, failures, profile, result, disk, due, stopVars, faults>>

\* The handle is returned once the blocked record is durable.
HandOut(t, written) ==
  ready' = [ready EXCEPT ![t] = IF @ = "none" /\ written THEN "ok" ELSE @]

\* The write of the blocked record has answered; on failure a turn that has
\* not started is removed.
Publish(t) ==
  /\ step[t] \in Live /\ published[t] = "pending"
  /\ \/ /\ Succeeds /\ HandOut(t, TRUE)
        /\ published' = [published EXCEPT ![t] = "ok"]
        /\ disk' = [disk EXCEPT ![t] = "blocked"]
        /\ UNCHANGED <<turns, step, result>>
     \/ /\ Fails /\ HandOut(t, FALSE)
        /\ published' = [published EXCEPT ![t] = "failed"]
        /\ \/ /\ step[t] = "queued"
              /\ turns' = Leave(t)
              /\ step' = [step EXCEPT ![t] = "ended"]
              /\ result' = [result EXCEPT ![t] = "error"]
           \/ /\ step[t] # "queued"
              /\ UNCHANGED <<turns, step, result>>
        /\ UNCHANGED disk
  /\ UNCHANGED <<registryVars, profiles, profile, status, aborted, clockVars, stopVars>>

-----------------------------------------------------------------------------
(* What a turn does *)

\* The turn has started: await the publication, look at the signal and clock.
Enter(t) ==
  /\ step[t] = "entered" /\ published[t] # "pending"
  /\ \/ /\ published[t] = "failed"
        /\ Return(t, "error")
        /\ UNCHANGED <<status, profile>>
     \/ /\ published[t] = "ok" /\ aborted[t] # "none"
        /\ \E error \in Errors(t) : Report(t, StatusOf(t), error)
     \/ /\ published[t] = "ok" /\ aborted[t] = "none" /\ t \in due
        /\ Report(t, "timed_out", "error")
     \/ /\ published[t] = "ok" /\ aborted[t] = "none" /\ t \notin due
        /\ Go(t, IF t \in Initial THEN "registering" ELSE "opening")
        /\ UNCHANGED <<status, profile, result>>
  /\ UNCHANGED <<registryVars, profiles, disk, published, ready, aborted, due, stopVars, faults>>

\* startExisting: await the profile that the child's first task settles.
Open(t) ==
  /\ step[t] = "opening"
  /\ \/ /\ profile[ChildOf[t]] = "ok"
        /\ Go(t, "requeueing")
        /\ UNCHANGED <<status, profile, result>>
     \/ /\ profile[ChildOf[t]] = "err"
        /\ Report(t, "failed", "error")
  /\ UNCHANGED <<registryVars, profiles, disk, published, ready, aborted, due, stopVars, faults>>

Requeue(t) ==
  /\ step[t] = "requeueing"
  /\ \/ /\ Succeeds
        /\ disk' = [disk EXCEPT ![t] = "queued"]
        /\ Go(t, "registering")
        /\ UNCHANGED <<status, profile, result>>
     \/ /\ Fails
        /\ Report(t, "failed", "error")
        /\ UNCHANGED disk
  /\ UNCHANGED <<registryVars, profiles, published, ready, aborted, due, stopVars>>

\* admission.register has answered: refused (a limit, a conflicting writer, an
\* abort, a failed write), or queued, and then a first task has its handle.
Register(t) ==
  /\ step[t] = "registering"
  /\ \/ /\ \E error \in Errors(t), code \in {"timed_out", StatusOf(t)} :
             (code = "timed_out" => t \in due \/ aborted[t] = "lifecycle") /\ Report(t, code, error)
        /\ UNCHANGED <<disk, ready>>
     \/ /\ disk' = [disk EXCEPT ![t] = "queued"]
        /\ HandOut(t, TRUE)
        /\ Go(t, "waiting")
        /\ UNCHANGED <<status, profile, result>>
  /\ UNCHANGED <<registryVars, profiles, published, aborted, due, stopVars, faults>>

\* The queue withdraws the waiter and tries to write why; the task then looks
\* for its terminal record.
Withdraw(t) ==
  /\ step[t] = "waiting" /\ (aborted[t] # "none" \/ t \in due)
  /\ \E code \in {"cancelled", "timed_out"} :
       /\ code = "cancelled" => aborted[t] # "none"
       /\ code = "timed_out" => t \in due
       /\ status' = [status EXCEPT ![t] = code]
       /\ \/ Succeeds /\ disk' = [disk EXCEPT ![t] = code]
          \/ Fails /\ UNCHANGED disk
  /\ Go(t, "looking") /\ NoProfile(t)
  /\ UNCHANGED <<registryVars, profiles, result, published, ready, aborted, due, stopVars>>

\* Faulty variant: whatever the queue left in the store is reported again.
LookPast(t) == FALSE

\* terminalResultById found the record the queue wrote.
Found(t) == disk[t] \in Terminal

LookUp(t) ==
  /\ step[t] = "looking"
  /\ \/ /\ Fails
        /\ Return(t, "error")
        /\ UNCHANGED <<status, profile>>
     \/ /\ Succeeds /\ Found(t)
        /\ Return(t, "ok")
        /\ UNCHANGED <<status, profile>>
     \/ /\ Succeeds /\ ~Found(t)
        /\ \E error \in Errors(t), code \in {status[t], StatusOf(t)} : Report(t, code, error)
  /\ UNCHANGED <<registryVars, profiles, disk, published, ready, aborted, due, stopVars>>

Conclude(t, code) ==
  /\ status' = [status EXCEPT ![t] = code]
  /\ Go(t, "concluding")

\* Admitted: TaskRuntime.execute up to markStarted.
Execute(t) ==
  /\ step[t] = "waiting"
  /\ LET why == IF aborted[t] = "none" /\ t \in due THEN "execution" ELSE aborted[t]
     IN \/ /\ why # "none"
           /\ aborted' = [aborted EXCEPT ![t] = why]
           /\ Conclude(t, IF why = "execution" THEN "timed_out" ELSE "cancelled")
           /\ Succeeds /\ UNCHANGED profile
        \/ /\ why = "none" /\ t \in Initial /\ Fails
           /\ Conclude(t, "failed") /\ NoProfile(t)
           /\ UNCHANGED aborted
        \/ /\ why = "none" /\ Fails
           /\ aborted' = [aborted EXCEPT ![t] = "failed"]
           /\ profile' = IF t \in Initial THEN [profile EXCEPT ![ChildOf[t]] = "ok"] ELSE profile
           /\ Conclude(t, "failed")
        \/ /\ why = "none" /\ Succeeds
           /\ profile' = IF t \in Initial THEN [profile EXCEPT ![ChildOf[t]] = "ok"] ELSE profile
           /\ Go(t, "starting")
           /\ UNCHANGED <<aborted, status>>
  /\ UNCHANGED <<registryVars, profiles, result, disk, published, ready, due, stopVars>>

\* markStarted has answered; an aborted task never reaches its runner.
MarkStarted(t) ==
  /\ step[t] = "starting"
  /\ \/ /\ Fails
        /\ aborted' = [aborted EXCEPT ![t] = IF @ = "none" THEN "failed" ELSE @]
        /\ Conclude(t, "failed")
        /\ UNCHANGED disk
     \/ /\ Succeeds
        /\ disk' = [disk EXCEPT ![t] = "running"]
        /\ \/ /\ aborted[t] = "none" /\ Go(t, "running") /\ UNCHANGED status
           \/ /\ aborted[t] # "none" /\ Go(t, "finalizing")
              /\ status' = [status EXCEPT ![t] = IF aborted[t] = "execution" THEN "timed_out" ELSE "cancelled"]
        /\ UNCHANGED aborted
  /\ UNCHANGED <<registryVars, profiles, profile, result, published, ready, due, stopVars>>

\* terminalOutcome
RunnerReturns(t) ==
  /\ step[t] = "running"
  /\ \/ status' = [status EXCEPT ![t] = "succeeded"]
     \/ status' = [status EXCEPT ![t] = IF aborted[t] = "none" THEN "failed"
                                        ELSE IF aborted[t] = "execution" THEN "timed_out" ELSE "cancelled"]
  /\ Go(t, "finalizing")
  /\ UNCHANGED <<registryVars, profiles, profile, result, disk, published, ready, aborted, due, stopVars, faults>>

\* The last write of a turn: the outcome of a run, of a task that never ran
\* (an error even when the record is durable), or persistBackgroundTerminal.
WriteTerminal(t) ==
  /\ step[t] \in {"finalizing", "concluding", "reporting"}
  /\ \/ /\ Succeeds
        /\ disk' = [disk EXCEPT ![t] = status[t]]
        /\ \E value \in IF step[t] = "concluding" THEN Errors(t) ELSE {"ok"} : Return(t, value)
     \/ /\ Fails
        /\ UNCHANGED disk
        /\ Return(t, "error")
  /\ NoProfile(t)
  /\ UNCHANGED <<registryVars, profiles, status, published, ready, aborted, due, stopVars>>

-----------------------------------------------------------------------------
(* Withdrawal of a turn that has not started, and the end of a job *)

\* queuedTerminal: once the blocked record is published, replace it.
QueuedTerminal(t) ==
  \/ /\ published[t] = "failed" /\ result' = [result EXCEPT ![t] = "error"]
     /\ UNCHANGED <<disk, faults>>
  \/ /\ published[t] = "ok" /\ Succeeds
     /\ disk' = [disk EXCEPT ![t] = status[t]]
     /\ result' = [result EXCEPT ![t] = "ok"]
  \/ /\ published[t] = "ok" /\ Fails
     /\ result' = [result EXCEPT ![t] = "error"]
     /\ UNCHANGED disk

Withdrawn(t) ==
  /\ step[t] = "withdrawn" /\ published[t] # "pending"
  /\ QueuedTerminal(t)
  /\ step' = [step EXCEPT ![t] = "ended"]
  /\ UNCHANGED <<registryVars, profiles, turns, profile, status, published, ready, aborted, clockVars, stopVars>>

\* retainTerminalFailure
Retain(t) ==
  /\ failures' = failures \cup {t}
  /\ revoked' = revoked \cup {RootOf[t]}
  /\ profiles' = {c \in profiles : \A u \in Tasks : ChildOf[u] = c => RootOf[u] # RootOf[t]}

\* settleTerminal; the locals of the lifecycle go with it.
SettleTerminal(t) ==
  /\ step[t] = "ended"
  /\ step' = [step EXCEPT ![t] = "settled"]
  /\ ready' = [ready EXCEPT ![t] = IF @ = "none" THEN "err" ELSE @]
  /\ IF result[t] # "ok" THEN NoProfile(t) ELSE UNCHANGED profile
  /\ armed' = armed \ {t} /\ due' = due \ {t}
  /\ status' = [status EXCEPT ![t] = "none"]
  /\ published' = [published EXCEPT ![t] = "none"]
  /\ aborted' = [aborted EXCEPT ![t] = "none"]
  /\ IF result[t] # "ok" /\ ready[t] = "ok" THEN Retain(t)
     ELSE UNCHANGED <<failures, revoked, profiles>>
  /\ jobs' = jobs \ {t}
  /\ UNCHANGED <<accepting, turns, result, disk, stopVars, faults>>

\* The callback of retainProfile forgets a profile that could not be built.
ForgetProfile(c) ==
  /\ c \in profiles /\ profile[c] = "err"
  /\ profiles' = profiles \ {c}
  /\ UNCHANGED <<registryVars, turns, profile, step, status, result, disk, published, ready, aborted, clockVars, stopVars, faults>>

-----------------------------------------------------------------------------
(* Aborts: a caller, the parent's signal, the deadline *)

\* removeQueued: only a turn that has not been entered is withdrawn.
Withdrawable(t) == step[t] = "queued"

\* Controllers of the tasks in `who' are aborted in one synchronous step.
\* (Removing a queued turn starts no other one: the head is always active.)
AbortAll(who, why, code) ==
  LET hit == {t \in who : aborted[t] = "none"}
      out == {t \in hit : Withdrawable(t)}
  IN /\ aborted' = [t \in Tasks |-> IF t \in hit THEN why ELSE aborted[t]]
     /\ step' = [t \in Tasks |-> IF t \in out THEN "withdrawn" ELSE step[t]]
     /\ status' = [t \in Tasks |-> IF t \in out THEN code ELSE status[t]]
     /\ turns' = [c \in Children |-> Without(turns[c], out)]

\* cancelTask, or the parent's signal.
Cancel(t) ==
  /\ t \in jobs /\ aborted[t] = "none"
  /\ AbortAll({t}, "cancelled", "cancelled")
  /\ UNCHANGED <<registryVars, profiles, profile, result, disk, published, ready, clockVars, stopVars, faults>>

Expire(t) ==
  /\ t \notin due /\ step[t] \in Live \ {"ended"} /\ Within({}, {t}, {}, {}, 0)
  /\ due' = due \cup {t}
  /\ UNCHANGED <<registryVars, profiles, turns, profile, step, status, result, disk, published, ready, aborted, armed, stopVars, faults>>

\* timeoutQueued
LifecycleTimer(t) ==
  /\ t \in armed /\ t \in due
  /\ armed' = armed \ {t}
  /\ AbortAll({t}, "lifecycle", "timed_out")
  /\ UNCHANGED <<registryVars, profiles, profile, result, disk, published, ready, due, stopVars, faults>>

\* The timer of TaskRuntime.execute.
ExecutionTimer(t) ==
  /\ t \in due /\ step[t] \in {"starting", "running"} /\ aborted[t] = "none"
  /\ aborted' = [aborted EXCEPT ![t] = "execution"]
  /\ UNCHANGED <<registryVars, profiles, turns, profile, step, status, result, disk, published, ready, clockVars, stopVars, faults>>

-----------------------------------------------------------------------------
(* cancelRoot, shutdown *)

\* Faulty variant: only jobs whose turn has started are awaited.
JobsToAwaitInTurn(scope) == {t \in jobs \cap TasksOf(scope) : step[t] \in InTurn}

JobsToAwait(scope) == jobs \cap TasksOf(scope)

Stop(scope) ==
  /\ stopping' = [stopping EXCEPT ![scope] = "waiting"]
  /\ awaited' = [awaited EXCEPT ![scope] = JobsToAwait(scope)]
  /\ AbortAll(jobs \cap TasksOf(scope), "cancelled", "cancelled")

CancelRoot(r) ==
  /\ stopping[r] = "no" /\ Within({}, {}, {r}, {}, 0) /\ Stop(r)
  /\ revoked' = revoked \cup {r}
  /\ profiles' = {c \in profiles : \A u \in Tasks : ChildOf[u] = c => RootOf[u] # r}
  /\ UNCHANGED <<accepting, jobs, failures, profile, result, disk, published, ready, clockVars, wait, faults>>

Shutdown ==
  /\ stopping[All] = "no" /\ Within({}, {}, {All}, {}, 0) /\ Stop(All)
  /\ accepting' = FALSE
  /\ UNCHANGED <<revoked, jobs, failures, profiles, profile, result, disk, published, ready, clockVars, wait, faults>>

\* Faulty variant: only the results of the awaited jobs decide the answer.
VerdictOfJobs(scope) ==
  IF \E t \in awaited[scope] : result[t] = "error" THEN "failed" ELSE "done"

\* A failed job, or a failure that was retained before, is the answer.
Verdict(scope) ==
  IF (\E t \in awaited[scope] : result[t] = "error") \/ failures \cap TasksOf(scope) # {}
  THEN "failed" ELSE "done"

\* Every awaited job has settled; the retained failures of the scope are taken.
Stopped(scope) ==
  /\ stopping[scope] = "waiting"
  /\ \A t \in awaited[scope] : step[t] = "settled"
  /\ stopping' = [stopping EXCEPT ![scope] = Verdict(scope)]
  /\ failures' = failures \ TasksOf(scope)
  /\ IF scope = All
     THEN jobs' = {} /\ profiles' = {} /\ turns' = [c \in Children |-> <<>>]
     ELSE UNCHANGED <<jobs, profiles, turns>>
  /\ UNCHANGED <<accepting, revoked, profile, step, status, result, disk, published, ready, aborted, clockVars, awaited, wait, faults>>

-----------------------------------------------------------------------------
(* TaskAccess.wait of one task, whose handle the caller has *)

\* Faulty variant: the retained failures are not consulted.
SeenJobs(t) == IF t \in jobs THEN "local" ELSE "stored"

\* What wait reads before its first await: a retained failure, else the job.
Seen(t) == IF t \in failures THEN "retained" ELSE IF t \in jobs THEN "local" ELSE "stored"

Asked(t, next) ==
  /\ wait' = [wait EXCEPT ![t] = next]
  /\ UNCHANGED <<registryVars, profiles, turns, profile, step, status, result, disk, published, ready, aborted, clockVars, stopping, awaited>>

Wait(t) ==
  /\ ready[t] = "ok" /\ wait[t] = "no" /\ Within({}, {}, {}, {t}, 0)
  /\ Asked(t, Seen(t)) /\ Succeeds

\* list() has answered; its records only tell whether the task is known.
WaitListed(t) ==
  \/ wait[t] \in {"retained", "local", "stored"} /\ Fails /\ Asked(t, "error")
  \/ wait[t] = "retained" /\ Succeeds /\ Asked(t, "error")
  \/ wait[t] = "local" /\ Succeeds /\ Asked(t, "joining")
  \/ wait[t] = "stored" /\ Succeeds /\ Asked(t, IF disk[t] = "absent" THEN "open" ELSE "reading")

\* The terminal promise of the job that was seen before the await.
WaitJoined(t) ==
  /\ wait[t] = "joining" /\ step[t] = "settled"
  /\ Asked(t, IF result[t] = "ok" THEN "ok" ELSE "error") /\ Succeeds

\* terminalResultById reads the store again: "open" is the error that the task
\* is not terminal.
WaitRead(t) ==
  /\ wait[t] = "reading"
  /\ \/ Fails /\ Asked(t, "error")
     \/ Succeeds /\ Asked(t, IF Found(t) THEN "ok" ELSE "open")

WaitStep(t) == WaitListed(t) \/ WaitJoined(t) \/ WaitRead(t)

-----------------------------------------------------------------------------
TurnStep(t) ==
  \/ Publish(t) \/ Enter(t) \/ Open(t) \/ Requeue(t) \/ Register(t)
  \/ Withdraw(t) \/ LookUp(t) \/ Execute(t) \/ MarkStarted(t) \/ WriteTerminal(t)
  \/ Withdrawn(t) \/ SettleTerminal(t)

TimerStep(t) == Expire(t) \/ LifecycleTimer(t) \/ ExecutionTimer(t)

Next ==
  \/ \E t \in Tasks : StartInitial(t) \/ Continue(t) \/ TurnStep(t) \/ TimerStep(t)
                      \/ RunnerReturns(t) \/ Cancel(t) \/ Wait(t) \/ WaitStep(t)
  \/ \E c \in Children : ForgetProfile(c)
  \/ \E r \in Roots : CancelRoot(r)
  \/ Shutdown
  \/ \E s \in Scopes : Stopped(s)

Spec == Init /\ [][Next]_vars

\* Promises settle, timers fire, and a runner whose signal has aborted returns.
Fairness ==
  /\ \A t \in Tasks :
       /\ WF_vars(TurnStep(t)) /\ WF_vars(WaitStep(t))
       /\ WF_vars(aborted[t] # "none" /\ RunnerReturns(t))
       /\ WF_vars(Expire(t)) /\ WF_vars(LifecycleTimer(t)) /\ WF_vars(ExecutionTimer(t))
  /\ \A s \in Scopes : WF_vars(Stopped(s))

FairSpec == Spec /\ Fairness

-----------------------------------------------------------------------------
(* Correctness *)

\* Every variable ranges over what the code can store in it.
TypeOK ==
  /\ accepting \in BOOLEAN /\ revoked \subseteq Roots
  /\ jobs \subseteq Tasks /\ profiles \subseteq Children /\ failures \subseteq Tasks
  /\ turns \in [Children -> Seq(Tasks)]
  /\ profile \in [Children -> {"pending", "ok", "err"}]
  /\ step \in [Tasks -> Live \cup {"idle", "refused", "settled"}]
  /\ status \in [Tasks -> Terminal \cup {"none"}]
  /\ result \in [Tasks -> {"none", "ok", "error", "cancelled"}]
  /\ disk \in [Tasks -> Terminal \cup {"absent", "blocked", "queued", "running"}]
  /\ published \in [Tasks -> {"none", "pending", "ok", "failed"}]
  /\ ready \in [Tasks -> {"none", "ok", "err"}]
  /\ aborted \in [Tasks -> {"none", "cancelled", "lifecycle", "execution", "failed"}]
  /\ due \subseteq Tasks /\ armed \subseteq Tasks
  /\ stopping \in [Scopes -> {"no", "waiting", "done", "failed"}]
  /\ awaited \in [Scopes -> SUBSET Tasks]
  /\ wait \in [Tasks -> {"no", "retained", "local", "stored", "joining", "reading"}
                        \cup {"ok", "error", "open"}]
  /\ faults \in Nat

\* Two turns of one child session never run at once, although turns are
\* started by finishing, withdrawn or unpublishable ones (enqueueTurn).
OneTurnPerChild ==
  \A t, u \in Tasks :
    t # u /\ ChildOf[t] = ChildOf[u] => ~(step[t] \in InTurn /\ step[u] \in InTurn)

\* cancelRoot or shutdown answered that a task of its scope failed.
ReportedByStop(t) == stopping[RootOf[t]] = "failed" \/ stopping[All] = "failed"

\* A handle that was returned names a record the store holds, and its task
\* never ends silently: its record is terminal, or its failure is retained, or
\* cancelRoot or shutdown reported it.  A wait for it that reads the registry
\* before an await and the store after it (TaskAccess.wait) answers with a
\* result only when the record is terminal, and says that the task is not
\* terminal only when its failure was reported elsewhere.
HandlesAreAnswered ==
  \A t \in Tasks : ready[t] = "ok" =>
    /\ disk[t] # "absent"
    /\ step[t] = "settled" => disk[t] \in Terminal \/ t \in failures \/ ReportedByStop(t)
    /\ wait[t] = "ok" => disk[t] \in Terminal
    /\ wait[t] = "open" => ReportedByStop(t)

\* The first retained failure poisons its root: no profile of it is left to
\* continue and no job of it can be added ("The first entry revokes its root").
FailureRevokesRoot ==
  \A t \in failures :
    /\ RootOf[t] \in revoked
    /\ \A u \in Tasks : RootOf[u] = RootOf[t] => ChildOf[u] \notin profiles

\* Once cancelRoot or shutdown has answered, nothing of its scope is alive.
StopDrainsScope ==
  \A s \in Scopes : stopping[s] \in {"done", "failed"} =>
    \A t \in TasksOf(s) : step[t] \notin Live

\* The job, the turn and the lifecycle timer of a task go with it.
NothingLeaked ==
  \A t \in Tasks : step[t] \notin Live =>
    t \notin jobs \cup armed \cup Range(turns[ChildOf[t]])

\* A root that failed, a scope that was stopped and a task that ended leave
\* nothing to go on with.
ScopesAreClosed == FailureRevokesRoot /\ StopDrainsScope /\ NothingLeaked

\* A terminal record is final, also when the queue, the runtime and the
\* lifecycle each have a reason to write one.
TerminalIsFinal ==
  [][\A t \in Tasks : disk[t] \in Terminal => disk'[t] = disk[t]]_vars

\* Turns of a child start in the order of the calls that queued them, whatever
\* is withdrawn from the middle of the queue.
TurnsInOrder ==
  [][\A c \in Children : \A i, j \in DOMAIN turns[c] :
       i < j /\ step[turns[c][i]] = "queued" /\ step'[turns[c][j]] = "entered"
       => step'[turns[c][i]] # "queued"]_vars

\* What ended stays as it ended, what came first goes first, and one at a time.
OrderIsKept == TerminalIsFinal /\ TurnsInOrder /\ []OneTurnPerChild

\* Nothing waits for ever but for a runner that nobody stopped: every other
\* task settles, and every cancelRoot, the shutdown and every wait answer,
\* although they wait for each other's turns, profiles and terminals.
Unstopped(c) == \E u \in Tasks : ChildOf[u] = c /\ step[u] = "running" /\ aborted[u] = "none"

EverythingSettles ==
  <>[](/\ \A t \in Tasks : step[t] \in Live \/ wait[t] \notin {"no", "ok", "error", "open"}
                           => Unstopped(ChildOf[t])
      /\ \A s \in Scopes : stopping[s] # "waiting")

=============================================================================

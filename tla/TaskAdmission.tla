--------------------------- MODULE TaskAdmission ---------------------------
(***************************************************************************)
(* Delegated tasks of StrongCode: the admission queue (admission.ts), the  *)
(* attempt that arbitrates cancellation against the deadline               *)
(* (admission-attempt.ts), the write-ownership registry (ownership.ts),    *)
(* the execution of an admitted task (task-runtime.ts, as called by        *)
(* TaskManager.runForeground) and the reconciliation of task records after *)
(* a restart (task-access.ts, initialize).                                 *)
(*                                                                         *)
(* `exclusive' chains every queue operation on one promise tail: `ops' is  *)
(* the FIFO of operations not yet begun and `lock' the operation that is   *)
(* between two of its awaits.  Everything outside the lock (the runner,    *)
(* terminal writes, aborts, timers) interleaves with it.                   *)
(***************************************************************************)
EXTENDS Integers, Sequences, FiniteSets, SequencesExt

CONSTANTS
  Tasks,               \* task ids
  Children,            \* child session ids; a continuation reuses its child
  Roots,               \* root session ids
  Regions,             \* disjoint parts of the workspace
  ChildOf,             \* [Tasks -> Children]
  RootOf,              \* [Tasks -> Roots]
  Writes,              \* [Tasks -> SUBSET Regions], {} for a read-only task
  MaxActive,           \* limits.maxActive
  MaxChildrenPerRoot,  \* limits.maxChildrenPerRoot
  Budgets,             \* bounds: tasks registered, failing I/O operations, crashes
  NoTask

ASSUME TasksAssumption ==
  /\ IsFiniteSet(Tasks) /\ IsFiniteSet(Children)
  /\ NoTask \notin Tasks
  /\ ChildOf \in [Tasks -> Children]
  /\ RootOf \in [Tasks -> Roots]
  /\ Writes \in [Tasks -> SUBSET Regions]

ASSUME LimitsAssumption ==
  /\ MaxActive \in Nat \ {0} /\ MaxChildrenPerRoot \in Nat \ {0}
  /\ Budgets \subseteq [tasks : SUBSET Tasks, faults : Nat, crashes : Nat]

VARIABLES
  disk,         \* TaskStore: task -> persisted record
  waiters,      \* AdmissionQueue.waiters, in sequence order
  active,       \* AdmissionQueue.active (tasks whose lease token is live)
  activeCount,  \* AdmissionQueue.activeCount
  pendingRoots, \* keys of AdmissionQueue.pendingRoots
  owned,        \* keys of WriteOwnershipRegistry.active
  ops,          \* exclusive operations chained on `tail', not yet begun
  lock,         \* the exclusive operation that has begun
  claim,        \* AdmissionAttempt.cancellation
  reason,       \* why the task's controller was aborted
  expired,      \* tasks whose deadlineAt has passed
  phase,        \* where the caller of runForeground stands
  outcome,      \* terminal record the runtime is about to write
  result,       \* what runForeground returned
  mode,         \* TaskAccess.initialize: down, recovering, up
  stale,        \* records initialize has still to rewrite
  faults, crashes

queueVars  == <<waiters, active, activeCount>>
systemVars == <<mode, stale, crashes>>
clientVars == <<reason, expired, outcome, result>>
vars == <<disk, waiters, active, activeCount, pendingRoots, owned, ops, lock,
          claim, reason, expired, phase, outcome, result, mode, stale,
          faults, crashes>>

-----------------------------------------------------------------------------
(* Records and states *)

Nonterminal == {"queued", "running", "blocked"}
Terminal    == {"succeeded", "failed", "cancelled", "timed_out", "interrupted"}
Record      == [status : Nonterminal \cup Terminal \cup {"absent"}, started : BOOLEAN]
Absent      == [status |-> "absent", started |-> FALSE]

Phases == {"idle", "registering", "waiting", "cancelling", "admitted",
           "starting", "started", "running", "finalizing", "releasing",
           "done", "lost"}
OpKinds == {"enqueue", "cancel", "start", "release"}
Steps   == {"idle", "list", "reserve", "persist", "cancelWrite", "startWrite"}
Reasons == {"none", "cancelled", "timed_out", "failed"}

Free == [step |-> "idle", task |-> NoTask]
Op(kind, t) == [kind |-> kind, task |-> t]
Holds(step, t) == lock = [step |-> step, task |-> t]

\* Execution phases in which the runtime's deadline timer is armed.
Executing == {"starting", "started", "running"}
\* Phases in which an abort or the deadline can still change what happens.
Interruptible == {"registering", "waiting", "admitted"} \cup Executing

\* Children of a root that count against its limit (admission.ts 128-134).
AcceptedChildren(root) ==
  { ChildOf[t] : t \in {u \in Tasks : RootOf[u] = root /\ (disk[u].started \/ u \in pendingRoots)} }

\* Faulty variant: children that are queued but not started are not counted.
CanAcceptStartedOnly(t) ==
  LET children == { ChildOf[u] : u \in {v \in Tasks : RootOf[v] = RootOf[t] /\ disk[v].started} }
  IN ChildOf[t] \in children \/ Cardinality(children) < MaxChildrenPerRoot

CanAccept(t) ==
  \/ ChildOf[t] \in AcceptedChildren(RootOf[t])
  \/ Cardinality(AcceptedChildren(RootOf[t])) < MaxChildrenPerRoot

\* Faulty variant: only the owner is looked up, not the overlapping paths.
ConflictsSameOwner(t) == t \in owned

Conflicts(t) ==
  \/ t \in owned
  \/ \E u \in owned : Writes[u] \cap Writes[t] # {}

\* AdmissionAttempt.currentCancellation: a passed deadline claims the attempt.
CurrentClaim(t) ==
  IF claim[t] = "none" /\ t \in expired THEN "timed_out" ELSE claim[t]

-----------------------------------------------------------------------------
Init ==
  /\ disk = [t \in Tasks |-> Absent]
  /\ waiters = <<>> /\ active = {} /\ activeCount = 0
  /\ pendingRoots = {} /\ owned = {}
  /\ ops = <<>> /\ lock = Free
  /\ claim = [t \in Tasks |-> "none"]
  /\ reason = [t \in Tasks |-> "none"]
  /\ expired = {}
  /\ phase = [t \in Tasks |-> "idle"]
  /\ outcome = [t \in Tasks |-> Absent]
  /\ result = [t \in Tasks |-> "none"]
  /\ mode = "down" /\ stale = {}
  /\ faults = 0 /\ crashes = 0

-----------------------------------------------------------------------------
(* The admission queue *)

FreeSlots(count) == IF count < MaxActive THEN MaxActive - count ELSE 0

\* Faulty variant: right.sequence - left.sequence.
YoungestFirst(ws) == Reverse(ws)

\* The sort of drain: waiters are pushed in sequence order and only ever removed.
OldestFirst(ws) == ws

\* while (activeCount < maxActive && waiters.length > 0) admit the oldest.
Drain(ws, held, count, ph) ==
  LET line == OldestFirst(ws)
      n == IF FreeSlots(count) < Len(line) THEN FreeSlots(count) ELSE Len(line)
      admitted == { line[i] : i \in 1..n }
  IN /\ waiters' = SubSeq(line, n + 1, Len(line))
     /\ active' = held \cup admitted
     /\ activeCount' = count + n
     /\ phase' = [t \in Tasks |-> IF t \in admitted THEN "admitted" ELSE ph[t]]

\* Some budget allows a behaviour with these tasks, faults and crashes.
Within(tasks, fails, deaths) ==
  \E b \in Budgets : tasks \subseteq b.tasks /\ fails <= b.faults /\ deaths <= b.crashes

\* The tasks the environment has touched, by a call or by an abort.
Involved == {t \in Tasks : phase[t] # "idle" \/ reason[t] # "none"}

\* I/O answers, or fails.
Succeeds == UNCHANGED faults
Fails    == faults' = faults + 1 /\ Within(Involved, faults', crashes)

\* runForeground: build the attempt on the caller's signal and chain enqueue.
Register(t) ==
  /\ mode = "up" /\ phase[t] = "idle" /\ Within(Involved \cup {t}, faults, crashes)
  /\ claim' = [claim EXCEPT ![t] = IF reason[t] # "none" THEN "cancelled" ELSE "none"]
  /\ phase' = [phase EXCEPT ![t] = "registering"]
  /\ ops' = Append(ops, Op("enqueue", t))
  /\ UNCHANGED <<disk, queueVars, pendingRoots, owned, lock, clientVars, systemVars, faults>>

\* finishRegistration: both promises settle with the error, the lock is freed.
Refuse(t) ==
  /\ phase' = [phase EXCEPT ![t] = "done"]
  /\ result' = [result EXCEPT ![t] = "error"]
  /\ lock' = Free

EnqueueBegin(t) ==
  /\ lock = Free /\ ops # <<>> /\ Head(ops) = Op("enqueue", t)
  /\ ops' = Tail(ops)
  /\ claim' = [claim EXCEPT ![t] = CurrentClaim(t)]
  /\ \/ CurrentClaim(t) # "none" /\ Refuse(t)
     \/ /\ CurrentClaim(t) = "none"
        /\ lock' = [step |-> "list", task |-> t]
        /\ UNCHANGED <<phase, result>>
  /\ UNCHANGED <<disk, queueVars, pendingRoots, owned, reason, expired, outcome, systemVars, faults>>

\* tasks.list() has answered; the child limit is decided on the answer.
EnqueueList(t) ==
  /\ Holds("list", t)
  /\ claim' = [claim EXCEPT ![t] = CurrentClaim(t)]
  /\ \/ Fails /\ Refuse(t) /\ UNCHANGED pendingRoots
     \/ /\ CurrentClaim(t) # "none" \/ ~CanAccept(t)
        /\ Succeeds /\ Refuse(t) /\ UNCHANGED pendingRoots
     \/ /\ CurrentClaim(t) = "none" /\ CanAccept(t) /\ Writes[t] # {}
        /\ Succeeds
        /\ lock' = [step |-> "reserve", task |-> t]
        /\ UNCHANGED <<phase, result, pendingRoots>>
     \/ /\ CurrentClaim(t) = "none" /\ CanAccept(t) /\ Writes[t] = {}
        /\ Succeeds
        /\ pendingRoots' = pendingRoots \cup {t}
        /\ lock' = [step |-> "persist", task |-> t]
        /\ UNCHANGED <<phase, result>>
  /\ UNCHANGED <<disk, queueVars, owned, ops, reason, expired, outcome, systemVars>>

\* ownership.reserve has resolved the write paths; a failure is a path it refuses.
EnqueueReserve(t) ==
  /\ Holds("reserve", t)
  /\ claim' = [claim EXCEPT ![t] = CurrentClaim(t)]
  /\ \/ Fails /\ Refuse(t) /\ UNCHANGED <<pendingRoots, owned>>
     \/ /\ CurrentClaim(t) # "none" \/ Conflicts(t)
        /\ Succeeds /\ Refuse(t) /\ UNCHANGED <<pendingRoots, owned>>
     \/ /\ CurrentClaim(t) = "none" /\ ~Conflicts(t)
        /\ Succeeds
        /\ owned' = owned \cup {t}
        /\ pendingRoots' = pendingRoots \cup {t}
        /\ lock' = [step |-> "persist", task |-> t]
        /\ UNCHANGED <<phase, result>>
  /\ UNCHANGED <<disk, queueVars, ops, reason, expired, outcome, systemVars>>

\* Faulty variant: the paths are given back, the child limit is not.
GiveBackPaths(t) == owned' = owned \ {t} /\ UNCHANGED pendingRoots

GiveBack(t) ==
  /\ pendingRoots' = pendingRoots \ {t}
  /\ owned' = owned \ {t}

\* Faulty variant: the cancellation that was seen too early is never chained.
JoinUnnoticed(t) ==
  /\ waiters' = Append(waiters, t)
  /\ phase' = [phase EXCEPT ![t] = "waiting"]
  /\ UNCHANGED <<active, activeCount, ops>>

\* Become a waiter and drain; a waiter that is already cancelled chains its
\* cancellation instead.
Join(t) ==
  \/ /\ CurrentClaim(t) # "none"
     /\ waiters' = Append(waiters, t)
     /\ phase' = [phase EXCEPT ![t] = "waiting"]
     /\ ops' = Append(ops, Op("cancel", t))
     /\ UNCHANGED <<active, activeCount>>
  \/ /\ CurrentClaim(t) = "none"
     /\ Drain(Append(waiters, t), active, activeCount, [phase EXCEPT ![t] = "waiting"])
     /\ UNCHANGED ops

\* tasks.write(queuedRecord) has answered: roll back or join the queue.
EnqueuePersist(t) ==
  /\ Holds("persist", t)
  /\ claim' = [claim EXCEPT ![t] = CurrentClaim(t)]
  /\ \/ /\ Fails /\ Refuse(t) /\ GiveBack(t)
        /\ UNCHANGED <<disk, queueVars, ops>>
     \/ /\ Succeeds /\ Join(t)
        /\ disk' = [disk EXCEPT ![t] = [status |-> "queued", started |-> FALSE]]
        /\ lock' = Free
        /\ UNCHANGED <<pendingRoots, owned, result>>
  /\ UNCHANGED <<reason, expired, outcome, systemVars>>

\* this.waiters.indexOf(waiter) >= 0
StillWaiting(t) == t \in Range(waiters)

\* Faulty variant: whoever is cancelled is taken to be waiting still.
CancelBeginUnchecked(t) ==
  /\ lock = Free /\ ops # <<>> /\ Head(ops) = Op("cancel", t)
  /\ ops' = Tail(ops)
  /\ waiters' = SelectSeq(waiters, LAMBDA u : u # t)
  /\ GiveBack(t)
  /\ lock' = [step |-> "cancelWrite", task |-> t]
  /\ UNCHANGED <<disk, active, activeCount, claim, phase, clientVars, systemVars, faults>>

\* cancelWaiter up to its await; nothing to do when the task left the queue.
CancelBegin(t) ==
  /\ lock = Free /\ ops # <<>> /\ Head(ops) = Op("cancel", t)
  /\ ops' = Tail(ops)
  /\ \/ /\ ~StillWaiting(t)
        /\ UNCHANGED <<waiters, pendingRoots, owned, phase, lock>>
     \/ /\ StillWaiting(t)
        /\ \E i \in DOMAIN waiters : waiters[i] = t /\ waiters' = RemoveAt(waiters, i)
        /\ GiveBack(t)
        /\ phase' = [phase EXCEPT ![t] = "cancelling"]
        /\ lock' = [step |-> "cancelWrite", task |-> t]
  /\ UNCHANGED <<disk, active, activeCount, claim, clientVars, systemVars, faults>>

CancelWrite(t) ==
  /\ Holds("cancelWrite", t)
  /\ \/ Fails /\ UNCHANGED disk
     \/ Succeeds /\ disk' = [disk EXCEPT ![t] = [status |-> claim[t], started |-> FALSE]]
  /\ result' = [result EXCEPT ![t] = "error"]
  /\ lock' = Free
  /\ Drain(waiters, active, activeCount, [phase EXCEPT ![t] = "done"])
  /\ UNCHANGED <<pendingRoots, owned, ops, claim, reason, expired, outcome, systemVars>>

\* lease.markStarted: the running record is durable before `started' is set.
StartBegin(t) ==
  /\ lock = Free /\ ops # <<>> /\ Head(ops) = Op("start", t)
  /\ t \in active
  /\ ops' = Tail(ops)
  /\ lock' = [step |-> "startWrite", task |-> t]
  /\ UNCHANGED <<disk, queueVars, pendingRoots, owned, claim, phase, clientVars, systemVars, faults>>

\* On failure execute aborts the controller and finishes without a run.
StartWrite(t) ==
  /\ Holds("startWrite", t)
  /\ lock' = Free
  /\ \/ /\ Succeeds
        /\ disk' = [disk EXCEPT ![t] = [status |-> "running", started |-> TRUE]]
        /\ pendingRoots' = pendingRoots \ {t}
        /\ phase' = [phase EXCEPT ![t] = "started"]
        /\ UNCHANGED <<reason, outcome>>
     \/ /\ Fails
        /\ reason' = [reason EXCEPT ![t] = IF @ = "none" THEN "failed" ELSE @]
        /\ outcome' = [outcome EXCEPT ![t] = [status |-> "failed", started |-> FALSE]]
        /\ phase' = [phase EXCEPT ![t] = "finalizing"]
        /\ UNCHANGED <<disk, pendingRoots>>
  /\ UNCHANGED <<queueVars, owned, ops, claim, expired, result, systemVars>>

\* lease.release: give the slot and the paths back, then admit the next waiter.
\* (`started' of the lease is disk[t].started: both are set by StartWrite only.)
Release(t) ==
  /\ lock = Free /\ ops # <<>> /\ Head(ops) = Op("release", t)
  /\ t \in active
  /\ ops' = Tail(ops)
  /\ pendingRoots' = IF disk[t].started THEN pendingRoots ELSE pendingRoots \ {t}
  /\ owned' = owned \ {t}
  /\ Drain(waiters, active \ {t}, activeCount - 1, [phase EXCEPT ![t] = "done"])
  /\ UNCHANGED <<disk, lock, claim, clientVars, systemVars, faults>>

-----------------------------------------------------------------------------
(* Cancellation and deadlines *)

\* AdmissionAttempt.claim: the first cause wins; a waiter chains its cancellation.
ClaimAttempt(t, cause) ==
  IF phase[t] \in {"registering", "waiting"} /\ claim[t] = "none"
  THEN /\ claim' = [claim EXCEPT ![t] = cause]
       /\ ops' = IF phase[t] = "waiting" THEN Append(ops, Op("cancel", t)) ELSE ops
  ELSE UNCHANGED <<claim, ops>>

\* The caller's signal aborts the task's controller.
Abort(t) ==
  /\ mode = "up" /\ phase[t] \in Interruptible \cup {"idle"} /\ reason[t] = "none"
  /\ Within(Involved \cup {t}, faults, crashes)
  /\ reason' = [reason EXCEPT ![t] = "cancelled"]
  /\ ClaimAttempt(t, "cancelled")
  /\ UNCHANGED <<disk, queueVars, pendingRoots, owned, lock, expired, phase, outcome, result, systemVars, faults>>

\* The clock passes deadlineAt; the timers fire some time after that.
Expire(t) ==
  /\ phase[t] \in Interruptible /\ t \notin expired
  /\ expired' = expired \cup {t}
  /\ UNCHANGED <<disk, queueVars, pendingRoots, owned, ops, lock, claim, reason, phase, outcome, result, systemVars, faults>>

AttemptTimer(t) ==
  /\ t \in expired /\ phase[t] \in {"registering", "waiting"} /\ claim[t] = "none"
  /\ ClaimAttempt(t, "timed_out")
  /\ UNCHANGED <<disk, queueVars, pendingRoots, owned, lock, reason, expired, phase, outcome, result, systemVars, faults>>

\* The timer execute arms at lease.deadlineAt aborts the controller.
\* Faulty variant: it is cleared once the runner has been entered.
ExecutionTimerUntilRun(t) ==
  /\ t \in expired /\ phase[t] \in Executing \ {"running"} /\ reason[t] = "none"
  /\ reason' = [reason EXCEPT ![t] = "timed_out"]
  /\ UNCHANGED <<disk, queueVars, pendingRoots, owned, ops, lock, claim, expired, phase, outcome, result, systemVars, faults>>

ExecutionTimer(t) ==
  /\ t \in expired /\ phase[t] \in Executing /\ reason[t] = "none"
  /\ reason' = [reason EXCEPT ![t] = "timed_out"]
  /\ UNCHANGED <<disk, queueVars, pendingRoots, owned, ops, lock, claim, expired, phase, outcome, result, systemVars, faults>>

-----------------------------------------------------------------------------
(* TaskRuntime.execute *)

\* The status an aborted controller gives a task.
AbortStatus(why) == IF why = "timed_out" THEN "timed_out" ELSE "cancelled"

Conclude(t, status, started) ==
  /\ outcome' = [outcome EXCEPT ![t] = [status |-> status, started |-> started]]
  /\ phase' = [phase EXCEPT ![t] = "finalizing"]

\* execute up to markStarted: a passed deadline aborts, an aborted task or one
\* whose profile or runner cannot be built is concluded without a run.
Execute(t) ==
  /\ phase[t] = "admitted"
  /\ LET why == IF reason[t] = "none" /\ t \in expired THEN "timed_out" ELSE reason[t]
     IN \/ /\ why # "none"
           /\ reason' = [reason EXCEPT ![t] = why]
           /\ Conclude(t, AbortStatus(why), FALSE)
           /\ UNCHANGED <<ops, faults>>
        \/ /\ why = "none" /\ Fails
           /\ reason' \in {reason, [reason EXCEPT ![t] = "failed"]}
           /\ Conclude(t, "failed", FALSE)
           /\ UNCHANGED ops
        \/ /\ why = "none" /\ Succeeds
           /\ phase' = [phase EXCEPT ![t] = "starting"]
           /\ ops' = Append(ops, Op("start", t))
           /\ UNCHANGED <<reason, outcome>>
  /\ UNCHANGED <<disk, queueVars, pendingRoots, owned, lock, claim, expired, result, systemVars>>

\* run(): a task aborted while markStarted was pending never reaches its runner.
Run(t) ==
  /\ phase[t] = "started"
  /\ \/ /\ reason[t] # "none"
        /\ Conclude(t, AbortStatus(reason[t]), TRUE)
     \/ /\ reason[t] = "none"
        /\ phase' = [phase EXCEPT ![t] = "running"]
        /\ UNCHANGED outcome
  /\ UNCHANGED <<disk, queueVars, pendingRoots, owned, ops, lock, claim, reason, expired, result, systemVars, faults>>

\* terminalOutcome: a success stands even when the controller was aborted.
RunnerReturns(t) ==
  /\ phase[t] = "running"
  /\ \E ok \in BOOLEAN :
       Conclude(t, IF ok THEN "succeeded"
                   ELSE IF reason[t] = "none" THEN "failed" ELSE AbortStatus(reason[t]), TRUE)
  /\ UNCHANGED <<disk, queueVars, pendingRoots, owned, ops, lock, claim, reason, expired, result, systemVars, faults>>

\* The terminal record is written outside the lock; then release is chained.
Finalize(t) ==
  /\ phase[t] = "finalizing"
  /\ \/ /\ Succeeds
        /\ disk' = [disk EXCEPT ![t] = outcome[t]]
        /\ result' = [result EXCEPT ![t] = IF outcome[t].started THEN outcome[t].status ELSE "error"]
     \/ /\ Fails
        /\ result' = [result EXCEPT ![t] = "error"]
        /\ UNCHANGED disk
  /\ phase' = [phase EXCEPT ![t] = "releasing"]
  /\ ops' = Append(ops, Op("release", t))
  /\ UNCHANGED <<queueVars, pendingRoots, owned, lock, claim, reason, expired, outcome, systemVars>>

-----------------------------------------------------------------------------
(* Crash and restart *)

\* The process dies: everything but the task records is gone.
Crash ==
  /\ crashes' = crashes + 1 /\ Within(Involved, faults, crashes')
  /\ waiters' = <<>> /\ active' = {} /\ activeCount' = 0
  /\ pendingRoots' = {} /\ owned' = {} /\ ops' = <<>> /\ lock' = Free
  /\ phase' = [t \in Tasks |-> IF phase[t] \in {"idle", "done"} THEN phase[t] ELSE "lost"]
  /\ mode' = "down" /\ stale' = {}
  /\ UNCHANGED <<disk, claim, clientVars, faults>>

\* Faulty variant: records of queued tasks are forgotten.
UnfinishedRunning == {t \in Tasks : disk[t].status = "running"}

\* The records initialize has to rewrite.
Unfinished == {t \in Tasks : disk[t].status \in Nonterminal}

\* initialize: list the records; a failed list leaves it to be called again.
Initialize ==
  /\ mode = "down"
  /\ \/ Fails /\ UNCHANGED <<mode, stale>>
     \/ /\ Succeeds
        /\ mode' = "recovering"
        /\ stale' = Unfinished
  /\ UNCHANGED <<disk, queueVars, pendingRoots, owned, ops, lock, claim, clientVars, phase, crashes>>

\* One record after the other is marked interrupted; a failed write gives up.
Reconcile(t) ==
  /\ mode = "recovering" /\ t \in stale
  /\ \/ /\ Succeeds
        /\ disk' = [disk EXCEPT ![t].status = "interrupted"]
        /\ stale' = stale \ {t}
        /\ UNCHANGED mode
     \/ /\ Fails
        /\ mode' = "down" /\ stale' = {}
        /\ UNCHANGED disk
  /\ UNCHANGED <<queueVars, pendingRoots, owned, ops, lock, claim, clientVars, phase, crashes>>

Initialized ==
  /\ mode = "recovering" /\ stale = {}
  /\ mode' = "up"
  /\ UNCHANGED <<disk, queueVars, pendingRoots, owned, ops, lock, claim, clientVars, phase, stale, faults, crashes>>

-----------------------------------------------------------------------------
QueueStep(t) ==
  \/ EnqueueBegin(t) \/ EnqueueList(t) \/ EnqueueReserve(t) \/ EnqueuePersist(t)
  \/ CancelBegin(t) \/ CancelWrite(t)
  \/ StartBegin(t) \/ StartWrite(t) \/ Release(t)

ClientStep(t) == Execute(t) \/ Run(t) \/ RunnerReturns(t) \/ Finalize(t)

TimerStep(t) == Expire(t) \/ AttemptTimer(t) \/ ExecutionTimer(t)

Recovery == Initialize \/ Initialized \/ \E t \in Tasks : Reconcile(t)

Next ==
  \/ \E t \in Tasks : Register(t) \/ QueueStep(t) \/ ClientStep(t) \/ TimerStep(t) \/ Abort(t)
  \/ Recovery
  \/ Crash

Spec == Init /\ [][Next]_vars

\* The event loop runs every chained operation and continuation, every timer
\* fires, and a runner whose signal has aborted returns.  A runner that is
\* never aborted owes nothing: the deadline is what bounds it.  Every behaviour
\* takes finitely many steps, so one condition on the union is as strong as one
\* for each of its actions.
Progress ==
  \/ Initialize \/ Initialized
  \/ \E t \in Tasks :
       \/ Reconcile(t) \/ QueueStep(t) \/ Execute(t) \/ Run(t) \/ Finalize(t)
       \/ reason[t] # "none" /\ RunnerReturns(t)
       \/ Expire(t) \/ AttemptTimer(t) \/ ExecutionTimer(t)

FairSpec == Spec /\ WF_vars(Progress)

-----------------------------------------------------------------------------
(* Correctness *)

\* Every variable ranges over what the code can store in it.
TypeOK ==
  /\ disk \in [Tasks -> Record]
  /\ waiters \in Seq(Tasks)
  /\ active \subseteq Tasks /\ activeCount \in Nat
  /\ pendingRoots \subseteq Tasks /\ owned \subseteq Tasks
  /\ ops \in Seq([kind : OpKinds, task : Tasks])
  /\ lock \in [step : Steps, task : Tasks \cup {NoTask}]
  /\ claim \in [Tasks -> {"none", "cancelled", "timed_out"}]
  /\ reason \in [Tasks -> Reasons]
  /\ expired \subseteq Tasks
  /\ phase \in [Tasks -> Phases]
  /\ outcome \in [Tasks -> Record]
  /\ result \in [Tasks -> Terminal \cup {"none", "error"}]
  /\ mode \in {"down", "recovering", "up"}
  /\ stale \subseteq Tasks
  /\ faults \in Nat /\ crashes \in Nat

\* A root never has more accepted children (started in any life of the process,
\* or queued now) than maxChildrenPerRoot, although the check and the
\* registration are separated by awaits and markStarted moves a child between
\* the two sets (admission.ts 118-169, 259-267).
ChildLimit ==
  \A root \in Roots : Cardinality(AcceptedChildren(root)) <= MaxChildrenPerRoot

\* At most maxActive leases are live and the counter never drifts from the map
\* it counts, through cancellation, failed starts and releases.
ActiveLimit ==
  /\ activeCount = Cardinality(active)
  /\ activeCount <= MaxActive

\* Neither limit of the delegation configuration is ever passed.
LimitsHold == ChildLimit /\ ActiveLimit

\* Two tasks, queued or running, never hold overlapping write paths, and a
\* lease that may write still holds its reservation: no other operation
\* released it meanwhile.
WriterExclusion ==
  /\ \A t \in active : Writes[t] # {} => t \in owned
  /\ \A t, u \in owned : t # u => Writes[t] \cap Writes[u] = {}

\* A task that is not between registration and release holds nothing: no slot,
\* no path, no claim on its root's child limit, no place in the queue.
NothingLeaked ==
  \A t \in Tasks : phase[t] \in {"idle", "done", "lost"} =>
    t \notin active \cup owned \cup pendingRoots \cup Range(waiters)

\* No lost wakeup: a slot is free only while every waiter is about to be
\* withdrawn by a cancellation that is already chained.
NoLostWakeup ==
  activeCount < MaxActive =>
    \A t \in Range(waiters) : claim[t] # "none" /\ Op("cancel", t) \in Range(ops)

\* The store tells the truth across crashes: what runForeground reported as a
\* finished run is what the store holds, also after reconciliation, and once
\* initialize has succeeded no task of an earlier life reads as unfinished.
RestartTellsTheTruth ==
  \A t \in Tasks :
    /\ result[t] \in Terminal => disk[t].status = result[t]
    /\ mode = "up" /\ phase[t] = "lost" => disk[t].status \notin Nonterminal

\* A terminal record is final: neither a cancellation that lost the race with
\* admission, nor a late start or conclusion, nor reconciliation rewrites it.
TerminalIsFinal ==
  [][\A t \in Tasks : disk[t].status \in Terminal => disk'[t] = disk[t]]_vars

\* Tasks that asked for admission and neither got it nor left stand in three
\* places, one behind the other: they wait, are between two awaits of enqueue,
\* or have their enqueue chained.
Arriving == {t \in Tasks : lock.step \in {"list", "reserve", "persist"} /\ lock.task = t}
Calling  == {t \in Tasks : Op("enqueue", t) \in Range(ops)}
InLine   == Range(waiters) \cup Arriving \cup Calling

Before(s, x, y) == \E i, j \in DOMAIN s : i < j /\ s[i] = x /\ s[j] = y

Ahead(u, t) ==
  \/ Before(waiters, u, t)
  \/ u \in Range(waiters) /\ t \in Arriving \cup Calling
  \/ u \in Arriving /\ t \in Calling
  \/ Before(ops, Op("enqueue", u), Op("enqueue", t))

\* Strict FIFO in the order of the calls to register, whatever the awaits in
\* enqueue do: nobody overtakes, and whoever is admitted leaves none behind.
FifoAdmission ==
  [][\A t, u \in Tasks : Ahead(u, t) =>
       /\ ~Ahead(t, u)'
       /\ t \in active' => u \notin InLine']_vars

\* Every registered task settles, with an error, a result, or in a crash, and
\* nothing it still waits for is left undone.
Settles == <>[](\A t \in Tasks : phase[t] \in {"idle", "done", "lost"})

=============================================================================

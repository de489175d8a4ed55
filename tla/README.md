# StrongCode, specified

TLA+ models of StrongCode (`src/`, a terminal coding agent in TypeScript), TLC
configurations that check them on small instances, and TLAPS proofs about delegated and
background tasks, the session store, the agent runner, the preflight, the question
dialog, setup and the Blender installer. Paths below are relative to `src/src/`.

    tlc -workers 2 -config MCTaskAdmission.cfg MCTaskAdmission
    tlapm TaskAdmissionProofs.tla
    tlapm BackgroundTasksProofs.tla
    tlapm SessionStoreProofs.tla
    tlapm AgentRunsProofs.tla
    tlapm PreflightRunsProofs.tla
    tlapm QuestionDialogProofs.tla
    tlapm SetupWizardProofs.tla
    tlapm InstallTransactionProofs.tla

## 1. The system

StrongCode is one Node process. It has no threads: what interleaves are promise
continuations, timers, abort signals and, on the file system, other StrongCode
processes. Code between two awaits is atomic. The parts:

| part | state it keeps | operations | what is hard | correct when |
|---|---|---|---|---|
| **Task admission** `tasks/admission.ts`, `admission-attempt.ts`, `ownership.ts`, `task-runtime.ts`, `task-store.ts` | lease map and its counter, FIFO of waiters, pending children of a root, write-ownership claims, one JSON record per task, one abort controller per attempt | register, enqueue, drain, cancelWaiter, markStarted, release, execute, initialize | every queue operation is chained on one promise but awaits I/O inside; aborts and deadlines come at any time; each write may fail; the process may die | limits hold, nobody is forgotten or served out of order, writers exclude each other, terminal records are final, everything is given back |
| **Background tasks** `tasks/background-*.ts`, `task-supervisor.ts`, `task-access.ts` | jobs, profiles, turns of each child session, tombstones of failed terminals, revoked roots | startBackground, continue, cancel, cancelRoot, shutdown, wait | a lifecycle timer, a turn queue and the foreground runtime each may end a task; ready and terminal promises | one turn per child at a time, in order; an end is durable or reported; stopping drains its scope |
| **Session store and ledger** `sessions/*` | one JSONL file per session, a write queue per file and process, handles | append, appendGuarded, reserveFirstSummary, commitLedgerEvent, compaction snapshot and commit | a decision is made on a file as it was read; writes tear; compaction replaces the file by rename; two processes | acknowledged lines stay, the ledger never contradicts itself, a checkpoint covers exactly the history it follows |
| **Agent runner** `agents/runner*.ts`, `session-operation-coordinator.ts`, `compactor.ts`, `plan-handoff.ts`, `sessions/session.ts` | queue of operations per session, transcript of a run, batch under way, receipts and approved plans | run, compact, consumePlanReceipt, runApprovedPlan, discard, close | a call is persisted, run and settled in three steps, and the run may be aborted, closed, failed or die between any two | the history can always be replayed and says nothing false; turns do not mix; a plan runs once while it is the newest |
| **Preflight** `agents/preflight/*` | reservation in the session ledger, registry of live runs and its chain of admissions, terminal authority, root agent, pool of research children, finalizer | run, join, resolve, cancel, time out, finish, close | success, cancellation, timeout and failure race for one terminal record whose write may fail; providers that never answer | one durable verdict, which is what every caller is told; complete research; close leaves nothing |
| **Questions** `questions/*`, `tui/question/*`, `tools/builtin/question.ts` | active request and FIFO behind it; the answers being composed, focus per page, an armed Escape; the rewrite in flight and its generation | ask, answer, dismiss, close; pick, type, page, move the focus, simplify, submit, cancel, Escape; destroy | the dialog settles the broker, which calls the dialog back; a rewrite returns after its question went; the dialog ends before the broker | what waits is what is shown; each call is answered once, wholly and in order; nothing stale is shown or sent |
| **MCP** `mcp/*` | connections, pending connections, OAuth state on disk | connect, call, close, refresh | pending connections shared by callers, close racing a start | no connection outlives close |
| **Credentials** `models/auth-store.ts`, `chatgpt-provider.ts`, `chatgpt-oauth.ts` | auth.json, a queue of writes per process, the renewal under way of each provider instance, a callback server | set, remove; authorize, renew, retry; log in by browser or device code | several instances and processes find one token expired; the process dies with a new token in memory; the callback comes late | within a process no write is lost; a token is stored before it is used |
| **Setup wizard** `setup/wizard.ts`, `state.ts`, `state-lock.ts`, `blender/state.ts`, `config/save.ts` | a snapshot of auth.json, the configuration being drafted, setup.json and its lock | choose, enter a key, log in, save, record, offer Blender; roll back; `setup --blender` | it stores credentials long before it completes; setup.json is updated by several processes | all or nothing; updates of setup.json as if one after the other |
| **Blender installer** `setup/blender/*` | lock file, a journal per transaction, and for each target its path, an `.installing` and a `.restoring` copy, a displaced original, a backup and rollback evidence | install, recover, roll back | a death, a failure or an edit by the user between any two steps, also of a rollback; reclaiming a stale lock | an interrupted install is undone completely, and what the user saved meanwhile is kept |
| **Tools** `tools/*` | child processes | run, stop | exit, timeout and cancellation race | one result; nothing left running |
| **TUI, CLI** `tui/*`, `cli/*` | mutation lease, turn generations, surfaces | key and slash commands | callbacks of an older generation | no two actors mutate one agent |
| **Providers, skills, core** | none that outlives a call | requests, parsing | — | — |

How they meet: the runner reads and appends through the session store; the
preflight commits ledger events there; `spawn_agent` tools of a run go through
the task manager, whose runtime creates runners of its own; every runner of the
process shares the coordinator's queue of its session; `close()` and `cancelRoot`
end what the others started by aborting their signals and waiting. A run that asks
the user waits in the question tool, which does not look at the run's signal: it is
the dialog, or the broker's close(), that lets it go on.

## 2. The modules

Fifteen modules model code, one states an abstract specification, eight instantiate them
for TLC, eight hold lemmas and proofs, one defines what the proofs say of queues.

| module | models | a state is | an action is |
|---|---|---|---|
| `TaskAdmission` | foreground execution of delegated tasks, admission, ownership, the store, restart | the queue object, the records on disk, the position of every caller (`phase`), the operation holding the promise chain (`lock`) and those behind it (`ops`) | one stretch of `admission.ts` between two awaits, one step of `TaskRuntime.execute`, a timer, an abort, a crash, a step of `initialize` |
| `BackgroundTasks` | launcher, lifecycle, turn registry, supervisor, `TaskAccess.wait` | the registry, each task's lifecycle position, its record, what was returned to its caller, what a wait for it saw and answered | a synchronous stretch of the launcher, lifecycle, runtime, supervisor or wait |
| `SessionLedger` | the projection that says whether a history is legal | no state: operators on a sequence of events | — |
| `SessionStore` (on `SessionLedger`) | the file of a session, the write queues of one or two processes, compaction's publication | inodes with their lines, the path's inode, queues, what every job saw | one await of `append`, `commitFromSnapshot`, `commit`; crash |
| `PlanHandoff` | `plan-handoff.ts` | one record | operators used by AgentRuns |
| `AgentRuns` (on `PlanHandoff`) | runner, loop, tool batches, coordinator, compaction as a runner sees it | histories as items, a queue per session, each run's place in the loop and its batch | what a run does from one await's answer to the next await; abort, close, crash |
| `SummaryReservation` | what the preflight promises, in three actions | the record of a session's summary and what each caller heard | reserve, decide, tell |
| `PreflightRuns` (refines `SummaryReservation`) | the gate of the runner, registry, run, terminal writers, executor, children, finalizer, close() | the ledger's summary, the store's queue of writes, each call's step, the run's stage, each worker's place | one stretch between two awaits; an answer of a provider, an abort, a deadline, a crash |
| `InstallTransaction` | install lock, journalled transaction, commit, rollback and recovery | what the six paths of every target hold, the journals, the lock file, the step of every installer | one operation on the file system with the check before it; an edit, a failure, a death |
| `QuestionBroker` | `broker.ts` | the request shown, those behind it, closed | operators on that record |
| `QuestionDialog` (on `QuestionBroker`) | the question tool, the dialog with its keys, the simplifier, the end of the program | the broker, the form being filled, focus, Escape, every simplification started | a key, a click, an ask(), the continuation of an await; a settlement with the callbacks it makes is one action |
| `HomeProcesses` | processes that share a home directory | who ended, how many file operations failed | operators used by the next four |
| `CredentialVault` (on `HomeProcesses`) | `auth-store.ts` | auth.json as a number per provider (0 for none; keys and tokens are numbered), each process's chain of writes | the read or the rename of one write, or its failure |
| `ChatGptCalls` (on `CredentialVault`) | `complete()` and `auth()` of `chatgpt-provider.ts`, token renewal | each call's step and token, each instance's `refreshPromise`, the refresh tokens the server replaced | one stretch between two awaits; an answer of the server |
| `SetupRecord` (on `HomeProcesses`) | `updateSetupState`, the lock, compare and replace, the merge of a Blender setup | setup.json (who completed, whose integration, which offer), the lock file, the step of each update | one operation on the file or the lock |
| `SetupWizard` (on `ChatGptCalls` and `SetupRecord`) | `runSetup`, the browser and device login, `setup --blender` | each wizard's place, snapshot, draft and rollback; its login; the saved configuration | a choice of the user, a continuation, a callback, a timer, a death |
| `MCSetupWizard`, `MCQuestionDialog`, `MCPreflightRuns`, `MCInstallTransaction`, `MCTaskAdmission`, `MCBackgroundTasks`, `MCSessionStore`, `MCAgentRuns` | — | small instances | — |
| `TaskAdmissionProofs`, `BackgroundTasksProofs`, `SessionStoreProofs`, `AgentRunsProofs`, `PreflightRunsProofs`, `QuestionDialogProofs`, `SetupWizardProofs`, `InstallTransactionProofs` (the first five on `Queues`) | — | the proofs; membership in a queue | — |

`PROJECT.json` maps each definition to its lines. Operators called "Faulty
variant" are not used by the models: each is a plausible mistake in the
definition that follows it, kept to show that a property notices it.

What is abstracted. Ids, messages, tools and paths are model values. A task
record is its status and whether it started; a write region is one member of
`Regions`, and paths overlap when they share a region. A line of a session file
is the job that wrote it, or `Torn`. A model's answer is a sequence of calls,
and a provider may give any answer of `Turns`, fail, or be interrupted. Time is
the order of events: a deadline may pass at any moment after it is set.
Composition is by contract: `BackgroundTasks` takes from admission only that a
wait is granted, refused or aborted (which `TaskAdmission` shows it is), and
`AgentRuns` takes from the store that a write is acknowledged, or fails before
or after its line reached the file (which `SessionStore` shows).

Preflight: one session and one process at a time; the ledger admits one
reservation, so at most one run is ever created and `run` names its creator. The
events of one attempt are one job of the store's queue, a batch of tools is part of
a worker's step, a finding and a gap are both "evidence". Calls that return before
they touch the registry (an empty prompt, a nested agent) are left out.

Installer: what a path holds is one of "absent", the old, the new or the user's
content, a torn copy, or the rest of a directory whose removal was cut off, since the
code compares hashes. Each activation phase has
one target; the phases before the first activation are target 0. A process that
ended is one whose lock is stale. `raced` names the targets the user saved between a
check and the rename or removal that relies on it: the code cannot notice those, and
`MineIsKept` says nothing of them. `MineIsKept` speaks of all the others.

Questions: a request stands for its token, which is new for every `ask()`; the
settled tokens the broker remembers only choose the words of a refusal. A draft is
empty, blank or text. What is highlighted, drafts an editor refuses, and the focus
given back to the session are left out. A request to DeepSeek is reading the
credentials, the call, its end; a rewrite keeps ids and counts because `reconstruct`
takes them from the text that was sent.

Setup: ChatGPT, OpenAI and one other provider stand for all; a provider is asked about
once, and discovery of its models is part of the step that follows it. A key's entry and
the write it starts are one step, as are the comparison of setup.json and what
precedes it. The configuration counts as saved with its first rename
(`strongcode.config.yaml`). Tokens are at their end only if the home began with them.
`Lost` marks an entry that an old read of another process brought back.

The models avoid `SelectSeq` and the folds where a proof speaks of them: what the code
filters or sums is a set of indices, or a counter the actions keep (`used` of
`AgentRuns` counts what `checkCallBudget` sums over the answers of a run).

Points where the code is easily read otherwise, and how it is modelled:

* `drain` runs inside `exclusive` operations, so a free slot may stand idle
  while a cancelled waiter's removal is chained. `NoLostWakeup` says exactly that.
* An attempt cancelled before it runs but after admission is recorded as
  cancelled and reported as an error (`task-runtime.ts` 70-77); in the background
  that error is retained as a failure and revokes the root.
* The lifecycle timer of a first background task whose turn starts at once is
  armed after the turn cleared it (`background-terminal.ts` 135, 163). It stays
  armed, and the record of such a run that times out says `cancelled`.
* A terminal write that fails leaves the record `running` until a restart
  reconciles it.
* A torn line makes a session unreadable. The store refuses it and repairs
  nothing, so `LedgerStaysReadable` (part of `LedgerIsLawful`) speaks of files without one.
* The final answer is committed under a guard that decides right before the
  write. What the signal does later does not change the verdict, but telemetry
  that fails afterwards fails a run whose answer is in the history.
* A cancellation or deadline whose record cannot be written does not abort the
  run's controller (`agents/preflight/scheduler.ts` 154-170), and no later deadline is
  accepted: the run lasts as long as its provider. `EverythingSettles` of
  `PreflightRuns` exempts `request = "failed"` and nothing else.
* A success is claimed by the guard of its write. When the write fails the claim
  stays, the caller gets an error, and the reservation is settled as orphaned by the
  next call (`scheduler-terminal.ts` 24-43, 101-114).
* An `.installing` or `.restoring` copy that was left torn is nobody's: from then on
  the installation, or the rollback, of that target refuses
  (`setup/blender/transaction.ts` 158, `recovery.ts` 68). `ConflictsAreReal` counts it
  as a reason.
* The removal of a directory that the installation created is a recursive `rm`
  (`recovery.ts` 58-60, `durable-fs.ts` 167-172). When it is cut off, by a failure or a
  death, what is left is neither what was there nor what was installed: the next
  recovery records a conflict and leaves it (`recovery.ts` 207-211). The set `halved`
  names these targets. What the transaction itself moved aside is removed with the
  same call, and is torn when that is cut off.
* An approval stands: a planning run that begins later retires the receipts of its
  session and leaves the approved plans (`plan-handoff.ts` 52-63), so an older plan can
  be built after a newer one was answered. `PlansAreApprovedOnce` says when a plan can be
  approved and how often it is built.
* A call without a result is recovered when a session is replayed, but not after a
  checkpoint: there the strict conversion refuses the session (`sessions/session.ts` 228),
  as `tests/session-compaction.test.ts` (139-176) expects. `HistoryReplays` says which
  runs may leave such calls, not that the session can be used again.
* A lock file that was created and never written blocks every later installer:
  `readLock` refuses it before its age is looked at (`install-lock.ts` 137).
* A click on Next while the custom editor has the focus does nothing but disarm Escape:
  the action calls the handler of the Right key, which leaves editors alone
  (`tui/question/interaction.ts` 57, 165).
* On the Confirm page an Escape from a control moves the focus into the guidance
  editor and arms the second stage (`interaction.ts` 195-200); typing does not disarm
  it, so the next Escape, the first one in that editor, dismisses everything, while
  DESIGN.md:131 has the first Escape leave the editor.
* The dialog closes before it settles (`surface.ts` 91, 99). Were the broker to refuse
  the result, the request would stay active without a dialog; `DialogFollowsBroker`
  says that no answer the dialog can compose is refused.

* `updateSetupState` gives its lock back in a `finally` (`setup/state.ts` 126): when that
  fails the caller hears a failure, and the wizard rolls the credentials back, although
  setup.json already says that setup is complete. `CompletedIsBacked` speaks of
  wizards that are not rolling back and did not.
* A contender that reads the lock file while it is being written, or just removed,
  fails at once; only a lock that names a live process is waited for, 100 times
  (`state-lock.ts` 15-19).
* The configuration is not rolled back: a wizard that cannot record its end leaves the
  new configuration with the old credentials.
* A saved key that the provider refuses is removed (`wizard.ts` 273) while the
  provider stays enabled, and may stay the default.
* Two provider instances, or two processes, renew with one refresh token; the slower
  one is refused if the server replaced it, and its call fails (`chatgpt-provider.ts`
  130). A renewal the server never answers has no timeout: the calls that share it wait
  (`chatgpt-oauth.ts` 235), and `EverythingEnds` exempts them.
* After the timer of a browser login fired, a callback that already came goes on and
  stores its tokens (`chatgpt-oauth.ts` 366-371). `closeServer` waits for its
  connection, so the wizard goes on only after it, unless the browser left.

## 3. What is checked

Every bound is a constant named in the module. `Budgets` is a set of bounds: a
behaviour stays within one of them, so that one run explores several scenarios
without their product.

| run | instance | properties | shows |
|---|---|---|---|
| `task_admission` (651 k states) | three children of one root, limit two, one slot, two writers of one region; two of them with a failing I/O operation; two turns of one child with a fault and two crashes; fairness | LimitsHold, WriterExclusion, NoLostWakeup, NothingLeaked, RestartTellsTheTruth, TerminalIsFinal, FifoAdmission, Settles | capacity, order, leases and records under every interleaving of admission, cancellation, deadline and release; a crash also during reconciliation; everything registered settles |
| `background_tasks` (425 k) | three turns of one child, one with a deadline, and cancelRoot; two turns and two roots with deadlines, a fault, cancelRoot and shutdown; two turns beside another root; a wait for a task while a fault, cancelRoot or shutdown meets its end; fairness | HandlesAreAnswered, ScopesAreClosed, OrderIsKept, EverythingSettles | turns are serial and in order, ends are answered, also to a wait that reads the registry before an await and the store after it; failures poison their root; nobody waits for ever on a turn, a profile or a publication |
| `session_store` (73 k) | one process; a compacted conversation with a fault and a crash; an attempt with repeated and competing events; two verdicts; links and usage | HistoryIsKept, LedgerIsLawful, EveryCallAnswers | nothing acknowledged is lost, nothing committed contradicts the ledger |
| `session_race` (violation) | two processes | HistoryOnlyGrows | finding 1 |
| `agent_runs` (411 k) | two runs with a batch through two runners and a fault; a run against every limit with a fault and a crash; a compaction beside a run with a fault and a crash, or beside a plan; plans, builders and a misuse in two sessions; fairness | HistoryReplays, ReportsAreTrue, TurnsStayWhole, BudgetHolds, CloseDrains, PlansAreApprovedOnce, EveryRunEnds | the history makes sense and is honest; approvals are single use; no run blocks the next and close returns |
| `agent_stale_plan` (violation) | one runner | RepeatedIdsAreRejected | finding 2 |
| `preflight_runs` (406 k) | a run with three children and two at a time; a child with a failing write and close(); two schedulers that meet with a failing write and close(); two callers before and after a restart with a failing write | RecordIsTrue, NothingOutlivesItsRun, EvidenceIsComplete, ImplementsReservation, EverythingSettles | one verdict, told to everyone; complete evidence; an end for every caller and every close() |
| `install_transaction` (226 k) | two targets in three pairs that have every kind; three installers in turn with two deaths; two with an edit and a death, an edit and a failure, a failure and a death; two overlapping with a death; fairness | AllOrNothing, MineIsKept, LockExcludes, ConflictsAreReal, EveryInstallerEnds | interrupted installations and interrupted rollbacks are undone, but for a created directory that was removed in part, conflicts are reported only where there is one, and no installer waits for ever |
| `install_rollback` (violation) | the same | RollbackRestores | finding 4 |
| `question_dialog` (342 k) | three requests that queue, two of which ask under the same id, with two rewrites; one, two and three questions alone with longer inputs; no simplifier; the end at any moment | DialogFollowsBroker, EveryAskIsAnswered, RewritesAreCurrent, OnlyShownIsSent | what waits is shown, answers are whole and in order, late rewrites change nothing |
| `setup_wizard` (352 k) | a wizard with a fault, one that finds a token and a key, one beside a call, two of which one dies; two calls of one instance with a fault, of two with a fault and a death; a wizard beside a Blender setup with a fault; three Blender setups in three processes with a death; fairness | WizardIsAllOrNothing, CredentialsAreKept, RecordIsSerial, EverythingEnds | credentials are rolled back or backed by a configuration, writes of one process keep each other, updates of setup.json do not mix, and all of it ends |
| `setup_rollback` (violation) | a wizard that stages nothing beside a call | RollbackTouchesOnlyStaged | finding 3 |

A property that joins several claims names them: `LimitsHold` is ChildLimit and
ActiveLimit, `ScopesAreClosed` is FailureRevokesRoot, StopDrainsScope and NothingLeaked,
`OrderIsKept` is TerminalIsFinal, TurnsInOrder and OneTurnPerChild, `HistoryIsKept`
is AcknowledgedIsKept and CheckpointCoversHistory, `LedgerIsLawful` is
LedgerStaysReadable, AnswersStand, LifecycleInOrder and AttemptsAreGrounded,
`EveryAskIsAnswered` is OldestFirst, AnswersAreWhole and an answer for all at close(),
`ReportsAreTrue` is SkipsAreHonest, AnswersAreWhole and StoppedIsUnanswered,
`PlansAreApprovedOnce` is ReceiptIsCurrent, PlanRunsOnce and ApprovalsAreSound, `WizardIsAllOrNothing` is
UndoneLeavesNoTrace and CompletedIsBacked, `CredentialsAreKept` is WritesAreKept of each
provider and SentIsStored.

Why the bounds are enough for the questions asked: exclusion, order and leaks
need two actors and a third that waits behind them; each fault path is one
failing operation, and the second crash is there for the reconciliation that is
itself cut off; the ledger's rules relate at most three events of one attempt
and two of another; the loop's limits are two, so that "one less", "reached" and
"passed" occur, over two model steps. Deadlock checking is off in every run
because every actor acts a bounded number of times and the system then stops;
the liveness properties say that it does not stop earlier. No symmetry is used.

In `install_transaction` a rollback that is cut off twice needs three installers in
turn, and every kind of target (file or directory; created, replaced or removed)
appears in a pair, so that the second target finds the first one already activated.
An installer recovers what it finds before it installs, so that two are enough for a
removal that is cut off, the conflict it leaves, and an installation after it.
Two combinations are left out of the passing runs because the four properties fail
there (they are also excluded by the hypotheses of the proofs, section 5):

* failures and overlap. A commit whose write fails gives up the lock and is rolled
  back after taking it again (`commit.ts` 54, `recovery.ts` 147-157), with a journal
  read before; another installer may have recovered that journal and committed in
  between, and is then rolled back over.
* three overlapping installers. Two of them may read the stale lock of the third;
  the slower one renames the fresh lock of the faster one away (`install-lock.ts`
  137-144), and both go on until the first of them asserts its lock.

In `question_dialog` seven inputs fill two questions, page, and leave; three rewrites
are one that was given up, one that is awaited and one that follows. Only the
scenario of three requests has settlements that open the next dialog, and it has
fewer inputs.

In `setup_wizard` each scenario has the actors one of the claims needs: three
processes are needed for a lock that is reclaimed twice, two calls for a shared renewal,
two instances for two renewals with one token, a call beside a wizard for a credential
that changes under its snapshot. `MaxAttempts` is two instead of three: one attempt that
is stale and one that is the last.

Fairness. Weak fairness of a step stands for a promise that settles: file I/O
answers (possibly with an error), a timer that is armed fires, a chained
operation begins once the one before it ended. A *runner* of a delegated task
is not assumed to return by itself: only once its signal has been aborted
(`aborted /\ RunnerReturns`), which its deadline brings about, so that `Settles`
and `EverythingSettles` do not rest on a well-behaved model. In `AgentRuns`
providers and tools are assumed to answer or fail: the runner has no deadline of
its own, and waits for them. In `PreflightRuns` they are not: `FairSpec` has one weak
fairness condition, on the steps of the event loop and the timers; answers, aborts
and crashes belong to the environment and may never come. One condition is enough as
no step can be repeated for ever. In `InstallTransaction` an installer that runs
takes its next step; users, failures and deaths are free. `TaskAdmission` and
`SetupWizard` have one condition on the steps the program takes by itself, too: in the
latter users, servers, browsers, the clock and deaths owe nothing, so that `EverythingEnds`
says that a wizard comes to rest only where it waits for one of these. `QuestionDialog` states no
fairness: a user may never answer, and the code has no deadline for one.

## 4. Findings

1. **Compaction can replace a newer history** (`session_race`).
   README.md:468 says that compaction fails "without replacing that newer
   history". `compaction-checkpoint-store.ts` compares the target with its
   snapshot (147) and then renames over it (152); what another process appends
   and acknowledges in between is gone. In one process the write queue excludes it.
2. **An approved plan runs on an old transcript** (`agent_stale_plan`).
   `tests/runner-model-turn-validation.test.ts:114` expects a repeated historical
   call id to be rejected; the builder validates against the plan's snapshot, so an
   id persisted by a run in between is persisted again and the session no longer
   replays.
3. **Cancelling a setup overwrites credentials it never touched** (`setup_rollback`).
   `setup/wizard.ts` calls what it undoes "staged credentials" (803), and
   `tests/setup.test.ts:625` expects the key the user entered to be rolled back.
   `restoreAuthSnapshot` (713-719) writes the whole snapshot of auth.json again: tokens
   another process renewed while the wizard was open are replaced by the old ones, whose
   refresh token the server may no longer take. If the snapshot could not be read it is
   still `{}` (743, 747), and the rollback removes every saved credential.
4. **A rollback that is cut off leaves part of a created directory for good**
   (`install_rollback`). README.md:135 promises "transactional rollback". A directory the
   installation created is removed where it stands (`recovery.ts` 59); a death or a failure
   in the middle leaves something the next recovery takes for somebody's edit: it
   records a conflict, closes the journal, and the rest stays. Directories that were
   replaced are moved aside first (86-92), and their rollback resumes.

## 5. What is proved

Every theorem below holds for all values of the constants that satisfy the named
assumptions: any number of tasks, runs, calls, requests, processes and files, any
limits, and any number of failing operations and crashes. TLC evaluates each assumption
on every run of its module. The proofs have one shape. None of the properties is
inductive, because each speaks of a state between two awaits; an invariant adds what
the code knows there, TLC checks it on the small instances, and there is one lemma
per action, split by conjunct. The proofs about queues speak of what a queue holds
(`InSeq`, `Distinct` of `Queues`) and not of indices; each begins with the lemmas it needs on
`Append`, `Tail`, removal and prefixes. `BackgroundTasksProofs` has induction over the natural
numbers for the elements of a set (`Induction`, derived from a fact on injections of finite
sets because the library's theorem takes an operator).

### Task admission

`TaskAdmissionProofs`:

| theorem | states |
|---|---|
| `TypeCorrect` | `Spec => []TypeOK` |
| `LimitsAreKept` | `Spec => []LimitsHold` |
| `WriterExclusionHolds` | `Spec => []WriterExclusion` |
| `NothingIsLeaked` | `Spec => []NothingLeaked` |
| `NoWakeupIsLost` | `Spec => []NoLostWakeup` |
| `AdmissionIsFifo` | `Spec => FifoAdmission` |
| `TerminalRecordsStay` | `Spec => TerminalIsFinal` |
| `StoreTellsTheTruth` | `Spec => []RestartTellsTheTruth` |
| `Invariance`, `RecordInvariance` | `Spec => []IInv`, `Spec => [](IInv /\ RecordsFit)` |

Assumptions: `TasksAssumption` and `LimitsAssumption` of `TaskAdmission` (finite
sets, functions of the right type, limits that are positive as the schema of the
configuration requires). `IInv` adds:

* `OpsFit`, `QueuesDistinct`: an operation is chained only for a task whose
  caller awaits it, and neither the chain nor the line of waiters names one twice;
* `LockFits`: the operation holding the chain belongs to a caller in the matching phase;
* `WaitersFit`, `ActiveFit`, `ChildrenFit`, `OwnersFit`: who stands in the line,
  holds a lease, a pending child or a claim is at a point where the code gives it
  back later - this is what `NothingLeaked` needs;
* `OwnersDisjoint`: claims do not overlap, from the check in `reserve`;
* `DecisionHolds`: between the listing of records and the registration of the
  pending child, the count that was decided on can only have shrunk, because every
  operation that could raise it waits for the lock - this is what carries `ChildLimit`
  over the await;
* `CancellationChained`, `SlotsFit`: a waiter that was claimed has its removal
  chained, and a free slot means that every waiter was claimed - `NoLostWakeup`.

`FifoAdmission` compares two tasks over three places: the chain of operations, the
operation that holds it, and the line of waiters. The proof shows of every step that it
moves a task forward only behind those who were ahead of it, and that a drain admits a
prefix of the line without its cancelled members.

That the store tells the truth rests on a second invariant. A write is decided on before
the await and made after it, so finality needs to know that nobody still holds such a
decision for a record that became terminal. `RecordsFit` says where a task can be while
its record is terminal (releasing, done, or lost in a crash), that a result is the
recorded status, that while the process is down or recovering no task is between two of
its steps, and that every unfinished record of an earlier life is still on the list of
`initialize` until it returns. `Moves(u)` summarises what any step of one life may do to
one record; `MovesKeep` carries the invariant over all of them, and `RestartKeeps` does
the same for the crash and the reconciliation.

### Background tasks

`BackgroundTasksProofs`:

| theorem | states |
|---|---|
| `HandlesAnswered` | `Spec => []HandlesAreAnswered` |
| `ScopesClosed` | `Spec => []ScopesAreClosed` |
| `OrderKept` | `Spec => OrderIsKept` |
| `BackgroundTypes`, `BackgroundInvariant` | `Spec => []TypeOK`, `Spec => []IInv` |

Assumption: `OwnersAssumption` (each task has a child and a root, the scope of
`shutdown` is no root). `IInv` has a part per thing that outlives an await:

* `QueueFits`: a child's queue holds exactly its turns that run or wait, each once, and
  the first of them, and no other, runs - the queue is a chain of promises, and a turn
  that ends in any of five ways must be the one at its head;
* `RecordFits`, `HandleFits`: what the store, the registry and the caller can hold of a
  task at each step: a handle stands for a job, or for an end that is durable, retained
  as a failure or reported by a stop;
* `WaitFits`: what a wait saw in the registry before its await still says where the
  answer is after it, although the task may have ended in between;
* `ChildIsNew`: no turn of a child is queued before its first task started;
* `ScopesFit`, `FailureRevokesRoot`: a scope that is being stopped takes no job and
  waits for all it has. A new job needs `accepting` and a root that is not revoked at
  the moment it is registered; that they are looked at in the same stretch is what
  makes "drained" stay true.

`OrderIsKept` compares the queue, from which a task in the middle may be removed, before
and after a step; `KeptExists` shows by induction that what the code filters keeps its order.

### Session store and ledger

`SessionStoreProofs`, each theorem under the hypothesis `OneQueue` (all clients of the
file are in one process, so that they share one write queue). It is the hypothesis of the
code's design, and `session_race` shows that it is needed:

| theorem | states |
|---|---|
| `HistorySurvives` | `OneQueue` implies `Spec => []HistoryIsKept` |
| `HistoryGrows` | `OneQueue` implies `Spec => HistoryOnlyGrows`, which finding 1 breaks for two |
| `LedgerLaw` | `OneQueue` implies `Spec => []LedgerIsLawful` |
| `QueueInvariance`, `LedgerInvariance` | the invariants `HistoryInv`, `LedgerInv` |

Assumptions: `JobsAssumption`, and `EventsAssumption`: an event's type fits the kind of
its job, and the id of a reservation is its own.

`HistoryInv` says that only the job at the head of the queue has its hands on the file
(`QueueFits`), and that what it remembers - the inode it opened, whether the last line was
whole, the snapshot it will replace - is still so (`FileFits`); that a line of a job is in
the file only after its write, and is there if the job was acknowledged (`StepFits`); and
that a checkpoint stands behind exactly the lines it was computed from (`CheckpointFits`).
A torn write and a crash between any two steps are among the steps.

The ledger's theorem rests on it: the decision whether an event may be written is made on
the events as they were read, and the event is written an await later. `LedgerInv` adds
that the decision of the job at the head still holds (a torn line counts as conversation,
after which the file is refused), that no event occurs twice, and that links lead back in
the file. Each rule of the projection is then a lemma on one event put behind a lawful
history, with no recursion over the history itself.

### Agent runner

`AgentRunsProofs`:

| theorem | states |
|---|---|
| `TurnsDoNotMix` | `Spec => []TurnsStayWhole` |
| `ReportsHold` | `Spec => []ReportsAreTrue` |
| `LimitsHold` | `Spec => []BudgetHolds` |
| `CloseIsComplete` | `Spec => []CloseDrains` |
| `PlansRunAsApproved` | `Spec => []PlansAreApprovedOnce` |
| `SessionsReplay` | `Spec /\ [][CurrentPlans]_vars => []HistoryReplays` |
| `AgentTypes`, `AgentInvariance` | `Spec => []TypeOK`, `Spec => []IInv` |

Assumptions: `RunsAssumption` of `AgentRuns` and `HandoffAssumption` of `PlanHandoff`;
the answers a provider may give are any sequences of calls, equal ids included.

`IInv` joins what holds between runs (`QueuesFit`: a session's queue holds the runs that
were submitted and have not ended, and only its head works; `HandoffFits`: a plan is in
one of three places, and in none before its run is done and has answered; `ItemsFit`: while a run works
its items are the end of the history) with what holds within one, `RunFits`: which calls
of its answer are persisted, tried and left (`BatchFits`), what has a result
(`ResultsFit`), which call can still be without one (`CallsFit`), where its answer stands
(`AnswerFits`) and what the rest of the batch may still count (`CountsFit`). A call is
persisted, run and settled in three steps, and an abort, a failing write, close() or a
crash may come between any two; so `ResultsFit` and `CallsFit` speak of each place of the
loop apart. Two lemmas keep the proof linear in the number of actions: a step of one
run leaves `RunFits` of the others (`Moves`, since only the head of a session's queue
writes into its history), and of the run itself each conjunct depends on a few fields.
`BudgetHolds` is counted in advance: before the first call of an answer is persisted the
whole answer is counted, so that skipping, failing and repeating can only leave a rest.

`HistoryReplays` is not a theorem for all constants: finding 2 is a counterexample, and
`SessionsReplay` says that nothing outside that situation is. Its hypothesis
`CurrentPlans` excludes the situation, harmless instances of it included: a builder
starts with a transcript that has every call of its session.
Under `CurrentPlans` the transcripts alone are inductive, `ReplayInv`, whatever failed:

* `IdsFit`: in what is seen of a file after its last checkpoint, calls and results have
  ids of their own, a result follows the call of its run, and no text is between them;
* `CheckpointsFit`: a checkpoint is of a run that is done, so it never hides a call of
  a run at work;
* `KnownFits` and `NewFits`: the ids a run has not admitted yet are not in its session,
  although it compares them with the transcript it read before it asked the provider;
* `PersistedFits`: a call the batch goes on with is in the file, and no text is after it.

`MineIsSeen` is the step between the two invariants: whatever follows a call of the
working run in the file is its own, so the call stays in view until its result is
written.

### Preflight

`PreflightRunsProofs`:

| theorem | states |
|---|---|
| `ReservationIsImplemented` | `Spec => ImplementsReservation`: one reservation, at most one verdict, and every caller that is told a verdict is told the recorded one |
| `RecordStaysTrue` | `Spec => []RecordIsTrue` |
| `NothingIsLeftBehind` | `Spec => []NothingOutlivesItsRun` |
| `EvidenceIsGathered` | `Spec => []EvidenceIsComplete` |
| `PreflightInvariance`, `RunInvariance` | `Spec => []IInv`, `Spec => [](IInv /\ RunInv)` |

Assumption: `CallsAssumption` of `PreflightRuns`. The refinement maps the ledger to
`record` and each caller's answer, when it is a verdict, to `heard`. `IInv`:

* `AdmissionsFit`: one admission is served at a time, and a reservation or an
  orphaning in the store's queue is the single one of that caller - the registry's
  chain of admissions is what makes "reserve, then create" one step to the others;
* `EndsFit`: a queued cancellation or timeout owns the verdict, and a durable one is
  the recorded verdict;
* `NothingBefore`: before the reservation there is no run, no owner and no worker;
* `VerdictsFit`: what `execute` returned and what the run settled with, if a verdict,
  is the recorded one - although the write of the verdict, the guard that claims it and
  the promise that is told of it are steps apart;
* `ToldFit`: nobody hears a verdict before its call is over.

The actions fall into two kinds: `RunStep`, in which nothing of the callers changes
(`RunSteps` shows this of each action), and `CallStep`, in which one call moves on
(`CallSteps`). Each kind keeps the invariant and simulates a step of
`SummaryReservation` once for all; a crash is the third case.

The other three properties need to know what the run is doing, which `RunInv` adds: which
workers can be busy at which stage (`StagesFit`, `WorkersFit`), that the store's queue
never holds two writes that exclude each other and holds none the run does not wait for
(`JobsFit`), that a requested end keeps the verdict it took (`OwnersFit`), that no run is
live while an admission is served (`ServedAlone`), that a close() waits for all
admissions that are left and then for the run (`ClosesFit`), and that no more children
are busy than the capacity allows.

### Questions

`QuestionDialogProofs`, for requests of one to six questions:

| theorem | states |
|---|---|
| `DialogIsFaithful` | `Spec => []DialogFollowsBroker` |
| `EveryAskHasItsAnswer` | `Spec => []EveryAskIsAnswered` |
| `LateRewritesAreDropped` | `Spec => []RewritesAreCurrent` |
| `OnlyWhatIsShownLeaves` | `Spec => OnlyShownIsSent` |
| `DialogInvariance`, `AnswerInvariance` | `Spec => []IInv`, `Spec => []AnswerInv` |

Assumptions: `RequestsAssumption` of `QuestionBroker` and `NoneAssumption` of
`QuestionDialog` (no form is the value that stands for "no form"). The argument:

* `settleAnswer` closes the dialog before it settles the broker, and the broker may
  refuse a result; the dialog would then be gone and the request still active.
  `FormIsLawful` shows that this cannot happen: what is picked, and what is typed,
  is at every step what `normalizeResult` accepts (`BuildResultFits`), so the
  settlement is taken and the next request is the one shown (`SettleKeeps`);
* `RewritesAreCurrent` says that every rewrite that still may return belongs to the
  generation and the request of the dialog. Each of the four ways to leave a dialog
  goes through `Abort`, after which none is alive (`AbortClears`);
* `InputIsShown`: between `simplify()` and its return the shown text cannot change,
  since `ShowOriginal` is disabled while the dialog is loading;
* `AnswerInv` adds that the requests that wait are the last of those asked, in the order
  of their calls (`LineFits`), so that a settlement answers the oldest, and that a closed
  broker has none (`BrokerFits`).

Of the steps, only `Send` moves a rewrite to "sent" (`UserSteps`, `OtherSteps`); with
the invariant before it this is `OnlyShownIsSent`.

### Setup

`SetupWizardProofs`:

| theorem | states |
|---|---|
| `UpdatesDoNotMix` | `Spec => RecordIsSerial`: what replaces setup.json is one update applied to what it said that moment |
| `SetupIsAllOrNothing` | `Spec => []WizardIsAllOrNothing`: a wizard that rolled back left nothing of its own in auth.json; one that setup.json names has its configuration and its credentials |
| `WritesStand` | `Spec => [][\A q \in Providers : WritesAreKept(q)]_vars`: a rename of auth.json takes nothing back that its own process wrote |
| `RecordInvariant` | `Spec => []IInv` |
| `SetupInvariant` | `Spec => []SetupInv` |

Assumptions: `ActorsAssumption` of `HomeProcesses`, `WritersAssumption` of
`CredentialVault`, `CallsAssumption` of `ChatGptCalls`, `UpdatersAssumption` of
`SetupRecord` and `WizardsAssumption` of `SetupWizard`. Beyond types they say that the
providers are finitely many, and that a wizard, its login, a provider instance and a
Blender setup are different actors: each has a place of its own in the code, and an
answer of `enqueueWrite` goes to the promise that asked for it.

*setup.json.* An update reads the file, computes, and only
then takes the lock, so its result is right only if the file is still what it
read; the comparison and the rename are steps apart. `IInv` says that what will be
written is the change applied to what was read (`Candidates`), that a live process
between taking and giving back the lock holds it (`Holders`), and that the file is then
still what was compared (`Fresh`); for a missing file `link()` decides instead. The last
two hold until the lock of a live process is taken for a stale one (`robbed`): three
processes are needed, two of which read the lock of the dead third before the faster one
takes its own. There the code does not exclude, and `RecordIsSerial` claims nothing.
`PlaceStep` covers the steps that change only the place of an update and the lock,
`IdleStep` its beginnings, `OthersStep` everything else the system does.

*auth.json.* `VaultInv` says of each process's queue that a writer has at most one write
in it and waits for it (`LineFits`), that only the first has read the file, and that what
it read is the file still, but for entries another process wrote last (`SeenFits`). The
rename writes back all it read, so this is what makes `WritesStand` true; the lemmas
`EnqueueKeeps` and those on the read, the rename, a failure and a death each show it for one
step of `auth-store.ts` and say what became of every queued write (`Awaits`, `Served`).

*The wizards.* `SetupInv` joins `IInv` and `VaultInv`, and knows of each wizard:

* `PendingFits`, `HandlerFits`: a queued write of a wizard is the credential it waits
  for, or puts back what its snapshot holds; one of its login is a token, and is under way only
  while the wizard logs in or the browser has left;
* `UpdateFits`: where its update of setup.json can be while it is at each of its places;
  the update is what separates a wizard that completed from one that rolls back;
* `ConfigFits`, `StagedFits`: from the save on, unless it rolls back, some configuration is
  saved, its own if it was the last to save, and every staged credential is there or was
  replaced by another actor, but for the moment of its own removal;
* `TraceFits`: of what a rollback has to put back, each entry is as the snapshot says, in the
  queue, still to be queued, last written by someone else, or by a callback of the wizard's
  login whose browser left;
* `NamesFit`: setup.json, and every content computed for it, names only wizards that came
  as far as recording. Together with `ConfigFits` and `StagedFits` this gives
  `CompletedIsBacked`: a name in the file is a wizard that is past its save.

`FrameFits` carries all of it over steps of others; `VaultStepFits`, `CallMoveFits`,
`RecordStepFits`, `FlowFits` and `CrashFits` are those steps, and each step of the
wizard itself has its lemma.

### Blender installer

`InstallTransactionProofs`, under `InstallAssumption`, for any installers, targets and
plans, any number of edits (one per target), failing operations and deaths:

| theorem | states |
|---|---|
| `InstalledOrRestored` | `AllOrNothing`: once no transaction is active each target the user left alone is as it was or as installed, or is a created directory removed in part that was reported as a conflict |
| `NothingSavedIsLost` | `MineIsKept`: what the user saved is at its path, in a backup or moved aside |
| `OneInstallerWorks` | `LockExcludes`: between taking and giving back the lock an installer is alone |
| `ConflictsHaveACause` | `ConflictsAreReal`: a conflict, or a refusal, only where the user saved, or a copy or a removal was cut off |
| `InstallInvariant` | `InstallInv` |

Each theorem states its property twice: `Spec => [](~overlapped => P)`, for installers that
follow one another, and `Spec /\ [][Careful]_vars => []P`, for installers that overlap in
any way but two. `overlapped` becomes true when an installer starts while another is alive.
`Careful` says that the lock renamed away as stale still is stale, and that a failed commit
takes its lock again only if it has it still or nobody overlapped. These are the two things
that the code does not exclude and that break these properties (section 3); apart from
them the installers may overlap, die and recover each other's transactions as they like.

`InstallInv` is about three things that only together tell what happened:

* the lock: `LockFits` (who works owns it; who is about to reclaim one still finds it stale,
  unless installers overlap) and `OneActive` (at most one transaction is active, and none
  beside a committed one);
* the journal: `OwnerFits` says whose transaction an installer is about, `JournalFits` that
  the journal names the state of each target that belongs to the step (`Going`), which
  is what a recovery will have to go by;
* the disk. `DiskFits` and `Between` say what a recovery may find of a target the user left
  alone, whenever the transaction stopped: first content, last content, or nothing, and then
  where the missing content is. `ForwardFits` and `UndoFits` say what the installation and a
  rollback know at each step, `StepFits` which kind of target it is. Because a rollback can be
  cut off and begun again, `Between` has to hold after each of its steps too; it is
  weaker than what any single step leaves, and strong enough for `Examine` to choose right.
  `Broken` is the one thing besides that a recovery may find, a created directory of
  which an earlier rollback removed a part (`Halved` says of which targets that can be): its
  place in the journal is one where `Examine` sees neither content and reports the
  conflict; to every later installer it is a directory that was there before (`Original`).

`MineSaved`, `MineAt` and `Kept` are the same for a target the user saved: where his content
is, and that no step removes the last copy unless it was saved in the `Window` between a
check and the operation that relies on it. `Own` says that nothing else writes it. One lemma
(`TouchFits`) carries the invariant over every step that changes one target only.

### Only model-checked

* All liveness: fairness and `ENABLED` are out of the prover's reach.
* `HistoryReplays` of `AgentRuns` without the hypothesis of `SessionsReplay`: finding 2
  refutes it. The run checks it as it stands, within bounds where that does not break it.
* `SentIsStored`, the second half of `CredentialsAreKept`: while a call has a token out,
  auth.json holds it or a newer one, unless another process wrote the entry last or a
  write that had read the file earlier brought an old one back (`Lost`). It is not a theorem for all constants: a call
  may send a token another process has just stored while an older renewal is still queued in
  its own process, which then replaces it; so may a wizard of the process that rolls back. The
  run checks it where these do not meet. The first half is `WritesStand`.
* That the loops the models write as recursive functions compute what they should for
  every input would need induction over data, which the installed provers cannot use.

## 6. Not modelled

`PROJECT.json` lists every part with its reason. In short: rendering, prompts,
schemas, provider requests, catalogs, path and permission security, and wiring
keep no state that interleaves. Within modelled parts: a wait for
several tasks at once (one task is modelled), listing of sessions, canonicalisation of write paths, plain
reads, ledger accounting, and the telemetry writes the runner starts and does not
await. `assets/blender-mcp` is third-party Python.

Within the questions: the highlight, refused drafts, layout, and the focus of the
session's own controls. Within the preflight: cost limits, two processes that
settle one reservation, the events inside an attempt. Within the installer:
migration of another flavour, pruning of journals, what is installed, and the age of a
lock: one that is older than 24 hours or from the future is taken for stale although its
owner lives, and the model has no clock.

Within setup: credentials from the environment, delegated logins of Google and Codex,
local and custom providers, auxiliary models (which are configured like the others), the
voice instructions in AGENTS.md, a second callback of one login, and the
configuration a running program writes back over one that a wizard saved.

The map covers a small share of the implementation: most of it is the terminal
interface, templates of the home directory, the setup dialogue, provider protocols
and the data of the installer, which keep nothing that two actors share over an await.

## 7. Plan

1. *Done*: task admission with its proofs, background tasks, the session store
   and ledger, agent runs with plan handoff, the preflight with its abstract
   specification and the proof that it implements it, the installer's transaction,
   the question dialog, the setup wizard with credentials and setup.json.
2. `McpConnections` (shared pending connections against close, connections that died
   but stay in the map); the mutation leases of the terminal interface; the
   configuration a running program writes back.
3. *Done*: proofs for every safety property of `TaskAdmission`, `BackgroundTasks`,
   `SessionStore` (one process), `PreflightRuns` and `QuestionDialog`; of
   `InstallTransaction` and `AgentRuns`, where the code promises them; for setup, but for
   `SentIsStored`.
4. Proof that is left: that the store refines an append-only log.

------------------------ MODULE PreflightRunsProofs ------------------------
(***************************************************************************)
(* PreflightRuns implements SummaryReservation, for any calls, schedulers, *)
(* research requests and limits, and any number of failing writes and      *)
(* crashes: the inductive invariant IInv, what each step does as far as    *)
(* the invariant is concerned, and the step simulation.  A second          *)
(* invariant, RunInv, says what the run itself may be doing; from both     *)
(* follow the other safety invariants of the preflight.                    *)
(***************************************************************************)
EXTENDS PreflightRuns, Queues, FiniteSetTheorems, TLAPS

-----------------------------------------------------------------------------
(* Queues *)

\* push adds the pushed entry and nothing else.
LEMMA AppendFacts ==
  ASSUME NEW S, NEW s \in Seq(S), NEW x \in S
  PROVE  /\ Append(s, x) \in Seq(S)
         /\ \A y : InSeq(Append(s, x), y) <=> InSeq(s, y) \/ y = x
         /\ Distinct(s) /\ ~InSeq(s, x) => Distinct(Append(s, x))
  <1> DEFINE a == Append(s, x)
  <1>1. /\ a \in Seq(S) /\ Len(a) = Len(s) + 1 /\ DOMAIN a = 1..Len(s) + 1
        /\ \A i \in DOMAIN s : i \in DOMAIN a /\ a[i] = s[i]
        /\ Len(s) + 1 \in DOMAIN a /\ a[Len(s) + 1] = x
        /\ \A i \in DOMAIN a : i \in DOMAIN s \/ i = Len(s) + 1
    OBVIOUS
  <1> HIDE DEF a
  <1> QED BY <1>1 DEF InSeq, Distinct, a

\* shift removes the first entry, and all of it when entries are distinct.
LEMMA TailFacts ==
  ASSUME NEW S, NEW s \in Seq(S), s # <<>>
  PROVE  /\ Tail(s) \in Seq(S)
         /\ InSeq(s, Head(s))
         /\ \A y : InSeq(Tail(s), y) => InSeq(s, y)
         /\ \A y : InSeq(s, y) /\ y # Head(s) => InSeq(Tail(s), y)
         /\ Distinct(s) => Distinct(Tail(s)) /\ ~InSeq(Tail(s), Head(s))
  <1> DEFINE a == Tail(s)
  <1>1. /\ a \in Seq(S) /\ 1 \in DOMAIN s /\ Head(s) = s[1]
        /\ \A i \in DOMAIN a : i + 1 \in DOMAIN s /\ a[i] = s[i + 1] /\ i + 1 # 1
        /\ \A i \in DOMAIN s : i # 1 => i - 1 \in DOMAIN a /\ a[i - 1] = s[i]
        /\ \A i, j \in DOMAIN a : i + 1 = j + 1 => i = j
    OBVIOUS
  <1> HIDE DEF a
  <1> QED BY <1>1 DEF InSeq, Distinct, a

-----------------------------------------------------------------------------
(* The inductive invariant *)

Kinds == {"reserve", "record"} \cup Verdicts
Jobs  == [kind : Kinds, of : Calls \cup Workers \cup {None}]

\* Jobs of an admission, and of a requested end.
Admissions == {"reserve", "orphaned"}
Ends == {"cancelled", "timeout"}

\* The call that the registry serves is at one of these steps.
Serving == {"reserving", "resolving", "orphaning"}

Waits(kind, c) == InSeq(queue, Job(kind, c))

OnceIn(s, y) == \A i, j \in DOMAIN s : s[i] = y /\ s[j] = y => i = j

TypesFit ==
  /\ ledger \in {"unreserved", "reserved"} \cup Verdicts
  /\ queue \in Seq(Jobs) /\ line \in Seq(Calls)
  /\ DOMAIN step = Calls /\ DOMAIN told = Calls
  /\ run \in Calls \cup {None}

\* One admission is served at a time, and a job of it is written for its caller.
AdmissionsFit ==
  \A c \in Calls :
    /\ step[c] \in Serving => line # <<>> /\ Head(line) = c
    /\ Waits("reserve", c) => step[c] = "reserving"
    /\ Waits("orphaned", c) => step[c] = "orphaning"
    /\ OnceIn(queue, Job("reserve", c)) /\ OnceIn(queue, Job("orphaned", c))

\* A requested end owns the verdict while it is written and once it is durable.
EndsFit ==
  /\ \A x \in Jobs : InSeq(queue, x) /\ x.kind \in Ends => authority = x.kind
  /\ request = "durable" => ledger = authority /\ authority \in Verdicts

\* Before the reservation there is no run.
NothingBefore ==
  ledger = "unreserved" =>
    /\ authority = "open" /\ run = None /\ exec # "children"
    /\ \A w \in Workers : at[w] = "none"

\* A verdict that the run settles with is the recorded one.
VerdictsFit ==
  /\ done \in Verdicts => ledger = done
  /\ result \in Verdicts => ledger = result

\* Whoever is not done was told of no verdict.
ToldFit == \A c \in Calls : step[c] # "done" => told[c] \notin Verdicts

IInv == TypesFit /\ AdmissionsFit /\ EndsFit /\ NothingBefore /\ VerdictsFit /\ ToldFit

-----------------------------------------------------------------------------
(* The queue of the store *)

\* An entry that is not in a queue yet is in it once after it is pushed.
LEMMA OncePushed ==
  ASSUME NEW S, NEW s \in Seq(S), NEW x \in S
  PROVE  \A y : OnceIn(s, y) /\ (y # x \/ ~InSeq(s, x)) => OnceIn(Append(s, x), y)
  <1> DEFINE a == Append(s, x)
  <1>1. /\ DOMAIN a = 1..Len(s) + 1 /\ a[Len(s) + 1] = x
        /\ \A i \in DOMAIN a : (i \in DOMAIN s /\ a[i] = s[i]) \/ i = Len(s) + 1
    OBVIOUS
  <1> HIDE DEF a
  <1> QED BY <1>1 DEF OnceIn, InSeq, a

\* What is in a queue once is gone when it was the first entry.
LEMMA OncePopped ==
  ASSUME NEW S, NEW s \in Seq(S), s # <<>>
  PROVE  /\ \A y : OnceIn(s, y) => OnceIn(Tail(s), y)
         /\ OnceIn(s, Head(s)) => ~InSeq(Tail(s), Head(s))
  <1> DEFINE a == Tail(s)
  <1>1. /\ 1 \in DOMAIN s /\ Head(s) = s[1]
        /\ \A i \in DOMAIN a : i + 1 \in DOMAIN s /\ a[i] = s[i + 1] /\ i + 1 # 1
        /\ \A i, j \in DOMAIN a : i + 1 = j + 1 => i = j
    OBVIOUS
  <1> HIDE DEF a
  <1> QED BY <1>1 DEF OnceIn, InSeq, a

\* A job of the run: no admission, and the end it stands for owns the verdict.
RunJob(x) == x \in Jobs /\ x.kind \notin Admissions /\ (x.kind \in Ends => authority' = x.kind)

\* How a step of the run changes the queue.
QueueStep ==
  \/ UNCHANGED queue
  \/ queue # <<>> /\ queue' = Tail(queue)
  \/ \E x : RunJob(x) /\ queue' = Append(queue, x)
  \/ \E x : RunJob(x) /\ queue # <<>> /\ queue' = Append(Tail(queue), x)

\* What such a step leaves of the jobs.
Calm ==
  /\ queue' \in Seq(Jobs)
  /\ \A y : InSeq(queue', y) => InSeq(queue, y) \/ RunJob(y)
  /\ \A y : y.kind \in Admissions /\ OnceIn(queue, y) => OnceIn(queue', y)

\* A step of the run adds no admission, and repeats none.
LEMMA QueueStepIsCalm == ASSUME queue \in Seq(Jobs), QueueStep PROVE Calm
  <1>1. CASE UNCHANGED queue  BY <1>1 DEF Calm
  <1>2. CASE queue # <<>> /\ queue' = Tail(queue)  BY <1>2, TailFacts, OncePopped DEF Calm
  <1>3. ASSUME NEW x, RunJob(x), queue' = Append(queue, x) PROVE Calm
    BY <1>3, AppendFacts, OncePushed DEF Calm, RunJob
  <1>4. ASSUME NEW x, RunJob(x), queue # <<>>, queue' = Append(Tail(queue), x) PROVE Calm
    <2>1. /\ Tail(queue) \in Seq(Jobs) /\ x \in Jobs
          /\ \A y : InSeq(Tail(queue), y) => InSeq(queue, y)
          /\ \A y : OnceIn(queue, y) => OnceIn(Tail(queue), y)
      BY <1>4, TailFacts, OncePopped DEF RunJob
    <2>2. /\ Append(Tail(queue), x) \in Seq(Jobs)
          /\ \A y : InSeq(Append(Tail(queue), x), y) <=> InSeq(Tail(queue), y) \/ y = x
          /\ \A y : OnceIn(Tail(queue), y) /\ y # x => OnceIn(Append(Tail(queue), x), y)
      BY <2>1, AppendFacts, OncePushed
    <2> QED BY <1>4, <2>1, <2>2 DEF Calm, RunJob
  <1> QED BY <1>1, <1>2, <1>3, <1>4 DEF QueueStep

-----------------------------------------------------------------------------
(* Steps of the run: nothing of the callers changes *)

\* The verdict is decided by whoever owned it, and its consequences follow.
VerdictStep ==
  /\ ledger' = ledger \/ (ledger = "reserved" /\ ledger' \in Verdicts)
  /\ authority' = authority \/ (authority = "open" /\ ledger # "unreserved")
  /\ request' = "durable" =>
       \/ request = "durable" /\ UNCHANGED <<ledger, authority>>
       \/ ledger' = authority' /\ authority' \in Verdicts
  /\ done' \in Verdicts => ledger' = done'
  /\ result' \in Verdicts => ledger' = result'

\* Before the reservation no worker begins.
WorkStep == ledger = "unreserved" => exec' # "children" /\ \A w \in Workers : at'[w] = "none"

RunStep == UNCHANGED <<line, step, told, run>> /\ QueueStep /\ VerdictStep /\ WorkStep

\* A step of the run preserves the invariant.
LEMMA RunStepKeeps == ASSUME IInv, RunStep PROVE IInv'
  <1> USE DEF RunStep
  <1>1. Calm  BY QueueStepIsCalm DEF IInv, TypesFit
  <1>2. TypesFit'  BY <1>1 DEF IInv, TypesFit, Calm, VerdictStep
  <1>3. AdmissionsFit'
    <2> SUFFICES ASSUME NEW c \in Calls
                 PROVE  /\ step[c] \in Serving => line # <<>> /\ Head(line) = c
                        /\ InSeq(queue', Job("reserve", c)) => step[c] = "reserving"
                        /\ InSeq(queue', Job("orphaned", c)) => step[c] = "orphaning"
                        /\ OnceIn(queue', Job("reserve", c)) /\ OnceIn(queue', Job("orphaned", c))
      BY DEF AdmissionsFit, Waits
    <2>1. Job("reserve", c).kind \in Admissions /\ Job("orphaned", c).kind \in Admissions
      BY DEF Job, Admissions
    <2> QED BY <1>1, <2>1 DEF IInv, AdmissionsFit, Waits, Calm, RunJob
  <1>4. EndsFit'
    <2>1. ASSUME NEW x \in Jobs, InSeq(queue', x), x.kind \in Ends PROVE authority' = x.kind
      BY <1>1, <2>1 DEF Calm, RunJob, IInv, EndsFit, VerdictStep, Ends
    <2> QED BY <2>1 DEF IInv, EndsFit, VerdictStep
  <1>5. NothingBefore'  BY DEF IInv, NothingBefore, VerdictStep, WorkStep, Verdicts
  <1>6. VerdictsFit'  BY DEF VerdictsFit, VerdictStep
  <1>7. ToldFit'  BY DEF IInv, ToldFit
  <1> QED BY <1>2, <1>3, <1>4, <1>5, <1>6, <1>7 DEF IInv

\* The jobs of the queue, and their parts.
LEMMA JobFacts ==
  \A kind \in Kinds, of \in Calls \cup Workers \cup {None} :
    Job(kind, of) \in Jobs /\ Job(kind, of).kind = kind /\ Job(kind, of).of = of
  BY DEF Job, Jobs

\* The job of a run or of a worker is one that QueueStep allows.
LEMMA RunJobs ==
  ASSUME IInv
  PROVE  /\ \A w \in Workers : RunJob(Job("record", w))
         /\ RunJob(Job("committed", run)) /\ RunJob(Job("failure", run))
         /\ \A kind \in Ends : authority' = kind => RunJob(Job(kind, run))
  <1>1. /\ {"record", "committed", "failure"} \cup Ends \subseteq Kinds
        /\ {"record", "committed", "failure"} \cap (Ends \cup Admissions) = {}
        /\ Ends \cap Admissions = {}
    BY DEF Kinds, Verdicts, Ends, Admissions
  <1>2. run \in Calls \cup {None}  BY DEF IInv, TypesFit
  <1> QED BY <1>1, <1>2, JobFacts DEF RunJob

\* A cancellation is asked for only while the run is live and nothing owns the verdict.
LEMMA RequestCancelRuns ==
  ASSUME IInv, RequestCancel, UNCHANGED <<ledger, line, step, told, run, work, outcome>>
  PROVE  RunStep
  <1>1. CASE Listening /\ authority = "open"
    <2>1. ledger # "unreserved"  BY <1>1 DEF Listening, Live, IInv, NothingBefore
    <2>2. QueueStep  BY <1>1, RunJobs DEF RequestCancel, QueueStep, Ends
    <2>3. VerdictStep  BY <1>1, <2>1 DEF RequestCancel, VerdictStep, IInv, VerdictsFit, outcome
    <2> QED BY <2>1, <2>2, <2>3 DEF RunStep, WorkStep
  <1>2. CASE ~(Listening /\ authority = "open")
    BY <1>2 DEF RequestCancel, RunStep, QueueStep, VerdictStep, WorkStep, IInv, NothingBefore,
                VerdictsFit, EndsFit, work, outcome
  <1> QED BY <1>1, <1>2

\* A step of a worker that only writes, waits or notices the time.
LEMMA WorkRuns ==
  ASSUME IInv, UNCHANGED <<ledger, line, step, told, run, outcome, control>>, QueueStep, WorkStep
  PROVE  RunStep
  BY DEF RunStep, VerdictStep, IInv, VerdictsFit, EndsFit, outcome, control

\* How the stages of the execution end: with the recorded end, with a failure
\* that asks for the verdict, with the write of a success, or with an error.
StageStep ==
  /\ UNCHANGED <<ledger, line, step, told, run, request>>
  /\ ledger # "unreserved"
  /\ \/ UNCHANGED <<authority, outcome>>
     \/ Stopped /\ UNCHANGED authority /\ EndExecution(authority)
     \/ authority # "open" /\ UNCHANGED authority /\ EndExecution("error")
     \/ authority = "open" /\ UNCHANGED <<result, done>>
     \/ UNCHANGED <<authority, result, done>>

\* However a stage of the execution ends, it is a step of the run.
LEMMA StageRuns == ASSUME IInv, StageStep, QueueStep PROVE RunStep
  <1>1. CASE UNCHANGED <<authority, result, done>>
    BY <1>1 DEF StageStep, RunStep, VerdictStep, WorkStep, IInv, VerdictsFit, EndsFit
  <1>2. CASE Stopped /\ UNCHANGED authority /\ EndExecution(authority)
    BY <1>2 DEF StageStep, RunStep, VerdictStep, WorkStep, IInv, VerdictsFit, EndsFit,
                Stopped, EndExecution, Settled, Verdicts
  <1>3. CASE authority # "open" /\ UNCHANGED authority /\ EndExecution("error")
    BY <1>3 DEF StageStep, RunStep, VerdictStep, WorkStep, IInv, VerdictsFit, EndsFit,
                EndExecution, Settled, Verdicts
  <1>4. CASE authority = "open" /\ UNCHANGED <<result, done>>
    BY <1>4 DEF StageStep, RunStep, VerdictStep, WorkStep, IInv, VerdictsFit, EndsFit, Verdicts
  <1> QED BY <1>1, <1>2, <1>3, <1>4 DEF StageStep, outcome

-----------------------------------------------------------------------------
(* The actions of the run *)

Rest(rest) == rest = queue \/ (queue # <<>> /\ rest = Tail(queue))

\* A stage that failed asks for the verdict of the run.
LEMMA FailOpenRuns ==
  ASSUME IInv, NEW rest, Rest(rest), FailOpen(rest),
         UNCHANGED <<ledger, line, step, told, run, request>>, ledger # "unreserved"
  PROVE  RunStep
  <1>1. QueueStep  BY RunJobs DEF Rest, FailOpen, EndExecution, QueueStep
  <1>2. StageStep  BY DEF FailOpen, StageStep
  <1> QED BY <1>1, <1>2, StageRuns

\* A stage that came back under the recorded end returns it.
LEMMA ReturnRuns ==
  ASSUME IInv, NEW rest, Rest(rest), Stopped, Return(rest),
         UNCHANGED <<ledger, line, step, told, run, request>>, ledger # "unreserved"
  PROVE  RunStep
  <1>1. QueueStep  BY DEF Rest, Return, QueueStep
  <1>2. StageStep  BY DEF Return, StageStep
  <1> QED BY <1>1, <1>2, StageRuns

\* What follows when the executor of a worker has returned.
LEMMA ReturnsRuns ==
  ASSUME IInv, NEW w \in Workers, NEW res, NEW rest, Rest(rest), Returns(w, res, rest),
         UNCHANGED <<ledger, line, step, told, run, request>>, ledger # "unreserved"
  PROVE  RunStep
  <1>1. CASE w \in Children
    <2>1. QueueStep  BY <1>1 DEF Returns, ChildReturns, Rest, QueueStep
    <2>2. StageStep  BY <1>1 DEF Returns, ChildReturns, StageStep
    <2> QED BY <2>1, <2>2, StageRuns
  <1>2. CASE w \notin Children
    <2>1. StageReturns(w, res, rest)  BY <1>2 DEF Returns
    <2>2. CASE Stopped  BY <2>1, <2>2, ReturnRuns DEF StageReturns
    <2>3. CASE ~Stopped /\ FailOpen(rest)  BY <2>3, FailOpenRuns
    <2>4. CASE ~Stopped /\ Commit(rest)
      <3>1. QueueStep  BY <2>4, RunJobs DEF Commit, Rest, QueueStep
      <3>2. StageStep  BY <2>4 DEF Commit, StageStep
      <3> QED BY <3>1, <3>2, StageRuns
    <2>5. ASSUME NEW n, ~Stopped, Research(n, rest) PROVE RunStep
      <3>1. QueueStep  BY <2>5 DEF Research, Rest, QueueStep
      <3>2. StageStep  BY <2>5 DEF Research, StageStep
      <3> QED BY <3>1, <3>2, StageRuns
    <2> QED BY <2>1, <2>2, <2>3, <2>4, <2>5 DEF StageReturns
  <1> QED BY <1>1, <1>2

\* A busy worker belongs to a reservation that was made.
LEMMA BusyIsReserved ==
  ASSUME IInv, NEW w \in Workers, at[w] \in {"working", "recording", "ending"}
  PROVE  ledger # "unreserved"
  BY DEF IInv, NothingBefore

\* The write of an attempt is a step of the run.
LEMMA RecordRuns ==
  ASSUME IInv, NEW w \in Workers, at[w] = "working", NEW as, Record(w, as)
  PROVE  RunStep
  <1>1. QueueStep  BY RunJobs DEF Record, QueueStep
  <1>2. StageStep  BY BusyIsReserved DEF Record, StageStep, Unwritten, callers, control, outcome
  <1> QED BY <1>1, <1>2, StageRuns

\* A worker that is interrupted records its attempt or returns.
LEMMA InterruptRuns == ASSUME IInv, NEW w \in Workers, Interrupt(w) PROVE RunStep
  <1>1. at[w] = "working"  BY DEF Interrupt
  <1>2. CASE Record(w, "ending")  BY <1>1, <1>2, RecordRuns
  <1>3. CASE Returns(w, "failed", queue) /\ Unwritten /\ UNCHANGED <<callers, run, request>>
    BY <1>1, <1>3, ReturnsRuns, BusyIsReserved DEF Rest, Unwritten, callers
  <1> QED BY <1>2, <1>3 DEF Interrupt

\* A worker whose attempt is recorded goes on or returns.
LEMMA RecordEndsRuns == ASSUME IInv, NEW w \in Workers, RecordEnds(w) PROVE RunStep
  <1>1. /\ queue # <<>> /\ UNCHANGED <<ledger, line, step, told, run, request>>
        /\ at[w] \in {"recording", "ending"}
    BY DEF RecordEnds, Owner, Unwritten, callers
  <1>2. ledger # "unreserved"  BY <1>1, BusyIsReserved
  <1>3. ASSUME NEW res, Returns(w, res, Tail(queue)) PROVE RunStep
    BY <1>1, <1>2, <1>3, ReturnsRuns DEF Rest
  <1>4. CASE queue' = Tail(queue) /\ UNCHANGED <<outcome, authority>>
    BY <1>1, <1>2, <1>4, StageRuns DEF StageStep, QueueStep
  <1> QED BY <1>3, <1>4 DEF RecordEnds

\* The end of the research is a step of the run.
LEMMA GatherRuns == ASSUME IInv, Gather PROVE RunStep
  <1>1. UNCHANGED <<ledger, line, step, told, run, request>> /\ exec = "children"
    BY DEF Gather, Unwritten, callers
  <1>2. ledger # "unreserved"  BY <1>1 DEF IInv, NothingBefore
  <1>3. CASE Stopped /\ Return(queue)  BY <1>1, <1>2, <1>3, ReturnRuns DEF Rest
  <1>4. CASE FailOpen(queue)  BY <1>1, <1>2, <1>4, FailOpenRuns DEF Rest
  <1>5. CASE UNCHANGED <<queue, result, done, authority>>
    BY <1>1, <1>2, <1>5, StageRuns DEF StageStep, QueueStep
  <1> QED BY <1>3, <1>4, <1>5 DEF Gather

\* A child that starts, or whose deadline passes, decides nothing.
LEMMA ChildRuns == ASSUME IInv, NEW i \in Children, TakeChild(i) \/ ChildExpires(i) PROVE RunStep
  <1>1. UNCHANGED <<ledger, line, step, told, run, outcome, control, queue>>
    BY DEF TakeChild, ChildExpires, Unwritten, callers
  <1>2. WorkStep  BY DEF TakeChild, ChildExpires, WorkStep, IInv, NothingBefore, outcome
  <1> QED BY <1>1, <1>2, WorkRuns DEF QueueStep

\* A job whose write lands moves the ledger on, and what it decides stays.
LEMMA LandsFacts ==
  ASSUME NEW job, Lands(job), job.kind # "reserve"
  PROVE  ledger = "reserved" /\ ledger' = job.kind /\ ledger' \in Verdicts
  BY DEF Lands, Accepted

\* What the done promise of a run settles with, when its execution returns.
LEMMA EndFacts ==
  ASSUME NEW res, EndExecution(res)
  PROVE  /\ result' = res
         /\ done' \in {"none", res} \/ (request = "durable" /\ done' = authority)
  <1>1. CASE request = "writing"  BY <1>1 DEF EndExecution, Settled
  <1>2. CASE request = "durable"  BY <1>2 DEF EndExecution, Settled
  <1>3. CASE request \notin {"writing", "durable"}  BY <1>3 DEF EndExecution, Settled
  <1> QED BY <1>1, <1>2, <1>3

\* The verdict that the execution writes is the one the run settles with.
LEMMA VerdictEndsRuns ==
  ASSUME IInv, NEW kind \in {"committed", "failure"}, VerdictEnds(kind)
  PROVE  RunStep
  <1> DEFINE job == Head(queue)
  <1>1. /\ job = Job(kind, run) /\ job.kind = kind /\ kind \in Verdicts /\ kind # "reserve"
        /\ UNCHANGED <<line, step, told, run, request>> /\ QueueStep
    BY DEF VerdictEnds, Owner, callers, QueueStep, Job, Verdicts
  <1>2. WorkStep  BY DEF VerdictEnds, WorkStep, IInv, NothingBefore, EndExecution, work
  <1> SUFFICES VerdictStep  BY <1>1, <1>2 DEF RunStep
  <1>3. ledger = "reserved" => request # "durable"
    BY DEF IInv, EndsFit, Verdicts
  <1>4. CASE Unwritten /\ UNCHANGED authority /\ EndExecution("error")
    <2>1. result' = "error" /\ (done' \in {"none", "error"} \/ (request = "durable" /\ done' = authority))
      BY <1>4, EndFacts
    <2>2. ledger' = ledger /\ authority' = authority /\ request' = request
      BY <1>1, <1>4 DEF Unwritten
    <2> QED BY <2>1, <2>2 DEF VerdictStep, IInv, EndsFit, VerdictsFit, Verdicts
  <1>5. CASE /\ Accepted(job) /\ authority' = IF kind = "committed" THEN "claimed" ELSE authority
             /\ \/ Lands(job) /\ EndExecution(kind)
                \/ (Unwritten \/ Lands(job)) /\ EndExecution("error")
    <2>1. /\ ledger = "reserved" /\ (kind = "committed" => authority = "open")
          /\ ledger' = ledger \/ (ledger' = kind /\ Lands(job))
      BY <1>1, <1>5, LandsFacts DEF Accepted, Claims, Unwritten
    <2>2. request' # "durable"  BY <2>1, <1>1, <1>3
    <2>3. \/ done' \notin Verdicts /\ result' \notin Verdicts
          \/ ledger' = kind /\ result' = kind /\ (done' = kind \/ done' \notin Verdicts)
      BY <1>1, <1>5, <1>3, <2>1, LandsFacts, EndFacts DEF Verdicts
    <2> QED BY <1>1, <1>5, <2>1, <2>2, <2>3 DEF VerdictStep
  <1>6. \/ Unwritten /\ UNCHANGED authority /\ EndExecution("error")
        \/ /\ Accepted(job) /\ authority' = IF kind = "committed" THEN "claimed" ELSE authority
           /\ \/ Lands(job) /\ EndExecution(kind)
              \/ (Unwritten \/ Lands(job)) /\ EndExecution("error")
    BY Zenon DEF VerdictEnds, Rejected
  <1> QED BY <1>4, <1>5, <1>6

\* A requested end becomes the verdict when its write lands, and only then.
LEMMA RequestEndsRuns == ASSUME IInv, NEW kind \in Ends, RequestEnds(kind) PROVE RunStep
  <1> DEFINE job == Head(queue)
  <1>1. /\ job = Job(kind, run) /\ job.kind = kind /\ kind \in Verdicts /\ kind # "reserve"
        /\ UNCHANGED <<line, step, told, run, authority>> /\ QueueStep
    BY DEF RequestEnds, Owner, callers, QueueStep, Job, Verdicts, Ends
  <1>2. authority = kind
    <2>1. InSeq(queue, job)  BY TailFacts DEF RequestEnds, Owner, IInv, TypesFit
    <2>2. Job(kind, run) \in Jobs  BY JobFacts DEF IInv, TypesFit, Kinds, Verdicts, Ends
    <2> QED BY <1>1, <2>1, <2>2 DEF IInv, EndsFit
  <1>3. WorkStep
    BY DEF RequestEnds, WorkStep, IInv, NothingBefore, work, outcome
  <1>4. \/ Lands(job) /\ request' \in {request, "durable"} /\ done' \in {done, kind} /\ UNCHANGED result
        \/ /\ Unwritten \/ Lands(job)
           /\ request' \in {request, "failed"} /\ done' \in {done, result, "error"} /\ UNCHANGED result
    BY <1>1 DEF RequestEnds, Errs, outcome
  <1>5. Lands(job) => ledger = "reserved" /\ ledger' = kind
    BY <1>1, LandsFacts
  <1>6. ledger = "reserved" => request # "durable" /\ done \notin Verdicts /\ result \notin Verdicts
    BY DEF IInv, EndsFit, VerdictsFit, Verdicts
  <1>7. VerdictStep
    <2>1. CASE Lands(job)  BY <1>1, <1>2, <1>4, <1>5, <1>6, <2>1 DEF VerdictStep, Verdicts
    <2>2. CASE Unwritten /\ ~Lands(job)
      BY <1>1, <1>4, <2>2 DEF VerdictStep, Unwritten, IInv, EndsFit, VerdictsFit, Verdicts
    <2> QED BY <1>4, <2>1, <2>2
  <1> QED BY <1>1, <1>3, <1>7 DEF RunStep

\* The deadline asks for a verdict that nobody owns.
LEMMA TimeoutRuns == ASSUME IInv, Timeout PROVE RunStep
  <1>1. /\ authority = "open" /\ authority' = "timeout" /\ request' = "writing"
        /\ queue' = Append(queue, Job("timeout", run)) /\ run # None
        /\ UNCHANGED <<ledger, line, step, told, run, work, outcome>>
    BY DEF Timeout, Unwritten, callers, Listening, Live
  <1>2. ledger # "unreserved"  BY <1>1 DEF IInv, NothingBefore
  <1>3. QueueStep  BY <1>1, RunJobs DEF QueueStep, Ends
  <1>4. VerdictStep  BY <1>1, <1>2 DEF VerdictStep, IInv, VerdictsFit, outcome
  <1> QED BY <1>1, <1>2, <1>3, <1>4 DEF RunStep, WorkStep

\* A signal or a close() asks for a cancellation, or changes nothing of the run.
LEMMA StopRuns ==
  ASSUME IInv,
         \/ \E c \in Calls : Abort(c)
         \/ \E s \in Schedulers : Close(s) \/ CloseRuns(s) \/ Closed(s)
         \/ PassBoundary
  PROVE  RunStep
  <1>1. /\ UNCHANGED <<ledger, line, step, told, run, outcome, at>>
        /\ RequestCancel \/ UNCHANGED <<authority, request, queue>>
    BY DEF Abort, Close, CloseRuns, Closed, CloseCancels, PassBoundary, Unwritten, callers, work, control
  <1>2. CASE UNCHANGED <<authority, request, queue>>
    <2>1. WorkStep  BY <1>1 DEF WorkStep, IInv, NothingBefore, outcome
    <2> QED BY <1>1, <1>2, <2>1, WorkRuns DEF QueueStep, control
  <1>3. CASE RequestCancel /\ UNCHANGED work
    BY <1>1, <1>3, RequestCancelRuns
  <1>4. UNCHANGED work \/ UNCHANGED <<authority, request, queue>>
    BY DEF Abort, Close, CloseRuns, Closed, PassBoundary, control
  <1> QED BY <1>1, <1>2, <1>3, <1>4

\* The turn after the preflight changes nothing of the run.
LEMMA DispatchRuns == ASSUME IInv, NEW c \in Calls, Dispatch(c) PROVE RunStep
  <1>1. UNCHANGED <<ledger, line, step, told, run, queue, at, outcome, control>>
    BY DEF Dispatch, Unwritten, work
  <1>2. WorkStep  BY <1>1 DEF WorkStep, IInv, NothingBefore, outcome
  <1> QED BY <1>1, <1>2, WorkRuns DEF QueueStep

\* Every step of the event loop, a provider or a user that is not about a call
\* is a step of the run.
LEMMA RunSteps ==
  ASSUME IInv,
         \/ VerdictEnds("committed") \/ VerdictEnds("failure")
         \/ RequestEnds("cancelled") \/ RequestEnds("timeout")
         \/ PassBoundary \/ Timeout \/ Gather
         \/ \E w \in Workers : Interrupt(w) \/ RecordEnds(w) \/ Answers(w) \/ ProviderFails(w)
         \/ \E i \in Children : TakeChild(i) \/ ChildExpires(i)
         \/ \E c \in Calls : Abort(c) \/ Dispatch(c)
         \/ \E s \in Schedulers : Close(s) \/ CloseRuns(s) \/ Closed(s)
  PROVE  RunStep
  BY VerdictEndsRuns, RequestEndsRuns, TimeoutRuns, StopRuns, GatherRuns, InterruptRuns,
     RecordEndsRuns, RecordRuns, ChildRuns, DispatchRuns DEF Answers, ProviderFails, Ends

-----------------------------------------------------------------------------
(* Steps of a call *)

\* Where the call stands whose job of that kind is in the queue.
Place(kind) == IF kind = "reserve" THEN "reserving" ELSE "orphaning"

\* A call without a job leaves the queue alone or adds its job; the job of a
\* call leaves the queue, and a job of its new run may follow.
CallQueue(c, place) ==
  \/ step[c] \notin {"reserving", "orphaning"} /\ UNCHANGED queue
  \/ /\ step[c] \notin {"reserving", "orphaning"}
     /\ \E kind \in Admissions : place = Place(kind) /\ queue' = Append(queue, Job(kind, c))
  \/ /\ \E kind \in Admissions : Owner(Job(kind, c))
     /\ \/ queue' = Tail(queue)
        \/ \E x : RunJob(x) /\ queue' = Append(Tail(queue), x)

\* The first of the line is served, and leaves it when it is not served any more.
CallLine(c, place) ==
  \/ UNCHANGED line /\ (place \in Serving => line # <<>> /\ Head(line) = c)
  \/ line # <<>> /\ Head(line) = c /\ line' = Tail(line) /\ place \notin Serving
  \/ line' = Append(line, c) /\ place \notin Serving

\* A call may be what makes the reservation, or what ends it as orphaned.
CallVerdict ==
  /\ UNCHANGED <<request, result, done>> /\ run' \in Calls \cup {None}
  /\ \/ UNCHANGED <<ledger, authority, run, exec, at>>
     \/ ledger = "reserved" /\ ledger' \in Verdicts /\ UNCHANGED authority
     \/ ledger = "unreserved" /\ ledger' = "reserved"

\* A call moves on, and a verdict that its caller is told is the recorded one.
CallStep(c, place, answer) ==
  /\ step[c] # "done" /\ step' = [step EXCEPT ![c] = place]
  /\ \/ place # "done" /\ UNCHANGED told
     \/ /\ place = "done" /\ told' = [told EXCEPT ![c] = answer]
        /\ answer \in Verdicts => ledger' = answer
  /\ CallLine(c, place) /\ CallQueue(c, place) /\ CallVerdict

\* A call that has a job in the queue is at the step of that job.
LEMMA WaitingFacts ==
  ASSUME IInv, NEW c \in Calls, NEW kind \in Admissions
  PROVE  /\ Job(kind, c) \in Jobs /\ Job(kind, c).kind = kind
         /\ InSeq(queue, Job(kind, c)) => step[c] = Place(kind)
         /\ OnceIn(queue, Job(kind, c))
         /\ Owner(Job(kind, c)) => InSeq(queue, Job(kind, c))
  <1>1. kind \in Kinds  BY DEF Admissions, Kinds, Verdicts
  <1>2. /\ InSeq(queue, Job(kind, c)) => step[c] = Place(kind)
        /\ OnceIn(queue, Job(kind, c))
    BY DEF IInv, AdmissionsFit, Waits, Place, Admissions
  <1> QED BY <1>1, <1>2, JobFacts, TailFacts DEF Owner, IInv, TypesFit

\* Jobs of different calls or kinds are different.
LEMMA JobsDiffer ==
  ASSUME NEW c \in Calls, NEW d \in Calls, NEW k, NEW l, Job(k, c) = Job(l, d)
  PROVE  c = d /\ k = l
  BY DEF Job

\* What a step of a call leaves of the jobs.
CallCalm(c, place) ==
  /\ queue' \in Seq(Jobs)
  /\ \A y : InSeq(queue', y) =>
       InSeq(queue, y) \/ RunJob(y) \/ \E kind \in Admissions : y = Job(kind, c)
  /\ \A d \in Calls, kind \in Admissions : OnceIn(queue', Job(kind, d))
  /\ \A kind \in Admissions : InSeq(queue', Job(kind, c)) => place = Place(kind)

\* A step of a call adds no job but its own, and repeats none.
LEMMA CallIsCalm ==
  ASSUME IInv, NEW c \in Calls, NEW place, CallQueue(c, place)
  PROVE  CallCalm(c, place)
  <1>1. queue \in Seq(Jobs)  BY DEF IInv, TypesFit
  <1>2. \A d \in Calls, k \in Admissions : OnceIn(queue, Job(k, d))
    BY WaitingFacts
  <1>3. CASE step[c] \notin {"reserving", "orphaning"} /\ UNCHANGED queue
    BY <1>1, <1>2, <1>3, WaitingFacts DEF Place, CallCalm
  <1>4. ASSUME NEW kind \in Admissions, step[c] \notin {"reserving", "orphaning"},
               place = Place(kind), queue' = Append(queue, Job(kind, c))
        PROVE  CallCalm(c, place)
    <2>1. Job(kind, c) \in Jobs /\ \A k \in Admissions : ~InSeq(queue, Job(k, c))
      BY <1>4, WaitingFacts DEF Place
    <2>2. queue' \in Seq(Jobs) /\ \A y : InSeq(queue', y) <=> InSeq(queue, y) \/ y = Job(kind, c)
      BY <1>1, <1>4, <2>1, AppendFacts
    <2>3. \A d \in Calls, k \in Admissions : OnceIn(queue', Job(k, d))
      BY <1>1, <1>2, <1>4, <2>1, OncePushed
    <2>4. \A k \in Admissions : InSeq(queue', Job(k, c)) => place = Place(k)
      BY <1>4, <2>1, <2>2, JobsDiffer
    <2> QED BY <2>2, <2>3, <2>4 DEF CallCalm
  <1>5. ASSUME NEW kind \in Admissions, Owner(Job(kind, c)),
               \/ queue' = Tail(queue)
               \/ \E x : RunJob(x) /\ queue' = Append(Tail(queue), x)
        PROVE  CallCalm(c, place)
    <2>1. queue # <<>> /\ Head(queue) = Job(kind, c) /\ step[c] = Place(kind)
      BY <1>5, WaitingFacts DEF Owner
    <2> DEFINE t == Tail(queue)
    <2>2. /\ t \in Seq(Jobs) /\ \A y : InSeq(t, y) => InSeq(queue, y)
          /\ \A y : OnceIn(queue, y) => OnceIn(t, y)
      BY <1>1, <2>1, TailFacts, OncePopped
    <2>3. ~InSeq(t, Job(kind, c))
      BY <1>1, <1>2, <2>1, OncePopped
    <2>4. \A k \in Admissions : ~InSeq(t, Job(k, c))
      <3> SUFFICES ASSUME NEW k \in Admissions, InSeq(t, Job(k, c)) PROVE FALSE
        OBVIOUS
      <3>1. Place(k) = Place(kind)  BY <2>1, <2>2, WaitingFacts
      <3>2. k = kind  BY <3>1 DEF Place, Admissions
      <3> QED BY <2>3, <3>2
    <2>5. \A d \in Calls, k \in Admissions : OnceIn(t, Job(k, d))
      BY <1>2, <2>2
    <2>6. CASE queue' = t
      BY <2>2, <2>4, <2>5, <2>6 DEF CallCalm
    <2>7. ASSUME NEW x, RunJob(x), queue' = Append(t, x) PROVE CallCalm(c, place)
      <3>1. x \in Jobs /\ x.kind \notin Admissions  BY <2>7 DEF RunJob
      <3>2. queue' \in Seq(Jobs) /\ \A y : InSeq(queue', y) <=> InSeq(t, y) \/ y = x
        BY <2>2, <2>7, <3>1, AppendFacts
      <3>3. \A d \in Calls, k \in Admissions : Job(k, d) # x
        BY <3>1 DEF Job
      <3>4. \A d \in Calls, k \in Admissions : OnceIn(queue', Job(k, d))
        BY <2>2, <2>5, <2>7, <3>1, <3>3, OncePushed
      <3> QED BY <2>2, <2>4, <2>7, <3>2, <3>3, <3>4 DEF CallCalm
    <2> QED BY <1>5, <2>6, <2>7
  <1> QED BY <1>3, <1>4, <1>5 DEF CallQueue

\* A step of a call preserves the invariant.
LEMMA CallStepKeeps ==
  ASSUME IInv, NEW c \in Calls, NEW place, NEW answer, CallStep(c, place, answer)
  PROVE  IInv'
  <1>1. CallCalm(c, place)  BY CallIsCalm DEF CallStep
  <1>2. /\ step' = [step EXCEPT ![c] = place] /\ DOMAIN step' = Calls
        /\ \A d \in Calls : d # c => step'[d] = step[d]
        /\ step'[c] = place
    BY DEF CallStep, IInv, TypesFit
  <1>3. TypesFit'
    <2>1. line' \in Seq(Calls)
      <3>1. line \in Seq(Calls)  BY DEF IInv, TypesFit
      <3>2. Append(line, c) \in Seq(Calls) /\ (line # <<>> => Tail(line) \in Seq(Calls))
        BY <3>1, TailFacts
      <3> QED BY <3>1, <3>2 DEF CallStep, CallLine
    <2>2. DOMAIN told' = Calls  BY DEF CallStep, IInv, TypesFit
    <2>3. ledger' \in {"unreserved", "reserved"} \cup Verdicts /\ run' \in Calls \cup {None}
      BY DEF CallStep, CallVerdict, IInv, TypesFit
    <2> QED BY <1>1, <1>2, <2>1, <2>2, <2>3 DEF TypesFit, CallCalm
  <1>4. AdmissionsFit'
    <2> SUFFICES ASSUME NEW d \in Calls
                 PROVE  /\ step'[d] \in Serving => line' # <<>> /\ Head(line') = d
                        /\ InSeq(queue', Job("reserve", d)) => step'[d] = "reserving"
                        /\ InSeq(queue', Job("orphaned", d)) => step'[d] = "orphaning"
                        /\ OnceIn(queue', Job("reserve", d)) /\ OnceIn(queue', Job("orphaned", d))
      BY DEF AdmissionsFit, Waits
    <2>1. ASSUME step'[d] \in Serving PROVE line' # <<>> /\ Head(line') = d
      <3>1. line \in Seq(Calls)  BY DEF IInv, TypesFit
      <3>2. /\ Append(line, c) # <<>>
            /\ line # <<>> => Head(Append(line, c)) = Head(line)
        <4> DEFINE longer == Append(line, c)
        <4>1. longer \in Seq(Calls) /\ Len(longer) = Len(line) + 1 /\ Len(line) \in Nat
          BY <3>1
        <4>2. line # <<>> => 1 \in DOMAIN line /\ longer[1] = line[1] /\ Head(line) = line[1]
          BY <3>1
        <4>3. longer # <<>>  BY <4>1
        <4> QED BY <4>1, <4>2, <4>3
      <3>3. CASE d = c
        BY <1>2, <2>1, <3>3 DEF CallStep, CallLine
      <3>4. CASE d # c
        <4>1. line # <<>> /\ Head(line) = d
          BY <1>2, <2>1, <3>4 DEF IInv, AdmissionsFit
        <4> QED BY <3>2, <3>4, <4>1 DEF CallStep, CallLine
      <3> QED BY <3>3, <3>4
    <2>2. {"reserve", "orphaned"} = Admissions  BY DEF Admissions
    <2>3. OnceIn(queue', Job("reserve", d)) /\ OnceIn(queue', Job("orphaned", d))
      BY <1>1, <2>2 DEF CallCalm
    <2>4. \A kind \in Admissions : InSeq(queue', Job(kind, d)) => step'[d] = Place(kind)
      <3>1. CASE d = c  BY <1>1, <1>2, <3>1 DEF CallCalm
      <3>2. CASE d # c
        <4> SUFFICES ASSUME NEW kind \in Admissions, InSeq(queue', Job(kind, d))
                     PROVE  InSeq(queue, Job(kind, d))
          BY <1>2, <3>2, WaitingFacts
        <4>1. ~RunJob(Job(kind, d))  BY DEF RunJob, Job
        <4>2. \A k \in Admissions : Job(kind, d) # Job(k, c)  BY <3>2, JobsDiffer
        <4> QED BY <1>1, <4>1, <4>2 DEF CallCalm
      <3> QED BY <3>1, <3>2
    <2>5. Place("reserve") = "reserving" /\ Place("orphaned") = "orphaning"  BY DEF Place
    <2> QED BY <2>1, <2>2, <2>3, <2>4, <2>5
  <1>5. EndsFit'
    <2>1. ASSUME NEW x \in Jobs, InSeq(queue', x), x.kind \in Ends PROVE authority' = x.kind
      <3>1. InSeq(queue, x) \/ RunJob(x)
        BY <1>1, <2>1 DEF CallCalm, Job, Admissions, Ends
      <3>2. CASE RunJob(x)  BY <2>1, <3>2 DEF RunJob
      <3>3. CASE InSeq(queue, x)
        BY <2>1, <3>3 DEF CallStep, CallVerdict, IInv, EndsFit, NothingBefore, Ends
      <3> QED BY <3>1, <3>2, <3>3
    <2>2. request' = "durable" => ledger' = authority' /\ authority' \in Verdicts
      BY DEF CallStep, CallVerdict, IInv, EndsFit, Verdicts
    <2> QED BY <2>1, <2>2 DEF EndsFit
  <1>6. NothingBefore'
    BY DEF CallStep, CallVerdict, IInv, NothingBefore, Verdicts
  <1>7. VerdictsFit'
    BY DEF CallStep, CallVerdict, IInv, VerdictsFit, Verdicts
  <1>8. ToldFit'
    BY <1>2 DEF CallStep, IInv, ToldFit, TypesFit
  <1> QED BY <1>3, <1>4, <1>5, <1>6, <1>7, <1>8 DEF IInv

-----------------------------------------------------------------------------
(* The actions of a call *)

\* A call that enters the gate is answered or joins the line.
LEMMA AskSteps == ASSUME IInv, NEW c \in Calls, Ask(c) PROVE \E p, a : CallStep(c, p, a)
  <1>1. /\ step[c] = "idle" /\ UNCHANGED queue /\ CallVerdict
    BY DEF Ask, CallVerdict, IInv, TypesFit, outcome, control, work
  <1>2. CASE Reply(c, "skipped") /\ UNCHANGED line
    <2>1. CallStep(c, "done", "skipped")
      BY <1>1, <1>2 DEF CallStep, CallLine, CallQueue, Reply, Serving, Verdicts
    <2> QED BY <2>1
  <1>3. CASE Reply(c, "closed") /\ UNCHANGED line
    <2>1. CallStep(c, "done", "closed")
      BY <1>1, <1>3 DEF CallStep, CallLine, CallQueue, Reply, Serving, Verdicts
    <2> QED BY <2>1
  <1>4. CASE line' = Append(line, c) /\ step' = [step EXCEPT ![c] = "waiting"] /\ UNCHANGED told
    <2>1. CallStep(c, "waiting", "none")
      BY <1>1, <1>4 DEF CallStep, CallLine, CallQueue, Serving
    <2> QED BY <2>1
  <1> QED BY <1>2, <1>3, <1>4 DEF Ask

\* The first of the line follows a run, is turned away, or reserves.
LEMMA AdmitSteps == ASSUME IInv, NEW c \in Calls, Admit(c) PROVE \E p, a : CallStep(c, p, a)
  <1>1. /\ step[c] = "waiting" /\ line # <<>> /\ Head(line) = c /\ CallVerdict
    BY DEF Admit, CallVerdict, IInv, TypesFit, outcome, control, work
  <1>2. CASE step' = [step EXCEPT ![c] = "following"] /\ line' = Tail(line) /\ UNCHANGED <<told, queue>>
    <2>1. CallStep(c, "following", "none")
      BY <1>1, <1>2 DEF CallStep, CallLine, CallQueue, Serving
    <2> QED BY <2>1
  <1>3. CASE Reply(c, "owned") /\ line' = Tail(line) /\ UNCHANGED queue
    <2>1. CallStep(c, "done", "owned")
      BY <1>1, <1>3 DEF CallStep, CallLine, CallQueue, Reply, Serving, Verdicts
    <2> QED BY <2>1
  <1>4. CASE /\ step' = [step EXCEPT ![c] = "reserving"]
             /\ queue' = Append(queue, Job("reserve", c)) /\ UNCHANGED <<line, told>>
    <2>1. "reserve" \in Admissions /\ Place("reserve") = "reserving"  BY DEF Admissions, Place
    <2>2. CallStep(c, "reserving", "none")
      BY <1>1, <1>4, <2>1 DEF CallStep, CallLine, CallQueue, Serving
    <2> QED BY <2>2
  <1> QED BY <1>2, <1>3, <1>4 DEF Admit

\* An admission that creates no run is a step of its call.
LEMMA TurnedAwaySteps ==
  ASSUME IInv, NEW c \in Calls, NEW answer, TurnedAway(c, answer), step[c] \in Serving,
         \/ step[c] = "resolving" /\ UNCHANGED queue
         \/ queue' = Tail(queue) /\ \E kind \in Admissions : Owner(Job(kind, c)),
         UNCHANGED ledger \/ (ledger = "reserved" /\ ledger' \in Verdicts)
           \/ (ledger = "unreserved" /\ ledger' = "reserved"),
         answer \in Verdicts => ledger' = answer
  PROVE  CallStep(c, "done", answer)
  <1>1. line # <<>> /\ Head(line) = c  BY DEF IInv, AdmissionsFit
  <1>2. UNCHANGED <<request, result, done, authority, run, exec, at>>
    BY DEF TurnedAway, outcome, control, work
  <1>3. CallVerdict  BY <1>2 DEF CallVerdict, IInv, TypesFit
  <1>4. CallQueue(c, "done")  BY DEF CallQueue
  <1> QED BY <1>1, <1>3, <1>4 DEF CallStep, CallLine, TurnedAway, Reply, Serving

\* A call whose reservation is durable creates the run, the first of the session.
LEMMA CreateSteps ==
  ASSUME IInv, NEW c \in Calls, Owner(Job("reserve", c)), Lands(Job("reserve", c)),
         CreateRun(c, Tail(queue))
  PROVE  CallStep(c, "following", "none")
  <1>1. "reserve" \in Admissions /\ step[c] = "reserving" /\ "reserving" \in Serving
    BY WaitingFacts DEF Place, Admissions, Serving
  <1>2. line # <<>> /\ Head(line) = c  BY <1>1 DEF IInv, AdmissionsFit
  <1>3. ledger = "unreserved" /\ ledger' = "reserved"
    BY DEF Lands, Accepted, Job, Verdicts
  <1>4. CallVerdict  BY <1>3 DEF CallVerdict, CreateRun
  <1>5. CallQueue(c, "following")
    <2>1. \/ queue' = Tail(queue)
          \/ queue' = Append(Tail(queue), Job("cancelled", c)) /\ authority' = "cancelled"
          \/ queue' = Append(Tail(queue), Job("failure", c))
      BY DEF CreateRun
    <2>2. RunJob(Job("failure", c)) /\ (authority' = "cancelled" => RunJob(Job("cancelled", c)))
      BY JobFacts DEF RunJob, Kinds, Verdicts, Ends, Admissions
    <2> QED BY <1>1, <2>1, <2>2 DEF CallQueue
  <1> QED BY <1>1, <1>2, <1>4, <1>5 DEF CallStep, CallLine, CreateRun, Serving

\* A reservation that ends is a step of its call, whatever the write did.
LEMMA ReserveEndsSteps == ASSUME IInv, NEW c \in Calls, ReserveEnds(c) PROVE \E p, a : CallStep(c, p, a)
  <1>1. /\ Owner(Job("reserve", c)) /\ Head(queue) = Job("reserve", c)
        /\ "reserve" \in Admissions /\ step[c] = "reserving" /\ step[c] \in Serving
    BY WaitingFacts DEF ReserveEnds, Owner, Place, Admissions, Serving
  <1>2. line # <<>> /\ Head(line) = c  BY <1>1 DEF IInv, AdmissionsFit
  <1>3. CASE /\ Unwritten /\ queue' = Tail(queue) /\ step' = [step EXCEPT ![c] = "resolving"]
             /\ UNCHANGED <<line, told, run, outcome, control, work>>
    <2>1. CallVerdict  BY <1>3 DEF CallVerdict, Unwritten, IInv, TypesFit, outcome, control, work
    <2>2. CallQueue(c, "resolving")  BY <1>1, <1>3 DEF CallQueue
    <2>3. CallStep(c, "resolving", "none")
      BY <1>1, <1>2, <1>3, <2>1, <2>2 DEF CallStep, CallLine
    <2> QED BY <2>3
  <1>4. ASSUME NEW a \in {"owned", "begun", "error"}, TurnedAway(c, a), queue' = Tail(queue),
               Unwritten \/ Lands(Head(queue))
        PROVE  CallStep(c, "done", a)
    <2>1. UNCHANGED ledger \/ (ledger = "unreserved" /\ ledger' = "reserved")
      BY <1>1, <1>4 DEF Unwritten, Lands, Accepted, Job, Verdicts
    <2>2. a \notin Verdicts  BY DEF Verdicts
    <2> QED BY <1>1, <1>4, <2>1, <2>2, TurnedAwaySteps
  <1>5. CASE Lands(Head(queue)) /\ CreateRun(c, Tail(queue))
    BY <1>1, <1>5, CreateSteps
  <1>6. \/ /\ Unwritten /\ queue' = Tail(queue) /\ step' = [step EXCEPT ![c] = "resolving"]
           /\ UNCHANGED <<line, told, run, outcome, control, work>>
        \/ \E a \in {"owned", "begun", "error"} :
             TurnedAway(c, a) /\ queue' = Tail(queue) /\ (Unwritten \/ Lands(Head(queue)))
        \/ Lands(Head(queue)) /\ CreateRun(c, Tail(queue))
    BY Zenon DEF ReserveEnds
  <1> QED BY <1>3, <1>4, <1>5, <1>6

\* A call that finds a reservation without a run replays or orphans it.
LEMMA ResolveSteps == ASSUME IInv, NEW c \in Calls, Resolve(c) PROVE \E p, a : CallStep(c, p, a)
  <1>1. step[c] = "resolving" /\ step[c] \in Serving /\ UNCHANGED ledger
    BY DEF Resolve, Serving, Unwritten
  <1>2. line # <<>> /\ Head(line) = c  BY <1>1 DEF IInv, AdmissionsFit
  <1>3. ASSUME NEW a \in {"error", "replayed"}, TurnedAway(c, a), UNCHANGED queue
        PROVE  CallStep(c, "done", a)
    <2>1. a \notin Verdicts  BY DEF Verdicts
    <2> QED BY <1>1, <1>3, <2>1, TurnedAwaySteps
  <1>4. CASE /\ step' = [step EXCEPT ![c] = "orphaning"] /\ queue' = Append(queue, Job("orphaned", c))
             /\ UNCHANGED <<line, told, run, outcome, control, work>>
    <2>1. CallVerdict  BY <1>1, <1>4 DEF CallVerdict, IInv, TypesFit, outcome, control, work
    <2>2. "orphaned" \in Admissions /\ Place("orphaned") = "orphaning"  BY DEF Admissions, Place
    <2>3. CallQueue(c, "orphaning")  BY <1>1, <1>4, <2>2 DEF CallQueue
    <2>4. CallStep(c, "orphaning", "none")
      BY <1>1, <1>2, <1>4, <2>1, <2>3 DEF CallStep, CallLine
    <2> QED BY <2>4
  <1>5. \/ \E a \in {"error", "replayed"} : TurnedAway(c, a) /\ UNCHANGED queue
        \/ /\ step' = [step EXCEPT ![c] = "orphaning"] /\ queue' = Append(queue, Job("orphaned", c))
           /\ UNCHANGED <<line, told, run, outcome, control, work>>
    BY Zenon DEF Resolve
  <1> QED BY <1>3, <1>4, <1>5

\* A caller is told of the orphaned reservation when that is recorded.
LEMMA OrphanEndsSteps == ASSUME IInv, NEW c \in Calls, OrphanEnds(c) PROVE \E p, a : CallStep(c, p, a)
  <1>1. /\ Owner(Job("orphaned", c)) /\ Head(queue) = Job("orphaned", c) /\ queue' = Tail(queue)
        /\ "orphaned" \in Admissions /\ step[c] = "orphaning" /\ step[c] \in Serving
    BY WaitingFacts DEF OrphanEnds, Owner, Place, Admissions, Serving
  <1>2. Lands(Head(queue)) => ledger = "reserved" /\ ledger' = "orphaned" /\ ledger' \in Verdicts
    BY <1>1, LandsFacts DEF Job
  <1>3. CASE Lands(Head(queue)) /\ TurnedAway(c, "orphaned")
    <2>1. CallStep(c, "done", "orphaned")
      BY <1>1, <1>2, <1>3, TurnedAwaySteps
    <2> QED BY <2>1
  <1>4. CASE Errs(Head(queue)) /\ TurnedAway(c, "error")
    <2>1. UNCHANGED ledger \/ (ledger = "reserved" /\ ledger' \in Verdicts)
      BY <1>2, <1>4 DEF Errs, Unwritten
    <2>2. CallStep(c, "done", "error")
      BY <1>1, <1>4, <2>1, TurnedAwaySteps DEF Verdicts
    <2> QED BY <2>2
  <1> QED BY <1>3, <1>4 DEF OrphanEnds

\* A caller is told what its run has settled with, which is the recorded verdict.
LEMMA AnswerSteps == ASSUME IInv, NEW c \in Calls, Answer(c) PROVE CallStep(c, "done", done)
  <1>1. /\ step[c] = "following" /\ UNCHANGED <<queue, line>> /\ CallVerdict
        /\ done \in Verdicts => ledger' = done
    BY DEF Answer, CallVerdict, Unwritten, IInv, TypesFit, VerdictsFit, outcome, control, work
  <1> QED BY <1>1 DEF Answer, CallStep, CallLine, CallQueue, Reply, Serving

\* Every action of a call is such a step.
LEMMA CallSteps ==
  ASSUME IInv, NEW c \in Calls,
         Ask(c) \/ Admit(c) \/ ReserveEnds(c) \/ Resolve(c) \/ OrphanEnds(c) \/ Answer(c)
  PROVE  \E p, a : CallStep(c, p, a)
  BY AskSteps, AdmitSteps, ReserveEndsSteps, ResolveSteps, OrphanEndsSteps, AnswerSteps

-----------------------------------------------------------------------------
(* The end of the process, and all steps together *)

\* A write that is under way may land when the process dies.
LEMMA CrashFacts ==
  ASSUME IInv, Crash
  PROVE  \/ UNCHANGED ledger
         \/ ledger = "unreserved" /\ ledger' = "reserved"
         \/ ledger = "reserved" /\ ledger' \in Verdicts
  BY DEF Crash, Unwritten, Lands, Accepted, Verdicts

\* A crash preserves the invariant.
LEMMA CrashKeeps == ASSUME IInv, Crash PROVE IInv'
  <1>1. /\ queue' = <<>> /\ line' = <<>> /\ UNCHANGED <<told, run, result, authority, request>>
        /\ DOMAIN step' = Calls
        /\ \A c \in Calls : step'[c] \notin Serving /\ (step'[c] # "done" => step[c] # "done")
        /\ exec' \in {exec, "lost"} /\ done' \in {done, "lost"}
        /\ \A w \in Workers : at'[w] = "none"
    BY DEF Crash, control, Admitting, Serving
  <1>2. \A x : ~InSeq(queue', x) /\ OnceIn(queue', x)
    BY <1>1 DEF InSeq, OnceIn
  <1>3. TypesFit'  BY <1>1, CrashFacts DEF IInv, TypesFit
  <1>4. AdmissionsFit'  BY <1>1, <1>2 DEF AdmissionsFit, Waits
  <1>5. EndsFit'  BY <1>1, <1>2, CrashFacts DEF IInv, EndsFit, Verdicts
  <1>6. NothingBefore'  BY <1>1, CrashFacts DEF IInv, NothingBefore, Verdicts
  <1>7. VerdictsFit'  BY <1>1, CrashFacts DEF IInv, VerdictsFit, Verdicts
  <1>8. ToldFit'  BY <1>1 DEF IInv, ToldFit
  <1> QED BY <1>3, <1>4, <1>5, <1>6, <1>7, <1>8 DEF IInv

\* Every step is one of the run, one of a call, or the end of the process.
LEMMA Steps ==
  ASSUME IInv, Next
  PROVE  RunStep \/ (\E c \in Calls : \E p, a : CallStep(c, p, a)) \/ Crash
  BY RunSteps, CallSteps DEF Next, Progress, Environment

\* The initial states satisfy the invariant.
LEMMA InitFits == Init => IInv
  <1> SUFFICES ASSUME Init PROVE IInv
    OBVIOUS
  <1>1. \A x : ~InSeq(queue, x) /\ OnceIn(queue, x)
    BY DEF Init, InSeq, OnceIn
  <1> QED
    BY <1>1 DEF Init, IInv, TypesFit, AdmissionsFit, EndsFit, NothingBefore, VerdictsFit, ToldFit,
                Waits, Serving, Verdicts

\* Every step preserves the invariant.
LEMMA NextKeeps == IInv /\ [Next]_vars => IInv'
  <1> SUFFICES ASSUME IInv, [Next]_vars PROVE IInv'
    OBVIOUS
  <1>1. CASE Next
    <2>1. CASE RunStep  BY <2>1, RunStepKeeps
    <2>2. ASSUME NEW c \in Calls, NEW p, NEW a, CallStep(c, p, a) PROVE IInv'
      BY <2>2, CallStepKeeps
    <2>3. CASE Crash  BY <2>3, CrashKeeps
    <2> QED BY <1>1, <2>1, <2>2, <2>3, Steps
  <1>2. CASE UNCHANGED vars
    BY <1>2 DEF vars, callers, closes, work, outcome, control, IInv, TypesFit, AdmissionsFit, EndsFit,
                NothingBefore, VerdictsFit, ToldFit, Waits
  <1> QED BY <1>1, <1>2

\* The reachable states of the preflight: one admission is served at a time, a
\* requested end owns the verdict until it is written, nothing works before the
\* reservation, and what a run or a caller is given is the recorded verdict.
THEOREM PreflightInvariance == Spec => []IInv
  BY InitFits, NextKeeps, PTL DEF Spec

-----------------------------------------------------------------------------
(* The refinement *)

Heard == [c \in Calls |-> IF told[c] \in Verdicts THEN told[c] ELSE "nothing"]

\* A step of the run tells nobody, and decides at most once.
LEMMA RunStepRefines == ASSUME RunStep PROVE [Promise!Next]_<<ledger, Heard>>
  <1>1. Heard' = Heard  BY DEF RunStep, Heard
  <1>2. CASE UNCHANGED ledger  BY <1>1, <1>2
  <1>3. CASE ledger = "reserved" /\ ledger' \in Verdicts
    BY <1>1, <1>3 DEF Promise!Next, Promise!Decide, Heard
  <1> QED BY <1>2, <1>3 DEF RunStep, VerdictStep

\* A step of a call makes the reservation, ends it, or tells the caller.
LEMMA CallStepRefines ==
  ASSUME IInv, NEW c \in Calls, NEW place, NEW answer, CallStep(c, place, answer)
  PROVE  [Promise!Next]_<<ledger, Heard>>
  <1>1. told[c] \notin Verdicts /\ DOMAIN told = Calls
    BY DEF CallStep, IInv, ToldFit, TypesFit
  <1>2. \/ UNCHANGED ledger
        \/ ledger = "reserved" /\ ledger' \in Verdicts
        \/ ledger = "unreserved" /\ ledger' = "reserved"
    BY DEF CallStep, CallVerdict
  <1>3. CASE place = "done" /\ told' = [told EXCEPT ![c] = answer] /\ answer \in Verdicts
    <2>1. ledger' = answer  BY <1>3 DEF CallStep
    <2>2. Heard[c] = "nothing" /\ Heard' = [Heard EXCEPT ![c] = ledger']
      BY <1>1, <1>3, <2>1 DEF Heard
    <2>3. Promise!Told(c)  BY <2>2 DEF Promise!Told, Promise!Unheard, Heard
    <2>4. CASE UNCHANGED ledger
      BY <1>3, <2>1, <2>3, <2>4 DEF Promise!Next, Promise!Tell
    <2>5. CASE ledger = "reserved" /\ ledger' \in Verdicts
      BY <2>3, <2>5 DEF Promise!Next, Promise!Decide
    <2> QED BY <1>2, <1>3, <2>1, <2>4, <2>5 DEF Verdicts
  <1>4. CASE UNCHANGED told \/ (told' = [told EXCEPT ![c] = answer] /\ answer \notin Verdicts)
    <2>1. Heard' = Heard  BY <1>1, <1>4 DEF Heard
    <2> QED BY <1>2, <2>1 DEF Promise!Next, Promise!Reserve, Promise!Decide, Heard
  <1> QED BY <1>3, <1>4 DEF CallStep

\* The end of the process tells nobody.
LEMMA CrashRefines == ASSUME IInv, Crash PROVE [Promise!Next]_<<ledger, Heard>>
  <1>1. Heard' = Heard  BY DEF Crash, Heard
  <1> QED BY <1>1, CrashFacts DEF Promise!Next, Promise!Reserve, Promise!Decide, Heard

\* Every step is one of the abstract preflight, or changes nothing of it.
LEMMA NextRefines == IInv /\ [Next]_vars => [Promise!Next]_<<ledger, Heard>>
  <1> SUFFICES ASSUME IInv, [Next]_vars PROVE [Promise!Next]_<<ledger, Heard>>
    OBVIOUS
  <1>1. CASE Next
    BY <1>1, Steps, RunStepRefines, CallStepRefines, CrashRefines
  <1>2. CASE UNCHANGED vars
    BY <1>2 DEF vars, callers, Heard
  <1> QED BY <1>1, <1>2

\* The preflight keeps its promise about the summary of a session: for any
\* calls, schedulers, research requests and limits, and whatever fails, races or
\* dies, the reservation is made once, gets at most one verdict, and a caller
\* that is told a verdict is told the one the ledger holds.
THEOREM ReservationIsImplemented == Spec => ImplementsReservation
  <1>1. Init => Promise!Init
    BY DEF Init, Promise!Init, Promise!Unheard, Verdicts
  <1> QED BY <1>1, PreflightInvariance, NextRefines, PTL
          DEF Spec, ImplementsReservation, Promise!Spec, Heard

-----------------------------------------------------------------------------
(* What the run does, and when it is over *)

\* The stages of the run in which workers are busy, and the workers of each.
Busily == {"working", "recording", "ending"}
Stage(w) == IF w = Root THEN "root" ELSE IF w = Finalizer THEN "finalizer" ELSE "children"

\* Each research request is evidence, or there was none.
Collected == \A i \in Children : at[i] \in {"none", "evidence"}

\* The promise of a run settles when its execution has returned and no
\* requested end is being written, or when its process dies.
StagesFit ==
  /\ exec = "none" <=> run = None
  /\ done # "none" => exec \in {"ended", "lost"}
  /\ exec = "lost" => done # "none"
  /\ exec = "ended" /\ done = "none" => request = "writing" /\ result # "none"

\* Only the workers of the stage are busy.  The finalizer has the evidence of
\* every request, and the root has no request yet.
WorkersFit ==
  /\ \A i \in Children : at[i] \in Busily \cup {"none", "queued", "evidence", "fatal"}
  /\ \A w \in Workers : at[w] \in Busily => exec = Stage(w)
  /\ exec \in {"none", "root"} => \A i \in Children : at[i] = "none"
  /\ exec = "finalizer" => Collected

\* Two jobs of which the store's queue never holds both: attempts of one
\* worker, verdicts of the execution, requested ends.
Rivals(x, y) ==
  \/ x.kind = "record" /\ y.kind = "record" /\ x.of = y.of
  \/ {x.kind, y.kind} \subseteq {"committed", "failure"}
  \/ {x.kind, y.kind} \subseteq Ends

Unrivalled(s) == \A i, j \in DOMAIN s : Rivals(s[i], s[j]) => i = j

\* The run still waits for a job of its own.
Awaits(x) ==
  /\ Live
  /\ \/ x.kind = "record" /\ x.of \in Workers /\ at[x.of] \in {"recording", "ending"}
     \/ x.kind \in {"committed", "failure"} /\ exec = "terminal" /\ (x.kind = "committed" => Collected)
     \/ x.kind \in Ends /\ (request = "writing" \/ exec = "precancelled")

JobsFit ==
  /\ Unrivalled(queue)
  /\ \A x \in Jobs : InSeq(queue, x) /\ x.kind \notin Admissions => Awaits(x)

\* A requested end never gives the verdict back, and the success that is on
\* record was claimed, or its process died.
OwnersFit ==
  /\ request # "none" => authority \in Ends
  /\ ledger = "committed" =>
       /\ authority \notin Ends /\ (Live => authority = "claimed")
       /\ Collected /\ exec \in {"ended", "lost"}

\* No run is live while an admission is served, or on an orphaned reservation.
ServedAlone ==
  /\ Live => \A c \in Calls : step[c] \notin Serving
  /\ ledger = "orphaned" => ~Live

\* A close() waits for all admissions that are left, and then for the run.
ClosesFit ==
  \A s \in Schedulers :
    /\ closing[s] # "open" => \A c \in Mine(s) : step[c] \in Admitting => c \in awaited[s]
    /\ closing[s] \in {"runs", "closed"} => \A c \in Mine(s) : step[c] \notin Admitting
    /\ closing[s] = "closed" => ~Runs(s)

\* The functions of the model keep their domains.
ShapesFit == DOMAIN at = Workers /\ DOMAIN closing = Schedulers /\ DOMAIN awaited = Schedulers

RunInv ==
  /\ ShapesFit /\ StagesFit /\ WorkersFit /\ JobsFit /\ OwnersFit
  /\ ServedAlone /\ ClosesFit /\ Busy <= Capacity

-----------------------------------------------------------------------------
(* Workers, and how many are busy *)

\* The root, the research children and the finalizer are different workers.
LEMMA WorkerFacts ==
  /\ Root \in Workers /\ Finalizer \in Workers /\ Children \subseteq Workers
  /\ Root \notin Children /\ Finalizer \notin Children /\ Root # Finalizer
  /\ \A w \in Workers : w \in Children \/ w = Root \/ w = Finalizer
  /\ \A w \in Children : Stage(w) = "children"
  /\ Stage(Root) = "root" /\ Stage(Finalizer) = "finalizer"
  BY CallsAssumption DEF Root, Finalizer, Children, Workers, Stage

\* Workers of different stages, or different workers outside the research, are apart.
LEMMA StageFacts ==
  /\ \A w \in Workers : Stage(w) \in {"root", "children", "finalizer"}
  /\ \A u, w \in Workers : Stage(u) = Stage(w) /\ w \notin Children => u = w
  BY WorkerFacts

\* Children are counted.
LEMMA CountFacts ==
  ASSUME NEW S
  PROVE  /\ IsFiniteSet({i \in Children : at[i] \in S}) /\ Count(S) \in Nat
         /\ Count(S) = 0 => \A i \in Children : at[i] \notin S
  <1> DEFINE those == {i \in Children : at[i] \in S}
  <1>1. IsFiniteSet(Children)  BY FS_Interval, CallsAssumption DEF Children
  <1>2. IsFiniteSet(those)  BY <1>1, FS_Subset
  <1>3. Cardinality(those) \in Nat  BY <1>2, FS_CardinalityType
  <1>4. Cardinality(those) = 0 => those = {}  BY <1>2, FS_EmptySet
  <1> QED BY <1>2, <1>3, <1>4 DEF Count

\* A step after which no other child is busy has no more of them, and one more
\* when a single child becomes busy.
LEMMA BusyStays ==
  ASSUME \A i \in Children : at'[i] \in Busily => at[i] \in Busily
  PROVE  Busy' <= Busy
  <1> DEFINE now == {i \in Children : at[i] \in Busily}
             then == {i \in Children : at'[i] \in Busily}
  <1>1. IsFiniteSet(now) /\ then \subseteq now  BY CountFacts
  <1>2. Cardinality(then) <= Cardinality(now)  BY <1>1, FS_Subset
  <1> QED BY <1>2 DEF Busy, Count, Busily

LEMMA BusyGrows ==
  ASSUME NEW k \in Children, \A i \in Children : at'[i] \in Busily => at[i] \in Busily \/ i = k
  PROVE  Busy' <= Busy + 1
  <1> DEFINE now == {i \in Children : at[i] \in Busily}
             then == {i \in Children : at'[i] \in Busily}
  <1>1. IsFiniteSet(now) /\ then \subseteq now \cup {k}  BY CountFacts
  <1>2. IsFiniteSet(now \cup {k}) /\ Cardinality(now \cup {k}) <= Cardinality(now) + 1
    <2>1. Cardinality(now) \in Nat  BY <1>1, FS_CardinalityType
    <2>2. IsFiniteSet(now)  BY <1>1
    <2> HIDE DEF now
    <2>3. CASE k \in now
      <3>1. now \cup {k} = now  BY <2>3
      <3> QED BY <2>1, <2>2, <3>1
    <2>4. CASE k \notin now
      BY <2>1, <2>2, <2>4, FS_AddElement
    <2> QED BY <2>3, <2>4
  <1>3. Cardinality(then) <= Cardinality(now \cup {k})  BY <1>1, <1>2, FS_Subset
  <1>4. Cardinality(then) \in Nat /\ Cardinality(now) \in Nat /\ Cardinality(now \cup {k}) \in Nat
    BY <1>1, <1>2, FS_Subset, FS_CardinalityType
  <1>5. Cardinality(then) <= Cardinality(now) + 1  BY <1>2, <1>3, <1>4
  <1> QED BY <1>5 DEF Busy, Count, Busily

\* No child is busy.
LEMMA BusyNone == ASSUME \A i \in Children : at[i] \notin Busily PROVE Busy = 0
  <1>1. {i \in Children : at[i] \in Busily} = {}  OBVIOUS
  <1> QED BY <1>1, FS_EmptySet DEF Busy, Count, Busily

-----------------------------------------------------------------------------
(* Jobs that exclude each other *)

\* A job that is pushed when no rival waits has none afterwards.
LEMMA PushedUnrivalled ==
  ASSUME NEW S, NEW s \in Seq(S), NEW x \in S, Unrivalled(s),
         \A y \in S : InSeq(s, y) => ~Rivals(y, x)
  PROVE  Unrivalled(Append(s, x))
  <1> DEFINE a == Append(s, x)
  <1>1. /\ DOMAIN a = 1..Len(s) + 1 /\ a[Len(s) + 1] = x /\ DOMAIN s = 1..Len(s)
        /\ \A i \in DOMAIN a : (i \in DOMAIN s /\ a[i] = s[i] /\ a[i] \in S) \/ i = Len(s) + 1
    OBVIOUS
  <1>2. \A i \in DOMAIN a : i \in DOMAIN s => a[i] \in S /\ InSeq(s, a[i])
    BY <1>1 DEF InSeq
  <1> HIDE DEF a
  <1>3. \A y : Rivals(x, y) => Rivals(y, x)  BY DEF Rivals
  <1> SUFFICES ASSUME NEW i \in DOMAIN a, NEW j \in DOMAIN a, Rivals(a[i], a[j]) PROVE i = j
    BY DEF Unrivalled, a
  <1>4. CASE i \in DOMAIN s /\ j \in DOMAIN s  BY <1>1, <1>4 DEF Unrivalled
  <1>5. CASE i \in DOMAIN s /\ j = Len(s) + 1  BY <1>1, <1>2, <1>5
  <1>6. CASE i = Len(s) + 1 /\ j \in DOMAIN s  BY <1>1, <1>2, <1>3, <1>6
  <1> QED BY <1>1, <1>4, <1>5, <1>6

\* The first job leaves no rival behind.
LEMMA PoppedUnrivalled ==
  ASSUME NEW S, NEW s \in Seq(S), s # <<>>, Unrivalled(s)
  PROVE  Unrivalled(Tail(s)) /\ \A y : InSeq(Tail(s), y) => ~Rivals(Head(s), y)
  <1> DEFINE a == Tail(s)
  <1>1. /\ 1 \in DOMAIN s /\ Head(s) = s[1]
        /\ \A i \in DOMAIN a : i + 1 \in DOMAIN s /\ a[i] = s[i + 1] /\ i + 1 # 1
        /\ \A i, j \in DOMAIN a : i + 1 = j + 1 => i = j
    OBVIOUS
  <1> HIDE DEF a
  <1>2. \A i, j \in DOMAIN a : Rivals(a[i], a[j]) => i + 1 = j + 1  BY <1>1 DEF Unrivalled
  <1>3. \A i \in DOMAIN a : ~Rivals(Head(s), a[i])  BY <1>1 DEF Unrivalled
  <1> QED BY <1>1, <1>2, <1>3 DEF Unrivalled, InSeq, a

-----------------------------------------------------------------------------
(* What every kind of step leaves of the jobs *)

\* Jobs that stay are still awaited, and a job that is added has no rival.
LEMMA JobsKept ==
  ASSUME IInv, JobsFit, NEW rest, Rest(rest),
         \A x \in Jobs : InSeq(rest, x) /\ x.kind \notin Admissions /\ Awaits(x) => Awaits(x)',
         \/ queue' = rest
         \/ \E x \in Jobs : /\ queue' = Append(rest, x) /\ (x.kind \in Admissions \/ Awaits(x)')
                            /\ \A y \in Jobs : InSeq(rest, y) => ~Rivals(y, x)
  PROVE  JobsFit'
  <1>1. queue \in Seq(Jobs)  BY DEF IInv, TypesFit
  <1>2. rest \in Seq(Jobs) /\ Unrivalled(rest) /\ \A x : InSeq(rest, x) => InSeq(queue, x)
    <2>1. CASE rest = queue  BY <1>1, <2>1 DEF JobsFit
    <2>2. CASE queue # <<>> /\ rest = Tail(queue)
      BY <1>1, <2>2, TailFacts, PoppedUnrivalled DEF JobsFit
    <2> QED BY <2>1, <2>2 DEF Rest
  <1>3. \A x \in Jobs : InSeq(rest, x) /\ x.kind \notin Admissions => Awaits(x)'
    BY <1>2 DEF JobsFit
  <1>4. CASE queue' = rest  BY <1>2, <1>3, <1>4 DEF JobsFit
  <1>5. ASSUME NEW x \in Jobs, queue' = Append(rest, x), x.kind \in Admissions \/ Awaits(x)',
               \A y \in Jobs : InSeq(rest, y) => ~Rivals(y, x)
        PROVE  JobsFit'
    <2>1. Unrivalled(queue')  BY <1>2, <1>5, PushedUnrivalled
    <2>2. \A y : InSeq(queue', y) => InSeq(rest, y) \/ y = x  BY <1>2, <1>5, AppendFacts
    <2>3. \A y \in Jobs : InSeq(queue', y) /\ y.kind \notin Admissions => Awaits(y)'
      BY <1>3, <1>5, <2>2
    <2> QED BY <2>1, <2>3 DEF JobsFit
  <1> QED BY <1>4, <1>5

\* The jobs of an admission exclude nothing.
LEMMA AdmissionsPass ==
  ASSUME NEW x, NEW y, x.kind \in Admissions
  PROVE  ~Rivals(y, x) /\ ~Rivals(x, y)
  BY DEF Rivals, Admissions, Ends

\* What was first in the queue was awaited, and nothing that is left is its rival.
LEMMA HeadFacts ==
  ASSUME IInv, JobsFit, NEW job \in Jobs, Owner(job), job.kind \notin Admissions
  PROVE  /\ Awaits(job) /\ Rest(Tail(queue))
         /\ \A y : InSeq(Tail(queue), y) => InSeq(queue, y) /\ ~Rivals(job, y)
  <1>1. queue \in Seq(Jobs) /\ queue # <<>> /\ Head(queue) = job  BY DEF IInv, TypesFit, Owner
  <1>2. InSeq(queue, job) /\ \A y : InSeq(Tail(queue), y) => InSeq(queue, y)
    BY <1>1, TailFacts
  <1>3. \A y : InSeq(Tail(queue), y) => ~Rivals(job, y)
    BY <1>1, PoppedUnrivalled DEF JobsFit
  <1> QED BY <1>1, <1>2, <1>3 DEF JobsFit, Rest

\* No admission and no close() changes, and no run begins.
LEMMA OutsideStays ==
  ASSUME ServedAlone, ClosesFit, UNCHANGED <<step, closes, run>>, Live' => Live,
         ledger' = "orphaned" => ledger = "orphaned"
  PROVE  ServedAlone' /\ ClosesFit'
  BY DEF ServedAlone, ClosesFit, closes, Runs, Mine

-----------------------------------------------------------------------------
(* Steps of the workers *)

\* A step in a stage of the run: the stage lasts, the next one begins, the
\* execution asks for a verdict, or it returns.
StageMoves ==
  \/ UNCHANGED <<exec, result, done, authority>>
  \/ exec' \in {"children", "finalizer"} /\ UNCHANGED <<result, done, authority>>
  \/ /\ exec' = "terminal" /\ UNCHANGED <<result, done>>
     /\ authority' = authority \/ (authority = "open" /\ authority' = "failure")
  \/ UNCHANGED authority /\ \E res : res # "none" /\ EndExecution(res)

WorkerMove ==
  /\ exec \in {"root", "children", "finalizer"} /\ StageMoves
  /\ UNCHANGED <<ledger, run, request, step, closes>> /\ DOMAIN at' = DOMAIN at

\* When an execution returns, its promise settles unless an end is being written.
LEMMA EndsExecution ==
  ASSUME IInv, NEW res, res # "none", EndExecution(res)
  PROVE  exec' = "ended" /\ result' # "none" /\ (done' = "none" <=> request = "writing")
  <1>1. CASE request = "writing"  BY <1>1 DEF EndExecution, Settled
  <1>2. CASE request = "durable"
    BY <1>2 DEF EndExecution, Settled, IInv, EndsFit, Verdicts
  <1>3. CASE request \notin {"writing", "durable"}  BY <1>3 DEF EndExecution, Settled
  <1> QED BY <1>1, <1>2, <1>3 DEF EndExecution

\* Such a step fits everything but the jobs and the workers.
LEMMA WorkerMoveKeeps ==
  ASSUME IInv, RunInv, WorkerMove
  PROVE  /\ Live /\ (Live' \/ (exec' = "ended" /\ request # "writing"))
         /\ ShapesFit' /\ StagesFit' /\ OwnersFit' /\ ServedAlone' /\ ClosesFit'
  <1> USE DEF WorkerMove
  <1>1. Live /\ run # None /\ done = "none"  BY DEF RunInv, StagesFit, Live
  <1>2. /\ \/ exec' = "ended" /\ result' # "none" /\ (done' = "none" <=> request = "writing")
           \/ exec' \in {"root", "children", "finalizer", "terminal"} /\ done' = "none"
        /\ authority' = authority \/ (authority = "open" /\ authority' = "failure")
    BY <1>1, EndsExecution DEF StageMoves
  <1>3. ShapesFit'  BY DEF RunInv, ShapesFit, closes
  <1>4. StagesFit'  BY <1>1, <1>2 DEF RunInv, StagesFit
  <1>5. OwnersFit'
    <2>1. ledger' # "committed"  BY DEF RunInv, OwnersFit
    <2>2. request' # "none" => authority' \in Ends  BY <1>2 DEF RunInv, OwnersFit, Ends
    <2> QED BY <2>1, <2>2 DEF OwnersFit
  <1>6. ServedAlone' /\ ClosesFit'  BY <1>1, OutsideStays DEF RunInv
  <1> QED BY <1>1, <1>2, <1>3, <1>4, <1>5, <1>6 DEF Live

\* It fits the jobs when the attempts that are left in the queue are still
\* awaited, and no requested end is added.
LEMMA WorkerMoveJobs ==
  ASSUME IInv, RunInv, WorkerMove, NEW rest, Rest(rest),
         \A x \in Jobs : InSeq(rest, x) /\ x.kind = "record" /\ Awaits(x) => Awaits(x)',
         \/ queue' = rest
         \/ \E x \in Jobs : /\ queue' = Append(rest, x) /\ Awaits(x)'
                            /\ x.kind \in {"committed", "failure"} \/ (x.kind = "record" /\ at[x.of] = "working")
  PROVE  JobsFit'
  <1>1. queue \in Seq(Jobs) /\ JobsFit  BY DEF IInv, TypesFit, RunInv
  <1>2. \A x \in Jobs : InSeq(rest, x) => InSeq(queue, x)
    BY <1>1, TailFacts DEF Rest
  <1>3. \A x \in Jobs : InSeq(rest, x) => x.kind \notin {"committed", "failure"}
    BY <1>1, <1>2 DEF WorkerMove, JobsFit, Awaits, Admissions, Ends
  <1>4. \A x \in Jobs : InSeq(rest, x) /\ x.kind \notin Admissions /\ Awaits(x) => Awaits(x)'
    <2> SUFFICES ASSUME NEW x \in Jobs, InSeq(rest, x), x.kind \in Ends, Awaits(x) PROVE Awaits(x)'
      BY <1>3 DEF Awaits
    <2>1. request = "writing"  BY DEF Awaits, Ends, WorkerMove
    <2>2. Live' /\ request' = request  BY <2>1, WorkerMoveKeeps DEF WorkerMove
    <2> QED BY <2>1, <2>2 DEF Awaits
  <1>5. ASSUME NEW x \in Jobs, NEW y \in Jobs, InSeq(rest, y),
               x.kind \in {"committed", "failure"} \/ (x.kind = "record" /\ at[x.of] = "working")
        PROVE  ~Rivals(y, x)
    <2>1. y.kind = "record" => at[y.of] # "working"
      BY <1>1, <1>2, <1>5 DEF JobsFit, Awaits, Admissions, Ends
    <2> QED BY <1>3, <1>5, <2>1 DEF Rivals, Ends
  <1> QED BY <1>1, <1>4, <1>5, JobsKept

\* A busy worker is one of the stage that the run is at, and the others are not.
LEMMA BusyFacts ==
  ASSUME RunInv, NEW w \in Workers, at[w] \in Busily
  PROVE  /\ exec = Stage(w) /\ exec \in {"root", "children", "finalizer"}
         /\ w \notin Children =>
              Collected /\ \A u \in Workers : u # w => at[u] \notin Busily
  <1>1. exec = Stage(w) /\ exec \in {"root", "children", "finalizer"}
    BY StageFacts DEF RunInv, WorkersFit
  <1>2. ASSUME w \notin Children, NEW u \in Workers, u # w PROVE at[u] \notin Busily
    BY <1>1, <1>2, StageFacts DEF RunInv, WorkersFit
  <1>3. w \notin Children => Collected
    BY <1>1, WorkerFacts DEF RunInv, WorkersFit, Collected
  <1> QED BY <1>1, <1>2, <1>3

\* When nobody is busy the workers fit every stage that waits for none.
LEMMA QuietFits ==
  ASSUME \A u \in Workers : at'[u] \notin Busily, exec' \notin {"none", "root", "finalizer"},
         \A i \in Children : at'[i] \in {"none", "queued", "evidence", "fatal"}
  PROVE  WorkersFit' /\ Busy' <= Capacity
  <1>1. Children \subseteq Workers  BY WorkerFacts
  <1>2. {i \in Children : at'[i] \in Busily} = {}  BY <1>1
  <1>3. Busy' = 0  BY <1>2, FS_EmptySet DEF Busy, Count, Busily
  <1>4. Busy' <= Capacity  BY <1>3, CallsAssumption
  <1> QED BY <1>4 DEF WorkersFit

\* The children of a stage that is not the research.
LEMMA ChildrenFacts ==
  ASSUME RunInv
  PROVE  /\ \A i \in Children : at[i] \in Busily \cup {"none", "queued", "evidence", "fatal"}
         /\ \A i \in Children : at[i] \notin Busily => at[i] \in {"none", "queued", "evidence", "fatal"}
  BY DEF RunInv, WorkersFit

\* The number of busy children is a number, before and after a step.
LEMMA BusyCounted == Busy \in Nat /\ Busy' \in Nat
  <1>1. ASSUME NEW a PROVE Cardinality({i \in Children : a[i] \in Busily}) \in Nat
    <2>1. IsFiniteSet(Children)  BY FS_Interval, CallsAssumption DEF Children
    <2>2. IsFiniteSet({i \in Children : a[i] \in Busily})  BY <2>1, FS_Subset
    <2> QED BY <2>2, FS_CardinalityType
  <1> QED BY <1>1 DEF Busy, Count, Busily

\* No more children are busy than before, so no more than may be.
LEMMA BusyFits ==
  ASSUME RunInv, \A i \in Children : at'[i] \in Busily => at[i] \in Busily
  PROVE  Busy' <= Capacity
  <1>1. Busy' <= Busy  BY BusyStays
  <1> QED BY <1>1, BusyCounted, CallsAssumption DEF RunInv

\* The attempt of a working worker is written.
LEMMA RecordKeeps ==
  ASSUME IInv, RunInv, NEW w \in Workers, at[w] = "working",
         NEW as \in {"recording", "ending"}, Record(w, as)
  PROVE  RunInv'
  <1>1. /\ at' = [at EXCEPT ![w] = as] /\ queue' = Append(queue, Job("record", w))
        /\ UNCHANGED <<ledger, run, exec, result, done, authority, request, step, closes>>
    BY DEF Record, Unwritten, callers, outcome, control
  <1>2. at[w] \in Busily /\ as \in Busily  BY DEF Busily
  <1>3. exec = Stage(w) /\ exec \in {"root", "children", "finalizer"}  BY <1>2, BusyFacts
  <1>4. DOMAIN at = Workers  BY DEF RunInv, ShapesFit
  <1>5. WorkerMove  BY <1>1, <1>3 DEF WorkerMove, StageMoves
  <1>6. at'[w] = as /\ \A u \in Workers : u # w => at'[u] = at[u]  BY <1>1, <1>4
  <1>7. WorkersFit'
    <2>1. \A i \in Children : i \in Workers  BY WorkerFacts
    <2>2. exec # "none" /\ (exec = "root" => w \notin Children) /\ (exec = "finalizer" => w \notin Children)
      BY <1>3, WorkerFacts
    <2> QED BY <1>1, <1>2, <1>3, <1>6, <2>1, <2>2 DEF RunInv, WorkersFit, Collected
  <1>8. Busy' <= Capacity
    <2>1. \A i \in Children : at'[i] \in Busily => at[i] \in Busily
      BY <1>2, <1>6, WorkerFacts
    <2> QED BY <2>1, BusyFits
  <1>9. JobsFit'
    <2>1. Rest(queue)  BY DEF Rest
    <2>2. Live'  BY <1>1, <1>3, <1>5, WorkerMoveKeeps
    <2>3. Job("record", w) \in Jobs /\ Job("record", w).kind = "record" /\ Job("record", w).of = w
      BY JobFacts DEF Kinds
    <2>4. Awaits(Job("record", w))'  BY <1>6, <2>2, <2>3 DEF Awaits
    <2>5. \A x \in Jobs : x.kind = "record" /\ Awaits(x) => Awaits(x)'
      BY <1>6, <2>2 DEF Awaits, Ends
    <2> QED BY <1>1, <1>5, <2>1, <2>3, <2>4, <2>5, WorkerMoveJobs
  <1> QED BY <1>5, <1>7, <1>8, <1>9, WorkerMoveKeeps DEF RunInv

\* The queue that is left, when the job of a worker is gone from it or it had none.
Released(w, rest) ==
  /\ Rest(rest)
  /\ \A x \in Jobs : InSeq(rest, x) /\ x.kind = "record" /\ x.of = w => ~Awaits(x)

\* A child whose executor returned is evidence, or ends the research.
LEMMA ChildReturnsKeeps ==
  ASSUME IInv, RunInv, NEW i \in Children, at[i] \in Busily, NEW res, NEW rest, Released(i, rest),
         ChildReturns(i, res, rest), UNCHANGED <<ledger, run, request, step, closes>>
  PROVE  RunInv'
  <1>1. /\ queue' = rest /\ UNCHANGED <<exec, result, done, authority>>
        /\ at' = [at EXCEPT ![i] = at'[i]] /\ at'[i] \in {"fatal", "evidence"}
    <2>1. i \in DOMAIN at  BY WorkerFacts DEF RunInv, ShapesFit
    <2> QED BY <2>1 DEF ChildReturns, outcome
  <1>2. i \in Workers /\ exec = "children"  BY WorkerFacts, BusyFacts
  <1>3. DOMAIN at = Workers  BY DEF RunInv, ShapesFit
  <1>4. WorkerMove  BY <1>1, <1>2 DEF WorkerMove, StageMoves
  <1>5. \A u \in Workers : u # i => at'[u] = at[u]  BY <1>1, <1>3
  <1>6. at'[i] \notin Busily /\ \A u \in Children : u \in Workers
    BY <1>1, WorkerFacts DEF Busily
  <1>7. WorkersFit'
    BY <1>1, <1>2, <1>5, <1>6 DEF RunInv, WorkersFit
  <1>8. Busy' <= Capacity  BY <1>5, <1>6, BusyFits
  <1>9. JobsFit'
    <2>1. Live'  BY <1>1, <1>2, <1>4, WorkerMoveKeeps
    <2>2. \A x \in Jobs : InSeq(rest, x) /\ x.kind = "record" /\ Awaits(x) => Awaits(x)'
      BY <1>5, <2>1 DEF Released, Awaits, Ends
    <2> QED BY <1>1, <1>4, <2>2, WorkerMoveJobs DEF Released
  <1> QED BY <1>4, <1>7, <1>8, <1>9, WorkerMoveKeeps DEF RunInv

\* What a stage leaves when its only worker returned: a step that begins the
\* research, asks for a verdict, or ends the execution.
LEMMA StageReturnsKeeps ==
  ASSUME IInv, RunInv, NEW w \in Workers, w \notin Children, at[w] \in Busily,
         NEW res, NEW rest, Released(w, rest),
         StageReturns(w, res, rest), UNCHANGED <<ledger, run, request, step, closes>>
  PROVE  RunInv'
  <1>1. /\ exec = Stage(w) /\ exec \in {"root", "finalizer"} /\ Collected
        /\ \A u \in Workers : u # w => at[u] \notin Busily
    BY BusyFacts, WorkerFacts
  <1>2. DOMAIN at = Workers /\ \A u \in Children : u \in Workers /\ u # w
    BY WorkerFacts DEF RunInv, ShapesFit
  <1>3. \A x \in Jobs : InSeq(rest, x) /\ x.kind = "record" => ~Awaits(x)
    BY <1>1 DEF Released, Awaits, Busily, Ends
  <1>4. ASSUME at' = [at EXCEPT ![w] = "returned"]
        PROVE  /\ DOMAIN at' = DOMAIN at /\ Collected'
               /\ \A u \in Workers : at'[u] \notin Busily
               /\ \A u \in Children : at'[u] \in {"none", "queued", "evidence", "fatal"}
    BY <1>1, <1>2, <1>4 DEF Collected, Busily
  <1>5. ASSUME at' = [at EXCEPT ![w] = "returned"], StageMoves, exec' \in {"ended", "terminal"},
               queue' = rest \/ \E x \in Jobs : /\ queue' = Append(rest, x)
                                                /\ Live' => Awaits(x)'
                                                /\ exec' = "terminal" /\ x.kind \in {"committed", "failure"}
        PROVE  RunInv'
    <2>1. WorkerMove  BY <1>1, <1>4, <1>5 DEF WorkerMove
    <2>2. WorkersFit' /\ Busy' <= Capacity  BY <1>4, <1>5, QuietFits
    <2>3. exec' = "terminal" => Live'  BY <2>1, WorkerMoveKeeps
    <2>4. JobsFit'
      BY <1>3, <1>5, <2>1, <2>3, WorkerMoveJobs DEF Released
    <2> QED BY <2>1, <2>2, <2>4, WorkerMoveKeeps DEF RunInv
  <1>6. Job("failure", run) \in Jobs /\ Job("failure", run).kind = "failure"
        /\ Job("committed", run) \in Jobs /\ Job("committed", run).kind = "committed"
    BY JobFacts DEF IInv, TypesFit, Kinds, Verdicts
  <1>7. CASE Stopped /\ at' = [at EXCEPT ![w] = "returned"] /\ Return(rest)
    <2>1. authority # "none"  BY <1>7 DEF Stopped, IInv, EndsFit, Verdicts
    <2>2. StageMoves /\ exec' = "ended" /\ queue' = rest
      BY <1>7, <2>1 DEF StageMoves, Return, EndExecution
    <2> QED BY <1>5, <1>7, <2>2
  <1>8. CASE at' = [at EXCEPT ![w] = "returned"] /\ FailOpen(rest)
    <2>1. CASE authority = "open"
      <3>1. /\ StageMoves /\ exec' = "terminal" /\ queue' = Append(rest, Job("failure", run))
        BY <1>8, <2>1 DEF StageMoves, FailOpen
      <3>2. Live' => Awaits(Job("failure", run))'
        BY <1>6, <3>1 DEF Awaits
      <3> QED BY <1>5, <1>6, <1>8, <3>1, <3>2
    <2>2. CASE authority # "open"
      <3>1. StageMoves /\ exec' = "ended" /\ queue' = rest
        BY <1>8, <2>2 DEF StageMoves, FailOpen, EndExecution
      <3> QED BY <1>5, <1>8, <3>1
    <2> QED BY <2>1, <2>2
  <1>9. CASE at' = [at EXCEPT ![w] = "returned"] /\ Commit(rest)
    <2>1. StageMoves /\ exec' = "terminal" /\ queue' = Append(rest, Job("committed", run))
      BY <1>9 DEF StageMoves, Commit
    <2>2. Live' => Awaits(Job("committed", run))'
      BY <1>4, <1>6, <1>9, <2>1 DEF Awaits
    <2> QED BY <1>5, <1>6, <1>9, <2>1, <2>2
  <1>10. ASSUME w = Root, NEW n \in 0 .. MaxChildren, Research(n, rest) PROVE RunInv'
    <2>1. /\ queue' = rest /\ exec' = "children" /\ UNCHANGED <<result, done, authority>>
          /\ at' = [u \in Workers |->
               CASE u = Root -> "returned"
                 [] u \in 1 .. n -> (IF Capacity = 0 THEN "evidence" ELSE "queued")
                 [] OTHER -> at[u]]
      BY <1>10 DEF Research
    <2>2. DOMAIN at' = Workers /\ \A u \in Workers : at'[u] \in {"returned", "evidence", "queued", at[u]}
          /\ at'[Root] = "returned"
      <3>0. Root \in Workers /\ Root \notin 1 .. n  BY WorkerFacts DEF Root
      <3>1. DOMAIN at' = Workers /\ at'[Root] = "returned"  BY <2>1, <3>0
      <3>2. ASSUME NEW u \in Workers PROVE at'[u] \in {"returned", "evidence", "queued", at[u]}
        <4>1. at'[u] = CASE u = Root -> "returned"
                         [] u \in 1 .. n -> (IF Capacity = 0 THEN "evidence" ELSE "queued")
                         [] OTHER -> at[u]
          BY <2>1
        <4>2. CASE u = Root  BY <4>1, <4>2, WorkerFacts, <3>1
        <4>3. CASE u # Root /\ u \in 1 .. n  BY <4>1, <4>3
        <4>4. CASE u # Root /\ u \notin 1 .. n  BY <4>1, <4>4
        <4> QED BY <4>2, <4>3, <4>4
      <3> QED BY <3>1, <3>2
    <2>3. \A u \in Workers : at'[u] \notin Busily
      BY <1>1, <1>10, <2>2 DEF Busily
    <2>4. \A u \in Children : at'[u] \in {"evidence", "queued", "none"}
      <3> SUFFICES ASSUME NEW u \in Children PROVE at'[u] \in {"evidence", "queued", "none"}
        OBVIOUS
      <3>1. u \in Workers /\ u # Root  BY WorkerFacts
      <3>2. at'[u] \in {"evidence", "queued", at[u]}  BY <2>1, <3>1
      <3>3. at[u] = "none"  BY <1>1, <1>10, WorkerFacts DEF RunInv, WorkersFit
      <3> QED BY <3>2, <3>3
    <2>5. WorkersFit' /\ Busy' <= Capacity  BY <2>1, <2>3, <2>4, QuietFits
    <2>6. WorkerMove  BY <1>1, <1>2, <2>1, <2>2 DEF WorkerMove, StageMoves
    <2>7. JobsFit'  BY <1>3, <2>1, <2>6, WorkerMoveJobs DEF Released
    <2> QED BY <2>5, <2>6, <2>7, WorkerMoveKeeps DEF RunInv
  <1> QED BY <1>7, <1>8, <1>9, <1>10 DEF StageReturns

\* Whatever a worker returned, the run goes on from it.
LEMMA ReturnsKeeps ==
  ASSUME IInv, RunInv, NEW w \in Workers, at[w] \in Busily, NEW res, NEW rest, Released(w, rest),
         Returns(w, res, rest), UNCHANGED <<ledger, run, request, step, closes>>
  PROVE  RunInv'
  <1>1. CASE w \in Children  BY <1>1, ChildReturnsKeeps DEF Returns
  <1>2. CASE w \notin Children  BY <1>2, StageReturnsKeeps DEF Returns
  <1> QED BY <1>1, <1>2

\* A worker that is interrupted records its attempt or returns.
LEMMA InterruptKeeps == ASSUME IInv, RunInv, NEW w \in Workers, Interrupt(w) PROVE RunInv'
  <1>1. at[w] = "working" /\ at[w] \in Busily  BY DEF Interrupt, Busily
  <1>2. CASE Record(w, "ending")  BY <1>1, <1>2, RecordKeeps
  <1>3. CASE Returns(w, "failed", queue) /\ Unwritten /\ UNCHANGED <<callers, closes, run, request>>
    <2>1. Released(w, queue)  BY <1>1 DEF Released, Rest, Awaits, Ends
    <2>2. UNCHANGED <<ledger, run, request, step, closes>>  BY <1>3 DEF Unwritten, callers
    <2> QED BY <1>1, <1>3, <2>1, <2>2, ReturnsKeeps
  <1> QED BY <1>2, <1>3 DEF Interrupt

\* A worker whose attempt is recorded goes on or returns.
LEMMA RecordEndsKeeps == ASSUME IInv, RunInv, NEW w \in Workers, RecordEnds(w) PROVE RunInv'
  <1> DEFINE job == Job("record", w)
             rest == Tail(queue)
  <1>1. /\ Owner(job) /\ UNCHANGED <<ledger, run, request, step, closes>>
        /\ at[w] \in {"recording", "ending"} /\ at[w] \in Busily
    BY DEF RecordEnds, Unwritten, callers, Busily
  <1>2. job \in Jobs /\ job.kind = "record" /\ job.of = w /\ job.kind \notin Admissions
    BY JobFacts DEF Kinds, Admissions
  <1>3. Released(w, rest)
    <2>1. Rest(rest) /\ \A x : InSeq(rest, x) => ~Rivals(job, x)
      BY <1>1, <1>2, HeadFacts DEF RunInv
    <2> QED BY <1>2, <2>1 DEF Released, Rivals
  <1>4. ASSUME NEW res, Returns(w, res, rest) PROVE RunInv'
    BY <1>1, <1>3, <1>4, ReturnsKeeps
  <1>5. CASE at' = [at EXCEPT ![w] = "working"] /\ queue' = rest /\ UNCHANGED <<outcome, authority>>
    <2>1. exec = Stage(w) /\ exec \in {"root", "children", "finalizer"}  BY <1>1, BusyFacts
    <2>2. DOMAIN at = Workers  BY DEF RunInv, ShapesFit
    <2>3. UNCHANGED <<exec, result, done, authority>>  BY <1>5 DEF outcome
    <2>4. WorkerMove  BY <1>1, <1>5, <2>1, <2>3 DEF WorkerMove, StageMoves
    <2>5. at'[w] = "working" /\ at'[w] \in Busily /\ \A u \in Workers : u # w => at'[u] = at[u]
      BY <1>5, <2>2 DEF Busily
    <2>6. WorkersFit'
      <3>1. \A i \in Children : i \in Workers  BY WorkerFacts
      <3>2. exec # "none" /\ (exec = "root" => w \notin Children) /\ (exec = "finalizer" => w \notin Children)
        BY <2>1, WorkerFacts
      <3> QED BY <2>1, <2>3, <2>5, <3>1, <3>2 DEF RunInv, WorkersFit, Collected
    <2>7. Busy' <= Capacity
      <3>1. \A i \in Children : at'[i] \in Busily => at[i] \in Busily
        BY <1>1, <2>5, WorkerFacts
      <3> QED BY <3>1, BusyFits
    <2>8. JobsFit'
      <3>1. Live'  BY <2>1, <2>3, <2>4, WorkerMoveKeeps
      <3>2. \A x \in Jobs : InSeq(rest, x) /\ x.kind = "record" /\ Awaits(x) => Awaits(x)'
        BY <1>3, <2>5, <3>1 DEF Released, Awaits, Ends
      <3> QED BY <1>3, <1>5, <2>4, <3>2, WorkerMoveJobs DEF Released
    <2> QED BY <2>4, <2>6, <2>7, <2>8, WorkerMoveKeeps DEF RunInv
  <1> QED BY <1>4, <1>5 DEF RecordEnds

\* A child starts when there is room for it, and a deadline starts nothing.
LEMMA ChildKeeps ==
  ASSUME IInv, RunInv, NEW i \in Children, TakeChild(i) \/ ChildExpires(i)
  PROVE  RunInv'
  <1>1. /\ UNCHANGED <<ledger, run, request, step, closes, queue, exec, result, done, authority>>
        /\ exec = "children" /\ DOMAIN at' = DOMAIN at /\ DOMAIN at = Workers
        /\ \A u \in Workers : u # i => at'[u] = at[u]
        /\ at[i] \notin {"recording", "ending"} \/ at'[i] = at[i]
        /\ at'[i] = at[i] \/ (Busy < Capacity /\ at'[i] \in {"evidence", "working"})
    <2>1. i \in Workers /\ (at[i] \in Busily => exec = "children")
      BY WorkerFacts, BusyFacts
    <2>2. DOMAIN at = Workers  BY DEF RunInv, ShapesFit
    <2> QED BY <2>1, <2>2 DEF TakeChild, ChildExpires, Unwritten, callers, outcome, control, Busily
  <1>2. WorkerMove  BY <1>1 DEF WorkerMove, StageMoves
  <1>3. i \in Workers /\ \A u \in Children : u \in Workers  BY WorkerFacts
  <1>4. WorkersFit'
    <2>1. at'[i] \in Busily \cup {"none", "queued", "evidence", "fatal"}
      BY <1>1, <1>3 DEF Busily, RunInv, WorkersFit
    <2>2. \A u \in Workers : at'[u] \in Busily => exec = Stage(u)
      BY <1>1, <1>3, WorkerFacts DEF RunInv, WorkersFit
    <2> QED BY <1>1, <1>3, <2>1, <2>2 DEF RunInv, WorkersFit
  <1>5. Busy' <= Capacity
    <2>1. CASE at'[i] = at[i]  BY <1>1, <1>3, <2>1, BusyFits
    <2>2. CASE Busy < Capacity
      <3>1. Busy' <= Busy + 1  BY <1>1, <1>3, BusyGrows
      <3> QED BY <2>2, <3>1, BusyCounted, CallsAssumption
    <2> QED BY <1>1, <2>1, <2>2
  <1>6. JobsFit'
    <2>1. Rest(queue) /\ Live'  BY <1>1, <1>2, WorkerMoveKeeps DEF Rest
    <2>2. \A x \in Jobs : InSeq(queue, x) /\ x.kind = "record" /\ Awaits(x) => Awaits(x)'
      BY <1>1, <2>1 DEF Awaits, Ends
    <2> QED BY <1>1, <1>2, <2>1, <2>2, WorkerMoveJobs
  <1> QED BY <1>2, <1>4, <1>5, <1>6, WorkerMoveKeeps DEF RunInv

\* The research ends with no child at work, in the finalizer with evidence for
\* every request.
LEMMA GatherKeeps == ASSUME IInv, RunInv, Gather PROVE RunInv'
  <1>1. /\ exec = "children" /\ Busy = 0 /\ UNCHANGED <<ledger, run, request, step, closes>>
    BY DEF Gather, PoolDone, Unwritten, callers
  <1>2. \A u \in Workers : at[u] \notin Busily
    <2>1. \A i \in Children : at[i] \notin Busily  BY <1>1, CountFacts DEF Busy, Busily
    <2>2. \A u \in Workers : at[u] \in Busily => u \in Children
      BY <1>1, WorkerFacts DEF RunInv, WorkersFit
    <2> QED BY <2>1, <2>2
  <1>3. DOMAIN at = Workers /\ Rest(queue)  BY DEF RunInv, ShapesFit, Rest
  <1>4. \A x \in Jobs : x.kind = "record" => ~Awaits(x)
    BY <1>2 DEF Awaits, Busily, Ends
  <1>5. \A i \in Children : i \in Workers /\ at[i] \in {"none", "queued", "evidence", "fatal"}
    BY <1>2, WorkerFacts, ChildrenFacts
  <1>6. ASSUME UNCHANGED at, StageMoves, exec' \in {"ended", "terminal"},
               queue' = queue \/ \E x \in Jobs : /\ queue' = Append(queue, x)
                                                 /\ Live' => Awaits(x)'
                                                 /\ exec' = "terminal" /\ x.kind = "failure"
        PROVE  RunInv'
    <2>1. WorkerMove  BY <1>1, <1>6 DEF WorkerMove
    <2>2. WorkersFit' /\ Busy' <= Capacity  BY <1>2, <1>5, <1>6, QuietFits
    <2>3. exec' = "terminal" => Live'  BY <2>1, WorkerMoveKeeps
    <2>4. JobsFit'  BY <1>3, <1>4, <1>6, <2>1, <2>3, WorkerMoveJobs
    <2> QED BY <2>1, <2>2, <2>4, WorkerMoveKeeps DEF RunInv
  <1>7. Job("failure", run) \in Jobs /\ Job("failure", run).kind = "failure"
    BY JobFacts DEF IInv, TypesFit, Kinds, Verdicts
  <1>8. CASE Stopped /\ Return(queue) /\ UNCHANGED at
    <2>1. authority # "none"  BY <1>8 DEF Stopped, IInv, EndsFit, Verdicts
    <2>2. StageMoves /\ exec' = "ended" /\ queue' = queue
      BY <1>8, <2>1 DEF StageMoves, Return, EndExecution
    <2> QED BY <1>6, <1>8, <2>2
  <1>9. CASE FailOpen(queue) /\ UNCHANGED at
    <2>1. CASE authority = "open"
      <3>1. /\ StageMoves /\ exec' = "terminal" /\ queue' = Append(queue, Job("failure", run))
        BY <1>9, <2>1 DEF StageMoves, FailOpen
      <3>2. Live' => Awaits(Job("failure", run))'
        BY <1>1, <1>7, <3>1 DEF Awaits
      <3> QED BY <1>1, <1>6, <1>7, <1>9, <3>1, <3>2
    <2>2. CASE authority # "open"
      <3>1. StageMoves /\ exec' = "ended" /\ queue' = queue
        BY <1>9, <2>2 DEF StageMoves, FailOpen, EndExecution
      <3> QED BY <1>6, <1>9, <3>1
    <2> QED BY <2>1, <2>2
  <1>10. CASE /\ ~Stopped /\ ~Fatal /\ exec' = "finalizer" /\ at' = [at EXCEPT ![Finalizer] = "working"]
              /\ Count({"queued"}) = 0 /\ UNCHANGED <<queue, result, done, authority>>
    <2>1. WorkerMove  BY <1>1, <1>10 DEF WorkerMove, StageMoves
    <2>2. at'[Finalizer] = "working" /\ \A u \in Workers : u # Finalizer => at'[u] = at[u]
      BY <1>3, <1>10, WorkerFacts
    <2>3. \A i \in Children : at[i] \in {"none", "evidence"}
      <3>0. Count({"fatal"}) \in Nat /\ ~(Count({"fatal"}) > 0)  BY <1>10, CountFacts DEF Fatal
      <3>1. Count({"fatal"}) = 0  BY <3>0
      <3>2. \A i \in Children : at[i] \notin {"fatal"} /\ at[i] \notin {"queued"}
        BY <1>10, <3>1, CountFacts
      <3> QED BY <1>5, <3>2
    <2>4. \A i \in Children : i # Finalizer /\ at'[i] = at[i]  BY <1>5, <2>2, WorkerFacts
    <2>5. WorkersFit'
      <3>1. \A u \in Workers : at'[u] \in Busily => u = Finalizer  BY <1>2, <2>2
      <3>2. Stage(Finalizer) = "finalizer"  BY WorkerFacts
      <3> QED BY <1>10, <2>3, <2>4, <3>1, <3>2 DEF WorkersFit, Collected
    <2>6. Busy' <= Capacity  BY <2>4, BusyFits
    <2>7. JobsFit'  BY <1>3, <1>4, <1>10, <2>1, WorkerMoveJobs
    <2> QED BY <2>1, <2>5, <2>6, <2>7, WorkerMoveKeeps DEF RunInv
  <1> QED BY <1>8, <1>9, <1>10 DEF Gather

-----------------------------------------------------------------------------
(* Verdicts and requested ends *)

\* While the run is at no stage of the workers, none of them is busy.
LEMMA IdleFacts ==
  ASSUME RunInv, exec \notin {"root", "children", "finalizer"}
  PROVE  /\ \A u \in Workers : at[u] \notin Busily
         /\ \A i \in Children : at[i] \in {"none", "queued", "evidence", "fatal"}
         /\ \A x : x.kind = "record" => ~Awaits(x)
  <1>1. \A u \in Workers : at[u] \notin Busily  BY BusyFacts
  <1>2. \A i \in Children : at[i] \in {"none", "queued", "evidence", "fatal"}
    BY <1>1, WorkerFacts, ChildrenFacts
  <1>3. \A x : x.kind = "record" => ~Awaits(x)  BY <1>1 DEF Awaits, Busily, Ends
  <1> QED BY <1>1, <1>2, <1>3

\* The execution returns when the write of its verdict is over.
LEMMA VerdictEndsKeeps ==
  ASSUME IInv, RunInv, NEW kind \in {"committed", "failure"}, VerdictEnds(kind)
  PROVE  RunInv'
  <1> DEFINE job == Job(kind, run)
             rest == Tail(queue)
  <1>1. /\ Owner(job) /\ Head(queue) = job /\ queue' = rest
        /\ UNCHANGED <<step, closes, run, at, request>>
    BY DEF VerdictEnds, callers, work, Owner
  <1>2. job \in Jobs /\ job.kind = kind /\ job.kind \notin Admissions /\ kind # "record" /\ kind \notin Ends
    BY JobFacts DEF IInv, TypesFit, Kinds, Verdicts, Admissions, Ends
  <1>3. /\ Live /\ exec = "terminal" /\ (kind = "committed" => Collected)
        /\ Rest(rest) /\ \A x : InSeq(rest, x) => ~Rivals(job, x)
    BY <1>1, <1>2, HeadFacts DEF RunInv, Awaits
  <1>4. \/ Unwritten /\ UNCHANGED authority /\ EndExecution("error")
        \/ /\ Accepted(job) /\ authority' = IF kind = "committed" THEN "claimed" ELSE authority
           /\ \/ Lands(job) /\ EndExecution(kind)
              \/ (Unwritten \/ Lands(job)) /\ EndExecution("error")
    BY <1>1, Zenon DEF VerdictEnds, Rejected
  <1>5. exec' = "ended" /\ result' # "none" /\ (done' = "none" <=> request = "writing")
    BY <1>4, EndsExecution
  <1>6. /\ ledger' = ledger \/ (ledger' = kind /\ Accepted(job))
        /\ authority' = authority \/ (authority' = "claimed" /\ kind = "committed" /\ Accepted(job))
        /\ ledger' = "committed" => ledger = "committed" \/ authority' = "claimed"
    BY <1>2, <1>4, LandsFacts DEF Unwritten
  <1>7. Accepted(job) => ledger = "reserved" /\ (kind = "committed" => authority = "open")
    BY <1>2 DEF Accepted, Claims
  <1>8. ShapesFit' /\ StagesFit'
    BY <1>1, <1>3, <1>5 DEF RunInv, ShapesFit, StagesFit, Live, closes
  <1>9. WorkersFit' /\ Busy' <= Capacity
    <2>1. /\ \A u \in Workers : at'[u] \notin Busily
          /\ \A i \in Children : at'[i] \in {"none", "queued", "evidence", "fatal"}
      BY <1>1, <1>3, IdleFacts
    <2> QED BY <1>5, <2>1, QuietFits
  <1>10. OwnersFit'
    <2>1. request' # "none" => authority' \in Ends
      BY <1>1, <1>6, <1>7 DEF RunInv, OwnersFit, Ends
    <2>2. ledger # "committed"  BY <1>3 DEF RunInv, OwnersFit
    <2>3. ledger' = "committed" => authority' = "claimed" /\ kind = "committed"
      BY <1>2, <1>6, <2>2 DEF Ends
    <2>4. Collected <=> Collected'  BY <1>1 DEF Collected
    <2> QED BY <1>3, <1>5, <2>1, <2>3, <2>4 DEF OwnersFit, Ends
  <1>11. ServedAlone' /\ ClosesFit'
    <2>1. ledger' = "orphaned" => ledger = "orphaned"  BY <1>6
    <2> QED BY <1>1, <1>3, <2>1, OutsideStays DEF RunInv
  <1>12. JobsFit'
    <2> SUFFICES ASSUME NEW x \in Jobs, InSeq(rest, x), x.kind \notin Admissions, Awaits(x)
                 PROVE  Awaits(x)'
      BY <1>1, <1>3, JobsKept DEF RunInv
    <2>1. x.kind \in Ends
      BY <1>2, <1>3, IdleFacts DEF Awaits, Rivals
    <2>2. request = "writing"  BY <1>3, <2>1 DEF Awaits, Ends
    <2> QED BY <1>1, <1>3, <1>5, <2>1, <2>2 DEF Awaits, Live
  <1> QED BY <1>8, <1>9, <1>10, <1>11, <1>12 DEF RunInv

\* The end that was asked for is settled when its write is over.
LEMMA RequestEndsKeeps == ASSUME IInv, RunInv, NEW kind \in Ends, RequestEnds(kind) PROVE RunInv'
  <1> DEFINE job == Job(kind, run)
             rest == Tail(queue)
  <1>1. /\ Owner(job) /\ Head(queue) = job /\ queue' = rest
        /\ UNCHANGED <<step, closes, run, at, authority>>
    BY DEF RequestEnds, callers, work, Owner
  <1>2. job \in Jobs /\ job.kind = kind /\ job.kind \notin Admissions /\ kind \notin {"record", "committed", "failure"}
    BY JobFacts DEF IInv, TypesFit, Kinds, Verdicts, Admissions, Ends
  <1>3. /\ Live /\ (request = "writing" \/ exec = "precancelled")
        /\ Rest(rest) /\ \A x : InSeq(rest, x) => x.kind \notin Ends
    <2>1. Awaits(job) /\ Rest(rest) /\ \A x : InSeq(rest, x) => ~Rivals(job, x)
      BY <1>1, <1>2, HeadFacts DEF RunInv
    <2> QED BY <1>2, <2>1 DEF Awaits, Rivals
  <1>4. authority = kind
    <2>1. InSeq(queue, job)  BY <1>1, TailFacts DEF Owner, IInv, TypesFit
    <2> QED BY <1>2, <2>1 DEF IInv, EndsFit
  <1>5. ledger' = ledger \/ ledger' = kind
    BY <1>1, <1>2, LandsFacts DEF RequestEnds, Errs, Unwritten, Ends
  <1>6. \/ exec = "precancelled" /\ UNCHANGED <<request, result>> /\ exec' = "ended" /\ done' \in {kind, "error"}
        \/ /\ exec = "ended" /\ request' \in {"durable", "failed"} /\ done' \in {kind, result}
           /\ UNCHANGED <<exec, result>>
        \/ /\ exec \notin {"precancelled", "ended"} /\ request' \in {"durable", "failed"}
           /\ UNCHANGED <<exec, result, done>>
    BY DEF RequestEnds, outcome
  <1>7. kind # "none" /\ (exec = "ended" => result # "none")
    BY <1>3 DEF Ends, RunInv, StagesFit, Live
  <1>8. ShapesFit' /\ StagesFit'
    BY <1>1, <1>3, <1>6, <1>7 DEF RunInv, ShapesFit, StagesFit, Live, closes
  <1>9. WorkersFit' /\ Busy' <= Capacity
    <2>1. CASE exec = "precancelled"
      <3>1. /\ \A u \in Workers : at'[u] \notin Busily
            /\ \A i \in Children : at'[i] \in {"none", "queued", "evidence", "fatal"}
        BY <1>1, <2>1, IdleFacts
      <3> QED BY <1>6, <2>1, <3>1, QuietFits
    <2>2. CASE exec # "precancelled"
      <3>1. UNCHANGED exec  BY <1>6, <2>2
      <3>2. WorkersFit'  BY <1>1, <3>1 DEF RunInv, WorkersFit, Collected
      <3>3. Busy' <= Capacity  BY <1>1, BusyFits
      <3> QED BY <3>2, <3>3
    <2> QED BY <2>1, <2>2
  <1>10. OwnersFit'
    <2>1. authority' \in Ends  BY <1>1, <1>4
    <2>2. ledger' # "committed"
      BY <1>3, <1>4, <1>5 DEF RunInv, OwnersFit, Ends
    <2> QED BY <2>1, <2>2 DEF OwnersFit
  <1>11. ServedAlone' /\ ClosesFit'
    <2>1. ledger' = "orphaned" => ledger = "orphaned"  BY <1>5 DEF Ends
    <2> QED BY <1>1, <1>3, <2>1, OutsideStays DEF RunInv
  <1>12. JobsFit'
    <2> SUFFICES ASSUME NEW x \in Jobs, InSeq(rest, x), x.kind \notin Admissions, Awaits(x)
                 PROVE  Awaits(x)'
      BY <1>1, <1>3, JobsKept DEF RunInv
    <2>1. x.kind \notin Ends  BY <1>3
    <2>2. exec \notin {"precancelled", "ended"}
      BY <2>1, IdleFacts DEF Awaits
    <2> QED BY <1>1, <1>6, <2>1, <2>2 DEF Awaits, Live, Collected
  <1> QED BY <1>8, <1>9, <1>10, <1>11, <1>12 DEF RunInv

\* A cancellation or timeout is asked for while the run is live and nothing owns
\* its verdict, or nothing of the run changes.
EndAsked(kind) ==
  /\ Live /\ authority = "open" /\ authority' = kind /\ request' = "writing"
  /\ queue' = Append(queue, Job(kind, run))

LEMMA AskedKeeps ==
  ASSUME IInv, RunInv, NEW kind \in Ends,
         EndAsked(kind) \/ UNCHANGED <<authority, request, queue>>,
         UNCHANGED <<ledger, run, step, at, exec, result, done>>
  PROVE  StagesFit' /\ WorkersFit' /\ JobsFit' /\ OwnersFit' /\ ServedAlone' /\ Busy' <= Capacity
  <1>1. WorkersFit'  BY DEF RunInv, WorkersFit, Collected
  <1>2. Busy' <= Capacity  BY BusyFits
  <1>3. ServedAlone'  BY DEF RunInv, ServedAlone, Live
  <1>4. Rest(queue) /\ JobsFit  BY DEF Rest, RunInv
  <1>5. CASE EndAsked(kind)
    <2> USE <1>5 DEF EndAsked
    <2>1. StagesFit' /\ Live'  BY DEF RunInv, StagesFit, Live
    <2>2. OwnersFit'
      <3>1. ledger' # "committed"  BY DEF RunInv, OwnersFit
      <3> QED BY <3>1 DEF OwnersFit
    <2>3. Job(kind, run) \in Jobs /\ Job(kind, run).kind = kind
      BY JobFacts DEF IInv, TypesFit, Kinds, Verdicts, Ends
    <2>4. Awaits(Job(kind, run))'  BY <2>1, <2>3 DEF Awaits
    <2>5. \A y \in Jobs : InSeq(queue, y) => y.kind \notin Ends
      BY DEF IInv, EndsFit, Ends
    <2>6. \A y \in Jobs : InSeq(queue, y) => ~Rivals(y, Job(kind, run))
      BY <2>3, <2>5 DEF Rivals, Ends
    <2>7. \A x \in Jobs : Awaits(x) => Awaits(x)'
      BY <2>1 DEF Awaits, Live, Collected
    <2>8. JobsFit'  BY <1>4, <2>3, <2>4, <2>6, <2>7, JobsKept
    <2> QED BY <1>1, <1>2, <1>3, <2>1, <2>2, <2>8
  <1>6. CASE UNCHANGED <<authority, request, queue>>
    <2>1. StagesFit' /\ OwnersFit'  BY <1>6 DEF RunInv, StagesFit, OwnersFit, Live, Collected
    <2>2. \A x \in Jobs : Awaits(x) => Awaits(x)'  BY <1>6 DEF Awaits, Live, Collected
    <2>3. JobsFit'  BY <1>4, <1>6, <2>2, JobsKept
    <2> QED BY <1>1, <1>2, <1>3, <2>1, <2>3
  <1> QED BY <1>5, <1>6

\* RequestCancel asks for a cancellation, or leaves the run alone.
LEMMA CancelAsks ==
  ASSUME RequestCancel
  PROVE  EndAsked("cancelled") \/ UNCHANGED <<authority, request, queue>>
  BY DEF RequestCancel, EndAsked, Listening

\* The deadline, and the signal of a call.
LEMMA TimeoutKeeps ==
  ASSUME IInv, RunInv, Timeout \/ \E c \in Calls : Abort(c)
  PROVE  RunInv'
  <1>1. UNCHANGED <<ledger, run, step, closes, at, exec, result, done>>
    BY DEF Timeout, Abort, Unwritten, callers, work, outcome
  <1>2. \E kind \in Ends : EndAsked(kind) \/ UNCHANGED <<authority, request, queue>>
    <2>1. CASE Timeout  BY <2>1 DEF Timeout, Listening, EndAsked, Ends
    <2>2. CASE \E c \in Calls : Abort(c)  BY <2>2, CancelAsks DEF Abort, Ends
    <2> QED BY <2>1, <2>2
  <1>3. StagesFit' /\ WorkersFit' /\ JobsFit' /\ OwnersFit' /\ ServedAlone' /\ Busy' <= Capacity
    BY <1>1, <1>2, AskedKeeps
  <1>4. ShapesFit' /\ ClosesFit'
    BY <1>1 DEF RunInv, ShapesFit, ClosesFit, closes, Runs, Live, Mine
  <1> QED BY <1>3, <1>4 DEF RunInv

\* close() waits for the admissions that are under way when it begins, and no
\* other call of its scheduler is admitted from then on.
LEMMA CloseKeeps ==
  ASSUME IInv, RunInv, NEW s \in Schedulers, Close(s) \/ CloseRuns(s) \/ Closed(s)
  PROVE  RunInv'
  <1>1. UNCHANGED <<ledger, run, step, at, exec, result, done>>
    BY DEF Close, CloseRuns, Closed, Unwritten, callers, work, outcome
  <1>2. EndAsked("cancelled") \/ UNCHANGED <<authority, request, queue>>
    BY CancelAsks DEF Close, CloseRuns, Closed, CloseCancels, control
  <1>3. StagesFit' /\ WorkersFit' /\ JobsFit' /\ OwnersFit' /\ ServedAlone' /\ Busy' <= Capacity
    BY <1>1, <1>2, AskedKeeps DEF Ends
  <1>4. ShapesFit /\ ClosesFit  BY DEF RunInv
  <1>5. ShapesFit' /\ \A r \in Schedulers : r # s => closing'[r] = closing[r] /\ awaited'[r] = awaited[r]
    BY <1>1, <1>4 DEF ShapesFit, Close, CloseRuns, Closed
  <1>6. /\ \A r \in Schedulers : Mine(r)' = Mine(r) /\ (Runs(r)' <=> Runs(r))
        /\ \A c \in Calls : step'[c] = step[c]
    BY <1>1 DEF Mine, Runs, Live
  <1>7. /\ closing'[s] # "open" => \A c \in Mine(s) : step[c] \in Admitting => c \in awaited'[s]
        /\ closing'[s] \in {"runs", "closed"} => \A c \in Mine(s) : step[c] \notin Admitting
        /\ closing'[s] = "closed" => ~Runs(s)
    <2>1. CASE Close(s)
      <3>1. closing'[s] = "admissions" /\ awaited'[s] = {c \in Mine(s) : step[c] \in Admitting}
        BY <1>4, <2>1 DEF Close, ShapesFit
      <3> QED BY <3>1
    <2>2. CASE CloseRuns(s)
      <3>1. closing[s] = "admissions" /\ AdmissionsOver(s) /\ closing'[s] = "runs" /\ awaited'[s] = awaited[s]
        BY <1>4, <2>2 DEF CloseRuns, ShapesFit
      <3> QED BY <1>4, <3>1 DEF ClosesFit, AdmissionsOver
    <2>3. CASE Closed(s)
      <3>1. closing[s] = "runs" /\ ~Runs(s) /\ closing'[s] = "closed" /\ awaited'[s] = awaited[s]
        BY <1>4, <2>3 DEF Closed, ShapesFit
      <3> QED BY <1>4, <3>1 DEF ClosesFit
    <2> QED BY <2>1, <2>2, <2>3
  <1>8. ClosesFit'
    <2> SUFFICES ASSUME NEW r \in Schedulers
                 PROVE  /\ closing'[r] # "open" => \A c \in Mine(r) : step[c] \in Admitting => c \in awaited'[r]
                        /\ closing'[r] \in {"runs", "closed"} => \A c \in Mine(r) : step[c] \notin Admitting
                        /\ closing'[r] = "closed" => ~Runs(r)
      BY <1>6 DEF ClosesFit, Mine
    <2>1. CASE r = s  BY <1>7, <2>1
    <2>2. CASE r # s  BY <1>4, <1>5, <2>2 DEF ClosesFit
    <2> QED BY <2>1, <2>2
  <1> QED BY <1>3, <1>5, <1>8 DEF RunInv

-----------------------------------------------------------------------------
(* Steps of the calls *)

\* A step that changes nothing of the run: a call may be admitted while its
\* scheduler is open, and served while no run is live.
CallMove ==
  /\ UNCHANGED <<run, at, exec, result, done, authority, request, closes>>
  /\ ledger' = ledger \/ ledger' = "reserved" \/ (ledger' = "orphaned" /\ ~Live)
  /\ \E rest : /\ Rest(rest)
               /\ \/ queue' = rest
                  \/ \E x \in Jobs : x.kind \in Admissions /\ queue' = Append(rest, x)
  /\ \A c \in Calls : step'[c] \in Admitting => step[c] \in Admitting \/ closing[SchedulerOf[c]] = "open"
  /\ \A c \in Calls : step'[c] \in Serving => step[c] \in Serving \/ ~Live

LEMMA CallMoveKeeps == ASSUME IInv, RunInv, CallMove PROVE RunInv'
  <1> USE DEF CallMove
  <1>1. Live' <=> Live  BY DEF Live
  <1>2. ShapesFit' /\ StagesFit'  BY DEF RunInv, ShapesFit, StagesFit, closes
  <1>3. WorkersFit'  BY DEF RunInv, WorkersFit, Collected
  <1>4. Busy' <= Capacity  BY BusyFits
  <1>5. OwnersFit'  BY <1>1 DEF RunInv, OwnersFit, Collected
  <1>6. ServedAlone'  BY <1>1 DEF RunInv, ServedAlone
  <1>7. ClosesFit'
    <2>1. \A s \in Schedulers : \A c \in Mine(s) : SchedulerOf[c] = s /\ c \in Calls  BY DEF Mine
    <2>2. \A s \in Schedulers : Mine(s)' = Mine(s) /\ (Runs(s)' <=> Runs(s))
      BY <1>1 DEF Mine, Runs
    <2> QED BY <2>1, <2>2 DEF RunInv, ClosesFit, closes
  <1>8. JobsFit'
    <2>1. \A x \in Jobs : Awaits(x) => Awaits(x)'  BY <1>1 DEF Awaits, Collected
    <2>2. PICK rest : Rest(rest) /\ (queue' = rest \/ \E x \in Jobs : x.kind \in Admissions /\ queue' = Append(rest, x))
      OBVIOUS
    <2> QED BY <2>1, <2>2, AdmissionsPass, JobsKept DEF RunInv
  <1> QED BY <1>2, <1>3, <1>4, <1>5, <1>6, <1>7, <1>8 DEF RunInv

\* A call that is served has no run beside it, and is the first of the line.
LEMMA ServedFacts ==
  ASSUME IInv, RunInv, NEW c \in Calls, step[c] \in Serving
  PROVE  ~Live /\ step[c] \in Admitting /\ \A d \in Calls : step[d] \in Serving => d = c
  BY DEF RunInv, ServedAlone, IInv, AdmissionsFit, Serving, Admitting

\* Every step of a call but the creation of a run is such a step.
LEMMA AwayMoves ==
  ASSUME IInv, RunInv, NEW c \in Calls, Ask(c) \/ Admit(c) \/ Resolve(c) \/ Answer(c) \/ Dispatch(c) \/ PassBoundary
  PROVE  CallMove
  <1>1. Rest(queue) /\ DOMAIN step = Calls  BY DEF Rest, IInv, TypesFit
  <1>2. Job("reserve", c) \in Jobs /\ Job("orphaned", c) \in Jobs
        /\ Job("reserve", c).kind \in Admissions /\ Job("orphaned", c).kind \in Admissions
    BY JobFacts DEF Kinds, Verdicts, Admissions
  <1>3. CASE Ask(c)
    BY <1>1, <1>3 DEF Ask, Reply, CallMove, work, outcome, control, Admitting, Serving
  <1>4. CASE Admit(c)
    BY <1>1, <1>2, <1>4 DEF Admit, Reply, CallMove, Registered, work, outcome, control, Admitting, Serving
  <1>5. CASE Resolve(c)
    <2>1. step[c] \in Serving /\ step[c] \in Admitting  BY <1>5 DEF Resolve, Serving, Admitting
    <2>2. \E p : step' = [step EXCEPT ![c] = p]
      BY <1>5 DEF Resolve, TurnedAway, Reply
    <2>3. /\ UNCHANGED <<ledger, run, at, exec, result, done, authority, request, closes>>
          /\ UNCHANGED queue \/ queue' = Append(queue, Job("orphaned", c))
      BY <1>5 DEF Resolve, Unwritten, TurnedAway, work, outcome, control
    <2> QED BY <1>1, <1>2, <2>1, <2>2, <2>3, ServedFacts DEF CallMove
  <1>6. CASE Answer(c)
    BY <1>1, <1>6 DEF Answer, Reply, Unwritten, CallMove, work, outcome, control, Admitting, Serving
  <1>7. CASE Dispatch(c) \/ PassBoundary
    BY <1>1, <1>7 DEF Dispatch, PassBoundary, Unwritten, CallMove, callers, work, outcome, control
  <1> QED BY <1>3, <1>4, <1>5, <1>6, <1>7

\* The write of an admission that creates no run.
LEMMA TurnedAwayMoves ==
  ASSUME IInv, RunInv, NEW c \in Calls, step[c] \in Serving, queue # <<>>, queue' = Tail(queue),
         \E p : step' = [step EXCEPT ![c] = p],
         UNCHANGED <<run, at, exec, result, done, authority, request, closes>>,
         ledger' \in {ledger, "reserved", "orphaned"}
  PROVE  CallMove
  <1>1. Rest(queue')  BY DEF Rest
  <1>2. DOMAIN step = Calls  BY DEF IInv, TypesFit
  <1> QED BY <1>1, <1>2, ServedFacts DEF CallMove

\* The orphaned reservation is recorded while no run is live.
LEMMA OrphanEndsKeeps == ASSUME IInv, RunInv, NEW c \in Calls, OrphanEnds(c) PROVE RunInv'
  <1>1. /\ step[c] \in Serving /\ queue # <<>> /\ queue' = Tail(queue) /\ Head(queue) = Job("orphaned", c)
    BY WaitingFacts DEF OrphanEnds, Owner, Place, Admissions, Serving
  <1>2. /\ UNCHANGED <<run, at, exec, result, done, authority, request, closes>>
        /\ \E p : step' = [step EXCEPT ![c] = p]
    BY DEF OrphanEnds, TurnedAway, Reply, work, outcome, control
  <1>3. ledger' \in {ledger, "orphaned"}
    BY <1>1, LandsFacts DEF OrphanEnds, Errs, Unwritten, Job
  <1> QED BY <1>1, <1>2, <1>3, TurnedAwayMoves, CallMoveKeeps

\* The first run of the session begins when its reservation is durable, while
\* nothing else of it is under way.
LEMMA CreateKeeps ==
  ASSUME IInv, RunInv, NEW c \in Calls, Owner(Job("reserve", c)), Lands(Job("reserve", c)),
         CreateRun(c, Tail(queue)), UNCHANGED closes
  PROVE  RunInv'
  <1>1. step[c] \in Serving /\ step[c] \in Admitting /\ queue # <<>>
    BY WaitingFacts DEF Owner, Place, Admissions, Serving, Admitting
  <1>2. ledger = "unreserved" /\ ledger' = "reserved"
    BY DEF Lands, Accepted, Job, Verdicts
  <1>3. /\ run = None /\ exec = "none" /\ done = "none" /\ authority = "open" /\ request = "none"
        /\ \A w \in Workers : at[w] = "none"
    BY <1>2 DEF IInv, NothingBefore, RunInv, StagesFit, OwnersFit, Ends
  <1>4. /\ run' = c /\ run' # None /\ step' = [step EXCEPT ![c] = "following"]
        /\ UNCHANGED <<result, done, request, closes>>
    BY CallsAssumption DEF CreateRun
  <1>5. \/ /\ exec' = "precancelled" /\ authority' = "cancelled"
           /\ queue' = Append(Tail(queue), Job("cancelled", c)) /\ UNCHANGED at
        \/ /\ exec' = "terminal" /\ authority' = "failure"
           /\ queue' = Append(Tail(queue), Job("failure", c)) /\ UNCHANGED at
        \/ /\ exec' = "root" /\ queue' = Tail(queue) /\ at' = [at EXCEPT ![Root] = "working"]
    BY Zenon DEF CreateRun
  <1>6. Live'  BY <1>3, <1>4 DEF Live
  <1>7. DOMAIN at = Workers /\ DOMAIN at' = Workers  BY <1>5 DEF RunInv, ShapesFit
  <1>8. ShapesFit'  BY <1>4, <1>7 DEF RunInv, ShapesFit, closes
  <1>9. StagesFit'  BY <1>3, <1>4, <1>5 DEF StagesFit
  <1>10. \A i \in Children : i \in Workers /\ i # Root /\ at'[i] = "none"
    BY <1>3, <1>5, <1>7, WorkerFacts
  <1>11. WorkersFit'
    <2>1. \A w \in Workers : at'[w] \in Busily => w = Root /\ exec' = "root"
      BY <1>3, <1>5, <1>7 DEF Busily
    <2> QED BY <1>10, <2>1, WorkerFacts DEF WorkersFit, Collected
  <1>12. Busy' <= Capacity
    <2>1. \A i \in Children : at'[i] \in Busily => at[i] \in Busily  BY <1>10 DEF Busily
    <2> QED BY <2>1, BusyFits
  <1>13. OwnersFit'  BY <1>2, <1>3, <1>4 DEF OwnersFit
  <1>14. ServedAlone'
    <2>1. DOMAIN step = Calls  BY DEF IInv, TypesFit
    <2>2. \A d \in Calls : step'[d] \notin Serving
      BY <1>1, <1>4, <2>1, ServedFacts DEF Serving
    <2> QED BY <1>2, <2>2 DEF ServedAlone
  <1>15. ClosesFit'
    <2>1. DOMAIN step = Calls  BY DEF IInv, TypesFit
    <2>2. \A d \in Calls : step'[d] \in Admitting => step[d] \in Admitting
      BY <1>4, <2>1 DEF Admitting
    <2>3. \A s \in Schedulers : Mine(s)' = Mine(s) /\ Mine(s) \subseteq Calls /\ (Runs(s)' => c \in Mine(s))
      BY <1>4 DEF Mine, Runs
    <2> QED BY <1>1, <1>4, <2>2, <2>3 DEF RunInv, ClosesFit, closes
  <1>16. JobsFit'
    <2>1. Rest(Tail(queue)) /\ queue \in Seq(Jobs)  BY <1>1 DEF Rest, IInv, TypesFit
    <2>2. ~Live  BY <1>3 DEF Live
    <2>3. \A y \in Jobs : InSeq(Tail(queue), y) => y.kind \in Admissions
      BY <1>1, <2>1, <2>2, TailFacts DEF RunInv, JobsFit, Awaits
    <2>4. ASSUME NEW kind \in {"cancelled", "failure"}, queue' = Append(Tail(queue), Job(kind, c)),
                 Awaits(Job(kind, c))'
          PROVE  JobsFit'
      <3> DEFINE job == Job(kind, c)
      <3>1. job \in Jobs  BY JobFacts DEF Kinds, Verdicts
      <3>2. Awaits(job)'  BY <1>4, <2>4
      <3>3. \A y \in Jobs : InSeq(Tail(queue), y) => ~Rivals(y, job)
        BY <2>3, AdmissionsPass
      <3> QED BY <2>1, <2>2, <2>4, <3>1, <3>2, <3>3, JobsKept DEF RunInv, Awaits
    <2>5. Job("cancelled", c).kind = "cancelled" /\ Job("failure", c).kind = "failure"  BY DEF Job
    <2>6. CASE exec' = "precancelled" /\ queue' = Append(Tail(queue), Job("cancelled", c))
      BY <1>6, <2>4, <2>5, <2>6 DEF Awaits, Ends
    <2>7. CASE exec' = "terminal" /\ queue' = Append(Tail(queue), Job("failure", c))
      BY <1>6, <2>4, <2>5, <2>7 DEF Awaits
    <2>8. CASE queue' = Tail(queue)
      BY <2>1, <2>2, <2>8, JobsKept DEF RunInv, Awaits
    <2> QED BY <1>5, <2>6, <2>7, <2>8
  <1> QED BY <1>8, <1>9, <1>11, <1>12, <1>13, <1>14, <1>15, <1>16 DEF RunInv

\* A reservation that ends turns its call away, or begins the run.
LEMMA ReserveEndsKeeps == ASSUME IInv, RunInv, NEW c \in Calls, ReserveEnds(c) PROVE RunInv'
  <1>1. /\ step[c] \in Serving /\ queue # <<>> /\ Owner(Job("reserve", c)) /\ Head(queue) = Job("reserve", c)
        /\ UNCHANGED closes
    BY WaitingFacts DEF ReserveEnds, Owner, Place, Admissions, Serving
  <1>2. CASE Lands(Head(queue)) /\ CreateRun(c, Tail(queue))
    BY <1>1, <1>2, CreateKeeps
  <1>3. CASE /\ queue' = Tail(queue) /\ (Unwritten \/ Lands(Head(queue)))
             /\ \/ step' = [step EXCEPT ![c] = "resolving"] /\ UNCHANGED <<run, outcome, control, work>>
                \/ \E a : TurnedAway(c, a)
    <2>1. UNCHANGED <<run, at, exec, result, done, authority, request, closes>>
      BY <1>1, <1>3 DEF TurnedAway, work, outcome, control
    <2>2. \E p : step' = [step EXCEPT ![c] = p]  BY <1>3 DEF TurnedAway, Reply
    <2>3. ledger' \in {ledger, "reserved"}  BY <1>1, <1>3 DEF Unwritten, Lands, Job
    <2>4. ledger' \in {ledger, "reserved", "orphaned"} /\ queue' = Tail(queue)  BY <1>3, <2>3
    <2>5. CallMove  BY <1>1, <2>1, <2>2, <2>4, TurnedAwayMoves
    <2> QED BY <2>5, CallMoveKeeps
  <1>4. \/ Lands(Head(queue)) /\ CreateRun(c, Tail(queue))
        \/ /\ queue' = Tail(queue) /\ (Unwritten \/ Lands(Head(queue)))
           /\ \/ step' = [step EXCEPT ![c] = "resolving"] /\ UNCHANGED <<run, outcome, control, work>>
              \/ \E a : TurnedAway(c, a)
    BY Zenon DEF ReserveEnds
  <1> QED BY <1>2, <1>3, <1>4

-----------------------------------------------------------------------------
(* All steps together *)

\* The end of the process leaves nothing of the run but its record.
LEMMA DeathKeeps == ASSUME IInv, RunInv, Crash PROVE RunInv'
  <1>1. /\ queue' = <<>> /\ UNCHANGED <<run, result, authority, request>>
        /\ done' = (IF Live THEN "lost" ELSE done) /\ exec' = (IF Live THEN "lost" ELSE exec)
        /\ at' = [w \in Workers |-> "none"]
        /\ closing' = [s \in Schedulers |-> "open"] /\ awaited' = [s \in Schedulers |-> {}]
        /\ step' = [c \in Calls |-> IF step[c] \in Admitting \cup {"following"} THEN "lost" ELSE step[c]]
    BY DEF Crash, control
  <1>2. ~Live'  BY <1>1 DEF Live
  <1>3. ShapesFit'  BY <1>1 DEF ShapesFit
  <1>4. StagesFit'
    <2>1. CASE Live  BY <1>1, <2>1 DEF StagesFit, RunInv, Live
    <2>2. CASE ~Live  BY <1>1, <2>2 DEF StagesFit, RunInv
    <2> QED BY <2>1, <2>2
  <1>5. \A w \in Workers : at'[w] = "none"  BY <1>1
  <1>6. \A i \in Children : i \in Workers /\ at'[i] = "none"  BY <1>5, WorkerFacts
  <1>7. WorkersFit'  BY <1>5, <1>6 DEF WorkersFit, Collected, Busily
  <1>8. Busy' <= Capacity
    <2>1. \A i \in Children : at'[i] \in Busily => at[i] \in Busily  BY <1>6 DEF Busily
    <2> QED BY <2>1, BusyFits
  <1>9. JobsFit'
    <2>1. \A x : ~InSeq(queue', x)  BY <1>1 DEF InSeq
    <2> QED BY <1>1, <2>1 DEF JobsFit, Unrivalled
  <1>10. OwnersFit'
    <2>1. Collected'  BY <1>6 DEF Collected
    <2>2. ledger' = "committed" => authority \notin Ends /\ exec' \in {"ended", "lost"}
      <3>1. CASE ledger = "committed"  BY <1>1, <3>1 DEF RunInv, OwnersFit
      <3>2. CASE ledger # "committed" /\ ledger' = "committed"
        <4>1. queue # <<>> /\ Lands(Head(queue))  BY <3>2 DEF Crash, Unwritten
        <4> DEFINE job == Head(queue)
        <4>2. job.kind = "committed" /\ authority = "open"
          BY <3>2, <4>1 DEF Lands, Accepted, Claims
        <4>3. InSeq(queue, job) /\ job \in Jobs
          <5>1. queue \in Seq(Jobs)  BY DEF IInv, TypesFit
          <5> QED BY <4>1, <5>1, TailFacts
        <4>4. Live  BY <4>2, <4>3 DEF RunInv, JobsFit, Awaits, Admissions
        <4> QED BY <1>1, <4>2, <4>4 DEF Ends
      <3> QED BY <3>1, <3>2
    <2> QED BY <1>1, <1>2, <2>1, <2>2 DEF RunInv, OwnersFit
  <1>11. ServedAlone'  BY <1>2 DEF ServedAlone
  <1>12. ClosesFit'  BY <1>1, <1>2 DEF ClosesFit, Runs
  <1> QED BY <1>3, <1>4, <1>7, <1>8, <1>9, <1>10, <1>11, <1>12 DEF RunInv

\* The initial states fit.
LEMMA RunInit == Init => RunInv
  <1> SUFFICES ASSUME Init PROVE RunInv
    OBVIOUS
  <1>1. \A x : ~InSeq(queue, x)  BY DEF Init, InSeq
  <1>2. JobsFit  BY <1>1 DEF Init, JobsFit, Unrivalled
  <1>3. \A w \in Workers : at[w] = "none"  BY DEF Init
  <1>4. \A i \in Children : at[i] = "none"  BY <1>3, WorkerFacts
  <1>5. Busy <= Capacity
    <2>1. Busy = 0  BY <1>4, BusyNone DEF Busily
    <2> QED BY <2>1, CallsAssumption
  <1>6. ShapesFit /\ StagesFit /\ WorkersFit  BY <1>3, <1>4 DEF Init, ShapesFit, StagesFit, WorkersFit, Busily
  <1>7. OwnersFit /\ ServedAlone /\ ClosesFit
    BY DEF Init, OwnersFit, ServedAlone, ClosesFit, Live, Serving
  <1> QED BY <1>2, <1>5, <1>6, <1>7 DEF RunInv

\* Every step keeps the second invariant, given the first.
LEMMA RunNext == IInv /\ RunInv /\ [Next]_vars => RunInv'
  <1> SUFFICES ASSUME IInv, RunInv, [Next]_vars PROVE RunInv'
    OBVIOUS
  <1>1. ASSUME NEW c \in Calls, Ask(c) \/ Admit(c) \/ Resolve(c) \/ Answer(c) \/ Dispatch(c)
        PROVE  RunInv'
    BY <1>1, AwayMoves, CallMoveKeeps
  <1>2. CASE PassBoundary
    <2>1. CallMove
      <3>1. Rest(queue)  BY DEF Rest
      <3> QED BY <1>2, <3>1 DEF PassBoundary, CallMove, callers, outcome, control
    <2> QED BY <2>1, CallMoveKeeps
  <1>3. ASSUME NEW c \in Calls, ReserveEnds(c) \/ OrphanEnds(c) PROVE RunInv'
    BY <1>3, ReserveEndsKeeps, OrphanEndsKeeps
  <1>4. CASE VerdictEnds("committed") \/ VerdictEnds("failure")  BY <1>4, VerdictEndsKeeps
  <1>5. CASE RequestEnds("cancelled") \/ RequestEnds("timeout")  BY <1>5, RequestEndsKeeps DEF Ends
  <1>6. CASE Timeout \/ \E c \in Calls : Abort(c)  BY <1>6, TimeoutKeeps
  <1>7. CASE Gather  BY <1>7, GatherKeeps
  <1>8. ASSUME NEW w \in Workers, Interrupt(w) \/ RecordEnds(w) \/ Answers(w) \/ ProviderFails(w)
        PROVE  RunInv'
    BY <1>8, InterruptKeeps, RecordEndsKeeps, RecordKeeps DEF Answers, ProviderFails
  <1>9. ASSUME NEW i \in Children, TakeChild(i) \/ ChildExpires(i) PROVE RunInv'
    BY <1>9, ChildKeeps
  <1>10. ASSUME NEW s \in Schedulers, Close(s) \/ CloseRuns(s) \/ Closed(s) PROVE RunInv'
    BY <1>10, CloseKeeps
  <1>11. CASE Crash  BY <1>11, DeathKeeps
  <1>12. CASE UNCHANGED vars
    BY <1>12 DEF vars, callers, closes, work, outcome, control, RunInv, ShapesFit, StagesFit, WorkersFit,
                 JobsFit, Awaits, Collected, OwnersFit, ServedAlone, ClosesFit, Live, Runs, Mine, Busy, Count
  <1> QED BY <1>1, <1>2, <1>3, <1>4, <1>5, <1>6, <1>7, <1>8, <1>9, <1>10, <1>11, <1>12
          DEF Next, Progress, Environment

\* The reachable states of a run: which worker can be busy at which stage, what
\* the store's queue can hold of it, and who owns its verdict.
THEOREM RunInvariance == Spec => [](IInv /\ RunInv)
  <1>1. Init => IInv /\ RunInv  BY InitFits, RunInit
  <1>2. IInv /\ RunInv /\ [Next]_vars => IInv' /\ RunInv'  BY NextKeeps, RunNext
  <1> QED BY <1>1, <1>2, PTL DEF Spec

\* The record of a session is true: after a cancellation or the deadline was
\* accepted nothing is committed, what stopped a run is what the ledger says, and
\* a reservation is declared orphaned only when its run is over.
THEOREM RecordStaysTrue == Spec => []RecordIsTrue
  <1>1. IInv /\ RunInv => RecordIsTrue
    BY DEF IInv, EndsFit, VerdictsFit, RunInv, OwnersFit, ServedAlone, RecordIsTrue, Verdicts
  <1> QED BY <1>1, RunInvariance, PTL

\* Nothing outlives its run: a settled run has no busy worker and no write in the
\* queue, and a close() that returned has no run and no admission behind it.
THEOREM NothingIsLeftBehind == Spec => []NothingOutlivesItsRun
  <1>1. ASSUME IInv, RunInv PROVE NothingOutlivesItsRun
    <2>1. ASSUME ~Live, NEW w \in Workers PROVE at[w] \notin Busily
      <3> SUFFICES ASSUME at[w] \in Busily PROVE FALSE
        OBVIOUS
      <3>1. exec \in {"root", "children", "finalizer"}  BY BusyFacts, <1>1
      <3>2. exec # "none" /\ done = "none"  BY <1>1, <3>1 DEF RunInv, StagesFit
      <3> QED BY <1>1, <2>1, <3>2 DEF RunInv, StagesFit, Live
    <2>2. ASSUME ~Live, NEW k \in 1 .. Len(queue) PROVE queue[k].kind \in {"reserve", "orphaned"}
      <3>1. queue \in Seq(Jobs)  BY <1>1 DEF IInv, TypesFit
      <3>2. queue[k] \in Jobs /\ InSeq(queue, queue[k])  BY <3>1 DEF InSeq
      <3> QED BY <1>1, <2>2, <3>2 DEF RunInv, JobsFit, Awaits, Admissions
    <2>3. \A s \in Schedulers : closing[s] = "closed" =>
            ~Runs(s) /\ \A c \in Mine(s) : step[c] \notin Admitting
      BY <1>1 DEF RunInv, ClosesFit
    <2> QED BY <2>1, <2>2, <2>3 DEF NothingOutlivesItsRun, Busily
  <1> QED BY <1>1, RunInvariance, PTL

\* The finalizer sees one piece of evidence for every request that was admitted,
\* a summary is committed only over such evidence, and the children at work are
\* never more than the limits allow.
THEOREM EvidenceIsGathered == Spec => []EvidenceIsComplete
  <1>1. ASSUME IInv, RunInv PROVE EvidenceIsComplete
    <2>1. Busy <= Capacity /\ (exec = "finalizer" => Collected)
      BY <1>1 DEF RunInv, WorkersFit
    <2>2. ASSUME Collected PROVE Count({"queued", "fatal"}) = 0
      <3>1. {i \in Children : at[i] \in {"queued", "fatal"}} = {}  BY <2>2 DEF Collected
      <3> QED BY <3>1, FS_EmptySet DEF Count
    <2>3. ledger = "committed" => Collected  BY <1>1 DEF RunInv, OwnersFit
    <2> QED BY <2>1, <2>2, <2>3 DEF EvidenceIsComplete, Collected
  <1> QED BY <1>1, RunInvariance, PTL

=============================================================================

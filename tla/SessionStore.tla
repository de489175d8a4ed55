------------------------------ MODULE SessionStore ------------------------------
(***************************************************************************)
(* The session store of StrongCode: one JSONL file per session, appended   *)
(* to under a queue per file that all stores of one process share          *)
(* (session-store.ts, session-store-io.ts), and replaced by a rename when  *)
(* a compaction publishes its checkpoint (compaction-checkpoint-store.ts,  *)
(* compactor.ts).  Another process has a queue of its own.                 *)
(*                                                                         *)
(* A job is one call of a client.  A line of the file is the job that      *)
(* wrote it, or Torn.  The path names an inode; a handle keeps the inode   *)
(* it opened, whatever the path names later.                               *)
(***************************************************************************)
EXTENDS SessionLedger, SequencesExt

CONSTANTS
  Jobs,
  Processes,
  ProcessOf,   \* [Jobs -> Processes]
  KindOf,      \* [Jobs -> Kinds]
  EventOf,     \* [Jobs -> event], the event the job wants to write
  Budgets,     \* bounds: jobs called, failing I/O operations, crashes
  Torn         \* a line that is no event

Kinds == {"append", "guarded", "reserve", "commit", "compact"}

ASSUME JobsAssumption ==
  /\ ProcessOf \in [Jobs -> Processes] /\ KindOf \in [Jobs -> Kinds]
  /\ Torn \notin Jobs
  /\ Budgets \subseteq [jobs : SUBSET Jobs, faults : Nat, crashes : Nat]

\* Messages and checkpoints are conversation; a reservation is written with an
\* event id of its own, and nothing else may write one (session-store.ts 150).
ASSUME EventsAssumption ==
  \A j \in Jobs :
    IF KindOf[j] = "reserve"
    THEN /\ EventOf[j].type = "summary_reserved"
         /\ \A k \in Jobs \ {j} : IsLedger(EventOf[k]) => EventOf[k].id # EventOf[j].id
    ELSE /\ EventOf[j].type # "summary_reserved"
         /\ IsLedger(EventOf[j]) <=> KindOf[j] = "commit"

VARIABLES
  files,     \* inodes: what was ever created for the path, in order
  inode,     \* the inode the path names, 0 while there is none
  queue,     \* process -> jobs of its write queue, the first one runs
  step,      \* where a job stands
  handle,    \* job -> the inode it opened, or found when it began to publish
  bare,      \* jobs that saw a last line without its newline
  snapshot,  \* compaction -> the file it was computed from
  temp,      \* compaction -> the file it is about to publish
  result,    \* what a job returned
  faults, crashes

locals == <<handle, bare, snapshot, temp>>
vars == <<files, inode, queue, step, locals, result, faults, crashes>>

\* open: the last line has no newline yet.
NoFile == [exists |-> FALSE, lines |-> <<>>, open |-> FALSE]
Empty  == [exists |-> TRUE, lines |-> <<>>, open |-> FALSE]
Source == IF inode = 0 THEN NoFile ELSE files[inode]

\* parseSessionJsonl
Events(file) == [i \in DOMAIN file.lines |-> EventOf[file.lines[i]]]
Readable(file) == Torn \notin Range(file.lines) /\ Projects(Events(file))

\* Some budget allows a behaviour that calls these jobs, with so many faults.
Within(jobs, fails, halts) ==
  \E b \in Budgets : jobs \subseteq b.jobs /\ fails <= b.faults /\ halts <= b.crashes

Called == {j \in Jobs : step[j] # "idle"}

Succeeds == UNCHANGED faults
Fails    == faults' = faults + 1 /\ Within(Called, faults', crashes)

-----------------------------------------------------------------------------
Init ==
  /\ files = <<>> /\ inode = 0
  /\ queue = [p \in Processes |-> <<>>]
  /\ step = [j \in Jobs |-> "idle"]
  /\ handle = [j \in Jobs |-> 0] /\ bare = {}
  /\ snapshot = [j \in Jobs |-> NoFile] /\ temp = [j \in Jobs |-> NoFile]
  /\ result = [j \in Jobs |-> "none"]
  /\ faults = 0 /\ crashes = 0

-----------------------------------------------------------------------------
(* The queue of a file *)

Enqueue(j, next) ==
  /\ queue' = [queue EXCEPT ![ProcessOf[j]] = Append(@, j)]
  /\ step' = [step EXCEPT ![j] = next]

\* Job j runs and stands at s.
Runs(j, s) == step[j] = s /\ queue[ProcessOf[j]] # <<>> /\ Head(queue[ProcessOf[j]]) = j

Go(j, next) == step' = [step EXCEPT ![j] = next] /\ UNCHANGED <<queue, result>>

\* Faulty variant: an operation that rejects is what the next one waits for.
LeaveOnSuccess(j, answer) ==
  IF answer = "error" THEN queue ELSE [queue EXCEPT ![ProcessOf[j]] = Tail(@)]

\* The gate opens whether the operation fulfils or rejects.
Leave(j, answer) == [queue EXCEPT ![ProcessOf[j]] = Tail(@)]

Finish(j, answer) ==
  /\ queue' = Leave(j, answer)
  /\ step' = [step EXCEPT ![j] = "done"]
  /\ result' = [result EXCEPT ![j] = answer]

Call(j) ==
  /\ step[j] = "idle" /\ Within(Called \cup {j}, faults, crashes)
  /\ Enqueue(j, IF KindOf[j] \in {"append", "guarded"} THEN "opening" ELSE "reading")
  /\ UNCHANGED <<files, inode, locals, result, faults, crashes>>

-----------------------------------------------------------------------------
(* reserveFirstSummary, commitLedgerEvent: decide on the file as it is read *)

\* decideSummaryReservation
ReservationAnswer(es, e) ==
  LET owner == {i \in DOMAIN es : es[i].type = "summary_reserved"}
  IN IF owner # {} THEN (IF \E i \in owner : es[i].source = e.source THEN "existing" ELSE "owned")
     ELSE IF \E i \in DOMAIN es : es[i].type = "user" THEN "history" ELSE "write"

\* decideLedgerCommit
CommitAnswer(es, e) == LET a == Admission(es, e) IN IF a = "committed" THEN "write" ELSE a

Decide(j) ==
  /\ Runs(j, "reading") /\ KindOf[j] \in {"reserve", "commit"}
  /\ \/ Fails /\ Finish(j, "error")
     \/ Succeeds /\ ~Readable(Source) /\ Finish(j, "error")
     \/ /\ Succeeds /\ Readable(Source)
        /\ LET es == Events(Source)
               answer == IF KindOf[j] = "reserve" THEN ReservationAnswer(es, EventOf[j])
                         ELSE CommitAnswer(es, EventOf[j])
           IN IF answer = "write" THEN Go(j, "opening") ELSE Finish(j, answer)
  /\ UNCHANGED <<files, inode, locals, crashes>>

-----------------------------------------------------------------------------
(* SessionStoreIo.append *)

\* open(path, "a+") creates the file.
Open(j) ==
  /\ Runs(j, "opening")
  /\ \/ /\ Fails /\ Finish(j, "error")
        /\ UNCHANGED <<files, inode, handle>>
     \/ /\ Succeeds /\ Go(j, "inspecting")
        /\ IF inode = 0 THEN files' = Append(files, Empty) /\ inode' = Len(files) + 1
           ELSE UNCHANGED <<files, inode>>
        /\ handle' = [handle EXCEPT ![j] = inode']
  /\ UNCHANGED <<bare, snapshot, temp, crashes>>

\* Compare the handle with the path, then look at the last byte.
Inspect(j) ==
  /\ Runs(j, "inspecting")
  /\ \/ Fails /\ Finish(j, "error") /\ UNCHANGED bare
     \/ Succeeds /\ handle[j] # inode /\ Finish(j, "error") /\ UNCHANGED bare
     \/ /\ Succeeds /\ handle[j] = inode /\ Go(j, "checking")
        /\ bare' = IF files[inode].open THEN bare \cup {j} ELSE bare \ {j}
  /\ UNCHANGED <<files, inode, handle, snapshot, temp, crashes>>

\* Compare again and ask the guard, in the order of the code.
Check(j) ==
  /\ Runs(j, "checking")
  /\ \/ Fails /\ Finish(j, "error")
     \/ Succeeds /\ handle[j] # inode /\ Finish(j, "error")
     \/ Succeeds /\ handle[j] = inode /\ KindOf[j] \in {"guarded", "commit"} /\ Finish(j, "stale")
     \/ Succeeds /\ handle[j] = inode /\ Go(j, "writing")
  /\ UNCHANGED <<files, inode, locals, crashes>>

\* Faulty variant: the payload is written without a separator.
AppendedBare(file, line, separate) ==
  IF file.open
  THEN [file EXCEPT !.lines[Len(file.lines)] = Torn, !.open = FALSE]
  ELSE [file EXCEPT !.lines = Append(@, line)]

\* A line is added; without a separator it runs into an unfinished one.
Appended(file, line, separate) ==
  IF file.open /\ ~separate
  THEN [file EXCEPT !.lines[Len(file.lines)] = Torn, !.open = FALSE]
  ELSE [file EXCEPT !.lines = Append(@, line), !.open = FALSE]

\* What a write leaves that fails or is cut off: nothing, the separator, part
\* of the line, the line without its newline, or all of it.
Cut(file, line, separate) ==
  {file, [file EXCEPT !.open = @ /\ ~separate],
   [Appended(file, Torn, separate) EXCEPT !.open = TRUE],
   [Appended(file, line, separate) EXCEPT !.open = TRUE],
   Appended(file, line, separate)}

Write(j) ==
  /\ Runs(j, "writing")
  /\ \/ /\ Succeeds /\ Finish(j, "ok")
        /\ files' = [files EXCEPT ![handle[j]] = Appended(@, j, j \in bare)]
     \/ /\ Fails /\ Finish(j, "error")
        /\ \E left \in Cut(files[handle[j]], j, j \in bare) :
             files' = [files EXCEPT ![handle[j]] = left]
  /\ UNCHANGED <<inode, locals, crashes>>

-----------------------------------------------------------------------------
(* Compaction *)

\* Faulty variant: a revision only says whether there is a file.
SameExistence(file, expected) == file.exists = expected.exists

\* revisionsMatch: existence, length and digest
SameRevision(file, expected) == file = expected

\* readForCompaction; the queue is free while the model writes its summary.
ReadForCompaction(j) ==
  /\ Runs(j, "reading") /\ KindOf[j] = "compact"
  /\ \/ Fails /\ Finish(j, "error") /\ UNCHANGED snapshot
     \/ Succeeds /\ ~Readable(Source) /\ Finish(j, "error") /\ UNCHANGED snapshot
     \/ /\ Succeeds /\ Readable(Source)
        /\ snapshot' = [snapshot EXCEPT ![j] = Source]
        /\ queue' = Leave(j, "ok")
        /\ step' = [step EXCEPT ![j] = "summarising"]
        /\ UNCHANGED result
  /\ UNCHANGED <<files, inode, handle, bare, temp, crashes>>

\* The model has answered, or the compaction was interrupted or failed.
Summarise(j) ==
  /\ step[j] = "summarising"
  /\ \/ Enqueue(j, "staging") /\ UNCHANGED result
     \/ /\ step' = [step EXCEPT ![j] = "done"]
        /\ result' = [result EXCEPT ![j] = "error"]
        /\ UNCHANGED queue
  /\ UNCHANGED <<files, inode, locals, faults, crashes>>

\* commit: compare revisions, then write source and checkpoint to a temp file.
Stage(j) ==
  /\ Runs(j, "staging")
  /\ \/ /\ Fails /\ Finish(j, "error")
        /\ UNCHANGED <<handle, temp>>
     \/ /\ Succeeds /\ ~SameRevision(Source, snapshot[j]) /\ Finish(j, "error")
        /\ UNCHANGED <<handle, temp>>
     \/ /\ Succeeds /\ SameRevision(Source, snapshot[j]) /\ Go(j, "revalidating")
        /\ handle' = [handle EXCEPT ![j] = inode]
        /\ temp' = [temp EXCEPT ![j] = [Appended(Source, j, Source.open) EXCEPT !.exists = TRUE]]
  /\ UNCHANGED <<files, inode, bare, snapshot, crashes>>

\* assertUnchangedTarget: the revision, and the inode where there was a file.
Revalidate(j) ==
  /\ Runs(j, "revalidating")
  /\ LET unchanged == SameRevision(Source, snapshot[j])
                      /\ (handle[j] # 0 /\ inode # 0 => handle[j] = inode)
     IN \/ Fails /\ Finish(j, "error")
        \/ Succeeds /\ ~unchanged /\ Finish(j, "error")
        \/ Succeeds /\ unchanged /\ Go(j, "renaming")
  /\ UNCHANGED <<files, inode, locals, crashes>>

\* rename; when it fails, the file says whether it took effect.
Rename(j) ==
  /\ Runs(j, "renaming")
  /\ \/ Succeeds /\ files' = Append(files, temp[j]) /\ inode' = Len(files) + 1
     \/ Fails /\ files' = Append(files, temp[j]) /\ inode' = Len(files) + 1
     \/ Fails /\ UNCHANGED <<files, inode>>
  /\ Finish(j, IF Source' = temp[j] THEN "ok" ELSE "error")
  /\ UNCHANGED <<locals, crashes>>

-----------------------------------------------------------------------------
\* A process dies; a write in progress may have left part of a line.
Crash(p) ==
  LET lost == {j \in Jobs : ProcessOf[j] = p /\ step[j] \notin {"idle", "done"}}
  IN /\ crashes' = crashes + 1 /\ Within(Called, faults, crashes')
     /\ \/ UNCHANGED files
        \/ \E j \in lost : /\ step[j] = "writing"
                           /\ \E left \in Cut(files[handle[j]], j, j \in bare) :
                                files' = [files EXCEPT ![handle[j]] = left]
     /\ queue' = [queue EXCEPT ![p] = <<>>]
     /\ step' = [j \in Jobs |-> IF j \in lost THEN "lost" ELSE step[j]]
     /\ UNCHANGED <<inode, locals, result, faults>>

Run(j) ==
  \/ Decide(j) \/ Open(j) \/ Inspect(j) \/ Check(j) \/ Write(j)
  \/ ReadForCompaction(j) \/ Summarise(j) \/ Stage(j) \/ Revalidate(j) \/ Rename(j)

Next ==
  \/ \E j \in Jobs : Call(j) \/ Run(j)
  \/ \E p \in Processes : Crash(p)

Spec == Init /\ [][Next]_vars

\* I/O answers, and the provider answers or the compaction is interrupted.
FairSpec == Spec /\ \A j \in Jobs : WF_vars(Run(j))

-----------------------------------------------------------------------------
(* Correctness *)

\* Every variable ranges over what the code can store in it.
TypeOK ==
  LET File == [exists : BOOLEAN, lines : Seq(Jobs \cup {Torn}), open : BOOLEAN]
  IN /\ files \in Seq(File) /\ inode \in 0..Len(files)
     /\ queue \in [Processes -> Seq(Jobs)]
     /\ step \in [Jobs -> {"idle", "reading", "opening", "inspecting", "checking", "writing",
                          "summarising", "staging", "revalidating", "renaming", "done", "lost"}]
     /\ handle \in [Jobs -> 0..Len(files)] /\ bare \subseteq Jobs
     /\ snapshot \in [Jobs -> File] /\ temp \in [Jobs -> File]
     /\ result \in [Jobs -> {"none", "ok", "error", "stale", "existing", "owned", "history",
                            "rejected", "duplicate"}]
     /\ faults \in Nat /\ crashes \in Nat
     /\ Source.open => Source.lines # <<>>

\* What was acknowledged as written is a line of the session, whatever was
\* torn before or after it and whatever a compaction published meanwhile.
AcknowledgedIsKept == \A j \in Jobs : result[j] = "ok" => j \in Range(Source.lines)

\* The history is only added to ("it appends a checkpoint instead of deleting
\* earlier events", README.md 468; compaction fails "without replacing that
\* newer history").
HistoryOnlyGrows == [][IsPrefix(Source.lines, Source'.lines)]_vars

\* A checkpoint follows exactly the history it was computed from, although the
\* queue is free while the model answers (compactor.ts 143-173).
CheckpointCoversHistory ==
  \A i \in DOMAIN Source.lines :
    LET j == Source.lines[i]
    IN j # Torn /\ KindOf[j] = "compact" => SubSeq(Source.lines, 1, i - 1) = snapshot[j].lines

\* What is in the history, and what stands for it, is what callers were told.
HistoryIsKept == AcknowledgedIsKept /\ CheckpointCoversHistory

\* Unless a write was cut off, the session can be read: no admitted event, no
\* message and no reservation ever makes its ledger contradict itself.
LedgerStaysReadable == Torn \notin Range(Source.lines) => Projects(Events(Source))

\* What a reservation or commit was told stays true of the session: who owns
\* the summary, what it duplicates, and that a refused event is not there.
AnswersStand ==
  LET written == {EventOf[j] : j \in Range(Source.lines) \ {Torn}}
      owners  == {e \in written : e.type = "summary_reserved"}
  IN \A j \in Jobs :
       /\ result[j] = "existing" => \E e \in owners : e.source = EventOf[j].source
       /\ result[j] = "owned" => \E e \in owners : e.source # EventOf[j].source
       /\ result[j] = "duplicate" => \E e \in written : Payload(e) = Payload(EventOf[j])
       /\ result[j] \in {"existing", "owned", "history", "rejected", "duplicate", "stale"} =>
            j \notin Range(Source.lines)

\* Every attempt in the session is created, started and ended in this order,
\* ends once, and the one verdict on the summary was earned by an attempt of
\* the reservation's own operation (scheduler-ledger.ts commits them).
LifecycleInOrder ==
  LET written == {i \in DOMAIN Source.lines : Source.lines[i] # Torn}
      At(i) == EventOf[Source.lines[i]]
      Before(i, types, a) == \E k \in written : k < i /\ At(k).type \in types /\ At(k).attempt = a
  IN \A i \in written :
       /\ At(i).type \in {"started"} \cup Endings => Before(i, {"created"}, At(i).attempt)
       /\ At(i).type \in {"succeeded", "failed"} => Before(i, {"started"}, At(i).attempt)
       /\ At(i).type \in Endings => ~Before(i, Endings, At(i).attempt)
       /\ At(i).type \in Verdicts => \A k \in written : k < i => At(k).type \notin Verdicts
       /\ At(i).type = "summary_committed" => Before(i, {"succeeded"}, At(i).attempt)

\* Links lead to attempts of the same operation created before, so that walking
\* them ends, and a request to a provider is accounted to one attempt only.
AttemptsAreGrounded ==
  LET written == {i \in DOMAIN Source.lines : Source.lines[i] # Torn}
      At(i) == EventOf[Source.lines[i]]
  IN \A i \in written :
       /\ At(i).type = "created" => \A l \in At(i).links : \E k \in written : k < i /\
            At(k).type = "created" /\ At(k).attempt = l /\ At(k).operation = At(i).operation
       /\ At(i).type = "usage" => \A k \in written :
            At(k).type = "usage" /\ At(k).request = At(i).request /\ At(k).model = At(i).model =>
              At(k).attempt = At(i).attempt

\* The ledger of a session tells one possible story of its attempts, which is
\* the one its callers were told, and it can be read.
LedgerIsLawful ==
  LedgerStaysReadable /\ AnswersStand /\ LifecycleInOrder /\ AttemptsAreGrounded

\* Every call answers, unless its process dies: an operation that failed does
\* not stop the ones behind it, and a compaction gives the queue back.
EveryCallAnswers == <>[](\A j \in Jobs : step[j] \in {"idle", "done", "lost"})

=============================================================================

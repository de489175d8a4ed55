--------------------------- MODULE SessionStoreProofs ---------------------------
(***************************************************************************)
(* Within one process the write queue of a session file keeps its history  *)
(* whole and its ledger lawful: theorems about SessionStore, for any jobs, *)
(* events and budgets, when all jobs share one queue.                      *)
(***************************************************************************)
EXTENDS SessionStore, Queues, TLAPS

-----------------------------------------------------------------------------
(* Queues *)

\* push adds the pushed entry and nothing else.
LEMMA AppendFacts ==
  ASSUME NEW S, NEW s \in Seq(S), NEW x \in S
  PROVE  /\ Append(s, x) \in Seq(S)
         /\ \A y : InSeq(Append(s, x), y) <=> InSeq(s, y) \/ y = x
         /\ Distinct(s) /\ ~InSeq(s, x) => Distinct(Append(s, x))
  <1> DEFINE a == Append(s, x)
  <1>1. /\ a \in Seq(S) /\ Len(a) = Len(s) + 1 /\ DOMAIN a = 1..Len(s) + 1
        /\ \A i \in DOMAIN s : i \in DOMAIN a /\ a[i] = s[i]
        /\ Len(s) + 1 \in DOMAIN a /\ a[Len(s) + 1] = x
        /\ \A i \in DOMAIN a : i \in DOMAIN s \/ i = Len(s) + 1
    OBVIOUS
  <1> HIDE DEF a
  <1> QED BY <1>1 DEF InSeq, Distinct, a

\* shift removes the first entry, and all of it when entries are distinct.
LEMMA TailFacts ==
  ASSUME NEW S, NEW s \in Seq(S), s # <<>>
  PROVE  /\ Tail(s) \in Seq(S)
         /\ InSeq(s, Head(s))
         /\ \A y : InSeq(Tail(s), y) => InSeq(s, y)
         /\ \A y : InSeq(s, y) /\ y # Head(s) => InSeq(Tail(s), y)
         /\ Distinct(s) => Distinct(Tail(s)) /\ ~InSeq(Tail(s), Head(s))
  <1> DEFINE a == Tail(s)
  <1>1. /\ a \in Seq(S) /\ 1 \in DOMAIN s /\ Head(s) = s[1]
        /\ \A i \in DOMAIN a : i + 1 \in DOMAIN s /\ a[i] = s[i + 1] /\ i + 1 # 1
        /\ \A i \in DOMAIN s : i # 1 => i - 1 \in DOMAIN a /\ a[i - 1] = s[i]
        /\ \A i, j \in DOMAIN a : i + 1 = j + 1 => i = j
    OBVIOUS
  <1> HIDE DEF a
  <1> QED BY <1>1 DEF InSeq, Distinct, a

-----------------------------------------------------------------------------
(* The invariant *)

\* All clients of the file are in one process.
OneQueue == \A i, j \in Jobs : ProcessOf[i] = ProcessOf[j]

\* Steps of a job that has its turn in the queue or waits for it, and those of
\* them that only the job at the head can have reached.
Queued == {"reading", "opening", "inspecting", "checking", "writing",
           "staging", "revalidating", "renaming"}
Midway(j) ==
  \/ step[j] \in {"inspecting", "checking", "writing", "revalidating", "renaming"}
  \/ step[j] = "opening" /\ KindOf[j] \in {"reserve", "commit"}

Line(j) == queue[ProcessOf[j]]

QueueFits(j) ==
  /\ Distinct(Line(j))
  /\ \A k \in Jobs : InSeq(Line(j), k) => step[k] \in Queued
  /\ Midway(j) => Line(j) # <<>> /\ Head(Line(j)) = j

\* What the running job remembers of the file is still so.
FileFits(j) ==
  /\ step[j] \in {"inspecting", "checking", "writing"} => handle[j] = inode /\ inode # 0
  /\ step[j] \in {"checking", "writing"} => (j \in bare <=> files[inode].open)
  /\ step[j] \in {"revalidating", "renaming"} =>
       Source = snapshot[j] /\ temp[j].lines = Append(Source.lines, j)

StepFits(j) ==
  /\ step[j] \in {"opening", "inspecting", "checking", "writing"} => KindOf[j] # "compact"
  /\ step[j] \in {"summarising", "staging", "revalidating", "renaming"} => KindOf[j] = "compact"
  /\ result[j] # "none" => step[j] = "done"
  /\ InSeq(Source.lines, j) => step[j] \in {"done", "lost"}
  /\ result[j] = "ok" => InSeq(Source.lines, j)

\* A checkpoint stands behind the history it was computed from.
CheckpointFits ==
  \A i \in DOMAIN Source.lines :
    Source.lines[i] # Torn /\ KindOf[Source.lines[i]] = "compact" =>
      SubSeq(Source.lines, 1, i - 1) = snapshot[Source.lines[i]].lines

HistoryInv ==
  /\ TypeOK
  /\ \A j \in Jobs : QueueFits(j) /\ FileFits(j) /\ StepFits(j)
  /\ CheckpointFits

\* The events of the file; a torn line stands for conversation.
Story == [i \in DOMAIN Source.lines |->
            IF Source.lines[i] = Torn THEN [type |-> "reply"] ELSE EventOf[Source.lines[i]]]

\* A ledger can be read, none of its events repeats another, and links lead back.
NoneRepeats(es) == \A i \in DOMAIN es : IsLedger(es[i]) => i \in Unique(es)
LinksLeadBack(es) ==
  \A i \in DOMAIN es : es[i].type = "created" => \A l \in es[i].links :
    \E k \in DOMAIN es : k < i /\ es[k].type = "created" /\ es[k].attempt = l
                          /\ es[k].operation = es[i].operation
Lawful(es) == Projects(es) /\ NoneRepeats(es) /\ LinksLeadBack(es)

\* Between its decision and its write a job's decision still holds.
DecisionStands(j) ==
  step[j] \in {"opening", "inspecting", "checking", "writing"} =>
    /\ KindOf[j] = "commit" => Readable(Source) /\ Admission(Events(Source), EventOf[j]) = "committed"
    /\ KindOf[j] = "reserve" => Readable(Source) /\ ReservationAnswer(Events(Source), EventOf[j]) = "write"

AnswerFits(j) ==
  /\ result[j] = "existing" =>
       \E k \in DOMAIN Story : Story[k].type = "summary_reserved" /\ Story[k].source = EventOf[j].source
  /\ result[j] = "owned" =>
       \E k \in DOMAIN Story : Story[k].type = "summary_reserved" /\ Story[k].source # EventOf[j].source
  /\ result[j] = "duplicate" =>
       \E k \in DOMAIN Story : IsLedger(Story[k]) /\ Payload(Story[k]) = Payload(EventOf[j])
  /\ result[j] \in {"existing", "owned", "history", "rejected", "duplicate", "stale"} =>
       ~InSeq(Source.lines, j)

LedgerInv ==
  /\ Lawful(Story)
  /\ \A j \in Jobs : DecisionStands(j) /\ AnswerFits(j)

-----------------------------------------------------------------------------
(* Files *)

FileType == [exists : BOOLEAN, lines : Seq(Jobs \cup {Torn}), open : BOOLEAN]

\* The newline is not all there is of a line.
Proper(file) == file \in FileType /\ (file.open => file.lines # <<>>)

\* A payload is written with the separator the last line needs.
LEMMA AppendedFacts ==
  ASSUME NEW file \in FileType, NEW line \in Jobs \cup {Torn}, NEW separate \in BOOLEAN,
         file.open => separate
  PROVE  /\ Appended(file, line, separate) \in FileType
         /\ Appended(file, line, separate).lines = Append(file.lines, line)
         /\ Appended(file, line, separate).open = FALSE
         /\ [Appended(file, line, separate) EXCEPT !.open = TRUE] \in FileType
         /\ [Appended(file, line, separate) EXCEPT !.open = TRUE].lines = Append(file.lines, line)
         /\ [Appended(file, line, separate) EXCEPT !.exists = TRUE] \in FileType
         /\ [Appended(file, line, separate) EXCEPT !.exists = TRUE].lines = Append(file.lines, line)
         /\ [Appended(file, line, separate) EXCEPT !.exists = TRUE].open = FALSE
         /\ Append(file.lines, line) # <<>>
  <1>1. Appended(file, line, separate) = [file EXCEPT !.lines = Append(@, line), !.open = FALSE]
    BY DEF Appended
  <1>2. Append(file.lines, line) \in Seq(Jobs \cup {Torn}) /\ Append(file.lines, line) # <<>>
    BY DEF FileType
  <1> QED BY <1>1, <1>2 DEF FileType

\* A write that is cut off leaves the lines, or these and one more.
LEMMA CutFacts ==
  ASSUME NEW file, Proper(file), NEW line \in Jobs, NEW separate \in BOOLEAN,
         file.open <=> separate, NEW left \in Cut(file, line, separate)
  PROVE  /\ Proper(left)
         /\ left.lines \in {file.lines, Append(file.lines, line), Append(file.lines, Torn)}
  <1>0. file \in FileType  BY DEF Proper
  <1>1. CASE left = file  BY <1>1
  <1>2. CASE left = [file EXCEPT !.open = @ /\ ~separate]
    <2>1. left.lines = file.lines /\ left \in FileType /\ left.open = FALSE
      BY <1>0, <1>2 DEF FileType
    <2> QED BY <2>1 DEF Proper
  <1>3. CASE left = [Appended(file, Torn, separate) EXCEPT !.open = TRUE]
    BY <1>0, <1>3, AppendedFacts DEF Proper
  <1>4. CASE left = [Appended(file, line, separate) EXCEPT !.open = TRUE]
    BY ZenonT(30), <1>0, <1>4, AppendedFacts DEF Proper
  <1>5. CASE left = Appended(file, line, separate)
    BY <1>0, <1>5, AppendedFacts DEF Proper
  <1> QED BY <1>1, <1>2, <1>3, <1>4, <1>5 DEF Cut

LEMMA NoFileFacts == Proper(NoFile) /\ Proper(Empty) /\ NoFile.lines = <<>> /\ Empty.lines = <<>>
  BY DEF Proper, FileType, NoFile, Empty

LEMMA SourceType ==
  ASSUME TypeOK
  PROVE  Proper(Source) /\ files \in Seq(FileType) /\ inode \in Nat
         /\ (inode # 0 => Source = files[inode] /\ inode \in DOMAIN files)
         /\ (inode = 0 => Source = NoFile)
  <1>1. files \in Seq(FileType) /\ inode \in 0..Len(files)  BY DEF TypeOK, FileType
  <1>2. Source \in FileType
    BY <1>1, NoFileFacts DEF Source, Proper
  <1>3. Source.open => Source.lines # <<>>  BY DEF TypeOK
  <1> QED BY <1>1, <1>2, <1>3 DEF Proper, Source

\* Every inode the code touches is the one at the path.
LEMMA Touched ==
  ASSUME TypeOK, inode # 0, NEW left, Proper(left),
         files' = [files EXCEPT ![inode] = left], inode' = inode
  PROVE  Source' = left /\ files' \in Seq(FileType) /\ Len(files') = Len(files)
  <1>1. files \in Seq(FileType) /\ inode \in DOMAIN files  BY SourceType
  <1>2. left \in FileType  BY DEF Proper
  <1>3. files' \in Seq(FileType) /\ Len(files') = Len(files) /\ files'[inode] = left
    BY <1>1, <1>2
  <1> QED BY <1>3 DEF Source

LEMMA Replaced ==
  ASSUME TypeOK, NEW left, Proper(left), files' = Append(files, left), inode' = Len(files) + 1
  PROVE  /\ Source' = left /\ files' \in Seq(FileType) /\ Len(files') = Len(files) + 1
         /\ inode' # 0 /\ files'[inode'] = left
  <1>1. files \in Seq(FileType) /\ left \in FileType  BY SourceType DEF Proper
  <1>2. files' \in Seq(FileType) /\ Len(files') = Len(files) + 1 /\ files'[Len(files) + 1] = left
    BY <1>1
  <1>3. Len(files) + 1 # 0  BY <1>1
  <1> QED BY <1>2, <1>3 DEF Source

-----------------------------------------------------------------------------
(* Types *)

Steps == {"idle", "reading", "opening", "inspecting", "checking", "writing",
          "summarising", "staging", "revalidating", "renaming", "done", "lost"}
Answers == {"none", "ok", "error", "stale", "existing", "owned", "history",
            "rejected", "duplicate"}

\* TypeOK in parts: of the files, of the jobs and of the counters.
FilesType == /\ files \in Seq(FileType) /\ inode \in 0..Len(files) /\ Proper(Source)
             /\ handle \in [Jobs -> 0..Len(files)] /\ bare \subseteq Jobs
             /\ snapshot \in [Jobs -> FileType] /\ temp \in [Jobs -> FileType]
JobsType  == /\ queue \in [Processes -> Seq(Jobs)] /\ step \in [Jobs -> Steps]
             /\ result \in [Jobs -> Answers]
CountsType == faults \in Nat /\ crashes \in Nat

LEMMA TypeParts == TypeOK <=> FilesType /\ JobsType /\ CountsType
  <1>1. TypeOK => FilesType
    BY SourceType DEF TypeOK, FilesType, FileType
  <1>2. TypeOK => JobsType /\ CountsType
    BY DEF TypeOK, JobsType, CountsType, Steps, Answers
  <1>3. FilesType /\ JobsType /\ CountsType => TypeOK
    BY DEF TypeOK, FilesType, FileType, Proper, JobsType, CountsType, Steps, Answers
  <1> QED BY <1>1, <1>2, <1>3

-----------------------------------------------------------------------------
(* The queue *)

LEMMA ProcessFacts == \A j \in Jobs : ProcessOf[j] \in Processes
  BY JobsAssumption

LEMMA LineType ==
  ASSUME JobsType, NEW j \in Jobs
  PROVE  Line(j) \in Seq(Jobs) /\ (Line(j) # <<>> => Head(Line(j)) \in Jobs)
  BY ProcessFacts DEF JobsType, Line

\* What a step of job j does to its queue and its state.
LEMMA EnterType ==
  ASSUME JobsType, NEW j \in Jobs, NEW next \in Steps, Enqueue(j, next), UNCHANGED result
  PROVE  JobsType'
  <1>1. Append(queue[ProcessOf[j]], j) \in Seq(Jobs)  BY LineType DEF Line
  <1> QED BY <1>1, ProcessFacts DEF JobsType, Enqueue

LEMMA GoType ==
  ASSUME JobsType, NEW j \in Jobs, NEW next \in Steps, Go(j, next)
  PROVE  JobsType'
  BY DEF JobsType, Go

LEMMA LeaveType ==
  ASSUME JobsType, NEW j \in Jobs, Line(j) # <<>>, NEW answer,
         NEW next \in Steps, NEW given \in Answers,
         queue' = Leave(j, answer), step' = [step EXCEPT ![j] = next],
         result' = result \/ result' = [result EXCEPT ![j] = given]
  PROVE  JobsType'
  <1>1. Tail(queue[ProcessOf[j]]) \in Seq(Jobs)  BY LineType DEF Line
  <1> QED BY <1>1, ProcessFacts DEF JobsType, Leave

\* While a job works on the file it is at the head of the one queue.
LEMMA Sole ==
  ASSUME OneQueue, \A u \in Jobs : QueueFits(u), NEW j \in Jobs, NEW s, Runs(j, s),
         NEW u \in Jobs, Midway(u)
  PROVE  u = j
  BY DEF OneQueue, QueueFits, Runs, Line

QueuesFit == \A u \in Jobs : QueueFits(u)

\* The queue of every job is the queue of job j.
LEMMA OneLine ==
  ASSUME OneQueue, NEW j \in Jobs, JobsType, JobsType'
  PROVE  \A u \in Jobs : Line(u) = Line(j) /\ Line(u)' = Line(j)'
  BY DEF OneQueue, Line

LEMMA EnterQueue ==
  ASSUME OneQueue, JobsType, QueuesFit, NEW j \in Jobs, NEW next, Enqueue(j, next),
         step[j] \notin Queued, next \in {"reading", "opening", "staging"},
         next = "opening" => KindOf[j] \notin {"reserve", "commit"}
  PROVE  QueuesFit'
  <1>1. Line(j)' = Append(Line(j), j) /\ step' = [step EXCEPT ![j] = next]
    BY ProcessFacts DEF Enqueue, JobsType, Line
  <1>2. ~InSeq(Line(j), j) /\ Distinct(Line(j)) /\ Line(j) \in Seq(Jobs)
    BY LineType DEF QueuesFit, QueueFits
  <1>3. /\ Append(Line(j), j) \in Seq(Jobs) /\ Distinct(Append(Line(j), j))
        /\ \A y : InSeq(Append(Line(j), j), y) <=> InSeq(Line(j), y) \/ y = j
    BY <1>2, AppendFacts
  <1>4. Append(Line(j), j) # <<>> /\ (Line(j) # <<>> => Head(Append(Line(j), j)) = Head(Line(j)))
    BY <1>2
  <1>5. step \in [Jobs -> Steps] /\ next \in Queued  BY DEF JobsType, Queued
  <1> SUFFICES ASSUME NEW u \in Jobs PROVE QueueFits(u)'  BY DEF QueuesFit
  <1>6. Line(u) = Line(j) /\ Line(u)' = Line(j)'  BY DEF OneQueue, Line
  <1>7. Distinct(Line(u)')  BY <1>1, <1>3, <1>6
  <1>8. \A k \in Jobs : InSeq(Line(u)', k) => step'[k] \in Queued
    BY <1>1, <1>3, <1>5, <1>6 DEF QueuesFit, QueueFits
  <1>9. Midway(u)' => Line(u)' # <<>> /\ Head(Line(u)') = u
    <2>1. ~Midway(j)'  BY <1>1, <1>5 DEF Midway
    <2>2. u # j => step'[u] = step[u]  BY <1>1, <1>5
    <2>3. Midway(u)' => u # j /\ Midway(u)  BY <2>1, <2>2 DEF Midway
    <2>4. Midway(u) => Line(u) # <<>> /\ Head(Line(u)) = u  BY DEF QueuesFit, QueueFits
    <2> QED BY <2>3, <2>4, <1>1, <1>4, <1>6
  <1> QED BY <1>7, <1>8, <1>9 DEF QueueFits

LEMMA GoQueue ==
  ASSUME OneQueue, JobsType, QueuesFit, NEW j \in Jobs, NEW s, Runs(j, s),
         NEW next \in Queued, Go(j, next)
  PROVE  QueuesFit'
  <1>1. queue' = queue /\ step' = [step EXCEPT ![j] = next] /\ step \in [Jobs -> Steps]
    BY DEF Go, JobsType
  <1> SUFFICES ASSUME NEW u \in Jobs PROVE QueueFits(u)'  BY DEF QueuesFit
  <1>2. Line(u)' = Line(u)  BY <1>1 DEF Line
  <1>3. Distinct(Line(u)) /\ \A k \in Jobs : InSeq(Line(u), k) => step[k] \in Queued
    BY DEF QueuesFit, QueueFits
  <1>4. \A k \in Jobs : InSeq(Line(u), k) => step'[k] \in Queued  BY <1>1, <1>3
  <1>5. CASE u = j
    <2>1. Line(j) # <<>> /\ Head(Line(j)) = j  BY DEF Runs, Line
    <2> QED BY <1>5, <2>1, <1>2, <1>3, <1>4 DEF QueueFits
  <1>6. CASE u # j
    <2>1. step'[u] = step[u]  BY <1>1, <1>6
    <2>2. Midway(u)' => Midway(u)  BY <2>1 DEF Midway
    <2>3. Midway(u) => Line(u) # <<>> /\ Head(Line(u)) = u  BY DEF QueuesFit, QueueFits
    <2> QED BY <2>2, <2>3, <1>2, <1>3, <1>4 DEF QueueFits
  <1> QED BY <1>5, <1>6

LEMMA LeaveQueue ==
  ASSUME OneQueue, JobsType, QueuesFit, NEW j \in Jobs, NEW s, Runs(j, s), NEW answer,
         NEW next, next \in {"done", "summarising"},
         queue' = Leave(j, answer), step' = [step EXCEPT ![j] = next]
  PROVE  QueuesFit'
  <1>1. Line(j) # <<>> /\ Head(Line(j)) = j /\ Line(j) \in Seq(Jobs) /\ Distinct(Line(j))
    BY LineType DEF Runs, Line, QueuesFit, QueueFits
  <1>2. Line(j)' = Tail(Line(j))  BY ProcessFacts DEF Leave, JobsType, Line
  <1>3. /\ Distinct(Tail(Line(j))) /\ ~InSeq(Tail(Line(j)), j)
        /\ \A y : InSeq(Tail(Line(j)), y) => InSeq(Line(j), y)
    BY <1>1, TailFacts
  <1>4. step \in [Jobs -> Steps]  BY DEF JobsType
  <1> SUFFICES ASSUME NEW u \in Jobs PROVE QueueFits(u)'  BY DEF QueuesFit
  <1>5. Line(u) = Line(j) /\ Line(u)' = Line(j)'  BY DEF OneQueue, Line
  <1>6. \A k \in Jobs : InSeq(Line(u)', k) => step'[k] \in Queued
    <2> SUFFICES ASSUME NEW k \in Jobs, InSeq(Line(u)', k) PROVE step'[k] \in Queued
      OBVIOUS
    <2>1. k # j /\ InSeq(Line(j), k)  BY <1>2, <1>3, <1>5
    <2>2. step[k] \in Queued  BY <2>1 DEF QueuesFit, QueueFits
    <2> QED BY <2>1, <2>2, <1>4
  <1>7. ~Midway(u)'
    <2>1. ~Midway(j)'  BY <1>4 DEF Midway
    <2>2. Midway(u) => u = j  BY Sole DEF QueuesFit
    <2>3. u # j => step'[u] = step[u]  BY <1>4
    <2> QED BY <2>1, <2>2, <2>3 DEF Midway
  <1> QED BY <1>2, <1>3, <1>5, <1>6, <1>7 DEF QueueFits

-----------------------------------------------------------------------------
(* The history *)

\* The step leaves the lines, or adds one.
Adds(x) == x \in Jobs \cup {Torn} /\ Source'.lines = Append(Source.lines, x)
Grows(j) == Source'.lines = Source.lines \/ Adds(Torn) \/ Adds(j)

LEMMA LinesType == ASSUME TypeOK PROVE Source.lines \in Seq(Jobs \cup {Torn})
  BY SourceType DEF Proper, FileType

LEMMA AddFacts ==
  ASSUME TypeOK, NEW x, Adds(x)
  PROVE  /\ \A y : InSeq(Source'.lines, y) <=> InSeq(Source.lines, y) \/ y = x
         /\ Source'.lines # Source.lines /\ Len(Source'.lines) = Len(Source.lines) + 1
         /\ \A i \in DOMAIN Source.lines : i \in DOMAIN Source'.lines /\ Source'.lines[i] = Source.lines[i]
         /\ Len(Source.lines) + 1 \in DOMAIN Source'.lines
         /\ Source'.lines[Len(Source.lines) + 1] = x
         /\ \A i \in DOMAIN Source'.lines : i \in DOMAIN Source.lines \/ i = Len(Source.lines) + 1
  <1> DEFINE l == Source.lines
  <1>1. l \in Seq(Jobs \cup {Torn}) /\ x \in Jobs \cup {Torn} /\ Source'.lines = Append(l, x)
    BY LinesType DEF Adds
  <1> HIDE DEF l
  <1>2. \A y : InSeq(Append(l, x), y) <=> InSeq(l, y) \/ y = x  BY <1>1, AppendFacts
  <1>3. Append(l, x) # l /\ Len(Append(l, x)) = Len(l) + 1  BY <1>1
  <1>4. /\ \A i \in DOMAIN l : i \in DOMAIN Append(l, x) /\ Append(l, x)[i] = l[i]
        /\ Len(l) + 1 \in DOMAIN Append(l, x) /\ Append(l, x)[Len(l) + 1] = x
        /\ \A i \in DOMAIN Append(l, x) : i \in DOMAIN l \/ i = Len(l) + 1
    BY <1>1
  <1> QED BY <1>1, <1>2, <1>3, <1>4 DEF l

\* A checkpoint stays behind its history; a new one is put behind its own.
LEMMA CheckpointStays ==
  ASSUME TypeOK, CheckpointFits, Source'.lines = Source.lines,
         \A k \in Jobs : InSeq(Source.lines, k) => snapshot'[k] = snapshot[k]
  PROVE  CheckpointFits'
  <1> SUFFICES ASSUME NEW i \in DOMAIN Source.lines, Source.lines[i] # Torn,
                      KindOf[Source.lines[i]] = "compact"
               PROVE  SubSeq(Source.lines, 1, i - 1) = snapshot'[Source.lines[i]].lines
    BY DEF CheckpointFits
  <1>1. Source.lines[i] \in Jobs  BY LinesType
  <1> QED BY <1>1 DEF CheckpointFits, InSeq

LEMMA CheckpointAdded ==
  ASSUME TypeOK, CheckpointFits, NEW x, Adds(x),
         \A k \in Jobs : InSeq(Source.lines, k) => snapshot'[k] = snapshot[k],
         x # Torn /\ KindOf[x] = "compact" => snapshot'[x].lines = Source.lines
  PROVE  CheckpointFits'
  <1> DEFINE l == Source.lines
             m == Source'.lines
  <1>1. l \in Seq(Jobs \cup {Torn}) /\ m = Append(l, x) /\ x \in Jobs \cup {Torn}
    BY LinesType DEF Adds
  <1> SUFFICES ASSUME NEW i \in DOMAIN m, m[i] # Torn, KindOf[m[i]] = "compact"
               PROVE  SubSeq(m, 1, i - 1) = snapshot'[m[i]].lines
    BY DEF CheckpointFits
  <1>2. CASE i \in DOMAIN l
    <2>1. m[i] = l[i] /\ l[i] \in Jobs  BY <1>1, <1>2
    <2>2. SubSeq(l, 1, i - 1) = snapshot[l[i]].lines  BY <1>2, <2>1 DEF CheckpointFits
    <2>3. snapshot'[l[i]] = snapshot[l[i]]  BY <1>2, <2>1 DEF InSeq
    <2> HIDE DEF l, m
    <2>4. SubSeq(m, 1, i - 1) = SubSeq(l, 1, i - 1)  BY <1>1, <1>2
    <2> QED BY <2>1, <2>2, <2>3, <2>4
  <1>3. CASE i \notin DOMAIN l
    <2>1. i = Len(l) + 1 /\ m[i] = x  BY <1>1, <1>3
    <2>2. snapshot'[x].lines = l  BY <2>1
    <2> HIDE DEF l, m
    <2>3. SubSeq(m, 1, i - 1) = l  BY <1>1, <2>1
    <2> QED BY <2>1, <2>2, <2>3
  <1> QED BY <1>2, <1>3

StepsFit == \A u \in Jobs : StepFits(u)

\* What a step of job j does to what jobs were told and to the history.
LEMMA HistoryStep ==
  ASSUME TypeOK, StepsFit, CheckpointFits, NEW j \in Jobs, step[j] \notin {"done", "lost"},
         NEW next, step' = [step EXCEPT ![j] = next],
         next \in {"opening", "inspecting", "checking", "writing"} => KindOf[j] # "compact",
         next \in {"summarising", "staging", "revalidating", "renaming"} => KindOf[j] = "compact",
         \A u \in Jobs : u # j => result'[u] = result[u] /\ snapshot'[u] = snapshot[u],
         result'[j] # result[j] => next = "done",
         result'[j] = "ok" => Adds(j),
         Grows(j), Adds(j) => next = "done" /\ (KindOf[j] = "compact" => snapshot'[j].lines = Source.lines)
  PROVE  StepsFit' /\ CheckpointFits'
  <1>1. step \in [Jobs -> Steps]  BY TypeParts DEF JobsType
  <1>2. ~InSeq(Source.lines, j) /\ result[j] = "none"  BY DEF StepsFit, StepFits
  <1>3. \A k \in Jobs : InSeq(Source.lines, k) => snapshot'[k] = snapshot[k]  BY <1>2
  <1>4. Torn \notin Jobs  BY JobsAssumption
  <1>5. CheckpointFits'
    <2>1. CASE Source'.lines = Source.lines  BY <1>3, <2>1, CheckpointStays
    <2>2. CASE Adds(Torn)  BY <1>3, <2>2, CheckpointAdded
    <2>3. CASE Adds(j)  BY <1>3, <2>3, CheckpointAdded
    <2> QED BY <2>1, <2>2, <2>3 DEF Grows
  <1>6. \A u \in Jobs : (InSeq(Source.lines, u) => InSeq(Source'.lines, u))
                        /\ (InSeq(Source'.lines, u) => InSeq(Source.lines, u) \/ (u = j /\ Adds(j)))
    <2>1. CASE Source'.lines = Source.lines  BY <2>1
    <2>2. CASE Adds(Torn)  BY <2>2, <1>4, AddFacts
    <2>3. CASE Adds(j)  BY <2>3, AddFacts
    <2> QED BY <2>1, <2>2, <2>3 DEF Grows
  <1>7. Adds(j) => InSeq(Source'.lines, j)  BY AddFacts
  <1> SUFFICES ASSUME NEW u \in Jobs PROVE StepFits(u)'  BY <1>5 DEF StepsFit
  <1>8. CASE u = j
    <2>1. step'[j] = next  BY <1>1
    <2> QED BY <1>2, <1>6, <1>7, <1>8, <2>1 DEF StepFits
  <1>9. CASE u # j
    <2>1. step'[u] = step[u] /\ result'[u] = result[u]  BY <1>1, <1>9
    <2>2. StepFits(u)  BY DEF StepsFit
    <2> QED BY <1>6, <1>9, <2>1, <2>2 DEF StepFits
  <1> QED BY <1>8, <1>9

\* A job that does not work on the file remembers nothing of it.
LEMMA NotMidway == ASSUME NEW u \in Jobs, ~Midway(u) PROVE FileFits(u)
  BY DEF Midway, FileFits

FilesFit == \A u \in Jobs : FileFits(u)

\* While job j runs the others do not work on the file.
LEMMA OthersFit ==
  ASSUME OneQueue, TypeOK, QueuesFit, NEW j \in Jobs, NEW s, Runs(j, s), NEW next,
         step' = [step EXCEPT ![j] = next], FileFits(j)'
  PROVE  FilesFit'
  <1>1. step \in [Jobs -> Steps]  BY TypeParts DEF JobsType
  <1> SUFFICES ASSUME NEW u \in Jobs, u # j PROVE FileFits(u)'  BY DEF FilesFit
  <1>2. ~Midway(u)  BY Sole DEF QueuesFit
  <1>3. step'[u] = step[u]  BY <1>1
  <1> QED BY <1>2, <1>3 DEF Midway, FileFits

LEMMA InvParts ==
  HistoryInv <=> TypeOK /\ QueuesFit /\ FilesFit /\ StepsFit /\ CheckpointFits
  BY DEF HistoryInv, QueuesFit, FilesFit, StepsFit

LEMMA InvNext ==
  FilesType' /\ JobsType' /\ CountsType' /\ QueuesFit' /\ FilesFit' /\ StepsFit' /\ CheckpointFits'
    => HistoryInv'
  <1>1. FilesType /\ JobsType /\ CountsType /\ QueuesFit /\ FilesFit /\ StepsFit /\ CheckpointFits
          => HistoryInv
    BY InvParts, TypeParts
  <1> QED BY <1>1, PTL

-----------------------------------------------------------------------------
(* Every step keeps the invariant *)

LEMMA CountsStep ==
  ASSUME CountsType, Succeeds \/ Fails, crashes' = crashes
  PROVE  CountsType'
  BY DEF CountsType, Succeeds, Fails

\* A job that runs has neither finished nor perished.
LEMMA RunsFacts ==
  ASSUME HistoryInv, NEW j \in Jobs, NEW s, Runs(j, s), s \in Queued
  PROVE  /\ TypeOK /\ QueuesFit /\ FilesFit /\ StepsFit /\ CheckpointFits
         /\ FilesType /\ JobsType /\ CountsType
         /\ step[j] = s /\ step[j] \notin {"done", "lost"} /\ Line(j) # <<>>
  BY InvParts, TypeParts DEF Runs, Queued, Line

\* A job that gives up without touching anything.
LEMMA Refusal ==
  ASSUME OneQueue, HistoryInv, NEW j \in Jobs, NEW s, s \in Queued, Runs(j, s),
         NEW answer \in Answers \ {"ok"}, Finish(j, answer),
         UNCHANGED <<files, inode, locals>>, Succeeds \/ Fails, crashes' = crashes
  PROVE  HistoryInv'
  <1>1. /\ TypeOK /\ QueuesFit /\ FilesFit /\ StepsFit /\ CheckpointFits
        /\ FilesType /\ JobsType /\ CountsType
        /\ step[j] = s /\ step[j] \notin {"done", "lost"} /\ Line(j) # <<>>
    BY RunsFacts
  <1>2. queue' = Leave(j, answer) /\ step' = [step EXCEPT ![j] = "done"]
        /\ result' = [result EXCEPT ![j] = answer] /\ "done" \in Steps /\ answer \in Answers
    BY DEF Finish, Steps
  <1>3. Source' = Source  BY DEF Source
  <1>4. FilesType'  BY <1>1, <1>3 DEF FilesType, locals
  <1>5. JobsType'  BY <1>1, <1>2, LeaveType
  <1>6. CountsType'  BY <1>1, CountsStep
  <1>7. QueuesFit'  BY <1>1, <1>2, LeaveQueue
  <1>8. step \in [Jobs -> Steps] /\ result \in [Jobs -> Answers]  BY <1>1 DEF JobsType
  <1>9. FilesFit'
    <2>1. FileFits(j)'  BY <1>2, <1>8 DEF FileFits
    <2> QED BY <1>1, <1>2, <2>1, OthersFit
  <1>10. StepsFit' /\ CheckpointFits'
    <2>1. \A u \in Jobs : u # j => result'[u] = result[u] /\ snapshot'[u] = snapshot[u]
      BY <1>2, <1>8 DEF locals
    <2>2. result'[j] # "ok"  BY <1>2, <1>8
    <2>3. Grows(j) /\ ~Adds(j)  BY <1>1, <1>3, AddFacts DEF Grows
    <2> QED BY <1>1, <1>2, <2>1, <2>2, <2>3, HistoryStep
  <1> QED BY <1>4, <1>5, <1>6, <1>7, <1>9, <1>10, InvNext

\* A job that goes on, with the lines as they are.
LEMMA Onward ==
  ASSUME OneQueue, HistoryInv, NEW j \in Jobs, NEW s, s \in Queued, Runs(j, s),
         NEW next \in Queued, Go(j, next), FilesType', Source'.lines = Source.lines,
         FileFits(j)', snapshot' = snapshot,
         next \in {"opening", "inspecting", "checking", "writing"} => KindOf[j] # "compact",
         next \in {"staging", "revalidating", "renaming"} => KindOf[j] = "compact",
         Succeeds \/ Fails, crashes' = crashes
  PROVE  HistoryInv'
  <1>1. /\ TypeOK /\ QueuesFit /\ FilesFit /\ StepsFit /\ CheckpointFits
        /\ FilesType /\ JobsType /\ CountsType
        /\ step[j] = s /\ step[j] \notin {"done", "lost"} /\ Line(j) # <<>>
    BY RunsFacts
  <1>2. step' = [step EXCEPT ![j] = next] /\ result' = result /\ next \in Steps
    BY DEF Go, Steps, Queued
  <1>3. JobsType'  BY <1>1, <1>2, GoType
  <1>4. CountsType'  BY <1>1, CountsStep
  <1>5. QueuesFit'  BY <1>1, GoQueue
  <1>6. FilesFit'  BY <1>1, <1>2, OthersFit
  <1>7. StepsFit' /\ CheckpointFits'
    <2>1. Grows(j) /\ ~Adds(j)  BY <1>1, AddFacts DEF Grows
    <2>2. result[j] = "none"  BY <1>1 DEF StepsFit, StepFits
    <2>3. next # "summarising"  BY DEF Queued
    <2> QED BY <1>1, <1>2, <2>1, <2>2, <2>3, HistoryStep
  <1> QED BY <1>3, <1>4, <1>5, <1>6, <1>7, InvNext

LEMMA CallKeeps == ASSUME OneQueue, HistoryInv, NEW j \in Jobs, Call(j) PROVE HistoryInv'
  <1> DEFINE next == IF KindOf[j] \in {"append", "guarded"} THEN "opening" ELSE "reading"
  <1>1. /\ TypeOK /\ QueuesFit /\ FilesFit /\ StepsFit /\ CheckpointFits
        /\ FilesType /\ JobsType /\ CountsType
    BY InvParts, TypeParts
  <1>2. /\ step[j] = "idle" /\ Enqueue(j, next) /\ step' = [step EXCEPT ![j] = next]
        /\ UNCHANGED <<files, inode, locals, result, faults, crashes>>
    BY DEF Call, Enqueue
  <1>3. step \in [Jobs -> Steps]  BY <1>1 DEF JobsType
  <1>4. Source' = Source  BY <1>2 DEF Source
  <1>5. FilesType' /\ CountsType'  BY <1>1, <1>2, <1>4 DEF FilesType, CountsType, locals
  <1>6. /\ next \in {"reading", "opening"} /\ next \in Steps
        /\ (next = "opening" => KindOf[j] \notin {"reserve", "commit", "compact"})
    BY DEF Steps
  <1> HIDE DEF next
  <1>7. JobsType'  BY <1>1, <1>2, <1>6, EnterType
  <1>8. step[j] \notin Queued  BY <1>2 DEF Queued
  <1>9. QueuesFit'  BY <1>1, <1>2, <1>6, <1>8, EnterQueue
  <1>10. FilesFit'
    <2> SUFFICES ASSUME NEW u \in Jobs PROVE FileFits(u)'  BY DEF FilesFit
    <2>1. CASE u = j
      <3>1. step'[u] = next  BY <1>2, <1>3, <2>1
      <3> QED BY <1>6, <3>1 DEF FileFits
    <2>2. CASE u # j
      <3>1. step'[u] = step[u]  BY <1>2, <1>3, <2>2
      <3>2. FileFits(u)  BY <1>1 DEF FilesFit
      <3> QED BY <1>2, <1>4, <3>1, <3>2 DEF FileFits, locals
    <2> QED BY <2>1, <2>2
  <1>11. StepsFit' /\ CheckpointFits'
    <2>1. Grows(j) /\ ~Adds(j)  BY <1>1, <1>4, AddFacts DEF Grows
    <2>2. result[j] = "none"  BY <1>1, <1>2 DEF StepsFit, StepFits
    <2>3. next = "opening" => KindOf[j] # "compact"  BY <1>6
    <2>4. /\ \A u \in Jobs : u # j => result'[u] = result[u] /\ snapshot'[u] = snapshot[u]
          /\ result'[j] = result[j] /\ result'[j] # "ok"
      BY <1>2, <2>2 DEF locals
    <2>5. step[j] \notin {"done", "lost"}  BY <1>2
    <2> QED BY <1>1, <1>2, <1>6, <2>1, <2>3, <2>4, <2>5, HistoryStep
  <1> QED BY <1>5, <1>7, <1>9, <1>10, <1>11, InvNext

LEMMA DecideKeeps == ASSUME OneQueue, HistoryInv, NEW j \in Jobs, Decide(j) PROVE HistoryInv'
  <1>1. /\ Runs(j, "reading") /\ KindOf[j] \in {"reserve", "commit"} /\ "reading" \in Queued
        /\ UNCHANGED <<files, inode, locals, crashes>> /\ (Succeeds \/ Fails)
        /\ (Go(j, "opening") \/ \E answer \in Answers \ {"ok"} : Finish(j, answer))
    <2>1. \A a : \/ ReservationAnswer(Events(Source), a) \in {"write", "existing", "owned", "history"}
      BY DEF ReservationAnswer
    <2>2. \A a : CommitAnswer(Events(Source), a) \in {"write", "rejected", "duplicate"}
      BY DEF CommitAnswer, Admission
    <2> QED BY <2>1, <2>2 DEF Decide, Answers, Queued
  <1>2. CASE \E answer \in Answers \ {"ok"} : Finish(j, answer)
    BY <1>1, <1>2, Refusal
  <1>3. CASE Go(j, "opening")
    <2>1. FilesType /\ JobsType /\ step[j] = "reading"  BY <1>1, RunsFacts
    <2>2. Source' = Source  BY <1>1 DEF Source
    <2>3. FilesType'  BY <1>1, <2>1, <2>2 DEF FilesType, locals
    <2>4. FileFits(j)'  BY <1>3, <2>1 DEF FileFits, Go, JobsType
    <2>5. "opening" \in Queued /\ snapshot' = snapshot  BY <1>1 DEF Queued, locals
    <2> QED BY <1>1, <1>3, <2>2, <2>3, <2>4, <2>5, Onward
  <1> QED BY <1>1, <1>2, <1>3

LEMMA OpenKeeps == ASSUME OneQueue, HistoryInv, NEW j \in Jobs, Open(j) PROVE HistoryInv'
  <1>1. /\ Runs(j, "opening") /\ "opening" \in Queued /\ (Succeeds \/ Fails) /\ crashes' = crashes
        /\ UNCHANGED <<bare, snapshot, temp>>
    BY DEF Open, Queued
  <1>2. TypeOK /\ FilesType /\ JobsType /\ StepsFit /\ step[j] = "opening"  BY <1>1, RunsFacts
  <1>3. CASE Finish(j, "error") /\ UNCHANGED <<files, inode, handle>>
    <2>1. "error" \in Answers \ {"ok"} /\ UNCHANGED <<files, inode, locals>>
      BY <1>1, <1>3 DEF Answers, locals
    <2> QED BY <1>1, <1>3, <2>1, Refusal
  <1>4. CASE /\ Go(j, "inspecting")
             /\ IF inode = 0 THEN files' = Append(files, Empty) /\ inode' = Len(files) + 1
                ELSE UNCHANGED <<files, inode>>
             /\ handle' = [handle EXCEPT ![j] = inode']
    <2>1. /\ Source'.lines = Source.lines /\ Proper(Source')
          /\ files' \in Seq(FileType) /\ inode' \in 0..Len(files') /\ inode' # 0
          /\ Len(files) <= Len(files')
      <3>1. CASE inode = 0
        <4>1. files' = Append(files, Empty) /\ inode' = Len(files) + 1  BY <1>4, <3>1
        <4>2. /\ Source' = Empty /\ files' \in Seq(FileType) /\ Len(files') = Len(files) + 1
              /\ inode' # 0
          BY <1>2, <4>1, NoFileFacts, Replaced
        <4>3. Source = NoFile  BY <3>1 DEF Source
        <4>4. Len(files) \in Nat  BY <1>2 DEF FilesType
        <4> QED BY <4>1, <4>2, <4>3, <4>4, NoFileFacts
      <3>2. CASE inode # 0
        <4>1. files' = files /\ inode' = inode  BY <1>4, <3>2
        <4>2. Source' = Source  BY <4>1 DEF Source
        <4> QED BY <1>2, <3>2, <4>1, <4>2 DEF FilesType
      <3> QED BY <3>1, <3>2
    <2>2. FilesType'
      <3>1. handle \in [Jobs -> 0..Len(files)] /\ Len(files) \in Nat /\ Len(files') \in Nat
        BY <1>2, <2>1 DEF FilesType
      <3>2. handle' \in [Jobs -> 0..Len(files')]  BY <3>1, <1>4, <2>1
      <3> QED BY <1>1, <1>2, <2>1, <3>2 DEF FilesType
    <2>3. FileFits(j)'
      <3>1. step'[j] = "inspecting" /\ handle'[j] = inode'
        BY <1>2, <1>4 DEF Go, JobsType, FilesType
      <3> QED BY <2>1, <3>1 DEF FileFits
    <2>4. KindOf[j] # "compact"  BY <1>2 DEF StepsFit, StepFits
    <2>5. "inspecting" \in Queued  BY DEF Queued
    <2> QED BY <1>1, <1>4, <2>1, <2>2, <2>3, <2>4, <2>5, Onward
  <1> QED BY <1>3, <1>4 DEF Open

LEMMA InspectKeeps == ASSUME OneQueue, HistoryInv, NEW j \in Jobs, Inspect(j) PROVE HistoryInv'
  <1>1. /\ Runs(j, "inspecting") /\ "inspecting" \in Queued /\ (Succeeds \/ Fails) /\ crashes' = crashes
        /\ UNCHANGED <<files, inode, handle, snapshot, temp>>
    BY DEF Inspect, Queued
  <1>2. TypeOK /\ FilesType /\ JobsType /\ StepsFit /\ FilesFit /\ step[j] = "inspecting"
    BY <1>1, RunsFacts
  <1>3. CASE Finish(j, "error") /\ UNCHANGED bare
    <2>1. "error" \in Answers \ {"ok"} /\ UNCHANGED <<files, inode, locals>>
      BY <1>1, <1>3 DEF Answers, locals
    <2> QED BY <1>1, <1>3, <2>1, Refusal
  <1>4. CASE Go(j, "checking") /\ bare' = IF files[inode].open THEN bare \cup {j} ELSE bare \ {j}
    <2>1. Source' = Source  BY <1>1 DEF Source
    <2>2. FilesType'
      <3>1. bare' \subseteq Jobs  BY <1>2, <1>4 DEF FilesType
      <3> QED BY <1>1, <1>2, <2>1, <3>1 DEF FilesType
    <2>3. FileFits(j)'
      <3>1. step'[j] = "checking" /\ (j \in bare' <=> files[inode].open)
        BY <1>2, <1>4 DEF Go, JobsType
      <3>2. handle[j] = inode /\ inode # 0  BY <1>2 DEF FilesFit, FileFits
      <3> QED BY <1>1, <3>1, <3>2 DEF FileFits
    <2>4. KindOf[j] # "compact"  BY <1>2 DEF StepsFit, StepFits
    <2>5. "checking" \in Queued  BY DEF Queued
    <2> QED BY <1>1, <1>4, <2>1, <2>2, <2>3, <2>4, <2>5, Onward
  <1> QED BY <1>3, <1>4 DEF Inspect

LEMMA CheckKeeps == ASSUME OneQueue, HistoryInv, NEW j \in Jobs, Check(j) PROVE HistoryInv'
  <1>1. /\ Runs(j, "checking") /\ "checking" \in Queued /\ (Succeeds \/ Fails) /\ crashes' = crashes
        /\ UNCHANGED <<files, inode, locals>>
    BY DEF Check, Queued
  <1>2. TypeOK /\ FilesType /\ JobsType /\ StepsFit /\ FilesFit /\ step[j] = "checking"
    BY <1>1, RunsFacts
  <1>3. CASE Finish(j, "error") \/ Finish(j, "stale")
    <2>1. {"error", "stale"} \subseteq Answers \ {"ok"}  BY DEF Answers
    <2> QED BY <1>1, <1>3, <2>1, Refusal
  <1>4. CASE Go(j, "writing")
    <2>1. Source' = Source  BY <1>1 DEF Source
    <2>2. FilesType'  BY <1>1, <1>2, <2>1 DEF FilesType, locals
    <2>3. FileFits(j)'
      <3>1. step'[j] = "writing"  BY <1>2, <1>4 DEF Go, JobsType
      <3>2. FileFits(j)  BY <1>2 DEF FilesFit
      <3> QED BY <1>1, <1>2, <3>1, <3>2 DEF FileFits, locals
    <2>4. KindOf[j] # "compact"  BY <1>2 DEF StepsFit, StepFits
    <2>5. "writing" \in Queued /\ snapshot' = snapshot  BY <1>1 DEF Queued, locals
    <2> QED BY <1>1, <1>4, <2>1, <2>2, <2>3, <2>4, <2>5, Onward
  <1> QED BY <1>3, <1>4 DEF Check

\* A job that ends having put something in the file.
LEMMA Ending ==
  ASSUME OneQueue, HistoryInv, NEW j \in Jobs, NEW s, s \in Queued, Runs(j, s),
         NEW answer \in {"ok", "error"}, Finish(j, answer), UNCHANGED <<locals, crashes>>,
         Succeeds \/ Fails, FilesType', Grows(j), answer = "ok" => Adds(j),
         Adds(j) => (KindOf[j] = "compact" => snapshot[j].lines = Source.lines)
  PROVE  HistoryInv'
  <1>1. /\ TypeOK /\ QueuesFit /\ FilesFit /\ StepsFit /\ CheckpointFits
        /\ FilesType /\ JobsType /\ CountsType
        /\ step[j] = s /\ step[j] \notin {"done", "lost"} /\ Line(j) # <<>>
    BY RunsFacts
  <1>2. queue' = Leave(j, answer) /\ step' = [step EXCEPT ![j] = "done"]
        /\ result' = [result EXCEPT ![j] = answer] /\ "done" \in Steps /\ answer \in Answers
    BY DEF Finish, Steps, Answers
  <1>3. JobsType' /\ CountsType' /\ QueuesFit'
    BY <1>1, <1>2, LeaveType, CountsStep, LeaveQueue
  <1>4. step \in [Jobs -> Steps] /\ result \in [Jobs -> Answers]  BY <1>1 DEF JobsType
  <1>5. FilesFit'
    <2>1. FileFits(j)'  BY <1>2, <1>4 DEF FileFits
    <2> QED BY <1>1, <1>2, <2>1, OthersFit
  <1>6. StepsFit' /\ CheckpointFits'
    <2>1. /\ \A u \in Jobs : u # j => result'[u] = result[u] /\ snapshot'[u] = snapshot[u]
          /\ result'[j] = "ok" => Adds(j)
          /\ Adds(j) => (KindOf[j] = "compact" => snapshot'[j].lines = Source.lines)
      BY <1>2, <1>4 DEF locals
    <2> QED BY <1>1, <1>2, <2>1, HistoryStep
  <1> QED BY <1>3, <1>5, <1>6, InvNext

\* What a write of job j can leave of the file.
LEMMA WriteEffect ==
  ASSUME HistoryInv, NEW j \in Jobs, step[j] = "writing", inode' = inode,
         NEW left, files' = [files EXCEPT ![handle[j]] = left],
         left \in Cut(files[handle[j]], j, j \in bare)
                    \cup {Appended(files[handle[j]], j, j \in bare)}
  PROVE  /\ files' \in Seq(FileType) /\ Len(files') = Len(files) /\ Proper(Source') /\ Grows(j)
         /\ left = Appended(files[handle[j]], j, j \in bare) => Adds(j)
  <1>1. TypeOK /\ FileFits(j)  BY DEF HistoryInv
  <1>2. handle[j] = inode /\ inode # 0 /\ (j \in bare <=> files[inode].open)
    BY <1>1 DEF FileFits
  <1>3. Source = files[inode] /\ Proper(Source)  BY <1>1, <1>2, SourceType
  <1>4. left \in Cut(Source, j, j \in bare)  BY <1>2, <1>3 DEF Cut
  <1>5. (j \in bare) \in BOOLEAN /\ (Source.open <=> j \in bare)  BY <1>2, <1>3
  <1>6. Proper(left) /\ left.lines \in {Source.lines, Append(Source.lines, j), Append(Source.lines, Torn)}
    BY <1>3, <1>4, <1>5, CutFacts
  <1>7. Source' = left /\ files' \in Seq(FileType) /\ Len(files') = Len(files)
    BY <1>1, <1>2, <1>6, Touched
  <1>8. Grows(j)  BY <1>6, <1>7 DEF Grows, Adds
  <1>9. left = Appended(files[handle[j]], j, j \in bare) => Adds(j)
    <2>1. Source \in FileType  BY <1>3 DEF Proper
    <2>2. Appended(Source, j, j \in bare).lines = Append(Source.lines, j)
      BY <1>5, <2>1, AppendedFacts
    <2> QED BY <1>2, <1>3, <1>7, <2>2 DEF Adds
  <1> QED BY <1>6, <1>7, <1>8, <1>9

LEMMA WriteKeeps == ASSUME OneQueue, HistoryInv, NEW j \in Jobs, Write(j) PROVE HistoryInv'
  <1>1. /\ Runs(j, "writing") /\ "writing" \in Queued /\ UNCHANGED <<inode, locals, crashes>>
        /\ (Succeeds \/ Fails)
    BY DEF Write, Queued
  <1>2. FilesType /\ StepsFit /\ step[j] = "writing"  BY <1>1, RunsFacts
  <1>3. PICK left : /\ files' = [files EXCEPT ![handle[j]] = left]
                    /\ left \in Cut(files[handle[j]], j, j \in bare)
                                  \cup {Appended(files[handle[j]], j, j \in bare)}
                    /\ \/ Finish(j, "error")
                       \/ Finish(j, "ok") /\ left = Appended(files[handle[j]], j, j \in bare)
    <2>1. CASE /\ Finish(j, "ok")
               /\ files' = [files EXCEPT ![handle[j]] = Appended(@, j, j \in bare)]
      BY <2>1
    <2>2. CASE /\ Finish(j, "error")
               /\ \E left \in Cut(files[handle[j]], j, j \in bare) :
                     files' = [files EXCEPT ![handle[j]] = left]
      BY <2>2
    <2> QED BY <2>1, <2>2 DEF Write
  <1>4. /\ files' \in Seq(FileType) /\ Len(files') = Len(files) /\ Proper(Source') /\ Grows(j)
        /\ left = Appended(files[handle[j]], j, j \in bare) => Adds(j)
    BY <1>1, <1>2, <1>3, WriteEffect
  <1>5. FilesType'  BY <1>1, <1>2, <1>4 DEF FilesType, locals
  <1>6. KindOf[j] # "compact"  BY <1>2 DEF StepsFit, StepFits
  <1> QED BY <1>1, <1>3, <1>4, <1>5, <1>6, Ending

LEMMA ReadForCompactionKeeps ==
  ASSUME OneQueue, HistoryInv, NEW j \in Jobs, ReadForCompaction(j) PROVE HistoryInv'
  <1>1. /\ Runs(j, "reading") /\ KindOf[j] = "compact" /\ "reading" \in Queued
        /\ UNCHANGED <<files, inode, handle, bare, temp, crashes>> /\ (Succeeds \/ Fails)
    BY DEF ReadForCompaction, Queued
  <1>2. /\ TypeOK /\ QueuesFit /\ FilesFit /\ StepsFit /\ CheckpointFits
        /\ FilesType /\ JobsType /\ CountsType
        /\ step[j] = "reading" /\ step[j] \notin {"done", "lost"} /\ Line(j) # <<>>
    BY <1>1, RunsFacts
  <1>3. CASE Finish(j, "error") /\ UNCHANGED snapshot
    <2>1. "error" \in Answers \ {"ok"} /\ UNCHANGED <<files, inode, locals>>
      BY <1>1, <1>3 DEF Answers, locals
    <2> QED BY <1>1, <1>3, <2>1, Refusal
  <1>4. CASE /\ snapshot' = [snapshot EXCEPT ![j] = Source] /\ queue' = Leave(j, "ok")
             /\ step' = [step EXCEPT ![j] = "summarising"] /\ UNCHANGED result
    <2>1. Source' = Source  BY <1>1 DEF Source
    <2>2. FilesType'
      <3>1. snapshot' \in [Jobs -> FileType]  BY <1>2, <1>4 DEF FilesType, Proper
      <3> QED BY <1>1, <1>2, <2>1, <3>1 DEF FilesType
    <2>3. JobsType' /\ CountsType' /\ QueuesFit'
      <3>1. "summarising" \in Steps /\ "none" \in Answers  BY DEF Steps, Answers
      <3> QED BY <1>1, <1>2, <1>4, <3>1, LeaveType, LeaveQueue, CountsStep
    <2>4. step \in [Jobs -> Steps] /\ snapshot \in [Jobs -> FileType]
      BY <1>2 DEF JobsType, FilesType
    <2>5. FilesFit'
      <3>1. FileFits(j)'  BY <1>4, <2>4 DEF FileFits
      <3> QED BY <1>1, <1>2, <1>4, <3>1, OthersFit
    <2>6. StepsFit' /\ CheckpointFits'
      <3>1. Grows(j) /\ ~Adds(j)  BY <1>2, <2>1, AddFacts DEF Grows
      <3>2. result[j] = "none"  BY <1>2 DEF StepsFit, StepFits
      <3>3. \A u \in Jobs : u # j => result'[u] = result[u] /\ snapshot'[u] = snapshot[u]
        BY <1>4, <2>4
      <3>4. result'[j] = result[j] /\ result'[j] # "ok"  BY <1>4, <3>2
      <3> QED BY <1>1, <1>2, <1>4, <3>1, <3>3, <3>4, HistoryStep
    <2> QED BY <2>2, <2>3, <2>5, <2>6, InvNext
  <1> QED BY <1>3, <1>4 DEF ReadForCompaction

LEMMA SummariseKeeps == ASSUME OneQueue, HistoryInv, NEW j \in Jobs, Summarise(j) PROVE HistoryInv'
  <1>1. /\ TypeOK /\ QueuesFit /\ FilesFit /\ StepsFit /\ CheckpointFits
        /\ FilesType /\ JobsType /\ CountsType
    BY InvParts, TypeParts
  <1>2. /\ step[j] = "summarising" /\ step[j] \notin {"done", "lost"} /\ step[j] \notin Queued
        /\ UNCHANGED <<files, inode, locals, faults, crashes>>
    BY DEF Summarise, Queued
  <1>3. step \in [Jobs -> Steps] /\ result \in [Jobs -> Answers]  BY <1>1 DEF JobsType
  <1>4. Source' = Source  BY <1>2 DEF Source
  <1>5. FilesType' /\ CountsType'  BY <1>1, <1>2, <1>4 DEF FilesType, CountsType, locals
  <1>6. PICK next \in {"staging", "done"} :
          /\ step' = [step EXCEPT ![j] = next]
          /\ \/ next = "staging" /\ Enqueue(j, next) /\ UNCHANGED result
             \/ next = "done" /\ UNCHANGED queue /\ result' = [result EXCEPT ![j] = "error"]
    BY DEF Summarise, Enqueue
  <1>7. KindOf[j] = "compact" /\ result[j] = "none"  BY <1>1, <1>2 DEF StepsFit, StepFits
  <1>8. JobsType' /\ QueuesFit'
    <2>1. CASE next = "staging" /\ Enqueue(j, next) /\ UNCHANGED result
      <3>1. next \in Steps /\ next \in {"reading", "opening", "staging"} /\ next # "opening"
        BY <2>1 DEF Steps
      <3>2. JobsType'  BY <1>1, <2>1, <3>1, EnterType
      <3>3. QueuesFit'  BY <1>1, <1>2, <2>1, <3>1, EnterQueue
      <3> QED BY <3>2, <3>3
    <2>2. CASE next = "done" /\ UNCHANGED queue /\ result' = [result EXCEPT ![j] = "error"]
      <3>1. JobsType'
        <4>1. "done" \in Steps /\ "error" \in Answers  BY DEF Steps, Answers
        <4> QED BY <1>1, <1>6, <2>2, <4>1 DEF JobsType
      <3>2. ASSUME NEW u \in Jobs PROVE QueueFits(u)'
        <4>1. QueueFits(u) /\ Line(u)' = Line(u)  BY <1>1, <2>2 DEF QueuesFit, Line
        <4>2. \A k \in Jobs : k # j => step'[k] = step[k]  BY <1>3, <1>6
        <4>3. step'[j] = "done"  BY <1>3, <1>6, <2>2
        <4>4. \A k \in Jobs : InSeq(Line(u), k) => k # j  BY <1>2, <4>1 DEF QueueFits
        <4>5. Midway(u)' => u # j /\ Midway(u)  BY <4>2, <4>3 DEF Midway
        <4> QED BY <4>1, <4>2, <4>4, <4>5 DEF QueueFits
      <3> QED BY <3>1, <3>2 DEF QueuesFit
    <2> QED BY <1>6, <2>1, <2>2
  <1>9. FilesFit'
    <2> SUFFICES ASSUME NEW u \in Jobs PROVE FileFits(u)'  BY DEF FilesFit
    <2>1. CASE u = j
      <3>1. step'[u] \in {"staging", "done"}  BY <1>3, <1>6, <2>1
      <3> QED BY <3>1 DEF FileFits
    <2>2. CASE u # j
      <3>1. step'[u] = step[u]  BY <1>3, <1>6, <2>2
      <3>2. FileFits(u)  BY <1>1 DEF FilesFit
      <3> QED BY <1>2, <1>4, <3>1, <3>2 DEF FileFits, locals
    <2> QED BY <2>1, <2>2
  <1>10. StepsFit' /\ CheckpointFits'
    <2>1. Grows(j) /\ ~Adds(j)  BY <1>1, <1>4, AddFacts DEF Grows
    <2>2. /\ \A u \in Jobs : u # j => result'[u] = result[u] /\ snapshot'[u] = snapshot[u]
          /\ result'[j] # result[j] => next = "done"
          /\ result'[j] # "ok"
      BY <1>2, <1>3, <1>6, <1>7 DEF locals
    <2> QED BY <1>1, <1>2, <1>6, <1>7, <2>1, <2>2, HistoryStep
  <1> QED BY <1>5, <1>8, <1>9, <1>10, InvNext

LEMMA StageKeeps == ASSUME OneQueue, HistoryInv, NEW j \in Jobs, Stage(j) PROVE HistoryInv'
  <1>1. /\ Runs(j, "staging") /\ "staging" \in Queued /\ (Succeeds \/ Fails) /\ crashes' = crashes
        /\ UNCHANGED <<files, inode, bare, snapshot>>
    BY DEF Stage, Queued
  <1>2. TypeOK /\ FilesType /\ JobsType /\ StepsFit /\ step[j] = "staging"  BY <1>1, RunsFacts
  <1>3. CASE Finish(j, "error") /\ UNCHANGED <<handle, temp>>
    <2>1. "error" \in Answers \ {"ok"} /\ UNCHANGED <<files, inode, locals>>
      BY <1>1, <1>3 DEF Answers, locals
    <2> QED BY <1>1, <1>3, <2>1, Refusal
  <1>4. CASE /\ SameRevision(Source, snapshot[j]) /\ Go(j, "revalidating")
             /\ handle' = [handle EXCEPT ![j] = inode]
             /\ temp' = [temp EXCEPT ![j] = [Appended(Source, j, Source.open) EXCEPT !.exists = TRUE]]
    <2>1. Source' = Source  BY <1>1 DEF Source
    <2>2. /\ [Appended(Source, j, Source.open) EXCEPT !.exists = TRUE] \in FileType
          /\ [Appended(Source, j, Source.open) EXCEPT !.exists = TRUE].lines = Append(Source.lines, j)
      <3>1. Source \in FileType /\ Source.open \in BOOLEAN  BY <1>2, SourceType DEF Proper, FileType
      <3> QED BY <3>1, AppendedFacts
    <2>3. temp' \in [Jobs -> FileType] /\ temp'[j].lines = Append(Source.lines, j)
          /\ handle' \in [Jobs -> 0..Len(files)]
      <3>1. temp \in [Jobs -> FileType] /\ handle \in [Jobs -> 0..Len(files)] /\ inode \in 0..Len(files)
        BY <1>2 DEF FilesType
      <3> HIDE DEF Appended
      <3>2. temp' \in [Jobs -> FileType]  BY <1>4, <2>2, <3>1
      <3>3. temp'[j].lines = Append(Source.lines, j)  BY <1>4, <2>2, <3>1
      <3>4. handle' \in [Jobs -> 0..Len(files)]  BY <1>4, <3>1
      <3> QED BY <3>2, <3>3, <3>4
    <2>4. FilesType'  BY <1>1, <1>2, <2>1, <2>3 DEF FilesType
    <2>5. FileFits(j)'
      <3>1. step'[j] = "revalidating"  BY <1>2, <1>4 DEF Go, JobsType
      <3>2. Source = snapshot[j]  BY <1>4 DEF SameRevision
      <3> QED BY <1>1, <2>1, <2>3, <3>1, <3>2 DEF FileFits
    <2>6. KindOf[j] = "compact"  BY <1>2 DEF StepsFit, StepFits
    <2>7. "revalidating" \in Queued  BY DEF Queued
    <2> QED BY <1>1, <1>4, <2>1, <2>4, <2>5, <2>6, <2>7, Onward
  <1> QED BY <1>3, <1>4 DEF Stage

LEMMA RevalidateKeeps == ASSUME OneQueue, HistoryInv, NEW j \in Jobs, Revalidate(j) PROVE HistoryInv'
  <1>1. /\ Runs(j, "revalidating") /\ "revalidating" \in Queued /\ (Succeeds \/ Fails)
        /\ UNCHANGED <<files, inode, locals, crashes>>
    BY DEF Revalidate, Queued
  <1>2. TypeOK /\ FilesType /\ JobsType /\ StepsFit /\ FilesFit /\ step[j] = "revalidating"
    BY <1>1, RunsFacts
  <1>3. CASE Finish(j, "error")
    <2>1. "error" \in Answers \ {"ok"}  BY DEF Answers
    <2> QED BY <1>1, <1>3, <2>1, Refusal
  <1>4. CASE Go(j, "renaming")
    <2>1. Source' = Source  BY <1>1 DEF Source
    <2>2. FilesType'  BY <1>1, <1>2, <2>1 DEF FilesType, locals
    <2>3. FileFits(j)'
      <3>1. step'[j] = "renaming"  BY <1>2, <1>4 DEF Go, JobsType
      <3>2. FileFits(j)  BY <1>2 DEF FilesFit
      <3> QED BY <1>1, <1>2, <2>1, <3>1, <3>2 DEF FileFits, locals
    <2>4. KindOf[j] = "compact"  BY <1>2 DEF StepsFit, StepFits
    <2>5. "renaming" \in Queued /\ snapshot' = snapshot  BY <1>1 DEF Queued, locals
    <2> QED BY <1>1, <1>4, <2>1, <2>2, <2>3, <2>4, <2>5, Onward
  <1> QED BY <1>3, <1>4 DEF Revalidate

\* What a rename of job j puts at the path.
LEMMA RenameEffect ==
  ASSUME HistoryInv, NEW j \in Jobs, step[j] = "renaming",
         files' = Append(files, temp[j]), inode' = Len(files) + 1
  PROVE  /\ files' \in Seq(FileType) /\ Len(files') = Len(files) + 1 /\ Proper(Source')
         /\ inode' \in 0..Len(files') /\ Source' = temp[j] /\ Adds(j)
         /\ snapshot[j].lines = Source.lines
  <1>1. TypeOK /\ FileFits(j) /\ FilesType  BY TypeParts DEF HistoryInv
  <1>2. Source = snapshot[j] /\ temp[j].lines = Append(Source.lines, j)  BY <1>1 DEF FileFits
  <1>3. temp[j] \in FileType /\ Len(files) \in Nat  BY <1>1 DEF FilesType
  <1>4. Append(Source.lines, j) # <<>>
    <2>1. Source.lines \in Seq(Jobs \cup {Torn})  BY <1>1, LinesType
    <2> QED BY <2>1
  <1>5. Proper(temp[j])  BY <1>2, <1>3, <1>4 DEF Proper
  <1>6. Source' = temp[j] /\ files' \in Seq(FileType) /\ Len(files') = Len(files) + 1
    BY <1>1, <1>5, Replaced
  <1>7. Adds(j)  BY <1>2, <1>6 DEF Adds
  <1> QED BY <1>2, <1>3, <1>5, <1>6, <1>7

LEMMA RenameKeeps == ASSUME OneQueue, HistoryInv, NEW j \in Jobs, Rename(j) PROVE HistoryInv'
  <1>1. /\ Runs(j, "renaming") /\ "renaming" \in Queued /\ (Succeeds \/ Fails)
        /\ UNCHANGED <<locals, crashes>>
        /\ Finish(j, IF Source' = temp[j] THEN "ok" ELSE "error")
    BY DEF Rename, Queued
  <1>2. TypeOK /\ FilesType /\ FilesFit /\ step[j] = "renaming"  BY <1>1, RunsFacts
  <1>3. CASE files' = Append(files, temp[j]) /\ inode' = Len(files) + 1
    <2>1. /\ files' \in Seq(FileType) /\ Len(files') = Len(files) + 1 /\ Proper(Source')
          /\ inode' \in 0..Len(files') /\ Source' = temp[j] /\ Adds(j)
          /\ snapshot[j].lines = Source.lines
      BY <1>2, <1>3, RenameEffect
    <2>2. FilesType'
      <3>1. handle \in [Jobs -> 0..Len(files)] /\ Len(files) \in Nat  BY <1>2 DEF FilesType
      <3>2. handle \in [Jobs -> 0..Len(files')]  BY <2>1, <3>1
      <3> QED BY <1>1, <1>2, <2>1, <3>2 DEF FilesType, locals
    <2>3. Finish(j, "ok") /\ Grows(j)  BY <1>1, <2>1 DEF Grows
    <2> QED BY <1>1, <2>1, <2>2, <2>3, Ending
  <1>4. CASE UNCHANGED <<files, inode>>
    <2>1. Source' = Source  BY <1>4 DEF Source
    <2>2. Source # temp[j]
      <3>1. temp[j].lines = Append(Source.lines, j)  BY <1>2 DEF FilesFit, FileFits
      <3>2. Source.lines \in Seq(Jobs \cup {Torn})  BY <1>2, LinesType
      <3>3. Append(Source.lines, j) # Source.lines  BY <3>2
      <3> QED BY <3>1, <3>3
    <2>3. Finish(j, "error") /\ "error" \in Answers \ {"ok"}  BY <1>1, <2>1, <2>2 DEF Answers
    <2> QED BY <1>1, <1>4, <2>3, Refusal
  <1> QED BY <1>3, <1>4 DEF Rename

\* A crash leaves the lines, or these and what was being written.
LEMMA CrashEffect ==
  ASSUME HistoryInv, NEW p \in Processes, Crash(p)
  PROVE  /\ FilesType'
         /\ \/ Source'.lines = Source.lines \/ Adds(Torn)
            \/ \E j \in Jobs : step[j] = "writing" /\ step'[j] = "lost" /\ Adds(j)
  <1>1. TypeOK /\ FilesType /\ JobsType  BY TypeParts DEF HistoryInv
  <1>2. UNCHANGED <<inode, locals>>  BY DEF Crash
  <1>3. CASE UNCHANGED files
    <2>1. Source' = Source  BY <1>2, <1>3 DEF Source
    <2>2. FilesType'  BY <1>1, <1>2, <1>3, <2>1 DEF FilesType, locals
    <2> QED BY <2>1, <2>2
  <1>4. ASSUME NEW j \in Jobs, ProcessOf[j] = p, step[j] = "writing",
               NEW left \in Cut(files[handle[j]], j, j \in bare),
               files' = [files EXCEPT ![handle[j]] = left]
        PROVE  FilesType' /\ step'[j] = "lost" /\ Grows(j)
    <2>1. files' \in Seq(FileType) /\ Len(files') = Len(files) /\ Proper(Source') /\ Grows(j)
      BY <1>2, <1>4, WriteEffect
    <2>2. FilesType'  BY <1>1, <1>2, <2>1 DEF FilesType, locals
    <2>3. step'[j] = "lost"  BY <1>4 DEF Crash
    <2> QED BY <2>1, <2>2, <2>3
  <1>5. CASE \E j \in Jobs : /\ ProcessOf[j] = p /\ step[j] = "writing"
                             /\ \E left \in Cut(files[handle[j]], j, j \in bare) :
                                  files' = [files EXCEPT ![handle[j]] = left]
    <2>1. PICK j \in Jobs : /\ ProcessOf[j] = p /\ step[j] = "writing"
                            /\ \E left \in Cut(files[handle[j]], j, j \in bare) :
                                 files' = [files EXCEPT ![handle[j]] = left]
      BY <1>5
    <2>2. FilesType' /\ step'[j] = "lost" /\ Grows(j)  BY <1>4, <2>1
    <2> QED BY <2>1, <2>2 DEF Grows
  <1> QED BY <1>3, <1>5 DEF Crash

LEMMA CrashKeeps == ASSUME OneQueue, HistoryInv, NEW p \in Processes, Crash(p) PROVE HistoryInv'
  <1>1. /\ TypeOK /\ QueuesFit /\ FilesFit /\ StepsFit /\ CheckpointFits
        /\ FilesType /\ JobsType /\ CountsType
    BY InvParts, TypeParts
  <1>2. /\ FilesType'
        /\ \/ Source'.lines = Source.lines \/ Adds(Torn)
           \/ \E j \in Jobs : step[j] = "writing" /\ step'[j] = "lost" /\ Adds(j)
    BY CrashEffect
  <1>3. /\ crashes' = crashes + 1 /\ queue' = [queue EXCEPT ![p] = <<>>]
        /\ UNCHANGED <<inode, locals, result, faults>>
        /\ \A u \in Jobs : step'[u] = IF ProcessOf[u] = p /\ step[u] \notin {"idle", "done"}
                                      THEN "lost" ELSE step[u]
        /\ step' \in [Jobs -> Steps]
    <2>1. step' = [j \in Jobs |-> IF j \in {k \in Jobs : ProcessOf[k] = p /\ step[k] \notin {"idle", "done"}}
                                  THEN "lost" ELSE step[j]]
      BY DEF Crash
    <2>2. step \in [Jobs -> Steps] /\ "lost" \in Steps  BY <1>1 DEF JobsType, Steps
    <2> QED BY <2>1, <2>2 DEF Crash
  <1>4. JobsType' /\ CountsType'
    <2>1. <<>> \in Seq(Jobs)  OBVIOUS
    <2> QED BY <1>1, <1>3, <2>1 DEF JobsType, CountsType
  <1>5. QueuesFit' /\ FilesFit'
    <2>1. CASE \A u \in Jobs : ProcessOf[u] = p
      <3>1. \A u \in Jobs : step'[u] \in {"idle", "done", "lost"} /\ Line(u)' = <<>>
        BY <1>1, <1>3, <2>1, ProcessFacts DEF Line, JobsType
      <3>2. \A u \in Jobs : ~Midway(u)'  BY <3>1 DEF Midway
      <3>3. \A x : ~InSeq(<<>>, x) /\ Distinct(<<>>)  BY DEF InSeq, Distinct
      <3>4. QueuesFit'  BY <3>1, <3>2, <3>3 DEF QueuesFit, QueueFits
      <3>5. FilesFit'  BY <3>1 DEF FilesFit, FileFits
      <3> QED BY <3>4, <3>5
    <2>2. CASE \E u \in Jobs : ProcessOf[u] # p
      <3>1. \A u \in Jobs : ProcessOf[u] # p  BY <2>2 DEF OneQueue
      <3>2. \A u \in Jobs : step'[u] = step[u] /\ Line(u)' = Line(u)
        BY <1>1, <1>3, <3>1, ProcessFacts DEF Line, JobsType
      <3>3. files' = files  BY <3>1 DEF Crash
      <3>4. Source' = Source  BY <1>3, <3>3 DEF Source
      <3>5. ASSUME NEW u \in Jobs PROVE QueueFits(u)' /\ FileFits(u)'
        <4>1. QueueFits(u) /\ FileFits(u)  BY <1>1 DEF QueuesFit, FilesFit
        <4>2. Midway(u)' <=> Midway(u)  BY <3>2 DEF Midway
        <4>3. QueueFits(u)'  BY <3>2, <4>1, <4>2 DEF QueueFits
        <4>4. FileFits(u)'  BY <1>3, <3>2, <3>3, <3>4, <4>1 DEF FileFits, locals
        <4> QED BY <4>3, <4>4
      <3> QED BY <3>5 DEF QueuesFit, FilesFit
    <2> QED BY <2>1, <2>2
  <1>6. StepsFit' /\ CheckpointFits'
    <2>1. snapshot' = snapshot  BY <1>3 DEF locals
    <2>2. CheckpointFits'
      <3>1. CASE Source'.lines = Source.lines  BY <1>1, <2>1, <3>1, CheckpointStays
      <3>2. CASE Adds(Torn)  BY <1>1, <2>1, <3>2, CheckpointAdded
      <3>3. ASSUME NEW j \in Jobs, step[j] = "writing", Adds(j) PROVE CheckpointFits'
        <4>1. KindOf[j] # "compact"  BY <1>1, <3>3 DEF StepsFit, StepFits
        <4> QED BY <1>1, <2>1, <3>3, <4>1, CheckpointAdded
      <3> QED BY <1>2, <3>1, <3>2, <3>3
    <2>3. \A u \in Jobs : (InSeq(Source.lines, u) => InSeq(Source'.lines, u))
             /\ (InSeq(Source'.lines, u) => InSeq(Source.lines, u) \/ step'[u] = "lost")
      <3>1. CASE Source'.lines = Source.lines  BY <3>1
      <3>2. CASE Adds(Torn)  BY <1>1, <3>2, AddFacts, JobsAssumption
      <3>3. ASSUME NEW j \in Jobs, step'[j] = "lost", Adds(j)
            PROVE  \A u \in Jobs : (InSeq(Source.lines, u) => InSeq(Source'.lines, u))
                     /\ (InSeq(Source'.lines, u) => InSeq(Source.lines, u) \/ step'[u] = "lost")
        BY <1>1, <3>3, AddFacts
      <3> QED BY <1>2, <3>1, <3>2, <3>3
    <2>4. ASSUME NEW u \in Jobs PROVE StepFits(u)'
      <3>1. StepFits(u) /\ result' = result  BY <1>1, <1>3 DEF StepsFit
      <3>2. step'[u] = step[u] \/ (step[u] \notin {"idle", "done"} /\ step'[u] = "lost")
        BY <1>3
      <3> QED BY <2>3, <3>1, <3>2 DEF StepFits
    <2> QED BY <2>2, <2>4 DEF StepsFit
  <1> QED BY <1>2, <1>4, <1>5, <1>6, InvNext

-----------------------------------------------------------------------------
(* Theorems about the history *)

LEMMA HistoryInit == Init => HistoryInv
  <1> SUFFICES ASSUME Init PROVE HistoryInv  OBVIOUS
  <1>1. Source = NoFile /\ Proper(Source) /\ Source.lines = <<>>
    BY NoFileFacts DEF Init, Source
  <1>2. FilesType
    <2>1. NoFile \in FileType  BY NoFileFacts DEF Proper
    <2>2. files = <<>> /\ inode = 0 /\ <<>> \in Seq(FileType) /\ Len(<<>>) = 0  BY DEF Init
    <2> QED BY <1>1, <2>1, <2>2 DEF Init, FilesType
  <1>3. JobsType /\ CountsType
    <2>1. <<>> \in Seq(Jobs)  OBVIOUS
    <2> QED BY <2>1 DEF Init, JobsType, CountsType, Steps, Answers
  <1>4. \A x : ~InSeq(<<>>, x) /\ Distinct(<<>>)  BY DEF InSeq, Distinct
  <1>5. ASSUME NEW u \in Jobs PROVE QueueFits(u) /\ FileFits(u) /\ StepFits(u)
    <2>1. Line(u) = <<>> /\ step[u] = "idle" /\ result[u] = "none"
      BY ProcessFacts DEF Init, Line
    <2> QED BY <1>1, <1>4, <2>1 DEF QueueFits, FileFits, StepFits, Midway
  <1>6. CheckpointFits  BY <1>1 DEF CheckpointFits
  <1> QED BY <1>2, <1>3, <1>5, <1>6, TypeParts DEF HistoryInv

LEMMA HistoryNext == ASSUME OneQueue, HistoryInv, [Next]_vars PROVE HistoryInv'
  <1>1. CASE UNCHANGED vars
    <2>1. UNCHANGED <<files, inode, queue, step, handle, bare, snapshot, temp, result, faults, crashes>>
      BY <1>1 DEF vars, locals
    <2>2. Source' = Source  BY <2>1 DEF Source
    <2>3. FilesType' /\ JobsType' /\ CountsType'
      <3>1. FilesType /\ JobsType /\ CountsType  BY TypeParts DEF HistoryInv
      <3> QED BY <2>1, <2>2, <3>1 DEF FilesType, JobsType, CountsType
    <2>4. QueuesFit' /\ FilesFit' /\ StepsFit' /\ CheckpointFits'
      <3>1. \A u \in Jobs : QueueFits(u) /\ FileFits(u) /\ StepFits(u) /\ Line(u)' = Line(u)
        BY <2>1 DEF HistoryInv, Line
      <3>2. \A u \in Jobs : Midway(u)' <=> Midway(u)  BY <2>1 DEF Midway
      <3>3. QueuesFit'  BY <2>1, <3>1, <3>2 DEF QueuesFit, QueueFits
      <3>4. FilesFit'  BY <2>1, <2>2, <3>1 DEF FilesFit, FileFits
      <3>5. StepsFit'  BY <2>1, <2>2, <3>1 DEF StepsFit, StepFits
      <3>6. CheckpointFits'  BY <2>1, <2>2 DEF HistoryInv, CheckpointFits
      <3> QED BY <3>3, <3>4, <3>5, <3>6
    <2> QED BY <2>3, <2>4, InvNext
  <1>2. ASSUME NEW j \in Jobs, Call(j) \/ Run(j) PROVE HistoryInv'
    BY <1>2, CallKeeps, DecideKeeps, OpenKeeps, InspectKeeps, CheckKeeps, WriteKeeps,
       ReadForCompactionKeeps, SummariseKeeps, StageKeeps, RevalidateKeeps, RenameKeeps DEF Run
  <1>3. ASSUME NEW p \in Processes, Crash(p) PROVE HistoryInv'
    BY <1>3, CrashKeeps
  <1> QED BY <1>1, <1>2, <1>3 DEF Next

\* The inductive invariant of the one queue of a file (session-store.ts
\* enqueueOperation): what the job at its head remembers of the file is so.
THEOREM QueueInvariance == ASSUME OneQueue PROVE Spec => []HistoryInv
  <1>1. Init => HistoryInv  BY HistoryInit
  <1>2. HistoryInv /\ [Next]_vars => HistoryInv'  BY HistoryNext
  <1> QED BY <1>1, <1>2, PTL DEF Spec

\* Within one process nothing acknowledged is ever lost, torn or replaced, and
\* each checkpoint stands behind exactly the history it summarises.
THEOREM HistorySurvives == ASSUME OneQueue PROVE Spec => []HistoryIsKept
  <1>1. HistoryInv => HistoryIsKept
    <2> SUFFICES ASSUME HistoryInv PROVE HistoryIsKept  OBVIOUS
    <2>1. AcknowledgedIsKept
      <3> SUFFICES ASSUME NEW j \in Jobs, result[j] = "ok" PROVE j \in Range(Source.lines)
        BY DEF AcknowledgedIsKept
      <3>1. InSeq(Source.lines, j)  BY DEF HistoryInv, StepFits
      <3> QED BY <3>1 DEF InSeq, Range
    <2>2. CheckpointCoversHistory  BY DEF HistoryInv, CheckpointFits, CheckpointCoversHistory
    <2> QED BY <2>1, <2>2 DEF HistoryIsKept
  <1> QED BY <1>1, QueueInvariance, PTL

-----------------------------------------------------------------------------
(* What one more event does to a ledger *)

\* xs is es, of n events, and e behind it.
Extends(n, es, e, xs) ==
  /\ DOMAIN es = 1..n /\ DOMAIN xs = 1..(n + 1)
  /\ \A i \in 1..n : xs[i] = es[i]
  /\ xs[n + 1] = e

\* Which events are the first of their kind is decided by what is before them.
LEMMA UniqueExtended ==
  ASSUME NEW n \in Nat, NEW es, NEW e, NEW xs, Extends(n, es, e, xs)
  PROVE  /\ \A i \in 1..n : i \in Unique(xs) <=> i \in Unique(es)
         /\ Unique(es) \subseteq 1..n
         /\ Unique(xs) \subseteq 1..(n + 1)
         /\ n + 1 \in Unique(xs) <=>
              IsLedger(e) /\ \A j \in 1..n :
                IsLedger(es[j]) => es[j].id # e.id /\ Domain(es[j]) # Domain(e)
  <1>1. \A i \in 1..n : i \in Unique(xs) <=> i \in Unique(es)
    <2> TAKE i \in 1..n
    <2>1. \A j \in 1..i-1 : j \in 1..n /\ xs[j] = es[j]  BY DEF Extends
    <2>2. i \in DOMAIN xs /\ i \in DOMAIN es /\ xs[i] = es[i]  BY DEF Extends
    <2> QED BY <2>1, <2>2 DEF Unique
  <1>2. n + 1 \in Unique(xs) <=>
          IsLedger(e) /\ \A j \in 1..n :
            IsLedger(es[j]) => es[j].id # e.id /\ Domain(es[j]) # Domain(e)
    <2>1. (n + 1) - 1 = n /\ n + 1 \in DOMAIN xs  BY DEF Extends
    <2>2. xs[n + 1] = e /\ \A j \in 1..n : xs[j] = es[j]  BY DEF Extends
    <2> QED BY <2>1, <2>2 DEF Unique
  <1>3. Unique(es) \subseteq 1..n /\ Unique(xs) \subseteq 1..(n + 1)
    BY DEF Unique, Extends
  <1> QED BY <1>1, <1>2, <1>3

LEMMA UniqueBefore ==
  ASSUME NEW n \in Nat, NEW es, NEW e, NEW xs, Extends(n, es, e, xs)
  PROVE  /\ \A k \in Unique(es) : k \in 1..n /\ k \in Unique(xs) /\ xs[k] = es[k]
         /\ \A i \in 1..n : \A k \in Unique(xs) : k < i => k \in Unique(es) /\ xs[k] = es[k]
         /\ \A i \in 1..n : \A k \in 1..i-1 : k \in 1..n /\ xs[k] = es[k]
  <1>1. \A k \in Unique(es) : k \in 1..n /\ k \in Unique(xs) /\ xs[k] = es[k]
    BY UniqueExtended DEF Extends
  <1>2. \A i \in 1..n : \A k \in Unique(xs) : k < i => k \in Unique(es) /\ xs[k] = es[k]
    <2> SUFFICES ASSUME NEW i \in 1..n, NEW k \in Unique(xs), k < i
                 PROVE  k \in Unique(es) /\ xs[k] = es[k]
      OBVIOUS
    <2>1. k \in 1..(n + 1)  BY UniqueExtended
    <2>2. k \in 1..n  BY <2>1
    <2> QED BY <2>2, UniqueExtended DEF Extends
  <1>3. \A i \in 1..n : \A k \in 1..i-1 : k \in 1..n /\ xs[k] = es[k]
    BY DEF Extends
  <1> QED BY <1>1, <1>2, <1>3

\* What was admissible stays so: nothing looks behind an event, but for the
\* creation of an attempt, and what was created stays created.
LEMMA AdmissibleStays ==
  ASSUME NEW n \in Nat, NEW es, NEW e, NEW xs, Extends(n, es, e, xs),
         NEW i \in 1..n, Admissible(es, i)
  PROVE  Admissible(xs, i)
  <1>1. /\ \A k \in Unique(xs) : k < i => k \in Unique(es) /\ xs[k] = es[k]
        /\ \A k \in Unique(es) : k \in Unique(xs) /\ xs[k] = es[k]
        /\ \A k \in 1..i-1 : xs[k] = es[k]
        /\ xs[i] = es[i]
    BY UniqueBefore DEF Extends
  <1>2. \A types, a : Seen(xs, i, types, a) <=> Seen(es, i, types, a)
    BY <1>1 DEF Seen
  <1> DEFINE x == es[i]
  <1>3. x.type = "summary_reserved" => Reservation(xs, i)
    BY <1>1 DEF Admissible, Reservation
  <1>4. x.type \in Verdicts => Verdict(xs, i, x)
    <2> SUFFICES ASSUME x.type \in Verdicts PROVE Verdict(xs, i, x)  OBVIOUS
    <2>1. Verdict(es, i, x)  BY DEF Admissible
    <2> HIDE DEF x
    <2>2. PICK r \in Unique(es) :
             /\ r < i /\ es[r].type = "summary_reserved" /\ es[r].reservation = x.reservation
             /\ \A v \in Unique(es) : v < i => es[v].type \notin Verdicts
             /\ x.type = "summary_committed" =>
                  /\ Seen(es, i, {"succeeded"}, x.attempt)
                  /\ \E c \in Unique(es) : es[c].type = "created" /\ es[c].attempt = x.attempt
                                           /\ es[c].role = "summary" /\ es[c].operation = es[r].operation
      BY <2>1 DEF Verdict
    <2>3. r \in Unique(xs) /\ xs[r] = es[r]  BY <1>1
    <2>4. \A v \in Unique(xs) : v < i => xs[v].type \notin Verdicts  BY <1>1, <2>2
    <2>5. x.type = "summary_committed" =>
            /\ Seen(xs, i, {"succeeded"}, x.attempt)
            /\ \E c \in Unique(xs) : xs[c].type = "created" /\ xs[c].attempt = x.attempt
                                     /\ xs[c].role = "summary" /\ xs[c].operation = xs[r].operation
      BY <1>1, <1>2, <2>2, <2>3
    <2> QED BY <2>2, <2>3, <2>4, <2>5 DEF Verdict
  <1>5. x.type \in Endings \cup {"started"} => Transition(xs, i, x)
    <2> SUFFICES ASSUME x.type \in Endings \cup {"started"} PROVE Transition(xs, i, x)  OBVIOUS
    <2>1. Transition(es, i, x)  BY DEF Admissible
    <2> QED BY <1>2, <2>1 DEF Transition
  <1>6. x.type = "usage" => Usage(xs, i, x)
    <2> SUFFICES ASSUME x.type = "usage" PROVE Usage(xs, i, x)  OBVIOUS
    <2>1. Usage(es, i, x)  BY DEF Admissible
    <2> QED BY <1>1, <2>1 DEF Usage
  <1> QED BY <1>1, <1>3, <1>4, <1>5, <1>6 DEF Admissible

\* Lineage is a matter of the attempts created.
Made(es) == {es[i] : i \in {j \in Unique(es) : es[j].type = "created"}}

LEMMA LineageOf ==
  ASSUME NEW es
  PROVE  Lineage(es) <=>
           /\ \A c \in Made(es) : \A a \in c.links :
                \E d \in Made(es) : d.attempt = a /\ d # c /\ d.operation = c.operation
           /\ \A ring \in (SUBSET Made(es)) \ {{}} : \E c \in ring : \A d \in ring : d.attempt \notin c.links
  BY DEF Lineage, Made

LEMMA LineageStays ==
  ASSUME NEW n \in Nat, NEW es, NEW e, NEW xs, Extends(n, es, e, xs), e.type # "created", Lineage(es)
  PROVE  Lineage(xs)
  <1>1. \A k \in Unique(es) : k \in Unique(xs) /\ xs[k] = es[k]  BY UniqueBefore
  <1>2. \A k \in Unique(xs) : xs[k].type = "created" => k \in Unique(es)
    <2> SUFFICES ASSUME NEW k \in Unique(xs), xs[k].type = "created" PROVE k \in Unique(es)
      OBVIOUS
    <2>1. k \in 1..(n + 1) /\ xs[n + 1] = e  BY UniqueExtended DEF Extends
    <2>2. k \in 1..n  BY <2>1
    <2> QED BY <2>2, UniqueExtended
  <1>3. Made(xs) = Made(es)  BY <1>1, <1>2 DEF Made
  <1> QED BY <1>3, LineageOf

LEMMA LinksStay ==
  ASSUME NEW n \in Nat, NEW es, NEW e, NEW xs, Extends(n, es, e, xs), LinksLeadBack(es),
         e.type = "created" => \A l \in e.links : \E k \in 1..n :
           es[k].type = "created" /\ es[k].attempt = l /\ es[k].operation = e.operation
  PROVE  LinksLeadBack(xs)
  <1> SUFFICES ASSUME NEW i \in DOMAIN xs, xs[i].type = "created", NEW l \in xs[i].links
               PROVE  \E k \in DOMAIN xs : k < i /\ xs[k].type = "created" /\ xs[k].attempt = l
                                           /\ xs[k].operation = xs[i].operation
    BY DEF LinksLeadBack
  <1>1. CASE i \in 1..n
    <2>1. xs[i] = es[i] /\ i \in DOMAIN es  BY <1>1 DEF Extends
    <2>2. PICK k \in DOMAIN es : k < i /\ es[k].type = "created" /\ es[k].attempt = l
                                 /\ es[k].operation = es[i].operation
      BY <2>1 DEF LinksLeadBack
    <2>3. k \in DOMAIN xs /\ xs[k] = es[k]  BY DEF Extends
    <2> QED BY <2>1, <2>2, <2>3
  <1>2. CASE i = n + 1
    <2>1. xs[i] = e  BY <1>2 DEF Extends
    <2>2. PICK k \in 1..n : es[k].type = "created" /\ es[k].attempt = l /\ es[k].operation = e.operation
      BY <2>1
    <2>3. k \in DOMAIN xs /\ xs[k] = es[k] /\ k < i  BY <1>2 DEF Extends
    <2> QED BY <2>1, <2>2, <2>3
  <1>3. i \in 1..(n + 1)  BY DEF Extends
  <1> QED BY <1>1, <1>2, <1>3

LEMMA RepeatsStay ==
  ASSUME NEW n \in Nat, NEW es, NEW e, NEW xs, Extends(n, es, e, xs), NoneRepeats(es),
         IsLedger(e) => n + 1 \in Unique(xs)
  PROVE  NoneRepeats(xs)
  <1> SUFFICES ASSUME NEW i \in DOMAIN xs, IsLedger(xs[i]) PROVE i \in Unique(xs)
    BY DEF NoneRepeats
  <1>1. CASE i \in 1..n
    <2>1. xs[i] = es[i] /\ i \in DOMAIN es  BY <1>1 DEF Extends
    <2>2. i \in Unique(es)  BY <2>1 DEF NoneRepeats
    <2> QED BY <2>2, UniqueBefore
  <1>2. CASE i = n + 1
    BY <1>2 DEF Extends
  <1>3. i \in 1..(n + 1)  BY DEF Extends
  <1> QED BY <1>1, <1>2, <1>3

\* A message or a checkpoint leaves a lawful ledger lawful.
LEMMA ConversationAdded ==
  ASSUME NEW n \in Nat, NEW es, NEW e, NEW xs, Extends(n, es, e, xs), Lawful(es), ~IsLedger(e)
  PROVE  Lawful(xs)
  <1>1. n + 1 \notin Unique(xs)  BY UniqueExtended
  <1>2. \A i \in Unique(xs) : i \in 1..n /\ i \in Unique(es)
    <2> SUFFICES ASSUME NEW i \in Unique(xs) PROVE i \in 1..n  BY UniqueExtended
    <2>1. i \in 1..(n + 1) /\ i # n + 1  BY <1>1, UniqueExtended
    <2> QED BY <2>1
  <1>3. \A i \in Unique(xs) : Admissible(xs, i)
    BY <1>2, AdmissibleStays DEF Lawful, Projects
  <1>4. ~Diverges(xs)
    <2> SUFFICES ASSUME NEW i \in DOMAIN xs, NEW j \in DOMAIN xs, j < i, IsLedger(xs[i]), IsLedger(xs[j])
                 PROVE  IF xs[j].id = xs[i].id THEN xs[j] = xs[i]
                        ELSE Domain(xs[j]) = Domain(xs[i]) => Payload(xs[j]) = Payload(xs[i])
      BY DEF Diverges
    <2>1. i \in 1..(n + 1) /\ j \in 1..(n + 1) /\ i # n + 1 /\ j # n + 1  BY DEF Extends
    <2>2. i \in DOMAIN es /\ j \in DOMAIN es /\ xs[i] = es[i] /\ xs[j] = es[j]
      <3>1. i \in 1..n /\ j \in 1..n  BY <2>1
      <3> QED BY <3>1 DEF Extends
    <2> QED BY <2>2 DEF Lawful, Projects, Diverges
  <1>5. e.type # "created"  BY DEF IsLedger, Conversation
  <1>6. Lineage(xs)  BY <1>5, LineageStays DEF Lawful, Projects
  <1>7. NoneRepeats(xs) /\ LinksLeadBack(xs)  BY <1>5, RepeatsStay, LinksStay DEF Lawful
  <1> QED BY <1>3, <1>4, <1>6, <1>7 DEF Lawful, Projects

\* Only reservations decide who is reserved for.
LEMMA ReservedDomain ==
  ASSUME NEW e, NEW d, d.type = "summary_reserved", Domain(e) = Domain(d)
  PROVE  e.type = "summary_reserved"
  <1>1. Domain(d) = <<"summary_reserved">>  BY DEF Domain, Verdicts
  <1>2. \A a, b : <<"summary_reserved">> # <<a, b>>  OBVIOUS
  <1>3. <<"verdict">> # <<"summary_reserved">>  OBVIOUS
  <1>4. \/ Domain(e) = <<"verdict">> \/ e.type = "summary_reserved"
        \/ Domain(e) = <<"ending", e.attempt>> \/ Domain(e) = <<e.type, e.attempt>>
    BY DEF Domain
  <1> QED BY <1>1, <1>2, <1>3, <1>4

\* A reservation under a new id, of a ledger without reservation and user message.
LEMMA ReservationAdded ==
  ASSUME NEW n \in Nat, NEW es, NEW e, NEW xs, Extends(n, es, e, xs), Lawful(es),
         e.type = "summary_reserved",
         \A i \in 1..n : IsLedger(es[i]) => es[i].id # e.id,
         \A i \in 1..n : es[i].type \notin {"summary_reserved", "user"}
  PROVE  Lawful(xs)
  <1>1. IsLedger(e)  BY DEF IsLedger, Conversation
  <1>2. \A i \in 1..n : Domain(es[i]) # Domain(e)  BY ReservedDomain
  <1>3. n + 1 \in Unique(xs)  BY <1>1, <1>2, UniqueExtended
  <1>4. \A i \in Unique(xs) : Admissible(xs, i)
    <2> SUFFICES ASSUME NEW i \in Unique(xs) PROVE Admissible(xs, i)  OBVIOUS
    <2>1. CASE i \in 1..n
      <3>1. i \in Unique(es)  BY <2>1, UniqueExtended
      <3> QED BY <2>1, <3>1, AdmissibleStays DEF Lawful, Projects
    <2>2. CASE i = n + 1
      <3>1. xs[i] = e  BY <2>2 DEF Extends
      <3>2. \A j \in 1..i-1 : xs[j] = es[j] /\ j \in 1..n  BY <2>2 DEF Extends
      <3>3. Reservation(xs, i)  BY <3>2 DEF Reservation
      <3> QED BY <3>1, <3>3 DEF Admissible, Verdicts, Endings
    <2>3. i \in 1..(n + 1)  BY UniqueExtended
    <2> QED BY <2>1, <2>2, <2>3
  <1>5. ~Diverges(xs)
    <2> SUFFICES ASSUME NEW i \in DOMAIN xs, NEW j \in DOMAIN xs, j < i, IsLedger(xs[i]), IsLedger(xs[j])
                 PROVE  IF xs[j].id = xs[i].id THEN xs[j] = xs[i]
                        ELSE Domain(xs[j]) = Domain(xs[i]) => Payload(xs[j]) = Payload(xs[i])
      BY DEF Diverges
    <2>1. i \in 1..(n + 1) /\ j \in 1..n  BY DEF Extends
    <2>2. xs[j] = es[j] /\ j \in DOMAIN es  BY <2>1 DEF Extends
    <2>3. CASE i = n + 1
      <3>1. xs[i] = e  BY <2>3 DEF Extends
      <3> QED BY <1>2, <2>1, <2>2, <3>1
    <2>4. CASE i # n + 1
      <3>1. i \in 1..n  BY <2>1, <2>4
      <3>2. xs[i] = es[i] /\ i \in DOMAIN es  BY <3>1 DEF Extends
      <3> QED BY <2>2, <3>2 DEF Lawful, Projects, Diverges
    <2> QED BY <2>3, <2>4
  <1>6. e.type # "created"  OBVIOUS
  <1>7. Lineage(xs)  BY <1>6, LineageStays DEF Lawful, Projects
  <1>8. NoneRepeats(xs) /\ LinksLeadBack(xs)  BY <1>3, <1>6, RepeatsStay, LinksStay DEF Lawful
  <1> QED BY <1>4, <1>5, <1>7, <1>8 DEF Lawful, Projects

\* An event admitted with the whole history links back to what is in it.
LEMMA CommitAdded ==
  ASSUME NEW n \in Nat, NEW es, NEW e, NEW xs, Extends(n, es, e, xs), Lawful(es),
         Projects(xs), n + 1 \in Unique(xs)
  PROVE  Lawful(xs)
  <1>1. NoneRepeats(xs)  BY RepeatsStay DEF Lawful
  <1>2. ASSUME e.type = "created", NEW l \in e.links
        PROVE  \E k \in 1..n : es[k].type = "created" /\ es[k].attempt = l /\ es[k].operation = e.operation
    <2>1. e = xs[n + 1]  BY DEF Extends
    <2>2. e \in Made(xs)  BY <1>2, <2>1 DEF Made
    <2>3. \A c \in Made(xs) : \A a \in c.links :
            \E d \in Made(xs) : d.attempt = a /\ d # c /\ d.operation = c.operation
      BY DEF Projects, Lineage, Made
    <2>4. PICK d \in Made(xs) : d.attempt = l /\ d # e /\ d.operation = e.operation
      BY <1>2, <2>2, <2>3
    <2>5. PICK k \in Unique(xs) : xs[k].type = "created" /\ d = xs[k]  BY <2>4 DEF Made
    <2>6. k \in 1..(n + 1) /\ k # n + 1  BY <2>1, <2>4, <2>5, UniqueExtended
    <2>7. k \in 1..n /\ xs[k] = es[k]
      <3>1. k \in 1..n  BY <2>6
      <3> QED BY <3>1 DEF Extends
    <2> QED BY <2>4, <2>5, <2>7
  <1>3. LinksLeadBack(xs)  BY <1>2, LinksStay DEF Lawful
  <1> QED BY <1>1, <1>3 DEF Lawful

\* An admission that writes nothing has found the event, or what it says.
LEMMA DuplicateFound ==
  ASSUME NEW n \in Nat, NEW es, NEW e, NEW xs, Extends(n, es, e, xs), IsLedger(e),
         Projects(xs), n + 1 \notin Unique(xs)
  PROVE  \E k \in 1..n : IsLedger(es[k]) /\ Payload(es[k]) = Payload(e)
  <1>1. PICK k \in 1..n : IsLedger(es[k]) /\ (es[k].id = e.id \/ Domain(es[k]) = Domain(e))
    BY UniqueExtended
  <1>2. k \in DOMAIN xs /\ n + 1 \in DOMAIN xs /\ k < n + 1 /\ xs[k] = es[k] /\ xs[n + 1] = e
    BY DEF Extends
  <1>3. IF es[k].id = e.id THEN es[k] = e ELSE Domain(es[k]) = Domain(e) => Payload(es[k]) = Payload(e)
    BY <1>1, <1>2 DEF Projects, Diverges
  <1> QED BY <1>1, <1>3

-----------------------------------------------------------------------------
(* What a step does to the lines *)

LinesStay == Source'.lines = Source.lines
Written == \/ LinesStay \/ Adds(Torn)
           \/ \E j \in Jobs : Adds(j) /\ step[j] \in {"writing", "renaming"}

LEMMA RunWrites == ASSUME HistoryInv, NEW j \in Jobs, Run(j) PROVE Written
  <1>1. CASE UNCHANGED <<files, inode>>
    BY <1>1 DEF Source, Written, LinesStay
  <1>2. CASE Open(j)
    <2>1. CASE inode = 0 /\ files' = Append(files, Empty) /\ inode' = Len(files) + 1
      <3>1. Source' = Empty  BY <2>1, NoFileFacts, Replaced DEF HistoryInv
      <3>2. Source = NoFile  BY <2>1 DEF Source
      <3> QED BY <3>1, <3>2, NoFileFacts DEF Written, LinesStay
    <2> QED BY <1>1, <1>2, <2>1 DEF Open
  <1>3. CASE Write(j)
    <2>1. step[j] = "writing" /\ inode' = inode  BY <1>3 DEF Write, Runs
    <2>2. PICK left : /\ files' = [files EXCEPT ![handle[j]] = left]
                      /\ left \in Cut(files[handle[j]], j, j \in bare)
                                    \cup {Appended(files[handle[j]], j, j \in bare)}
      BY <1>3 DEF Write
    <2>3. Grows(j)  BY <2>1, <2>2, WriteEffect
    <2> QED BY <2>1, <2>3 DEF Grows, Written, LinesStay
  <1>4. CASE Rename(j)
    <2>1. step[j] = "renaming"  BY <1>4 DEF Rename, Runs
    <2>2. CASE files' = Append(files, temp[j]) /\ inode' = Len(files) + 1
      BY <2>1, <2>2, RenameEffect DEF Written
    <2> QED BY <1>1, <1>4, <2>2 DEF Rename
  <1>5. CASE Decide(j) \/ Inspect(j) \/ Check(j) \/ ReadForCompaction(j) \/ Summarise(j)
             \/ Stage(j) \/ Revalidate(j)
    BY <1>1, <1>5 DEF Decide, Inspect, Check, ReadForCompaction, Summarise, Stage, Revalidate
  <1> QED BY <1>2, <1>3, <1>4, <1>5 DEF Run

LEMMA NextWrites == ASSUME HistoryInv, [Next]_vars PROVE Written
  <1>1. CASE UNCHANGED <<files, inode>>
    BY <1>1 DEF Source, Written, LinesStay
  <1>2. ASSUME NEW j \in Jobs, Call(j) PROVE Written  BY <1>1, <1>2 DEF Call
  <1>3. ASSUME NEW p \in Processes, Crash(p) PROVE Written
    BY <1>3, CrashEffect DEF Written, LinesStay
  <1> QED BY <1>1, <1>2, <1>3, RunWrites DEF Next, vars

\* Within one process the history of a session is only ever added to: a
\* compaction appends its checkpoint and replaces nothing that came after
\* the snapshot (compaction-checkpoint-store.ts commit).  With a second
\* process this is false.
THEOREM HistoryGrows == ASSUME OneQueue PROVE Spec => HistoryOnlyGrows
  <1>1. HistoryInv /\ [Next]_vars => IsPrefix(Source.lines, Source'.lines)
    <2> SUFFICES ASSUME HistoryInv, [Next]_vars PROVE IsPrefix(Source.lines, Source'.lines)
      OBVIOUS
    <2>1. TypeOK  BY DEF HistoryInv
    <2>2. LinesStay \/ \E x : Adds(x)  BY NextWrites DEF Written
    <2> DEFINE l == Source.lines
    <2>3. l \in Seq(Jobs \cup {Torn})  BY <2>1, LinesType
    <2>4. CASE LinesStay
      <3>1. Source'.lines = l  BY <2>4 DEF LinesStay
      <3> HIDE DEF l
      <3>2. IsPrefix(l, l)  BY <2>3 DEF IsPrefix
      <3> QED BY <3>1, <3>2 DEF l
    <2>5. ASSUME NEW x, Adds(x) PROVE IsPrefix(l, Source'.lines)
      <3>1. Source'.lines = Append(l, x) /\ x \in Jobs \cup {Torn}  BY <2>5 DEF Adds
      <3> HIDE DEF l
      <3>2. Len(l) <= Len(Append(l, x)) /\ SubSeq(l, 1, Len(l)) = SubSeq(Append(l, x), 1, Len(l))
        BY <2>3, <3>1
      <3> QED BY <3>1, <3>2 DEF IsPrefix
    <2> QED BY <2>2, <2>4, <2>5
  <1>2. HistoryInv /\ [Next]_vars => [IsPrefix(Source.lines, Source'.lines)]_vars
    BY <1>1
  <1> QED BY <1>2, QueueInvariance, PTL DEF Spec, HistoryOnlyGrows

-----------------------------------------------------------------------------
(* The ledger invariant *)

Told(x) == IF x = Torn THEN [type |-> "reply"] ELSE EventOf[x]

LEMMA StoryStays == ASSUME LinesStay PROVE Story' = Story
  BY DEF LinesStay, Story

LEMMA StoryAdds ==
  ASSUME TypeOK, NEW x, Adds(x)
  PROVE  Len(Source.lines) \in Nat /\ Extends(Len(Source.lines), Story, Told(x), Story')
  <1>1. Source.lines \in Seq(Jobs \cup {Torn})  BY LinesType
  <1>2. Source'.lines = Append(Source.lines, x) /\ x \in Jobs \cup {Torn}  BY DEF Adds
  <1> DEFINE l == Source.lines
             m == Source'.lines
  <1>3. /\ Len(l) \in Nat /\ DOMAIN l = 1..Len(l) /\ DOMAIN m = 1..(Len(l) + 1)
        /\ \A i \in 1..Len(l) : m[i] = l[i]
        /\ m[Len(l) + 1] = x
    <2> HIDE DEF l, m
    <2>1. l \in Seq(Jobs \cup {Torn}) /\ m = Append(l, x) /\ x \in Jobs \cup {Torn}
      BY <1>1, <1>2 DEF l, m
    <2> QED BY <2>1
  <1>4. Story = [i \in DOMAIN l |-> Told(l[i])] /\ Story' = [i \in DOMAIN m |-> Told(m[i])]
    BY DEF Story, Told
  <1> HIDE DEF l, m
  <1>5. Len(l) + 1 \in DOMAIN m /\ \A i \in 1..Len(l) : i \in DOMAIN m  BY <1>3
  <1> QED BY <1>3, <1>4, <1>5 DEF Extends, l

\* A file that can be read has the whole story.
LEMMA ReadableFacts ==
  ASSUME TypeOK, Readable(Source)
  PROVE  Events(Source) = Story /\ Projects(Story) /\ \A i \in DOMAIN Source.lines : Source.lines[i] # Torn
  <1>1. \A i \in DOMAIN Source.lines : Source.lines[i] # Torn  BY DEF Readable, Range
  <1>2. Events(Source) = Story  BY <1>1 DEF Events, Story
  <1> QED BY <1>1, <1>2 DEF Readable

\* admitLedgerEvent puts the event behind the whole history.
LEMMA AdmissionFacts ==
  ASSUME TypeOK, Readable(Source), NEW j \in Jobs
  PROVE  LET n == Len(Source.lines)
             xs == Append(Events(Source), EventOf[j])
         IN /\ n \in Nat /\ Extends(n, Story, EventOf[j], xs) /\ Len(xs) = n + 1
            /\ Adds(j) => Story' = xs
  <1> DEFINE l == Source.lines
             S == {EventOf[k] : k \in Jobs}
             es == Events(Source)
  <1>1. l \in Seq(Jobs \cup {Torn}) /\ \A i \in DOMAIN l : l[i] # Torn
    BY LinesType, ReadableFacts
  <1>2. es = [i \in DOMAIN l |-> EventOf[l[i]]]  BY DEF Events
  <1>3. Events(Source) = Story  BY ReadableFacts
  <1> HIDE DEF l, es
  <1>4. \A i \in 1..Len(l) : l[i] \in Jobs  BY <1>1
  <1>5. es \in Seq(S) /\ Len(es) = Len(l) /\ Len(l) \in Nat /\ EventOf[j] \in S
    BY <1>1, <1>2, <1>4
  <1> HIDE DEF S
  <1>6. /\ DOMAIN es = 1..Len(l) /\ DOMAIN Append(es, EventOf[j]) = 1..(Len(l) + 1)
        /\ \A i \in 1..Len(l) : Append(es, EventOf[j])[i] = es[i]
        /\ Append(es, EventOf[j])[Len(l) + 1] = EventOf[j]
        /\ Len(Append(es, EventOf[j])) = Len(l) + 1
    BY <1>5
  <1>7. Extends(Len(l), es, EventOf[j], Append(es, EventOf[j]))  BY <1>6 DEF Extends
  <1>8. ASSUME Adds(j) PROVE Story' = Append(es, EventOf[j])
    <2>1. Extends(Len(l), Story, EventOf[j], Story')
      <3>1. Told(j) = EventOf[j]  BY JobsAssumption DEF Told
      <3> QED BY <1>8, <3>1, StoryAdds DEF l
    <2>2. \A i \in 1..(Len(l) + 1) : Story'[i] = Append(es, EventOf[j])[i]
      <3> SUFFICES ASSUME NEW i \in 1..(Len(l) + 1) PROVE Story'[i] = Append(es, EventOf[j])[i]
        OBVIOUS
      <3>1. i \in 1..Len(l) \/ i = Len(l) + 1  BY <1>5
      <3> QED BY <2>1, <3>1, <1>3, <1>6 DEF Extends, es
    <2>3. Story' = [i \in 1..(Len(l) + 1) |-> Story'[i]]
      <3>1. DOMAIN Story' = 1..(Len(l) + 1)  BY <2>1 DEF Extends
      <3>2. Story' = [i \in DOMAIN Story' |-> Story'[i]]  BY DEF Story
      <3> QED BY <3>1, <3>2
    <2>4. Append(es, EventOf[j]) = [i \in 1..(Len(l) + 1) |-> Append(es, EventOf[j])[i]]
      <3>1. Append(es, EventOf[j]) \in Seq(S)  BY <1>5
      <3> QED BY <1>6, <3>1
    <2> QED BY <2>2, <2>3, <2>4
  <1> QED BY <1>3, <1>5, <1>6, <1>7, <1>8 DEF l, es

\* A step that writes leaves the ledger lawful: a message may come at any time,
\* a ledger event only after a decision that still stands.
LEMMA LawfulStays ==
  ASSUME HistoryInv, LedgerInv, Written
  PROVE  Lawful(Story')
  <1>1. TypeOK /\ Lawful(Story) /\ StepsFit  BY InvParts DEF LedgerInv
  <1>2. CASE LinesStay  BY <1>1, <1>2, StoryStays
  <1>3. CASE Adds(Torn)
    <2>1. ~IsLedger(Told(Torn))  BY DEF Told, IsLedger, Conversation
    <2> QED BY <1>1, <1>3, <2>1, StoryAdds, ConversationAdded
  <1>4. ASSUME NEW j \in Jobs, Adds(j), step[j] \in {"writing", "renaming"}
        PROVE  Lawful(Story')
    <2> DEFINE n == Len(Source.lines)
               e == EventOf[j]
    <2>1. n \in Nat /\ Extends(n, Story, e, Story')
      <3>1. Told(j) = e  BY JobsAssumption DEF Told
      <3> QED BY <1>1, <1>4, <3>1, StoryAdds
    <2>2. CASE KindOf[j] \in {"append", "guarded", "compact"}
      <3>1. ~IsLedger(e)  BY <2>2, EventsAssumption
      <3> QED BY <1>1, <2>1, <3>1, ConversationAdded
    <2>3. CASE KindOf[j] \in {"reserve", "commit"}
      <3>1. step[j] = "writing" /\ ~InSeq(Source.lines, j)
        BY <1>1, <1>4, <2>3 DEF StepsFit, StepFits
      <3>2. DecisionStands(j)  BY DEF LedgerInv
      <3>3. Readable(Source) /\ Events(Source) = Story
        BY <1>1, <2>3, <3>1, <3>2, ReadableFacts DEF DecisionStands
      <3>4. CASE KindOf[j] = "reserve"
        <4>1. ReservationAnswer(Story, e) = "write"  BY <3>1, <3>2, <3>3, <3>4 DEF DecisionStands
        <4>2. \A i \in DOMAIN Story : Story[i].type # "summary_reserved" /\ Story[i].type # "user"
          BY <4>1 DEF ReservationAnswer
        <4>3. e.type = "summary_reserved"  BY <3>4, EventsAssumption
        <4>4. \A i \in 1..n : IsLedger(Story[i]) => Story[i].id # e.id
          <5> SUFFICES ASSUME NEW i \in 1..n, IsLedger(Story[i]) PROVE Story[i].id # e.id
            OBVIOUS
          <5>1. i \in DOMAIN Source.lines /\ Source.lines[i] \in Jobs
            <6>1. Source.lines \in Seq(Jobs \cup {Torn})  BY <1>1, LinesType
            <6>2. Source.lines[i] # Torn  BY <1>1, <3>3, <6>1, ReadableFacts
            <6> QED BY <6>1, <6>2
          <5>2. Story[i] = EventOf[Source.lines[i]]  BY <5>1, JobsAssumption DEF Story
          <5>3. Source.lines[i] # j  BY <3>1, <5>1 DEF InSeq
          <5> QED BY <3>4, <5>1, <5>2, <5>3, EventsAssumption
        <4>5. \A i \in 1..n : Story[i].type \notin {"summary_reserved", "user"}
          BY <2>1, <4>2 DEF Extends
        <4> HIDE DEF n, e
        <4> QED BY <1>1, <2>1, <4>3, <4>4, <4>5, ReservationAdded
      <3>5. CASE KindOf[j] = "commit"
        <4> DEFINE xs == Append(Events(Source), e)
        <4>1. Admission(Events(Source), e) = "committed"  BY <3>1, <3>2, <3>5 DEF DecisionStands
        <4>2. Len(xs) = n + 1 /\ Story' = xs  BY <1>1, <1>4, <3>3, AdmissionFacts
        <4>3. Projects(xs) /\ Len(xs) \in Unique(xs)  BY <4>1 DEF Admission
        <4>4. Projects(Story') /\ n + 1 \in Unique(Story')  BY <4>2, <4>3
        <4> HIDE DEF n, e, xs
        <4> QED BY <1>1, <2>1, <4>4, CommitAdded
      <3> QED BY <2>3, <3>4, <3>5
    <2>4. KindOf[j] \in Kinds  BY JobsAssumption
    <2> QED BY <2>2, <2>3, <2>4 DEF Kinds
  <1> QED BY <1>2, <1>3, <1>4 DEF Written

\* What a job was told of the history stays true as the history grows.
LEMMA AnswerStays ==
  ASSUME HistoryInv, Written, NEW u \in Jobs, AnswerFits(u), result'[u] = result[u]
  PROVE  AnswerFits(u)'
  <1>1. TypeOK /\ StepFits(u)  BY DEF HistoryInv
  <1>2. /\ \A k \in DOMAIN Story : k \in DOMAIN Story' /\ Story'[k] = Story[k]
        /\ InSeq(Source'.lines, u) => InSeq(Source.lines, u) \/ step[u] \in {"writing", "renaming"}
    <2>1. CASE LinesStay  BY <2>1, StoryStays DEF LinesStay
    <2>2. ASSUME NEW x, Adds(x)
          PROVE  \A k \in DOMAIN Story : k \in DOMAIN Story' /\ Story'[k] = Story[k]
      <3>1. Len(Source.lines) \in Nat /\ Extends(Len(Source.lines), Story, Told(x), Story')
        BY <1>1, <2>2, StoryAdds
      <3> QED BY <3>1 DEF Extends
    <2>3. CASE Adds(Torn)
      <3>1. u # Torn  BY JobsAssumption
      <3> QED BY <1>1, <2>2, <2>3, <3>1, AddFacts
    <2>4. ASSUME NEW j \in Jobs, Adds(j), step[j] \in {"writing", "renaming"}
          PROVE  InSeq(Source'.lines, u) => InSeq(Source.lines, u) \/ step[u] \in {"writing", "renaming"}
      BY <1>1, <2>4, AddFacts
    <2> QED BY <2>1, <2>2, <2>3, <2>4 DEF Written
  <1>3. result[u] \in {"existing", "owned", "history", "rejected", "duplicate", "stale"} =>
          ~InSeq(Source'.lines, u)
    BY <1>1, <1>2 DEF StepFits, AnswerFits
  <1>4. /\ result[u] = "existing" =>
             \E k \in DOMAIN Story' : Story'[k].type = "summary_reserved" /\ Story'[k].source = EventOf[u].source
        /\ result[u] = "owned" =>
             \E k \in DOMAIN Story' : Story'[k].type = "summary_reserved" /\ Story'[k].source # EventOf[u].source
        /\ result[u] = "duplicate" =>
             \E k \in DOMAIN Story' : IsLedger(Story'[k]) /\ Payload(Story'[k]) = Payload(EventOf[u])
    BY <1>2 DEF AnswerFits
  <1> QED BY <1>3, <1>4 DEF AnswerFits

LEMMA PlainAnswer ==
  ASSUME NEW u \in Jobs, result'[u] \in {"none", "ok", "error"} PROVE AnswerFits(u)'
  BY DEF AnswerFits

\* A decision stands as long as the lines do.
Deciding == {"opening", "inspecting", "checking", "writing"}

LEMMA DecisionStays ==
  ASSUME LinesStay, NEW u \in Jobs, DecisionStands(u), step'[u] \in Deciding => step[u] \in Deciding
  PROVE  DecisionStands(u)'
  <1>1. Events(Source)' = Events(Source)  BY DEF LinesStay, Events
  <1>2. Readable(Source)' <=> Readable(Source)  BY <1>1 DEF LinesStay, Readable
  <1> QED BY <1>1, <1>2 DEF DecisionStands, Deciding

LEMMA Undecided ==
  ASSUME NEW u \in Jobs, step'[u] \notin Deciding \/ KindOf[u] \notin {"reserve", "commit"}
  PROVE  DecisionStands(u)'
  BY DEF DecisionStands, Deciding

\* Who has decided is the only one to work on the file.
LEMMA OthersUndecided ==
  ASSUME OneQueue, HistoryInv, NEW j \in Jobs, NEW s, Runs(j, s), NEW u \in Jobs, u # j,
         step'[u] = step[u]
  PROVE  DecisionStands(u)'
  <1>1. ~Midway(u)  BY Sole DEF HistoryInv
  <1> QED BY <1>1 DEF Midway, DecisionStands

-----------------------------------------------------------------------------
(* Every step keeps the ledger invariant *)

LEMMA LedgerStep ==
  ASSUME OneQueue, HistoryInv, LedgerInv, Written, NEW j \in Jobs, NEW s, Runs(j, s),
         \A u \in Jobs : u # j => step'[u] = step[u] /\ result'[u] = result[u],
         AnswerFits(j)', DecisionStands(j)'
  PROVE  LedgerInv'
  <1>1. Lawful(Story')  BY LawfulStays
  <1>2. ASSUME NEW u \in Jobs PROVE DecisionStands(u)' /\ AnswerFits(u)'
    <2>1. CASE u = j  BY <2>1
    <2>2. CASE u # j
      <3>1. step'[u] = step[u] /\ result'[u] = result[u] /\ AnswerFits(u)
        BY <2>2 DEF LedgerInv
      <3> QED BY <2>2, <3>1, OthersUndecided, AnswerStays
    <2> QED BY <2>1, <2>2
  <1> QED BY <1>1, <1>2 DEF LedgerInv

\* What Go and Finish change.
LEMMA MoveFacts ==
  ASSUME HistoryInv, NEW j \in Jobs
  PROVE  /\ \A next : Go(j, next) => /\ step'[j] = next /\ result' = result
                                     /\ \A u \in Jobs : u # j => step'[u] = step[u]
         /\ \A a : Finish(j, a) => /\ step'[j] = "done" /\ result'[j] = a
                                   /\ \A u \in Jobs : u # j => step'[u] = step[u] /\ result'[u] = result[u]
  <1>1. step \in [Jobs -> Steps] /\ result \in [Jobs -> Answers]
    BY TypeParts DEF HistoryInv, JobsType
  <1> QED BY <1>1 DEF Go, Finish

\* A job that goes on, keeping its decision, or ends with a plain answer.
LEMMA PlainStep ==
  ASSUME OneQueue, HistoryInv, LedgerInv, Written, NEW j \in Jobs, NEW s, Runs(j, s),
         \/ Finish(j, "ok") \/ Finish(j, "error")
         \/ \E next : Go(j, next) /\ (next \in Deciding => LinesStay /\ s \in Deciding)
  PROVE  LedgerInv'
  <1>1. CASE Finish(j, "ok") \/ Finish(j, "error")
    <2>1. step'[j] = "done" /\ result'[j] \in {"none", "ok", "error"}
          /\ \A u \in Jobs : u # j => step'[u] = step[u] /\ result'[u] = result[u]
      BY <1>1, MoveFacts
    <2>2. AnswerFits(j)'  BY <2>1, PlainAnswer
    <2>3. DecisionStands(j)'  BY <2>1, Undecided DEF Deciding
    <2> QED BY <2>1, <2>2, <2>3, LedgerStep
  <1>2. ASSUME NEW next, Go(j, next), next \in Deciding => LinesStay /\ s \in Deciding
        PROVE  LedgerInv'
    <2>1. /\ step'[j] = next /\ result' = result
          /\ \A u \in Jobs : u # j => step'[u] = step[u] /\ result'[u] = result[u]
      BY <1>2, MoveFacts
    <2>2. AnswerFits(j) /\ DecisionStands(j) /\ step[j] = s  BY DEF LedgerInv, Runs
    <2>3. AnswerFits(j)'  BY <2>1, <2>2, AnswerStays
    <2>4. DecisionStands(j)'
      BY <1>2, <2>1, <2>2, DecisionStays, Undecided
    <2> QED BY <2>1, <2>3, <2>4, LedgerStep
  <1> QED BY <1>1, <1>2

\* reserveFirstSummary and commitLedgerEvent answer what the file says.
LEMMA DecideLawful ==
  ASSUME OneQueue, HistoryInv, LedgerInv, NEW j \in Jobs, Decide(j) PROVE LedgerInv'
  <1>1. Runs(j, "reading") /\ KindOf[j] \in {"reserve", "commit"} /\ LinesStay /\ TypeOK
    BY DEF Decide, LinesStay, Source, HistoryInv
  <1>2. Written  BY <1>1 DEF Written
  <1>3. CASE Finish(j, "error")  BY <1>1, <1>2, <1>3, PlainStep
  <1> DEFINE es == Events(Source)
             e == EventOf[j]
             answer == IF KindOf[j] = "reserve" THEN ReservationAnswer(es, e) ELSE CommitAnswer(es, e)
  <1>4. CASE Readable(Source) /\ answer = "write" /\ Go(j, "opening")
    <2>1. /\ step'[j] = "opening" /\ result' = result
          /\ \A u \in Jobs : u # j => step'[u] = step[u] /\ result'[u] = result[u]
      BY <1>4, MoveFacts
    <2>2. AnswerFits(j)'
      <3>1. AnswerFits(j)  BY DEF LedgerInv
      <3> QED BY <1>2, <2>1, <3>1, AnswerStays
    <2>3. DecisionStands(j)'
      <3>1. Events(Source)' = es  BY <1>1 DEF LinesStay, Events
      <3>2. Readable(Source)'  BY <1>1, <1>4, <3>1 DEF LinesStay, Readable
      <3>3. KindOf[j] = "commit" => Admission(es, e) = "committed"
        BY <1>4 DEF CommitAnswer, Admission
      <3>4. KindOf[j] = "reserve" => ReservationAnswer(es, e) = "write"  BY <1>4
      <3> QED BY <3>1, <3>2, <3>3, <3>4 DEF DecisionStands
    <2> QED BY <1>1, <1>2, <2>1, <2>2, <2>3, LedgerStep
  <1>5. CASE Readable(Source) /\ answer # "write" /\ Finish(j, answer)
    <2>1. /\ step'[j] = "done" /\ result'[j] = answer
          /\ \A u \in Jobs : u # j => step'[u] = step[u] /\ result'[u] = result[u]
      BY <1>5, MoveFacts
    <2>2. DecisionStands(j)'  BY <2>1, Undecided DEF Deciding
    <2>3. es = Story /\ Story' = Story  BY <1>1, <1>5, ReadableFacts, StoryStays
    <2>4. ~InSeq(Source'.lines, j)
      <3>1. ~InSeq(Source.lines, j)  BY <1>1 DEF HistoryInv, StepFits, Runs
      <3> QED BY <1>1, <3>1 DEF LinesStay
    <2>5. answer = "existing" =>
            \E k \in DOMAIN Story : Story[k].type = "summary_reserved" /\ Story[k].source = e.source
      BY <2>3 DEF ReservationAnswer, CommitAnswer, Admission
    <2>6. answer = "owned" =>
            \E k \in DOMAIN Story : Story[k].type = "summary_reserved" /\ Story[k].source # e.source
      BY <2>3 DEF ReservationAnswer, CommitAnswer, Admission
    <2>7. answer = "duplicate" =>
            \E k \in DOMAIN Story : IsLedger(Story[k]) /\ Payload(Story[k]) = Payload(e)
      <3> SUFFICES ASSUME answer = "duplicate"
                   PROVE  \E k \in DOMAIN Story : IsLedger(Story[k]) /\ Payload(Story[k]) = Payload(e)
        OBVIOUS
      <3> DEFINE n == Len(Source.lines)
                 xs == Append(es, e)
      <3>1. KindOf[j] = "commit"  BY <1>1 DEF ReservationAnswer
      <3>2. Admission(es, e) = "duplicate"  BY <3>1 DEF CommitAnswer
      <3>3. Projects(xs) /\ Len(xs) \notin Unique(xs)  BY <3>2 DEF Admission
      <3>4. n \in Nat /\ Extends(n, Story, e, xs) /\ Len(xs) = n + 1
        BY <1>1, <1>5, AdmissionFacts
      <3>5. IsLedger(e)  BY <3>1, EventsAssumption
      <3>6. n + 1 \notin Unique(xs)  BY <3>3, <3>4
      <3> HIDE DEF n, xs, e
      <3>7. \E k \in 1..n : IsLedger(Story[k]) /\ Payload(Story[k]) = Payload(e)
        BY <3>3, <3>4, <3>5, <3>6, DuplicateFound
      <3> QED BY <3>4, <3>7 DEF Extends
    <2>8. AnswerFits(j)'
      <3> HIDE DEF answer
      <3> QED BY <2>1, <2>3, <2>4, <2>5, <2>6, <2>7 DEF AnswerFits
    <2> QED BY <1>1, <1>2, <2>1, <2>2, <2>8, LedgerStep
  <1> QED BY <1>3, <1>4, <1>5 DEF Decide

\* A guard that no longer holds refuses before anything is written.
LEMMA CheckLawful ==
  ASSUME OneQueue, HistoryInv, LedgerInv, NEW j \in Jobs, Check(j) PROVE LedgerInv'
  <1>1. Runs(j, "checking") /\ LinesStay  BY DEF Check, LinesStay, Source
  <1>2. Written  BY <1>1 DEF Written
  <1>3. CASE Finish(j, "error") \/ Go(j, "writing")
    BY <1>1, <1>2, <1>3, PlainStep DEF Deciding
  <1>4. CASE Finish(j, "stale")
    <2>1. /\ step'[j] = "done" /\ result'[j] = "stale"
          /\ \A u \in Jobs : u # j => step'[u] = step[u] /\ result'[u] = result[u]
      BY <1>4, MoveFacts
    <2>2. ~InSeq(Source'.lines, j)
      <3>1. ~InSeq(Source.lines, j)  BY <1>1 DEF HistoryInv, StepFits, Runs
      <3> QED BY <1>1, <3>1 DEF LinesStay
    <2>3. AnswerFits(j)'  BY <2>1, <2>2 DEF AnswerFits
    <2>4. DecisionStands(j)'  BY <2>1, Undecided DEF Deciding
    <2> QED BY <1>1, <1>2, <2>1, <2>3, <2>4, LedgerStep
  <1> QED BY <1>3, <1>4 DEF Check

\* Whatever else a running job does carries its decision to the file or ends.
LEMMA RunLawful ==
  ASSUME OneQueue, HistoryInv, LedgerInv, NEW j \in Jobs, Run(j) PROVE LedgerInv'
  <1>1. Written  BY RunWrites
  <1>2. CASE Open(j)
    <2>1. Go(j, "inspecting") => LinesStay
      <3>1. CASE inode = 0 /\ files' = Append(files, Empty) /\ inode' = Len(files) + 1
        <4>1. Source' = Empty  BY <3>1, NoFileFacts, Replaced DEF HistoryInv
        <4>2. Source = NoFile  BY <3>1 DEF Source
        <4> QED BY <4>1, <4>2, NoFileFacts DEF LinesStay
      <3>2. CASE UNCHANGED <<files, inode>>  BY <3>2 DEF LinesStay, Source
      <3> QED BY <1>2, <3>1, <3>2 DEF Open
    <2> QED BY <1>1, <1>2, <2>1, PlainStep DEF Open, Deciding
  <1>3. CASE Inspect(j)
    <2>1. LinesStay  BY <1>3 DEF Inspect, LinesStay, Source
    <2> QED BY <1>1, <1>3, <2>1, PlainStep DEF Inspect, Deciding
  <1>4. CASE Write(j)  BY <1>1, <1>4, PlainStep DEF Write
  <1>5. CASE Stage(j)  BY <1>1, <1>5, PlainStep DEF Stage, Deciding
  <1>6. CASE Revalidate(j)  BY <1>1, <1>6, PlainStep DEF Revalidate, Deciding
  <1>7. CASE Rename(j)  BY <1>1, <1>7, PlainStep DEF Rename
  <1>8. CASE ReadForCompaction(j)
    <2>1. CASE Finish(j, "error")  BY <1>1, <1>8, <2>1, PlainStep DEF ReadForCompaction
    <2>2. CASE step' = [step EXCEPT ![j] = "summarising"] /\ UNCHANGED result
      <3>1. step'[j] = "summarising" /\ \A u \in Jobs : u # j => step'[u] = step[u]
        BY <2>2, TypeParts DEF HistoryInv, JobsType
      <3>2. AnswerFits(j)'
        <4>1. AnswerFits(j)  BY DEF LedgerInv
        <4> QED BY <1>1, <2>2, <4>1, AnswerStays
      <3>3. DecisionStands(j)'  BY <3>1, Undecided DEF Deciding
      <3> QED BY <1>1, <1>8, <2>2, <3>1, <3>2, <3>3, LedgerStep DEF ReadForCompaction
    <2> QED BY <1>8, <2>1, <2>2 DEF ReadForCompaction
  <1>9. CASE Summarise(j)
    <2>1. LinesStay  BY <1>9 DEF Summarise, LinesStay, Source
    <2>2. step \in [Jobs -> Steps] /\ result \in [Jobs -> Answers]
      BY TypeParts DEF HistoryInv, JobsType
    <2>3. /\ \A u \in Jobs : u # j => step'[u] = step[u] /\ result'[u] = result[u]
          /\ step'[j] \in {"staging", "done"}
          /\ result'[j] = result[j] \/ result'[j] = "error"
      BY <1>9, <2>2 DEF Summarise, Enqueue
    <2>4. ASSUME NEW u \in Jobs PROVE DecisionStands(u)' /\ AnswerFits(u)'
      <3>1. DecisionStands(u) /\ AnswerFits(u)  BY DEF LedgerInv
      <3>2. step'[u] \in Deciding => step[u] \in Deciding  BY <2>3 DEF Deciding
      <3>3. result'[u] = result[u] \/ result'[u] = "error"  BY <2>3
      <3> QED BY <1>1, <2>1, <3>1, <3>2, <3>3, DecisionStays, AnswerStays, PlainAnswer
    <2> QED BY <1>1, <2>4, LawfulStays DEF LedgerInv
  <1> QED BY <1>2, <1>3, <1>4, <1>5, <1>6, <1>7, <1>8, <1>9, DecideLawful, CheckLawful DEF Run

LEMMA LedgerNext ==
  ASSUME OneQueue, HistoryInv, LedgerInv, [Next]_vars PROVE LedgerInv'
  <1>1. Written  BY NextWrites
  <1>2. Lawful(Story')  BY <1>1, LawfulStays
  <1>3. ASSUME LinesStay, result' = result,
               \A u \in Jobs : DecisionStands(u)'
        PROVE  LedgerInv'
    <2>1. ASSUME NEW u \in Jobs PROVE AnswerFits(u)'
      <3>1. AnswerFits(u)  BY DEF LedgerInv
      <3> QED BY <1>1, <1>3, <3>1, AnswerStays
    <2> QED BY <1>2, <1>3, <2>1 DEF LedgerInv
  <1>4. CASE UNCHANGED vars
    <2>1. LinesStay /\ result' = result /\ step' = step  BY <1>4 DEF vars, LinesStay, Source
    <2>2. ASSUME NEW u \in Jobs PROVE DecisionStands(u)'
      <3>1. DecisionStands(u)  BY DEF LedgerInv
      <3> QED BY <2>1, <3>1, DecisionStays
    <2> QED BY <1>3, <2>1, <2>2
  <1>5. ASSUME NEW j \in Jobs, Call(j) PROVE LedgerInv'
    <2>1. LinesStay /\ result' = result  BY <1>5 DEF Call, LinesStay, Source
    <2>2. step \in [Jobs -> Steps]  BY TypeParts DEF HistoryInv, JobsType
    <2>3. ASSUME NEW u \in Jobs PROVE DecisionStands(u)'
      <3>1. CASE u = j
        <4>1. step'[u] \in {"opening", "reading"} /\ (step'[u] = "opening" => KindOf[u] \in {"append", "guarded"})
          BY <1>5, <2>2, <3>1 DEF Call, Enqueue
        <4> QED BY <4>1, Undecided DEF Deciding
      <3>2. CASE u # j
        <4>1. step'[u] = step[u]  BY <1>5, <2>2, <3>2 DEF Call, Enqueue
        <4>2. DecisionStands(u)  BY DEF LedgerInv
        <4> QED BY <2>1, <4>1, <4>2, DecisionStays
      <3> QED BY <3>1, <3>2
    <2> QED BY <1>3, <2>1, <2>3
  <1>6. ASSUME NEW p \in Processes, Crash(p) PROVE LedgerInv'
    <2>1. result' = result  BY <1>6 DEF Crash
    <2>2. ASSUME NEW u \in Jobs PROVE DecisionStands(u)' /\ AnswerFits(u)'
      <3>1. AnswerFits(u) /\ DecisionStands(u)  BY DEF LedgerInv
      <3>2. AnswerFits(u)'  BY <1>1, <2>1, <3>1, AnswerStays
      <3>3. CASE ProcessOf[u] = p
        <4>1. step'[u] \in {"idle", "done", "lost"}  BY <1>6, <3>3 DEF Crash
        <4> QED BY <3>2, <4>1, Undecided DEF Deciding
      <3>4. CASE ProcessOf[u] # p
        <4>1. \A k \in Jobs : ProcessOf[k] # p  BY <3>4 DEF OneQueue
        <4>2. step'[u] = step[u] /\ UNCHANGED <<files, inode>>  BY <1>6, <4>1 DEF Crash
        <4>3. LinesStay  BY <4>2 DEF LinesStay, Source
        <4> QED BY <3>1, <3>2, <4>2, <4>3, DecisionStays
      <3> QED BY <3>3, <3>4
    <2> QED BY <1>2, <2>2 DEF LedgerInv
  <1> QED BY <1>4, <1>5, <1>6, RunLawful DEF Next

LEMMA LedgerInit == Init => LedgerInv
  <1> SUFFICES ASSUME Init PROVE LedgerInv  OBVIOUS
  <1>1. Source.lines = <<>>  BY NoFileFacts DEF Init, Source
  <1>2. DOMAIN Story = {}  BY <1>1 DEF Story
  <1>3. Unique(Story) = {}  BY <1>2 DEF Unique
  <1>4. ~Diverges(Story)  BY <1>2 DEF Diverges
  <1>5. Lineage(Story)
    <2>1. Made(Story) = {}  BY <1>3 DEF Made
    <2>2. ASSUME NEW ring \in (SUBSET Made(Story)) \ {{}} PROVE FALSE
      <3>1. \A c : c \notin ring  BY <2>1
      <3>2. ring = {}  BY <3>1
      <3> QED BY <3>2
    <2>3. \A ring \in (SUBSET Made(Story)) \ {{}} : FALSE  BY <2>2
    <2> QED BY <2>1, <2>3 DEF Lineage, Made
  <1>6. Lawful(Story)
    BY <1>2, <1>3, <1>4, <1>5 DEF Lawful, Projects, NoneRepeats, LinksLeadBack
  <1>7. ASSUME NEW u \in Jobs PROVE DecisionStands(u) /\ AnswerFits(u)
    BY DEF Init, DecisionStands, AnswerFits
  <1> QED BY <1>6, <1>7 DEF LedgerInv

-----------------------------------------------------------------------------
(* Theorems about the ledger *)

\* The inductive invariant of the ledger: what was decided on the file as it
\* was read (decideSummaryReservation, decideLedgerCommit) still holds when it
\* is written.
THEOREM LedgerInvariance == ASSUME OneQueue PROVE Spec => []LedgerInv
  <1>1. Init => LedgerInv  BY LedgerInit
  <1>2. HistoryInv /\ LedgerInv /\ [Next]_vars => LedgerInv'  BY LedgerNext
  <1> QED BY <1>1, <1>2, QueueInvariance, PTL DEF Spec

\* A position of the file that is not torn is an event of the story.
LEMMA StoryFacts ==
  ASSUME NEW i \in DOMAIN Source.lines, Source.lines[i] # Torn
  PROVE  i \in DOMAIN Story /\ Story[i] = EventOf[Source.lines[i]]
  BY DEF Story

\* An event of the attempts is one of a line that is not torn.
LEMMA TornIsConversation ==
  ASSUME NEW i \in DOMAIN Story, IsLedger(Story[i])
  PROVE  i \in DOMAIN Source.lines /\ Source.lines[i] # Torn /\ Story[i] = EventOf[Source.lines[i]]
  BY DEF Story, IsLedger, Conversation

LEMMA LedgerReads == ASSUME HistoryInv, LedgerInv PROVE LedgerStaysReadable
  <1> SUFFICES ASSUME Torn \notin Range(Source.lines) PROVE Projects(Events(Source))
    BY DEF LedgerStaysReadable
  <1>1. \A i \in DOMAIN Source.lines : Source.lines[i] # Torn  BY DEF Range
  <1>2. Events(Source) = Story  BY <1>1 DEF Events, Story
  <1> QED BY <1>2 DEF LedgerInv, Lawful

LEMMA AnswersHold == ASSUME HistoryInv, LedgerInv PROVE AnswersStand
  <1> DEFINE written == {EventOf[j] : j \in Range(Source.lines) \ {Torn}}
             owners  == {e \in written : e.type = "summary_reserved"}
  <1>1. \A k \in DOMAIN Story : IsLedger(Story[k]) => Story[k] \in written
    BY TornIsConversation DEF Range
  <1>2. \A k \in DOMAIN Story : Story[k].type = "summary_reserved" => Story[k] \in owners
    BY <1>1 DEF IsLedger, Conversation
  <1> HIDE DEF written, owners
  <1>3. ASSUME NEW j \in Jobs
        PROVE  /\ result[j] = "existing" => \E e \in owners : e.source = EventOf[j].source
               /\ result[j] = "owned" => \E e \in owners : e.source # EventOf[j].source
               /\ result[j] = "duplicate" => \E e \in written : Payload(e) = Payload(EventOf[j])
               /\ result[j] \in {"existing", "owned", "history", "rejected", "duplicate", "stale"} =>
                    j \notin Range(Source.lines)
    <2>1. AnswerFits(j)  BY DEF LedgerInv
    <2>2. j \in Range(Source.lines) => InSeq(Source.lines, j)  BY DEF Range, InSeq
    <2>3. /\ result[j] = "existing" => \E e \in owners : e.source = EventOf[j].source
          /\ result[j] = "owned" => \E e \in owners : e.source # EventOf[j].source
      BY <1>2, <2>1 DEF AnswerFits
    <2>4. result[j] = "duplicate" => \E e \in written : Payload(e) = Payload(EventOf[j])
      BY <1>1, <2>1 DEF AnswerFits
    <2> QED BY <2>1, <2>2, <2>3, <2>4 DEF AnswerFits
  <1> QED BY <1>3 DEF AnswersStand, owners, written

\* Every event of an attempt was admissible where it stands.
LEMMA InOrder == ASSUME HistoryInv, LedgerInv PROVE LifecycleInOrder /\ AttemptsAreGrounded
  <1> DEFINE written == {i \in DOMAIN Source.lines : Source.lines[i] # Torn}
             At(i) == EventOf[Source.lines[i]]
  <1>1. Lawful(Story)  BY DEF LedgerInv
  <1>2. \A i \in written : i \in DOMAIN Story /\ Story[i] = At(i)  BY StoryFacts
  <1>3. \A i \in DOMAIN Story : IsLedger(Story[i]) => i \in Unique(Story) /\ i \in written
    BY <1>1, TornIsConversation DEF Lawful, NoneRepeats
  <1>4. \A i \in Unique(Story) : Admissible(Story, i) /\ i \in written /\ Story[i] = At(i)
    <2>1. \A i \in Unique(Story) : i \in DOMAIN Story /\ IsLedger(Story[i])  BY DEF Unique
    <2> QED BY <1>1, <1>2, <1>3, <2>1 DEF Lawful, Projects
  <1>5. \A i \in written : i \in Nat
    <2>1. Source.lines \in Seq(Jobs \cup {Torn})  BY LinesType DEF HistoryInv
    <2> QED BY <2>1
  <1>6. ASSUME NEW i \in written, NEW types, NEW a, Seen(Story, i, types, a)
        PROVE  \E k \in written : k < i /\ At(k).type \in types /\ At(k).attempt = a
    BY <1>4, <1>6 DEF Seen
  <1>7. \A i \in written : At(i).type \notin Conversation => i \in Unique(Story) /\ Admissible(Story, i)
    BY <1>2, <1>3, <1>4 DEF IsLedger
  <1>8. LifecycleInOrder
    <2> SUFFICES ASSUME NEW i \in written
                 PROVE  /\ At(i).type \in {"started"} \cup Endings =>
                             \E k \in written : k < i /\ At(k).type \in {"created"} /\ At(k).attempt = At(i).attempt
                        /\ At(i).type \in {"succeeded", "failed"} =>
                             \E k \in written : k < i /\ At(k).type \in {"started"} /\ At(k).attempt = At(i).attempt
                        /\ At(i).type \in Endings =>
                             ~\E k \in written : k < i /\ At(k).type \in Endings /\ At(k).attempt = At(i).attempt
                        /\ At(i).type \in Verdicts => \A k \in written : k < i => At(k).type \notin Verdicts
                        /\ At(i).type = "summary_committed" =>
                             \E k \in written : k < i /\ At(k).type \in {"succeeded"} /\ At(k).attempt = At(i).attempt
      BY DEF LifecycleInOrder
    <2> DEFINE e == At(i)
    <2>1. Story[i] = e  BY <1>2
    <2>2. e.type \in {"started"} \cup Endings => Transition(Story, i, e)
      <3> SUFFICES ASSUME e.type \in {"started"} \cup Endings PROVE Transition(Story, i, e)  OBVIOUS
      <3>1. e.type \notin Conversation  BY DEF Conversation, Endings
      <3> QED BY <1>7, <2>1, <3>1 DEF Admissible
    <2>3. e.type \in Verdicts => Verdict(Story, i, e)
      <3> SUFFICES ASSUME e.type \in Verdicts PROVE Verdict(Story, i, e)  OBVIOUS
      <3>1. e.type \notin Conversation  BY DEF Conversation, Verdicts
      <3> QED BY <1>7, <2>1, <3>1 DEF Admissible
    <2>4. \A k \in written : At(k).type \in Endings \cup Verdicts => k \in Unique(Story) /\ Story[k] = At(k)
      <3>1. \A t \in Endings \cup Verdicts : t \notin Conversation  BY DEF Conversation, Endings, Verdicts
      <3> QED BY <1>2, <1>7, <3>1
    <2> HIDE DEF e
    <2>5. e.type \in {"started"} \cup Endings =>
            \E k \in written : k < i /\ At(k).type \in {"created"} /\ At(k).attempt = e.attempt
      BY <1>6, <2>2 DEF Transition
    <2>6. e.type \in {"succeeded", "failed"} =>
            \E k \in written : k < i /\ At(k).type \in {"started"} /\ At(k).attempt = e.attempt
      BY <1>6, <2>2 DEF Transition, Endings
    <2>7. e.type \in Endings =>
            ~\E k \in written : k < i /\ At(k).type \in Endings /\ At(k).attempt = e.attempt
      <3> SUFFICES ASSUME e.type \in Endings, NEW k \in written, k < i, At(k).type \in Endings,
                          At(k).attempt = e.attempt
                   PROVE  FALSE
        OBVIOUS
      <3>1. ~Seen(Story, i, Endings, e.attempt)  BY <2>2 DEF Transition
      <3>2. k \in Unique(Story) /\ Story[k] = At(k)  BY <2>4
      <3> QED BY <3>1, <3>2 DEF Seen
    <2>8. e.type \in Verdicts => \A k \in written : k < i => At(k).type \notin Verdicts
      <3> SUFFICES ASSUME e.type \in Verdicts, NEW k \in written, k < i, At(k).type \in Verdicts
                   PROVE  FALSE
        OBVIOUS
      <3>1. k \in Unique(Story) /\ Story[k] = At(k)  BY <2>4
      <3> QED BY <2>3, <3>1 DEF Verdict
    <2>9. e.type = "summary_committed" =>
            \E k \in written : k < i /\ At(k).type \in {"succeeded"} /\ At(k).attempt = e.attempt
      <3> SUFFICES ASSUME e.type = "summary_committed" PROVE Seen(Story, i, {"succeeded"}, e.attempt)
        BY <1>6
      <3> QED BY <2>3 DEF Verdict, Verdicts
    <2> QED BY <2>5, <2>6, <2>7, <2>8, <2>9 DEF e
  <1>9. AttemptsAreGrounded
    <2> SUFFICES ASSUME NEW i \in written
                 PROVE  /\ At(i).type = "created" => \A l \in At(i).links : \E k \in written : k < i /\
                             At(k).type = "created" /\ At(k).attempt = l /\ At(k).operation = At(i).operation
                        /\ At(i).type = "usage" => \A k \in written :
                             At(k).type = "usage" /\ At(k).request = At(i).request /\ At(k).model = At(i).model =>
                               At(k).attempt = At(i).attempt
      BY DEF AttemptsAreGrounded
    <2>1. ASSUME At(i).type = "created", NEW l \in At(i).links
          PROVE  \E k \in written : k < i /\
                   At(k).type = "created" /\ At(k).attempt = l /\ At(k).operation = At(i).operation
      <3>1. i \in DOMAIN Story /\ Story[i] = At(i)  BY <1>2
      <3>2. PICK k \in DOMAIN Story : k < i /\ Story[k].type = "created" /\ Story[k].attempt = l
                                      /\ Story[k].operation = At(i).operation
        BY <1>1, <2>1, <3>1 DEF Lawful, LinksLeadBack
      <3>3. IsLedger(Story[k])  BY <3>2 DEF IsLedger, Conversation
      <3>4. k \in written /\ Story[k] = At(k)  BY <1>2, <1>3, <3>3
      <3> QED BY <3>2, <3>4
    <2>2. ASSUME NEW k \in written, NEW m \in written, k < m, At(k).type = "usage", At(m).type = "usage",
                 At(k).request = At(m).request, At(k).model = At(m).model
          PROVE  At(k).attempt = At(m).attempt
      <3>1. "usage" \notin Conversation  BY DEF Conversation
      <3>2. k \in Unique(Story) /\ Story[k] = At(k) /\ Admissible(Story, m) /\ Story[m] = At(m)
        BY <1>2, <1>7, <2>2, <3>1
      <3>3. Usage(Story, m, At(m))  BY <2>2, <3>2 DEF Admissible
      <3> QED BY <2>2, <3>2, <3>3 DEF Usage
    <2>3. ASSUME At(i).type = "usage", NEW k \in written, At(k).type = "usage",
                 At(k).request = At(i).request, At(k).model = At(i).model
          PROVE  At(k).attempt = At(i).attempt
      <3>1. k < i \/ k = i \/ i < k  BY <1>5
      <3> QED BY <2>2, <2>3, <3>1
    <2> QED BY <2>1, <2>3
  <1> QED BY <1>8, <1>9

\* Within one process the ledger of a session stays readable and tells one
\* possible story of its attempts, and what reservations and commits answered
\* stays true of it, for any jobs and events, torn writes and crashes.
THEOREM LedgerLaw == ASSUME OneQueue PROVE Spec => []LedgerIsLawful
  <1>1. HistoryInv /\ LedgerInv => LedgerIsLawful
    BY LedgerReads, AnswersHold, InOrder DEF LedgerIsLawful
  <1> QED BY <1>1, QueueInvariance, LedgerInvariance, PTL

=============================================================================

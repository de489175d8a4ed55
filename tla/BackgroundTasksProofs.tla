----------------------- MODULE BackgroundTasksProofs -----------------------
(***************************************************************************)
(* The safety of background tasks, for any tasks, children, roots and      *)
(* owners: turns of one child are serial and in order, terminal records    *)
(* are final, handles and waits are answered, failures poison their root   *)
(* and stopping drains its scope.                                          *)
(***************************************************************************)
EXTENDS BackgroundTasks, Queues, FiniteSetTheorems, TLAPS

-----------------------------------------------------------------------------
(* Queues, and induction *)

\* Natural induction on the elements of a set, from the fact that a finite set
\* has no injection into a part of itself: if x is missing from T, then adding
\* one maps the elements of T below x into those of them that are not zero.
LEMMA Induction ==
  ASSUME NEW T, 0 \in T, \A n \in Nat : n \in T => n + 1 \in T
  PROVE  Nat \subseteq T
  <1> SUFFICES ASSUME NEW x \in Nat, x \notin T PROVE FALSE  OBVIOUS
  <1> DEFINE A == T \cap (0 .. x)
             f == [k \in A |-> k + 1]
  <1>1. IsFiniteSet(A) /\ A \subseteq 0 .. x /\ 0 \in A
    <2>1. IsFiniteSet(0 .. x)  BY FS_Interval
    <2> QED BY <2>1, FS_Subset
  <1>2. \A k \in A : k \in Nat /\ k # x /\ k + 1 \in A \ {0}
    OBVIOUS
  <1>3. f \in Injection(A, A \ {0})
    BY <1>2 DEF Injection, IsInjective
  <1>4. IsFiniteSet(A \ {0}) /\ Cardinality(A \ {0}) = Cardinality(A) - 1 /\ Cardinality(A) \in Nat
    BY <1>1, FS_RemoveElement, FS_CardinalityType
  <1> HIDE DEF A, f
  <1>5. Cardinality(A) <= Cardinality(A \ {0})
    BY <1>3, <1>4, FS_Injection
  <1> QED BY <1>4, <1>5

\* push adds the pushed entry and nothing else.
LEMMA AppendFacts ==
  ASSUME NEW S, NEW s \in Seq(S), NEW x \in S
  PROVE  /\ Append(s, x) \in Seq(S)
         /\ \A y : InSeq(Append(s, x), y) <=> InSeq(s, y) \/ y = x
         /\ Distinct(s) /\ ~InSeq(s, x) => Distinct(Append(s, x))
  <1> DEFINE a == Append(s, x)
  <1>1. /\ a \in Seq(S) /\ Len(a) = Len(s) + 1 /\ DOMAIN a = 1..Len(s) + 1
        /\ \A i \in DOMAIN s : i \in DOMAIN a /\ a[i] = s[i]
        /\ Len(s) + 1 \in DOMAIN a /\ a[Len(s) + 1] = x
        /\ \A i \in DOMAIN a : i \in DOMAIN s \/ i = Len(s) + 1
    OBVIOUS
  <1> HIDE DEF a
  <1> QED BY <1>1 DEF InSeq, Distinct, a

\* shift removes the first entry, and all of it when entries are distinct.
LEMMA TailFacts ==
  ASSUME NEW S, NEW s \in Seq(S), s # <<>>
  PROVE  /\ Tail(s) \in Seq(S)
         /\ InSeq(s, Head(s))
         /\ \A y : InSeq(Tail(s), y) => InSeq(s, y)
         /\ \A y : InSeq(s, y) /\ y # Head(s) => InSeq(Tail(s), y)
         /\ Distinct(s) => Distinct(Tail(s)) /\ ~InSeq(Tail(s), Head(s))
  <1> DEFINE a == Tail(s)
  <1>1. /\ a \in Seq(S) /\ 1 \in DOMAIN s /\ Head(s) = s[1]
        /\ \A i \in DOMAIN a : i + 1 \in DOMAIN s /\ a[i] = s[i + 1] /\ i + 1 # 1
        /\ \A i \in DOMAIN s : i # 1 => i - 1 \in DOMAIN a /\ a[i - 1] = s[i]
        /\ \A i, j \in DOMAIN a : i + 1 = j + 1 => i = j
    OBVIOUS
  <1> HIDE DEF a
  <1> QED BY <1>1 DEF InSeq, Distinct, a

-----------------------------------------------------------------------------
(* The inductive invariant *)

Queued == InTurn \cup {"queued"}

\* A child's queue holds exactly its turns that run or wait, each once, and
\* the first one, and no other, runs.
QueueFits(c) ==
  /\ Distinct(turns[c])
  /\ \A t : InSeq(turns[c], t) => t \in Tasks /\ ChildOf[t] = c /\ step[t] \in Queued
  /\ \A t \in Tasks : ChildOf[t] = c /\ step[t] \in Queued => InSeq(turns[c], t)
  /\ \A t \in Tasks : ChildOf[t] = c /\ step[t] \in InTurn => Head(turns[c]) = t
  /\ turns[c] # <<>> => step[Head(turns[c])] \in InTurn

\* A first task that was not started has no child yet.
ChildIsNew ==
  \A t \in Initial : step[t] = "idle" =>
    /\ ChildOf[t] \notin profiles
    /\ \A u \in Tasks : ChildOf[u] = ChildOf[t] => step[u] \in {"idle", "refused"}

\* What the store, the registry and the caller hold of a task at each step.
RecordFits(t) ==
  /\ step[t] \notin {"looking", "ended", "settled"} => disk[t] \notin Terminal
  /\ step[t] \in {"withdrawn", "looking", "concluding", "finalizing", "reporting"} => status[t] \in Terminal
  /\ published[t] = "pending" => step[t] \in {"entered", "queued", "withdrawn"}
  /\ result[t] # "none" => step[t] \in {"ended", "settled"}
  /\ result[t] = "ok" => disk[t] \in Terminal

HandleFits(t) ==
  /\ t \in jobs <=> step[t] \in Live
  /\ t \in armed => step[t] \in Live
  /\ ready[t] = "ok" => disk[t] # "absent" /\ step[t] \in Live \cup {"settled"}
  /\ ready[t] = "ok" /\ step[t] = "settled" => disk[t] \in Terminal \/ t \in failures \/ ReportedByStop(t)

\* What a wait saw of a task before its await still says where the answer is.
WaitFits(t) ==
  /\ wait[t] # "no" => ready[t] = "ok"
  /\ wait[t] \in {"stored", "reading"} => disk[t] \in Terminal \/ ReportedByStop(t)
  /\ wait[t] = "ok" => disk[t] \in Terminal
  /\ wait[t] = "open" => ReportedByStop(t)

\* A scope that is being stopped takes no job, and waits for those it has.
ScopesFit ==
  /\ stopping[All] # "no" => ~accepting
  /\ \A r \in Roots : stopping[r] # "no" => r \in revoked
  /\ \A s \in Scopes : stopping[s] = "waiting" => jobs \cap TasksOf(s) \subseteq awaited[s]
  /\ \A s \in Scopes : stopping[s] \in {"done", "failed"} => jobs \cap TasksOf(s) = {}

IInv ==
  /\ TypeOK
  /\ \A c \in Children : QueueFits(c)
  /\ \A t \in Tasks : RecordFits(t) /\ HandleFits(t) /\ WaitFits(t)
  /\ ChildIsNew /\ ScopesFit /\ FailureRevokesRoot

-----------------------------------------------------------------------------
(* A queue without some of its turns *)

\* The recursive function of Without, up to the first m turns.
Keep(K, s, out, m) ==
  K = [n \in 0 .. m |->
         IF n = 0 THEN <<>>
         ELSE IF s[n] \in out THEN K[n - 1] ELSE Append(K[n - 1], s[n])]

\* There is such a function: it is extended by one turn at a time.
LEMMA KeptExists ==
  ASSUME NEW S, NEW s \in Seq(S), NEW out
  PROVE  \E K : Keep(K, s, out, Len(s)) /\ Without(s, out) = K[Len(s)]
  <1> DEFINE T == {m \in Nat : \E K : Keep(K, s, out, m)}
  <1>1. 0 \in T
    <2>1. Keep([n \in 0 .. 0 |-> <<>>], s, out, 0)  BY DEF Keep
    <2> QED BY <2>1
  <1>2. \A n \in Nat : n \in T => n + 1 \in T
    <2> SUFFICES ASSUME NEW m \in Nat, NEW K, Keep(K, s, out, m)
                 PROVE  m + 1 \in T
      OBVIOUS
    <2> DEFINE G == [n \in 0 .. m + 1 |->
                       IF n = m + 1 THEN IF s[n] \in out THEN K[m] ELSE Append(K[m], s[n])
                       ELSE K[n]]
    <2>1. \A n \in 0 .. m : G[n] = K[n]  OBVIOUS
    <2>2. ASSUME NEW n \in 0 .. m + 1
          PROVE  G[n] = IF n = 0 THEN <<>>
                        ELSE IF s[n] \in out THEN G[n - 1] ELSE Append(G[n - 1], s[n])
      <3>1. CASE n = m + 1
        <4>1. G[n - 1] = K[m]  BY <3>1, <2>1
        <4> QED BY <3>1, <4>1
      <3>2. CASE n \in 0 .. m
        <4>1. G[n] = K[n]  BY <3>2, <2>1
        <4>2. n # 0 => G[n - 1] = K[n - 1]  BY <3>2, <2>1
        <4> HIDE DEF G
        <4> QED BY <3>2, <4>1, <4>2 DEF Keep
      <3> QED BY <3>1, <3>2
    <2>3. Keep(G, s, out, m + 1)  
      <3>1. G = [n \in 0 .. m + 1 |-> G[n]]  OBVIOUS
      <3> HIDE DEF G
      <3> QED BY <3>1, <2>2 DEF Keep
    <2> QED BY <2>3
  <1> HIDE DEF T
  <1>3. Nat \subseteq T  BY <1>1, <1>2, Induction
  <1>4. Len(s) \in T  BY <1>3
  <1>5. \E K : Keep(K, s, out, Len(s))  BY <1>4 DEF T
  <1>6. Without(s, out) = (CHOOSE K : Keep(K, s, out, Len(s)))[Len(s)]
    BY DEF Without, Keep
  <1> QED BY <1>5, <1>6

\* What is left is the other turns, in their order: the first one that is left
\* has none of the others before it.
LEMMA WithoutFacts ==
  ASSUME NEW S, NEW s \in Seq(S), NEW out
  PROVE  /\ Without(s, out) \in Seq(S)
         /\ \A y : InSeq(Without(s, out), y) <=> InSeq(s, y) /\ y \notin out
         /\ Distinct(s) => Distinct(Without(s, out))
         /\ Without(s, out) # <<>> =>
              \E k \in DOMAIN s : /\ Head(Without(s, out)) = s[k] /\ s[k] \notin out
                                 /\ \A i \in 1 .. k - 1 : s[i] \in out
  <1>1. PICK K : Keep(K, s, out, Len(s)) /\ Without(s, out) = K[Len(s)]
    BY KeptExists
  <1> DEFINE In(n) == \A y : InSeq(K[n], y) <=> \E i \in 1 .. n : s[i] = y /\ y \notin out
             First(n) == K[n] # <<>> =>
               \E k \in 1 .. n : /\ Head(K[n]) = s[k] /\ s[k] \notin out
                                 /\ \A i \in 1 .. k - 1 : s[i] \in out
             Good(n) == /\ K[n] \in Seq(S) /\ In(n) /\ First(n)
                        /\ Distinct(s) => Distinct(K[n])
             T == {n \in Nat : n <= Len(s) => Good(n)}
  <1>2. 0 \in T
    <2>1. K[0] = <<>>  BY <1>1 DEF Keep
    <2>2. Good(0)  BY <2>1 DEF InSeq, Distinct
    <2> QED BY <2>2
  <1>3. \A n \in Nat : n \in T => n + 1 \in T
    <2> HIDE DEF In, First
    <2> SUFFICES ASSUME NEW n \in Nat, n + 1 <= Len(s), Good(n)
                 PROVE  Good(n + 1)
      OBVIOUS
    <2> USE DEF In, First
    <2> DEFINE x == s[n + 1]
    <2>1. n + 1 \in DOMAIN s /\ x \in S  OBVIOUS
    <2>2. K[n + 1] = IF x \in out THEN K[n] ELSE Append(K[n], x)
      <3>1. n + 1 \in 0 .. Len(s) /\ n + 1 # 0 /\ (n + 1) - 1 = n  OBVIOUS
      <3> QED BY ZenonT(30), <3>1, <1>1 DEF Keep
    <2>3. \A i : i \in 1 .. n + 1 <=> i \in 1 .. n \/ i = n + 1  OBVIOUS
    <2>4. CASE x \in out
      <3>1. K[n + 1] = K[n]  BY <2>2, <2>4
      <3>2. In(n + 1)  BY <3>1, <2>3, <2>4
      <3>3. First(n + 1)  BY <3>1, <2>3
      <3> QED BY <3>1, <3>2, <3>3
    <2>5. CASE x \notin out
      <3>1. K[n + 1] = Append(K[n], x)  BY <2>2, <2>5
      <3>2. /\ Append(K[n], x) \in Seq(S)
            /\ \A y : InSeq(Append(K[n], x), y) <=> InSeq(K[n], y) \/ y = x
            /\ Distinct(K[n]) /\ ~InSeq(K[n], x) => Distinct(Append(K[n], x))
        BY <2>1, AppendFacts
      <3>3. In(n + 1)  BY <3>1, <3>2, <2>3, <2>5
      <3>4. Distinct(s) => ~InSeq(K[n], x)
        <4>1. \A i \in 1 .. n : i \in DOMAIN s /\ i # n + 1  BY <2>1
        <4> QED BY <4>1, <2>1 DEF Distinct
      <3>5. First(n + 1)
        <4>1. CASE K[n] = <<>>
          <5>1. Head(K[n + 1]) = x  BY <3>1, <4>1
          <5>2. \A i \in 1 .. n : s[i] \in out
            <6> SUFFICES ASSUME NEW i \in 1 .. n, s[i] \notin out PROVE FALSE  OBVIOUS
            <6>1. InSeq(K[n], s[i])  OBVIOUS
            <6> QED BY <6>1, <4>1 DEF InSeq
          <5>3. n + 1 \in 1 .. n + 1 /\ (n + 1) - 1 = n  OBVIOUS
          <5> HIDE DEF x
          <5> QED BY <5>1, <5>2, <5>3, <2>5 DEF x
        <4>2. CASE K[n] # <<>>
          <5>1. Head(K[n + 1]) = Head(K[n])  BY <3>1, <4>2
          <5> QED BY <5>1, <4>2, <2>3
        <4> QED BY <4>1, <4>2
      <3> QED BY <3>1, <3>2, <3>3, <3>4, <3>5
    <2> QED BY <2>4, <2>5
  <1> HIDE DEF T
  <1>4. Nat \subseteq T  BY <1>2, <1>3, Induction
  <1>5. Good(Len(s))
    <2>1. Len(s) \in T  BY <1>4
    <2> QED BY <2>1 DEF T
  <1>6. DOMAIN s = 1 .. Len(s)  OBVIOUS
  <1> HIDE DEF In, First
  <1>7. \A y : InSeq(K[Len(s)], y) <=> InSeq(s, y) /\ y \notin out
    BY <1>5, <1>6 DEF InSeq, In
  <1> QED BY <1>1, <1>5, <1>6, <1>7 DEF First

\* A finished turn leaves its own queue and no other.
LEMMA LeaveFacts ==
  ASSUME TypeOK, OwnersAssumption, NEW t \in Tasks
  PROVE  /\ Leave(t) \in [Children -> Seq(Tasks)]
         /\ Leave(t)[ChildOf[t]] = Without(turns[ChildOf[t]], {t})
         /\ \A c \in Children : c # ChildOf[t] => Leave(t)[c] = turns[c]
  <1>1. ChildOf[t] \in Children /\ turns \in [Children -> Seq(Tasks)]
    BY DEF OwnersAssumption, TypeOK
  <1>2. Without(turns[ChildOf[t]], {t}) \in Seq(Tasks)  BY <1>1, WithoutFacts
  <1> QED BY <1>1, <1>2 DEF Leave

-----------------------------------------------------------------------------
(* Types *)

Steps == Live \cup {"idle", "refused", "settled"}

Stored  == Terminal \cup {"absent", "blocked", "queued", "running"}
Reasons == {"none", "cancelled", "lifecycle", "execution", "failed"}
Aborts  == {"cancelled", "lifecycle"}
Waits   == {"no", "retained", "local", "stored", "joining", "reading"}
           \cup {"ok", "error", "open"}

\* The end of a turn keeps the types of what it changes.
LEMMA EndTurnType ==
  ASSUME TypeOK, OwnersAssumption, NEW t \in Tasks, EndTurn(t, "ended")
  PROVE  /\ turns' \in [Children -> Seq(Tasks)]
         /\ step' \in [Tasks -> Steps]
         /\ armed' \subseteq Tasks
  <1>1. step \in [Tasks -> Steps] /\ armed \subseteq Tasks  BY DEF TypeOK, Steps
  <1>2. "ended" \in Steps /\ "entered" \in Steps  BY DEF Steps, Live, InTurn
  <1> QED BY <1>1, <1>2, LeaveFacts DEF EndTurn

\* Aborting the controllers of some tasks does, too.
LEMMA AbortType ==
  ASSUME TypeOK, OwnersAssumption, NEW who, NEW why \in Aborts,
         NEW code \in Terminal, AbortAll(who, why, code)
  PROVE  /\ turns' \in [Children -> Seq(Tasks)]
         /\ step' \in [Tasks -> Steps]
         /\ status' \in [Tasks -> Terminal \cup {"none"}]
         /\ aborted' \in [Tasks -> {"none", "cancelled", "lifecycle", "execution", "failed"}]
  <1>1. /\ step \in [Tasks -> Steps] /\ turns \in [Children -> Seq(Tasks)]
        /\ status \in [Tasks -> Terminal \cup {"none"}]
        /\ aborted \in [Tasks -> {"none", "cancelled", "lifecycle", "execution", "failed"}]
    BY DEF TypeOK, Steps
  <1>2. "withdrawn" \in Steps  BY DEF Steps, Live
  <1> QED BY <1>1, <1>2, WithoutFacts DEF AbortAll, Aborts

\* So does the report of a turn that ended without a result.
LEMMA ReportType ==
  ASSUME TypeOK, OwnersAssumption, NEW t \in Tasks, NEW code \in Terminal,
         NEW error \in {"error", "cancelled"}, Report(t, code, error)
  PROVE  /\ turns' \in [Children -> Seq(Tasks)]
         /\ step' \in [Tasks -> Steps]
         /\ armed' \subseteq Tasks
         /\ status' \in [Tasks -> Terminal \cup {"none"}]
         /\ result' \in [Tasks -> {"none", "ok", "error", "cancelled"}]
         /\ profile' \in [Children -> {"pending", "ok", "err"}]
  <1>1. /\ step \in [Tasks -> Steps] /\ turns \in [Children -> Seq(Tasks)] /\ armed \subseteq Tasks
        /\ status \in [Tasks -> Terminal \cup {"none"}]
        /\ result \in [Tasks -> {"none", "ok", "error", "cancelled"}]
        /\ profile \in [Children -> {"pending", "ok", "err"}]
    BY DEF TypeOK, Steps
  <1>2. "reporting" \in Steps  BY DEF Steps, Live, InTurn
  <1>3. CASE t \in Continuations
    <2>1. /\ status' = [status EXCEPT ![t] = code] /\ Go(t, "reporting")
          /\ UNCHANGED <<result, profile>>
      BY <1>3 DEF Report, Initial
    <2> QED BY <1>1, <1>2, <2>1 DEF Go
  <1>4. CASE t \in Initial
    <2>1. Return(t, error) /\ NoProfile(t) /\ UNCHANGED status  BY <1>4 DEF Report, Initial
    <2> QED BY <1>1, <2>1, EndTurnType DEF Return, NoProfile
  <1> QED BY <1>3, <1>4 DEF Report

LEMMA CodesFit ==
  ASSUME TypeOK, NEW t \in Tasks
  PROVE  /\ StatusOf(t) \in Terminal /\ Errors(t) \subseteq {"error", "cancelled"}
         /\ {"timed_out", "failed", "cancelled", "succeeded"} \subseteq Terminal
  BY DEF TypeOK, StatusOf, Errors, Terminal

LEMMA FaultsType ==
  ASSUME TypeOK, Fails \/ Succeeds
  PROVE  faults' \in Nat
  BY DEF TypeOK, Fails, Succeeds

\* What the types say of a state, with the values of a variable by one name.
LEMMA TypeFacts ==
  TypeOK <=>
    /\ accepting \in BOOLEAN /\ revoked \subseteq Roots
    /\ jobs \subseteq Tasks /\ profiles \subseteq Children /\ failures \subseteq Tasks
    /\ turns \in [Children -> Seq(Tasks)]
    /\ profile \in [Children -> {"pending", "ok", "err"}]
    /\ step \in [Tasks -> Steps]
    /\ status \in [Tasks -> Terminal \cup {"none"}]
    /\ result \in [Tasks -> {"none", "ok", "error", "cancelled"}]
    /\ disk \in [Tasks -> Stored]
    /\ published \in [Tasks -> {"none", "pending", "ok", "failed"}]
    /\ ready \in [Tasks -> {"none", "ok", "err"}]
    /\ aborted \in [Tasks -> Reasons]
    /\ due \subseteq Tasks /\ armed \subseteq Tasks
    /\ stopping \in [Scopes -> {"no", "waiting", "done", "failed"}]
    /\ awaited \in [Scopes -> SUBSET Tasks]
    /\ wait \in [Tasks -> Waits]
    /\ faults \in Nat
  BY DEF TypeOK, Steps, Stored, Reasons, Waits

\* Starting a task, whatever its start decides.
LEMMA StartTypes ==
  ASSUME TypeOK, OwnersAssumption, NEW t \in Tasks, StartInitial(t) \/ Continue(t)
  PROVE  TypeOK'
  <1>1. ChildOf[t] \in Children  BY DEF OwnersAssumption
  <1>2. {"refused", "entered", "queued", "withdrawn"} \subseteq Steps /\ "cancelled" \in Terminal
    BY DEF Steps, Live, InTurn, Terminal
  <1>3. jobs' \subseteq Tasks /\ profiles' \subseteq Children /\ armed' \subseteq Tasks
    BY <1>1, TypeFacts DEF StartInitial, Continue, Refused
  <1>4. turns' \in [Children -> Seq(Tasks)]
    <2>1. turns \in [Children -> Seq(Tasks)]  BY TypeFacts
    <2>2. \/ turns' = turns \/ turns' = [turns EXCEPT ![ChildOf[t]] = Append(@, t)]
          \/ turns' = [turns EXCEPT ![ChildOf[t]] = <<t>>]
      BY DEF StartInitial, Continue, Refused
    <2>3. <<t>> \in Seq(Tasks) /\ Append(turns[ChildOf[t]], t) \in Seq(Tasks)  BY <1>1, <2>1
    <2> QED BY <1>1, <2>1, <2>2, <2>3
  <1>5. step' \in [Tasks -> Steps]
    <2>1. step \in [Tasks -> Steps]  BY TypeFacts
    <2>2. \E s \in Steps : step' = [step EXCEPT ![t] = s]
      BY <1>2 DEF StartInitial, Continue, Refused
    <2> QED BY <2>1, <2>2
  <1>6. status' \in [Tasks -> Terminal \cup {"none"}]
    <2>1. status \in [Tasks -> Terminal \cup {"none"}]  BY TypeFacts
    <2>2. status' = status \/ status' = [status EXCEPT ![t] = "cancelled"]
      BY DEF StartInitial, Continue, Refused
    <2> QED BY <1>2, <2>1, <2>2
  <1>7. published' \in [Tasks -> {"none", "pending", "ok", "failed"}]
    <2>1. published \in [Tasks -> {"none", "pending", "ok", "failed"}]  BY TypeFacts
    <2>2. published' = published \/ \E s \in {"ok", "pending"} : published' = [published EXCEPT ![t] = s]
      BY DEF StartInitial, Continue, Refused
    <2> QED BY <2>1, <2>2
  <1>8. aborted' \in [Tasks -> Reasons]
    <2>1. aborted \in [Tasks -> Reasons]  BY TypeFacts
    <2>2. aborted' = aborted \/ aborted' = [aborted EXCEPT ![t] = "cancelled"]
      BY DEF StartInitial, Continue, Refused
    <2> QED BY <2>1, <2>2 DEF Reasons
  <1>9. ready' \in [Tasks -> {"none", "ok", "err"}]
    <2>1. ready \in [Tasks -> {"none", "ok", "err"}]  BY TypeFacts
    <2>2. ready' = ready \/ ready' = [ready EXCEPT ![t] = "err"]
      BY DEF StartInitial, Continue, Refused
    <2> QED BY <2>1, <2>2
  <1>10. UNCHANGED <<accepting, revoked, failures, profile, result, disk, due, stopping, awaited, wait, faults>>
    BY DEF StartInitial, Continue, stopVars
  <1> QED BY <1>3, <1>4, <1>5, <1>6, <1>7, <1>8, <1>9, <1>10 DEF TypeOK, Steps, Stored, Reasons, Waits

\* The record of a start, a withdrawal and the end of a job.
LEMMA EndTypes ==
  ASSUME TypeOK, OwnersAssumption, NEW t \in Tasks, RecordFits(t),
         Publish(t) \/ Withdrawn(t) \/ SettleTerminal(t)
  PROVE  TypeOK'
  <1>1. ChildOf[t] \in Children /\ RootOf[t] \in Roots  BY DEF OwnersAssumption
  <1>t1. turns \in [Children -> Seq(Tasks)]  BY TypeFacts
  <1>t2. step \in [Tasks -> Steps]  BY TypeFacts
  <1>t3. result \in [Tasks -> {"none", "ok", "error", "cancelled"}]  BY TypeFacts
  <1>t4. disk \in [Tasks -> Stored]  BY TypeFacts
  <1>t5. published \in [Tasks -> {"none", "pending", "ok", "failed"}]  BY TypeFacts
  <1>t6. ready \in [Tasks -> {"none", "ok", "err"}]  BY TypeFacts
  <1>t7. profile \in [Children -> {"pending", "ok", "err"}]  BY TypeFacts
  <1>t8. status \in [Tasks -> Terminal \cup {"none"}]  BY TypeFacts
  <1>t9. aborted \in [Tasks -> Reasons]  BY TypeFacts
  <1>2. {"ended", "settled"} \subseteq Steps  BY DEF Steps, Live
  <1>3. CASE Publish(t)
    <2>1. turns' \in [Children -> Seq(Tasks)]
      BY <1>3, <1>t1, LeaveFacts DEF Publish
    <2>2. step' \in [Tasks -> Steps]  BY ZenonT(30), <1>2, <1>3, <1>t2 DEF Publish
    <2>3. result' \in [Tasks -> {"none", "ok", "error", "cancelled"}]  BY <1>3, <1>t3 DEF Publish
    <2>4. disk' \in [Tasks -> Stored]  BY <1>3, <1>t4 DEF Publish, Stored
    <2>5. published' \in [Tasks -> {"none", "pending", "ok", "failed"}]  BY <1>3, <1>t5 DEF Publish
    <2>6. ready' \in [Tasks -> {"none", "ok", "err"}]  BY <1>3, <1>t6 DEF Publish, HandOut
    <2>7. faults' \in Nat  BY <1>3, FaultsType DEF Publish
    <2>8. UNCHANGED <<accepting, revoked, jobs, failures, profiles, profile, status, aborted, due, armed, stopping, awaited, wait>>
      BY <1>3 DEF Publish, registryVars, clockVars, stopVars
    <2> QED BY <2>1, <2>2, <2>3, <2>4, <2>5, <2>6, <2>7, <2>8 DEF TypeOK, Steps, Stored, Reasons, Waits
  <1>4. CASE Withdrawn(t)
    <2>1. status[t] \in Stored  BY <1>4 DEF Withdrawn, RecordFits, Stored
    <2>2. step' \in [Tasks -> Steps]  BY <1>2, <1>4, <1>t2 DEF Withdrawn
    <2>3. result' \in [Tasks -> {"none", "ok", "error", "cancelled"}]
      BY <1>4, <1>t3 DEF Withdrawn, QueuedTerminal
    <2>4. disk' \in [Tasks -> Stored]  BY <1>4, <2>1, <1>t4 DEF Withdrawn, QueuedTerminal
    <2>5. faults' \in Nat
      BY <1>4, FaultsType DEF Withdrawn, QueuedTerminal, Succeeds
    <2>6. UNCHANGED <<accepting, revoked, jobs, failures, profiles, turns, profile, status, published, ready, aborted, due, armed, stopping, awaited, wait>>
      BY <1>4 DEF Withdrawn, registryVars, clockVars, stopVars
    <2> QED BY <2>2, <2>3, <2>4, <2>5, <2>6 DEF TypeOK, Steps, Stored, Reasons, Waits
  <1>5. CASE SettleTerminal(t)
    <2>1. step' \in [Tasks -> Steps]  BY <1>2, <1>5, <1>t2 DEF SettleTerminal
    <2>2. ready' \in [Tasks -> {"none", "ok", "err"}]  BY <1>5, <1>t6 DEF SettleTerminal
    <2>3. profile' \in [Children -> {"pending", "ok", "err"}]
      BY <1>1, <1>5, <1>t7 DEF SettleTerminal, NoProfile
    <2>4. armed' \subseteq Tasks /\ due' \subseteq Tasks /\ jobs' \subseteq Tasks
      BY <1>5, TypeFacts DEF SettleTerminal
    <2>5. status' \in [Tasks -> Terminal \cup {"none"}]  BY <1>5, <1>t8 DEF SettleTerminal
    <2>6. published' \in [Tasks -> {"none", "pending", "ok", "failed"}]  BY <1>5, <1>t5 DEF SettleTerminal
    <2>7. aborted' \in [Tasks -> Reasons]  BY <1>5, <1>t9 DEF SettleTerminal, Reasons
    <2>8. failures' \subseteq Tasks /\ revoked' \subseteq Roots /\ profiles' \subseteq Children
      BY <1>1, <1>5, TypeFacts DEF SettleTerminal, Retain
    <2>9. UNCHANGED <<accepting, turns, result, disk, stopping, awaited, wait, faults>>
      BY <1>5 DEF SettleTerminal, stopVars
    <2> QED BY <2>1, <2>2, <2>3, <2>4, <2>5, <2>6, <2>7, <2>8, <2>9 DEF TypeOK, Steps, Stored, Reasons, Waits
  <1> QED BY <1>3, <1>4, <1>5

-----------------------------------------------------------------------------
(* Turns of a child *)

\* A queue that does not change fits while its turns stay queued or running.
LEMMA QueueSame ==
  ASSUME TypeOK, NEW c \in Children, QueueFits(c), turns'[c] = turns[c],
         \A u \in Tasks : ChildOf[u] = c => /\ step'[u] \in Queued <=> step[u] \in Queued
                                            /\ step'[u] \in InTurn <=> step[u] \in InTurn
  PROVE  QueueFits(c)'
  <1>1. turns[c] \in Seq(Tasks)  BY DEF TypeOK
  <1>2. turns[c] # <<>> => InSeq(turns[c], Head(turns[c]))  BY <1>1, TailFacts
  <1> QED BY <1>2 DEF QueueFits

\* Turns that are queued, and so not at the head, leave it.
LEMMA QueueLeft ==
  ASSUME TypeOK, NEW c \in Children, QueueFits(c), NEW out,
         \A u \in out : step[u] = "queued",
         turns'[c] = Without(turns[c], out),
         \A u \in Tasks : ChildOf[u] = c => IF u \in out THEN step'[u] \notin Queued
                                            ELSE step'[u] = step[u]
  PROVE  QueueFits(c)'
  <1> DEFINE s == turns[c]
             w == Without(s, out)
  <1>1. s \in Seq(Tasks)  BY DEF TypeOK
  <1>2. /\ w \in Seq(Tasks)
        /\ \A y : InSeq(w, y) <=> InSeq(s, y) /\ y \notin out
        /\ Distinct(s) => Distinct(w)
        /\ w # <<>> => \E k \in DOMAIN s : /\ Head(w) = s[k] /\ s[k] \notin out
                                          /\ \A i \in 1 .. k - 1 : s[i] \in out
    BY <1>1, WithoutFacts
  <1>3. /\ Distinct(s)
        /\ \A t : InSeq(s, t) => t \in Tasks /\ ChildOf[t] = c /\ step[t] \in Queued
        /\ \A t \in Tasks : ChildOf[t] = c /\ step[t] \in Queued => InSeq(s, t)
        /\ \A t \in Tasks : ChildOf[t] = c /\ step[t] \in InTurn => Head(s) = t
        /\ s # <<>> => step[Head(s)] \in InTurn
    BY DEF QueueFits
  <1>4. s = <<>> => w = <<>>
    <2>1. w # <<>> => InSeq(w, Head(w))  BY <1>2, TailFacts
    <2>2. s = <<>> => \A y : ~InSeq(s, y)  BY DEF InSeq
    <2> HIDE DEF w, s
    <2> QED BY <2>1, <2>2, <1>2
  <1>5. "queued" \notin InTurn /\ InTurn \subseteq Queued  BY DEF InTurn, Queued
  <1>6. s # <<>> => InSeq(s, Head(s)) /\ Head(s) \notin out /\ Head(s) = s[1]
    BY <1>1, <1>3, <1>5, TailFacts
  <1>7. s # <<>> => w # <<>> /\ Head(w) = Head(s)
    <2> SUFFICES ASSUME s # <<>> PROVE w # <<>> /\ Head(w) = Head(s)  OBVIOUS
    <2>1. InSeq(w, Head(s))  BY <1>2, <1>6
    <2>2. w # <<>>  BY <2>1 DEF InSeq
    <2>3. PICK k \in DOMAIN s : /\ Head(w) = s[k] /\ s[k] \notin out
                                /\ \A i \in 1 .. k - 1 : s[i] \in out
      BY <2>2, <1>2
    <2>4. k = 1
      <3>1. k \in Nat /\ k >= 1  BY <1>1, <2>3
      <3>2. k > 1 => 1 \in 1 .. k - 1  BY <3>1
      <3> QED BY <3>1, <3>2, <2>3, <1>6
    <2> QED BY <2>2, <2>3, <2>4, <1>6
  <1>8. turns'[c] = w  OBVIOUS
  <1> HIDE DEF w, s
  <1>9. \A y : InSeq(w, y) => y \in Tasks /\ ChildOf[y] = c /\ step'[y] \in Queued
    BY <1>2, <1>3
  <1>10. \A t \in Tasks : ChildOf[t] = c /\ step'[t] \in Queued => InSeq(w, t)
    BY <1>2, <1>3
  <1>11. \A t \in Tasks : ChildOf[t] = c /\ step'[t] \in InTurn => Head(w) = t
    <2> SUFFICES ASSUME NEW t \in Tasks, ChildOf[t] = c, step'[t] \in InTurn
                 PROVE  Head(w) = t
      OBVIOUS
    <2>1. t \notin out /\ step[t] \in InTurn  BY <1>5
    <2>2. Head(s) = t /\ InSeq(s, t)  BY <2>1, <1>3, <1>5
    <2>3. s # <<>>  BY <2>2 DEF InSeq
    <2> QED BY <2>2, <2>3, <1>7
  <1>12. w # <<>> => step'[Head(w)] \in InTurn
    <2> SUFFICES ASSUME w # <<>> PROVE step'[Head(w)] \in InTurn  OBVIOUS
    <2>1. s # <<>>  BY <1>4
    <2>2. Head(w) = Head(s) /\ Head(s) \in Tasks /\ ChildOf[Head(s)] = c  BY <2>1, <1>7, <1>6, <1>3
    <2>3. step'[Head(s)] = step[Head(s)]  BY <2>1, <2>2, <1>6
    <2> QED BY <2>1, <2>2, <2>3, <1>3
  <1> QED BY <1>2, <1>3, <1>8, <1>9, <1>10, <1>11, <1>12 DEF QueueFits

\* The running turn ends: it leaves its queue, and the next one, which was
\* queued, is entered and disarmed.  Nobody else moves.
LEMMA QueueEnded ==
  ASSUME TypeOK, OwnersAssumption, \A c \in Children : QueueFits(c),
         NEW t \in Tasks, step[t] \in InTurn, EndTurn(t, "ended")
  PROVE  /\ step'[t] = "ended" /\ armed' \subseteq armed
         /\ \A u \in Tasks : u # t => \/ step'[u] = step[u]
                                      \/ step[u] = "queued" /\ step'[u] = "entered"
         /\ \A c \in Children : QueueFits(c)'
  <1> DEFINE d == ChildOf[t]
             s == turns[d]
             w == Without(s, {t})
             next == {u \in Starts(Leave(t), d) : step[u] = "queued"}
  <1>1. /\ d \in Children /\ s \in Seq(Tasks)
        /\ Leave(t)[d] = w /\ \A c \in Children : c # d => Leave(t)[c] = turns[c]
    BY ZenonT(30), LeaveFacts DEF OwnersAssumption, TypeOK
  <1>2. /\ turns' = Leave(t)
        /\ step' = [u \in Tasks |-> IF u = t THEN "ended"
                                    ELSE IF u \in next THEN "entered" ELSE step[u]]
        /\ armed' = armed \ next
    BY DEF EndTurn
  <1>3. \A u : u \in next <=> w # <<>> /\ u = Head(w) /\ step[u] = "queued"
    BY <1>1 DEF Starts
  <1> HIDE DEF next
  <1>4. \A u \in Tasks : u # t => \/ step'[u] = step[u] /\ u \notin next
                                  \/ step[u] = "queued" /\ step'[u] = "entered" /\ u \in next
    BY <1>2, <1>3
  <1>5. step'[t] = "ended" /\ armed' \subseteq armed  BY <1>2
  <1>6. /\ w \in Seq(Tasks)
        /\ \A y : InSeq(w, y) <=> InSeq(s, y) /\ y # t
        /\ Distinct(s) => Distinct(w)
    BY <1>1, WithoutFacts
  <1>7. /\ Distinct(s)
        /\ \A u : InSeq(s, u) => u \in Tasks /\ ChildOf[u] = d /\ step[u] \in Queued
        /\ \A u \in Tasks : ChildOf[u] = d /\ step[u] \in Queued => InSeq(s, u)
        /\ \A u \in Tasks : ChildOf[u] = d /\ step[u] \in InTurn => Head(s) = u
    BY <1>1 DEF QueueFits
  <1>8. /\ "ended" \notin Queued /\ "queued" \notin InTurn /\ {"entered", "queued"} \subseteq Queued
        /\ "entered" \in InTurn /\ \A x : x \in Queued <=> x \in InTurn \/ x = "queued"
    BY DEF Queued, InTurn
  <1>9. w # <<>> => InSeq(w, Head(w))  BY <1>6, TailFacts
  <1>10. turns'[d] = w /\ \A c \in Children : c # d => turns'[c] = turns[c]
    BY <1>1, <1>2
  <1> HIDE DEF w, s, d
  <1>11. \A u \in Tasks : ChildOf[u] = d /\ u # t /\ step[u] \in Queued => step[u] = "queued"
    BY <1>7, <1>8 DEF d
  <1>12. w # <<>> => Head(w) \in Tasks /\ Head(w) # t /\ ChildOf[Head(w)] = d /\ Head(w) \in next
    BY <1>9, <1>6, <1>7, <1>11, <1>3
  <1>13. \A u \in next : w # <<>> /\ u = Head(w)  BY <1>3
  <1>14. \A u \in Tasks : ChildOf[u] = d /\ u # t => (step'[u] \in Queued <=> step[u] \in Queued)
    BY <1>4, <1>8
  <1>15. QueueFits(d)'
    <2>1. \A u : InSeq(w, u) => u \in Tasks /\ ChildOf[u] = d /\ step'[u] \in Queued
      BY <1>6, <1>7, <1>14
    <2>2. \A u \in Tasks : ChildOf[u] = d /\ step'[u] \in Queued => InSeq(w, u)
      BY <1>5, <1>6, <1>7, <1>8, <1>14
    <2>3. \A u \in Tasks : ChildOf[u] = d /\ step'[u] \in InTurn => Head(w) = u
      <3> SUFFICES ASSUME NEW u \in Tasks, ChildOf[u] = d, step'[u] \in InTurn
                   PROVE  u \in next
        BY <1>13
      <3>1. u # t /\ step'[u] \in Queued  BY <1>5, <1>8
      <3>2. step[u] = "queued"  BY <3>1, <1>14, <1>11
      <3> QED BY <3>1, <3>2, <1>4, <1>8
    <2>4. w # <<>> => step'[Head(w)] \in InTurn
      BY <1>12, <1>4, <1>8, <1>3
    <2> QED BY <1>6, <1>7, <1>10, <2>1, <2>2, <2>3, <2>4 DEF QueueFits
  <1>16. ASSUME NEW c \in Children, c # d PROVE QueueFits(c)'
    <2>1. \A u \in Tasks : ChildOf[u] = c => step'[u] = step[u]
      <3> SUFFICES ASSUME NEW u \in Tasks, ChildOf[u] = c PROVE step'[u] = step[u]  OBVIOUS
      <3>1. u # t  BY <1>16 DEF d
      <3>2. u \notin next  BY <1>13, <1>12, <1>16
      <3> QED BY <3>1, <3>2, <1>4
    <2>2. QueueFits(c)  OBVIOUS
    <2> QED BY <2>1, <2>2, <1>10, <1>16, QueueSame
  <1> QED BY <1>4, <1>5, <1>15, <1>16

\* A turn that is queued goes to the end of its child's queue, and it runs at
\* once if there is no other.
LEMMA QueueJoined ==
  ASSUME TypeOK, NEW c \in Children, QueueFits(c), NEW t \in Tasks, ChildOf[t] = c,
         step[t] \notin Queued, turns'[c] = Append(turns[c], t),
         IF turns[c] = <<>> THEN step'[t] \in InTurn ELSE step'[t] = "queued",
         \A u \in Tasks : u # t => step'[u] = step[u]
  PROVE  QueueFits(c)'
  <1> DEFINE s == turns[c]
             w == Append(s, t)
  <1>1. s \in Seq(Tasks)  BY DEF TypeOK
  <1>2. /\ w \in Seq(Tasks)
        /\ \A y : InSeq(w, y) <=> InSeq(s, y) \/ y = t
        /\ Distinct(s) /\ ~InSeq(s, t) => Distinct(w)
    BY <1>1, AppendFacts
  <1>3. w # <<>> /\ Head(w) = IF s = <<>> THEN t ELSE Head(s)
    <2>1. Head(w) = w[1] /\ w # <<>>  BY <1>1
    <2>2. CASE s = <<>>  BY <1>1, <2>1, <2>2
    <2>3. CASE s # <<>>
      <3>1. 1 \in 1 .. Len(s) /\ Head(s) = s[1]  BY <1>1, <2>3
      <3> QED BY <1>1, <2>1, <2>3, <3>1
    <2> QED BY <2>2, <2>3
  <1>4. /\ Distinct(s)
        /\ \A u : InSeq(s, u) => u \in Tasks /\ ChildOf[u] = c /\ step[u] \in Queued
        /\ \A u \in Tasks : ChildOf[u] = c /\ step[u] \in Queued => InSeq(s, u)
        /\ \A u \in Tasks : ChildOf[u] = c /\ step[u] \in InTurn => Head(s) = u
        /\ s # <<>> => step[Head(s)] \in InTurn
    BY DEF QueueFits
  <1>5. /\ "queued" \notin InTurn /\ \A x : x \in Queued <=> x \in InTurn \/ x = "queued"
    BY DEF Queued, InTurn
  <1>6. s = <<>> => \A y : ~InSeq(s, y)  BY DEF InSeq
  <1>7. s # <<>> => InSeq(s, Head(s))  BY <1>1, TailFacts
  <1>8. turns'[c] = w /\ (IF s = <<>> THEN step'[t] \in InTurn ELSE step'[t] = "queued")
    OBVIOUS
  <1> HIDE DEF s, w
  <1>9. \A u : InSeq(w, u) => u \in Tasks /\ ChildOf[u] = c /\ step'[u] \in Queued
    <2>1. step'[t] \in Queued  BY <1>5, <1>8
    <2>2. step[t] \notin Queued  OBVIOUS
    <2> QED BY <2>1, <2>2, <1>2, <1>4
  <1>10. \A u \in Tasks : ChildOf[u] = c /\ step'[u] \in Queued => InSeq(w, u)
    BY <1>2, <1>4
  <1>11. \A u \in Tasks : ChildOf[u] = c /\ step'[u] \in InTurn => Head(w) = u
    BY <1>3, <1>4, <1>5, <1>6, <1>8
  <1>12. step'[Head(w)] \in InTurn
    BY <1>3, <1>4, <1>7, <1>8
  <1> QED BY <1>2, <1>4, <1>8, <1>9, <1>10, <1>11, <1>12 DEF QueueFits

-----------------------------------------------------------------------------
(* One task among others *)

LEMMA StepFacts ==
  /\ \A x : x \in Queued <=> x \in InTurn \/ x = "queued"
  /\ \A x : x \in Live <=> x \in Queued \/ x \in {"withdrawn", "ended"}
  /\ \A x \in {"idle", "refused", "settled"} : x \notin Live
  /\ \A x \in {"queued", "withdrawn", "ended"} : x \notin InTurn
  /\ \A x \in {"withdrawn", "ended", "idle", "refused", "settled"} : x \notin Queued
  /\ "entered" \in InTurn /\ {"entered", "queued", "withdrawn", "ended"} \subseteq Live
  BY DEF Queued, InTurn, Live

\* A task stays where it is, or its queued turn is entered.
Moves(u) == step'[u] = step[u] \/ (step[u] = "queued" /\ step'[u] = "entered")

LEMMA RecordKept ==
  ASSUME NEW u, RecordFits(u), Moves(u), disk'[u] = disk[u], status'[u] = status[u],
         published'[u] = published[u], result'[u] = result[u]
  PROVE  RecordFits(u)'
  BY DEF RecordFits, Moves

\* What is registered, retained and reported of a task is not forgotten.
ReportsKept(u) ==
  /\ u \in failures => u \in failures' \/ ReportedByStop(u)'
  /\ ReportedByStop(u) => ReportedByStop(u)'

LEMMA HandleKept ==
  ASSUME NEW u, HandleFits(u), Moves(u), u \in jobs' <=> u \in jobs, u \in armed' => u \in armed,
         ready'[u] = ready[u], disk'[u] = disk[u], ReportsKept(u)
  PROVE  HandleFits(u)'
  <1>1. (step'[u] \in Live <=> step[u] \in Live) /\ (step'[u] = "settled" <=> step[u] = "settled")
    BY StepFacts DEF Moves
  <1> QED BY <1>1 DEF HandleFits, ReportsKept

LEMMA WaitKept ==
  ASSUME NEW u, WaitFits(u), wait'[u] = wait[u], ready[u] = "ok" => ready'[u] = "ok",
         disk[u] \in Terminal => disk'[u] \in Terminal, ReportedByStop(u) => ReportedByStop(u)'
  PROVE  WaitFits(u)'
  BY DEF WaitFits

\* Nothing is reported less when nothing is stopped and no failure is taken.
LEMMA ReportsSame ==
  ASSUME NEW u, stopping' = stopping, failures \subseteq failures'
  PROVE  ReportsKept(u)
  BY DEF ReportsKept, ReportedByStop

LEMMA ScopesKept ==
  ASSUME ScopesFit, stopping' = stopping, awaited' = awaited, accepting' = accepting,
         revoked \subseteq revoked', jobs' \subseteq jobs
  PROVE  ScopesFit'
  BY DEF ScopesFit, TasksOf

LEMMA FailuresKept ==
  ASSUME FailureRevokesRoot, failures' \subseteq failures, revoked \subseteq revoked',
         profiles' \subseteq profiles
  PROVE  FailureRevokesRoot'
  BY DEF FailureRevokesRoot

LEMMA ChildKept ==
  ASSUME ChildIsNew, profiles' \subseteq profiles,
         \A u \in Tasks : \/ step'[u] = step[u]
                          \/ step[u] \notin {"idle", "refused"} /\ step'[u] # "idle"
  PROVE  ChildIsNew'
  BY DEF ChildIsNew, Initial

-----------------------------------------------------------------------------
(* What a turn does *)

\* A turn moves on or ends; the record of its task stays lawful, and nothing
\* else changes but for its controller, its profile and the faults.
TurnMoves(t) ==
  /\ step[t] \in InTurn
  /\ EndTurn(t, "ended") \/ \E next \in InTurn : Go(t, next)
  /\ \A u \in Tasks : u # t => /\ status'[u] = status[u] /\ result'[u] = result[u]
                               /\ disk'[u] = disk[u] /\ ready'[u] = ready[u]
  /\ disk[t] \in Terminal => disk'[t] = disk[t]
  /\ disk[t] # "absent" => disk'[t] # "absent"
  /\ ready'[t] = ready[t] \/ (ready'[t] = "ok" /\ disk'[t] # "absent")
  /\ RecordFits(t)'
  /\ UNCHANGED <<accepting, revoked, jobs, failures, profiles, published, due, stopping, awaited, wait>>

TurnTypes ==
  /\ profile' \in [Children -> {"pending", "ok", "err"}]
  /\ status' \in [Tasks -> Terminal \cup {"none"}]
  /\ result' \in [Tasks -> {"none", "ok", "error", "cancelled"}]
  /\ disk' \in [Tasks -> Stored]
  /\ ready' \in [Tasks -> {"none", "ok", "err"}]
  /\ aborted' \in [Tasks -> Reasons]
  /\ faults' \in Nat

LEMMA TurnMovesKeeps ==
  ASSUME IInv, OwnersAssumption, NEW t \in Tasks, TurnMoves(t), TurnTypes
  PROVE  IInv'
  <1> USE DEF IInv
  <1>1. /\ \A u \in Tasks : u # t => Moves(u)
        /\ step'[t] \in InTurn \cup {"ended"}
        /\ armed' \subseteq armed
        /\ \A c \in Children : QueueFits(c)'
    <2>1. CASE EndTurn(t, "ended")  BY <2>1, QueueEnded DEF TurnMoves, Moves
    <2>2. ASSUME NEW next \in InTurn, Go(t, next)
          PROVE  /\ \A u \in Tasks : u # t => step'[u] = step[u]
                 /\ step'[t] \in InTurn /\ armed' = armed
                 /\ \A c \in Children : QueueFits(c)'
      <3>1. step' = [step EXCEPT ![t] = next] /\ turns' = turns /\ armed' = armed  BY <2>2 DEF Go
      <3>2. step \in [Tasks -> Steps]  BY TypeFacts
      <3>3. step'[t] = next /\ \A u \in Tasks : u # t => step'[u] = step[u]  BY <3>1, <3>2
      <3>4. \A u \in Tasks : /\ step'[u] \in Queued <=> step[u] \in Queued
                             /\ step'[u] \in InTurn <=> step[u] \in InTurn
        BY <3>3, <2>2, StepFacts DEF TurnMoves
      <3>5. \A c \in Children : QueueFits(c)'
        <4> SUFFICES ASSUME NEW c \in Children PROVE QueueFits(c)'  OBVIOUS
        <4> HIDE DEF IInv
        <4>1. TypeOK /\ QueueFits(c)  BY DEF IInv
        <4> QED BY <4>1, <3>1, <3>4, QueueSame
      <3> QED BY <3>1, <3>3, <3>5
    <2> QED BY <2>1, <2>2 DEF TurnMoves, Moves
  <1>2. TypeOK'
    <2>1. /\ turns' \in [Children -> Seq(Tasks)]
          /\ step' \in [Tasks -> Steps]
          /\ armed' \subseteq Tasks
      <3>1. CASE EndTurn(t, "ended")  BY <3>1, EndTurnType
      <3>2. CASE \E next \in InTurn : Go(t, next)
        <4>1. InTurn \subseteq Steps  BY DEF Steps, Live
        <4> QED BY <3>2, <4>1, TypeFacts DEF Go
      <3> QED BY <3>1, <3>2 DEF TurnMoves
    <2>2. /\ UNCHANGED <<accepting, revoked, jobs, failures, profiles, published, due, stopping, awaited, wait>>
      BY DEF TurnMoves
    <2> QED BY <2>1, <2>2 DEF TypeOK, TurnTypes, Steps, Stored, Reasons, Waits
  <1> HIDE DEF IInv
  <1>3. UNCHANGED <<accepting, revoked, jobs, failures, profiles, published, due, stopping, awaited, wait>>
    BY DEF TurnMoves
  <1>4. ASSUME NEW u \in Tasks PROVE ReportsKept(u)  BY <1>3, ReportsSame
  <1>5. step[t] \in InTurn /\ step'[t] \in Live /\ step'[t] # "settled"
    BY <1>1, StepFacts DEF TurnMoves
  <1>6. ASSUME NEW u \in Tasks
        PROVE  RecordFits(u)' /\ HandleFits(u)' /\ WaitFits(u)'
    <2>1. RecordFits(u) /\ HandleFits(u) /\ WaitFits(u)  BY DEF IInv
    <2>2. WaitFits(u)'
      BY <1>3, <1>4, <2>1, WaitKept DEF TurnMoves, ReportsKept
    <2>3. CASE u # t
      <3>1. RecordFits(u)'  BY <1>1, <1>3, <2>1, <2>3, RecordKept DEF TurnMoves
      <3>2. HandleFits(u)'  BY <1>1, <1>3, <1>4, <2>1, <2>3, HandleKept DEF TurnMoves
      <3> QED BY <3>1, <3>2, <2>2
    <2>4. CASE u = t
      <3>1. HandleFits(t)'
        BY <1>1, <1>3, <1>5, <2>1, <2>4, StepFacts DEF HandleFits, TurnMoves
      <3>2. RecordFits(t)'  BY DEF TurnMoves
      <3> QED BY <3>1, <3>2, <2>2, <2>4
    <2> QED BY <2>3, <2>4
  <1>7. ChildIsNew'
    <2>1. \A u \in Tasks : \/ step'[u] = step[u]
                           \/ step[u] \notin {"idle", "refused"} /\ step'[u] # "idle"
      <3>1. step[t] \notin {"idle", "refused"} /\ step'[t] # "idle"
        BY <1>5 DEF InTurn, Live
      <3>2. \A u \in Tasks : u # t => Moves(u)  BY <1>1
      <3> QED BY <3>1, <3>2 DEF Moves
    <2>2. ChildIsNew  BY DEF IInv
    <2>3. profiles' \subseteq profiles  BY <1>3
    <2> QED BY <2>1, <2>2, <2>3, ChildKept, Zenon
  <1>8. ScopesFit' /\ FailureRevokesRoot'
    BY <1>3, ScopesKept, FailuresKept DEF IInv
  <1> QED BY <1>1, <1>2, <1>6, <1>7, <1>8 DEF IInv

\* The three ways a turn takes a step: it returns, it goes on, or it reports
\* why it ends; what each leaves in the fields of its task.
Effect(t) ==
  /\ EndTurn(t, "ended") \/ \E next \in InTurn : Go(t, next)
  /\ \A u \in Tasks : u # t => status'[u] = status[u] /\ result'[u] = result[u]
  /\ status' \in [Tasks -> Terminal \cup {"none"}]
  /\ result' \in [Tasks -> {"none", "ok", "error", "cancelled"}]

Profiled == profile' \in [Children -> {"pending", "ok", "err"}]

LEMMA ReturnEffect ==
  ASSUME TypeOK, NEW t \in Tasks, NEW value \in {"ok", "error", "cancelled"},
         Return(t, value), status' = status
  PROVE  Effect(t) /\ step'[t] = "ended" /\ result'[t] = value /\ status'[t] = status[t]
  <1>1. /\ status \in [Tasks -> Terminal \cup {"none"}]
        /\ result \in [Tasks -> {"none", "ok", "error", "cancelled"}]
    BY TypeFacts
  <1>2. EndTurn(t, "ended") /\ result' = [result EXCEPT ![t] = value]  BY DEF Return
  <1>3. step'[t] = "ended"  BY <1>2 DEF EndTurn
  <1> QED BY <1>1, <1>2, <1>3 DEF Effect

LEMMA GoEffect ==
  ASSUME TypeOK, NEW t \in Tasks, NEW next \in InTurn, Go(t, next), result' = result,
         NEW code \in Terminal,
         status' = status \/ status' = [status EXCEPT ![t] = code]
  PROVE  /\ Effect(t) /\ step'[t] = next /\ result'[t] = result[t]
         /\ status' = status => status'[t] = status[t]
         /\ status' = [status EXCEPT ![t] = code] => status'[t] = code
  <1>1. /\ status \in [Tasks -> Terminal \cup {"none"}]
        /\ result \in [Tasks -> {"none", "ok", "error", "cancelled"}]
        /\ step \in [Tasks -> Steps]
    BY TypeFacts
  <1>2. step'[t] = next  BY <1>1 DEF Go
  <1> QED BY <1>1, <1>2 DEF Effect

LEMMA ReportEffect ==
  ASSUME TypeOK, OwnersAssumption, NEW t \in Tasks, NEW code \in Terminal,
         NEW error \in {"error", "cancelled"}, Report(t, code, error)
  PROVE  /\ Effect(t) /\ Profiled
         /\ \/ step'[t] = "reporting" /\ status'[t] \in Terminal /\ result'[t] = result[t]
            \/ step'[t] = "ended" /\ result'[t] \in {"error", "cancelled"}
  <1>1. Profiled  BY ReportType DEF Profiled
  <1>2. "reporting" \in InTurn  BY DEF InTurn
  <1>3. CASE t \in Continuations
    <2>1. /\ status' = [status EXCEPT ![t] = code] /\ Go(t, "reporting")
          /\ UNCHANGED <<result, profile>>
      BY <1>3 DEF Report, Initial
    <2> QED BY <1>1, <1>2, <2>1, GoEffect
  <1>4. CASE t \in Initial
    <2>1. Return(t, error) /\ status' = status  BY <1>4 DEF Report, Initial
    <2> QED BY <1>1, <2>1, ReturnEffect
  <1> QED BY <1>3, <1>4 DEF Initial

LEMMA NoProfileType ==
  ASSUME TypeOK, OwnersAssumption, NEW t \in Tasks,
         NoProfile(t) \/ profile' = profile \/ profile' = [profile EXCEPT ![ChildOf[t]] = "ok"]
  PROVE  Profiled
  <1>1. profile \in [Children -> {"pending", "ok", "err"}] /\ ChildOf[t] \in Children
    BY TypeFacts DEF OwnersAssumption
  <1> QED BY <1>1 DEF Profiled, NoProfile

\* The turn is entered.
LEMMA EnterKeeps ==
  ASSUME IInv, OwnersAssumption, NEW t \in Tasks, Enter(t)
  PROVE  IInv'
  <1>1. TypeOK /\ RecordFits(t)  BY DEF IInv
  <1>2. /\ step[t] = "entered" /\ step[t] \in InTurn /\ published[t] # "pending"
        /\ UNCHANGED <<accepting, revoked, jobs, failures, profiles, disk, published, ready, aborted, due, stopping, awaited, wait, faults>>
    BY DEF Enter, registryVars, stopVars, InTurn
  <1>3. /\ Effect(t) /\ Profiled
        /\ \/ step'[t] = "reporting" /\ status'[t] \in Terminal /\ result'[t] = result[t]
           \/ step'[t] = "ended" /\ result'[t] \in {"error", "cancelled"}
           \/ step'[t] \in {"registering", "opening"} /\ result'[t] = result[t]
    <2>1. CASE Return(t, "error") /\ UNCHANGED <<status, profile>>
      BY <1>1, <2>1, ReturnEffect, NoProfileType
    <2>2. CASE \E error \in Errors(t), code \in {StatusOf(t), "timed_out"} : Report(t, code, error)
      BY <1>1, <2>2, CodesFit, ReportEffect
    <2>3. CASE Go(t, IF t \in Initial THEN "registering" ELSE "opening") /\ UNCHANGED <<status, profile, result>>
      <3>1. \E next \in {"registering", "opening"} : Go(t, next)  BY <2>3
      <3>2. "registering" \in InTurn /\ "opening" \in InTurn /\ "failed" \in Terminal  BY DEF InTurn, Terminal
      <3> QED BY <1>1, <2>3, <3>1, <3>2, GoEffect, NoProfileType
    <2>4. "error" \in Errors(t)  BY DEF Errors
    <2> QED BY <2>1, <2>2, <2>3, <2>4 DEF Enter
  <1>4. RecordFits(t)'  BY <1>1, <1>2, <1>3 DEF RecordFits
  <1>5. TurnTypes  BY <1>1, <1>2, <1>3, TypeFacts DEF TurnTypes, Effect, Profiled
  <1>6. TurnMoves(t)  BY <1>2, <1>3, <1>4 DEF TurnMoves, Effect
  <1> QED BY <1>5, <1>6, TurnMovesKeeps

\* A turn waits for its child's profile, or writes that it is queued again.
LEMMA OpenKeeps ==
  ASSUME IInv, OwnersAssumption, NEW t \in Tasks, Open(t) \/ Requeue(t)
  PROVE  IInv'
  <1>1. TypeOK /\ RecordFits(t)  BY DEF IInv
  <1>2. /\ step[t] \in {"opening", "requeueing"} /\ step[t] \in InTurn
        /\ UNCHANGED <<accepting, revoked, jobs, failures, profiles, published, ready, aborted, due, stopping, awaited, wait>>
    BY DEF Open, Requeue, registryVars, stopVars, InTurn
  <1>3. /\ faults' \in Nat
        /\ disk' = disk \/ disk' = [disk EXCEPT ![t] = "queued"]
    BY <1>1, FaultsType DEF Open, Requeue, Succeeds
  <1>4. /\ disk' \in [Tasks -> Stored] /\ \A u \in Tasks : u # t => disk'[u] = disk[u]
        /\ disk[t] \notin Terminal /\ disk'[t] \notin Terminal
        /\ disk[t] # "absent" => disk'[t] # "absent"
    <2>1. disk \in [Tasks -> Stored] /\ "queued" \in Stored /\ "queued" \notin Terminal
      BY <1>1, TypeFacts DEF Stored, Terminal
    <2>2. disk[t] \notin Terminal  BY <1>1, <1>2 DEF RecordFits
    <2> QED BY <1>3, <2>1, <2>2
  <1>5. /\ Effect(t) /\ Profiled
        /\ \/ step'[t] = "reporting" /\ status'[t] \in Terminal /\ result'[t] = result[t]
           \/ step'[t] = "ended" /\ result'[t] \in {"error", "cancelled"}
           \/ step'[t] \in {"requeueing", "registering"} /\ result'[t] = result[t]
    <2>1. CASE Report(t, "failed", "error")
      BY <1>1, <2>1, CodesFit, ReportEffect
    <2>2. CASE \E next \in {"requeueing", "registering"} :
                 Go(t, next) /\ UNCHANGED <<status, profile, result>>
      <3>1. "requeueing" \in InTurn /\ "registering" \in InTurn /\ "failed" \in Terminal  BY DEF InTurn, Terminal
      <3> QED BY <1>1, <2>2, <3>1, GoEffect, NoProfileType
    <2> QED BY <2>1, <2>2 DEF Open, Requeue
  <1>6. RecordFits(t)'  BY <1>1, <1>2, <1>4, <1>5 DEF RecordFits
  <1>7. TurnTypes  BY <1>1, <1>2, <1>3, <1>4, <1>5, TypeFacts DEF TurnTypes, Effect, Profiled
  <1>8. TurnMoves(t)  BY <1>2, <1>4, <1>5, <1>6 DEF TurnMoves, Effect
  <1> QED BY <1>7, <1>8, TurnMovesKeeps

\* The admission queue refuses a task or takes it.
LEMMA RegisterKeeps ==
  ASSUME IInv, OwnersAssumption, NEW t \in Tasks, Register(t)
  PROVE  IInv'
  <1>1. TypeOK /\ RecordFits(t)  BY DEF IInv
  <1>2. /\ step[t] = "registering" /\ step[t] \in InTurn
        /\ UNCHANGED <<accepting, revoked, jobs, failures, profiles, published, aborted, due, stopping, awaited, wait, faults>>
    BY DEF Register, registryVars, stopVars, InTurn
  <1>3. \/ UNCHANGED <<disk, ready>>
        \/ disk' = [disk EXCEPT ![t] = "queued"] /\ HandOut(t, TRUE)
    BY DEF Register
  <1>4. /\ disk' \in [Tasks -> Stored] /\ \A u \in Tasks : u # t => disk'[u] = disk[u]
        /\ disk[t] \notin Terminal /\ disk'[t] \notin Terminal
        /\ disk[t] # "absent" => disk'[t] # "absent"
        /\ ready' \in [Tasks -> {"none", "ok", "err"}] /\ \A u \in Tasks : u # t => ready'[u] = ready[u]
        /\ ready'[t] = ready[t] \/ (ready'[t] = "ok" /\ disk'[t] # "absent")
    <2>1. disk \in [Tasks -> Stored] /\ "queued" \in Stored /\ "queued" \notin Terminal
      BY <1>1, TypeFacts DEF Stored, Terminal
    <2>2. disk[t] \notin Terminal  BY <1>1, <1>2 DEF RecordFits
    <2>3. ready \in [Tasks -> {"none", "ok", "err"}]  BY <1>1, TypeFacts
    <2> QED BY <1>3, <2>1, <2>2, <2>3 DEF HandOut
  <1>5. /\ Effect(t) /\ Profiled
        /\ \/ step'[t] = "reporting" /\ status'[t] \in Terminal /\ result'[t] = result[t]
           \/ step'[t] = "ended" /\ result'[t] \in {"error", "cancelled"}
           \/ step'[t] = "waiting" /\ result'[t] = result[t]
    <2>1. CASE \E error \in Errors(t), code \in {"timed_out", StatusOf(t)} : Report(t, code, error)
      BY <1>1, <2>1, CodesFit, ReportEffect
    <2>2. CASE Go(t, "waiting") /\ UNCHANGED <<status, profile, result>>
      <3>1. "waiting" \in InTurn /\ "failed" \in Terminal  BY DEF InTurn, Terminal
      <3> QED BY <1>1, <2>2, <3>1, GoEffect, NoProfileType
    <2> QED BY <2>1, <2>2 DEF Register
  <1>6. RecordFits(t)'  BY <1>1, <1>2, <1>4, <1>5 DEF RecordFits
  <1>7. TurnTypes  BY <1>1, <1>2, <1>4, <1>5, TypeFacts DEF TurnTypes, Effect, Profiled
  <1>8. TurnMoves(t)  BY <1>2, <1>4, <1>5, <1>6 DEF TurnMoves, Effect
  <1> QED BY <1>7, <1>8, TurnMovesKeeps

\* The queue withdraws the waiter, and the task looks for its terminal record.
LEMMA WithdrawKeeps ==
  ASSUME IInv, OwnersAssumption, NEW t \in Tasks, Withdraw(t)
  PROVE  IInv'
  <1>1. TypeOK /\ RecordFits(t)  BY DEF IInv
  <1>2. /\ step[t] = "waiting" /\ step[t] \in InTurn
        /\ UNCHANGED <<accepting, revoked, jobs, failures, profiles, result, published, ready, aborted, due, stopping, awaited, wait>>
    BY DEF Withdraw, registryVars, stopVars, InTurn
  <1>3. PICK code \in {"cancelled", "timed_out"} :
          /\ status' = [status EXCEPT ![t] = code]
          /\ \/ Succeeds /\ disk' = [disk EXCEPT ![t] = code]
             \/ Fails /\ UNCHANGED disk
    BY DEF Withdraw
  <1>4. faults' \in Nat /\ code \in Terminal /\ "absent" \notin Terminal
    BY <1>1, <1>3, FaultsType DEF Terminal
  <1>5. /\ disk' \in [Tasks -> Stored] /\ \A u \in Tasks : u # t => disk'[u] = disk[u]
        /\ disk[t] \notin Terminal /\ (disk[t] # "absent" => disk'[t] # "absent")
    <2>1. disk \in [Tasks -> Stored] /\ Terminal \subseteq Stored  BY <1>1, TypeFacts DEF Stored
    <2>2. disk[t] \notin Terminal  BY <1>1, <1>2 DEF RecordFits
    <2>3. disk' = disk \/ disk' = [disk EXCEPT ![t] = code]  BY <1>3
    <2> QED BY <1>4, <2>1, <2>2, <2>3
  <1>6. Effect(t) /\ Profiled /\ step'[t] = "looking" /\ status'[t] = code /\ result'[t] = result[t]
    <2>1. Go(t, "looking") /\ NoProfile(t) /\ result' = result  BY DEF Withdraw
    <2>2. "looking" \in InTurn  BY DEF InTurn
    <2> QED BY <1>1, <1>3, <1>4, <2>1, <2>2, GoEffect, NoProfileType
  <1>7. RecordFits(t)'  BY <1>1, <1>2, <1>4, <1>6 DEF RecordFits
  <1>8. TurnTypes  BY <1>1, <1>2, <1>4, <1>5, <1>6, TypeFacts DEF TurnTypes, Effect, Profiled
  <1>9. TurnMoves(t)  BY <1>2, <1>5, <1>6, <1>7 DEF TurnMoves, Effect
  <1> QED BY <1>8, <1>9, TurnMovesKeeps

\* The terminal record is found, or its absence is reported.
LEMMA LookUpKeeps ==
  ASSUME IInv, OwnersAssumption, NEW t \in Tasks, LookUp(t)
  PROVE  IInv'
  <1>1. TypeOK /\ RecordFits(t)  BY DEF IInv
  <1>2. /\ step[t] = "looking" /\ step[t] \in InTurn
        /\ UNCHANGED <<accepting, revoked, jobs, failures, profiles, disk, published, ready, aborted, due, stopping, awaited, wait>>
    BY DEF LookUp, registryVars, stopVars, InTurn
  <1>3. faults' \in Nat  BY <1>1, FaultsType DEF LookUp
  <1>4. /\ Effect(t) /\ Profiled
        /\ \/ step'[t] = "reporting" /\ status'[t] \in Terminal /\ result'[t] = result[t] /\ disk[t] \notin Terminal
           \/ step'[t] = "ended" /\ result'[t] \in {"error", "cancelled"}
           \/ step'[t] = "ended" /\ disk[t] \in Terminal
    <2>1. CASE \E value \in {"ok", "error"} :
                 Return(t, value) /\ UNCHANGED <<status, profile>> /\ (value = "ok" => Found(t))
      <3>1. PICK value \in {"ok", "error"} : Return(t, value) /\ (value = "ok" => disk[t] \in Terminal)
        BY <2>1 DEF Found
      <3>2. Effect(t) /\ step'[t] = "ended" /\ result'[t] = value
        BY <1>1, <2>1, <3>1, ReturnEffect
      <3>3. Profiled  BY <1>1, <2>1, NoProfileType
      <3> QED BY <3>1, <3>2, <3>3
    <2>2. CASE /\ ~Found(t)
               /\ \E error \in Errors(t), code \in {status[t], StatusOf(t)} : Report(t, code, error)
      <3>1. status[t] \in Terminal  BY <1>1, <1>2 DEF RecordFits
      <3> QED BY <1>1, <2>2, <3>1, CodesFit, ReportEffect DEF Found
    <2> QED BY <2>1, <2>2 DEF LookUp
  <1>5. RecordFits(t)'  BY <1>1, <1>2, <1>4 DEF RecordFits
  <1>6. TurnTypes  BY <1>1, <1>2, <1>3, <1>4, TypeFacts DEF TurnTypes, Effect, Profiled
  <1>7. TurnMoves(t)  BY <1>2, <1>4, <1>5 DEF TurnMoves, Effect
  <1> QED BY <1>6, <1>7, TurnMovesKeeps

\* A task that was admitted is executed, or concluded without having run.
LEMMA ExecuteKeeps ==
  ASSUME IInv, OwnersAssumption, NEW t \in Tasks, Execute(t)
  PROVE  IInv'
  <1>1. TypeOK /\ RecordFits(t)  BY DEF IInv
  <1>2. /\ step[t] = "waiting" /\ step[t] \in InTurn
        /\ UNCHANGED <<accepting, revoked, jobs, failures, profiles, result, disk, published, ready, due, stopping, awaited, wait>>
    BY DEF Execute, registryVars, stopVars, InTurn
  <1>3. faults' \in Nat  BY <1>1, FaultsType DEF Execute
  <1>4. Profiled
    <2>1. NoProfile(t) \/ profile' = profile \/ profile' = [profile EXCEPT ![ChildOf[t]] = "ok"]
      BY DEF Execute
    <2> QED BY <1>1, <2>1, NoProfileType
  <1>5. aborted' \in [Tasks -> Reasons]
    <2>1. aborted \in [Tasks -> Reasons]  BY <1>1, TypeFacts
    <2>2. aborted' = aborted \/ \E why \in Reasons : aborted' = [aborted EXCEPT ![t] = why]
      BY <2>1 DEF Execute, Reasons
    <2> QED BY <2>1, <2>2
  <1>6. /\ Effect(t) /\ result'[t] = result[t]
        /\ \/ step'[t] = "concluding" /\ status'[t] \in Terminal
           \/ step'[t] = "starting"
    <2>1. \/ \E code \in {"timed_out", "cancelled", "failed"} : Conclude(t, code)
          \/ Go(t, "starting") /\ UNCHANGED status
      BY DEF Execute
    <2>2. {"timed_out", "cancelled", "failed"} \subseteq Terminal /\ {"concluding", "starting"} \subseteq InTurn
      BY DEF Terminal, InTurn
    <2>3. result' = result  BY <1>2
    <2>4. CASE \E code \in {"timed_out", "cancelled", "failed"} : Conclude(t, code)
      <3>1. PICK code \in Terminal : Go(t, "concluding") /\ status' = [status EXCEPT ![t] = code]
        BY <2>2, <2>4 DEF Conclude
      <3> QED BY <1>1, <2>2, <2>3, <3>1, GoEffect
    <2>5. CASE Go(t, "starting") /\ UNCHANGED status
      BY <1>1, <2>2, <2>3, <2>5, GoEffect
    <2> QED BY <2>1, <2>4, <2>5
  <1>7. RecordFits(t)'  BY <1>1, <1>2, <1>6 DEF RecordFits
  <1>8. TurnTypes  BY <1>1, <1>2, <1>3, <1>4, <1>5, <1>6, TypeFacts DEF TurnTypes, Effect, Profiled
  <1>9. TurnMoves(t)  BY <1>2, <1>6, <1>7 DEF TurnMoves, Effect
  <1> QED BY <1>8, <1>9, TurnMovesKeeps

\* The start is marked, or that fails.
LEMMA MarkStartedKeeps ==
  ASSUME IInv, OwnersAssumption, NEW t \in Tasks, MarkStarted(t)
  PROVE  IInv'
  <1>1. TypeOK /\ RecordFits(t)  BY DEF IInv
  <1>2. /\ step[t] = "starting" /\ step[t] \in InTurn
        /\ UNCHANGED <<accepting, revoked, jobs, failures, profiles, profile, result, published, ready, due, stopping, awaited, wait>>
    BY DEF MarkStarted, registryVars, stopVars, InTurn
  <1>3. faults' \in Nat  BY <1>1, FaultsType DEF MarkStarted
  <1>4. aborted' \in [Tasks -> Reasons]
    <2>1. aborted \in [Tasks -> Reasons]  BY <1>1, TypeFacts
    <2>2. aborted' = aborted \/ \E why \in Reasons : aborted' = [aborted EXCEPT ![t] = why]
      BY <2>1 DEF MarkStarted, Reasons
    <2> QED BY <2>1, <2>2
  <1>5. /\ disk' \in [Tasks -> Stored] /\ \A u \in Tasks : u # t => disk'[u] = disk[u]
        /\ disk[t] \notin Terminal /\ disk'[t] \notin Terminal
        /\ disk[t] # "absent" => disk'[t] # "absent"
    <2>1. disk \in [Tasks -> Stored] /\ "running" \in Stored /\ "running" \notin Terminal
      BY <1>1, TypeFacts DEF Stored, Terminal
    <2>2. disk[t] \notin Terminal  BY <1>1, <1>2 DEF RecordFits
    <2>3. disk' = disk \/ disk' = [disk EXCEPT ![t] = "running"]  BY DEF MarkStarted
    <2> QED BY <2>1, <2>2, <2>3
  <1>6. /\ Effect(t) /\ result'[t] = result[t]
        /\ \/ step'[t] \in {"concluding", "finalizing"} /\ status'[t] \in Terminal
           \/ step'[t] = "running"
    <2>1. \/ Conclude(t, "failed")
          \/ Go(t, "running") /\ UNCHANGED status
          \/ Go(t, "finalizing") /\ \E code \in {"timed_out", "cancelled"} : status' = [status EXCEPT ![t] = code]
      BY DEF MarkStarted
    <2>2. {"timed_out", "cancelled", "failed"} \subseteq Terminal /\ {"concluding", "running", "finalizing"} \subseteq InTurn
      BY DEF Terminal, InTurn
    <2>3. result' = result  BY <1>2
    <2>4. CASE Conclude(t, "failed")
      BY <1>1, <2>2, <2>3, <2>4, GoEffect DEF Conclude
    <2>5. CASE Go(t, "running") /\ UNCHANGED status
      BY <1>1, <2>2, <2>3, <2>5, GoEffect
    <2>6. CASE Go(t, "finalizing") /\ \E code \in {"timed_out", "cancelled"} : status' = [status EXCEPT ![t] = code]
      <3>1. PICK code \in Terminal : status' = [status EXCEPT ![t] = code]  BY <2>2, <2>6
      <3> QED BY ZenonT(30), <1>1, <2>2, <2>3, <2>6, <3>1, GoEffect
    <2> QED BY <2>1, <2>4, <2>5, <2>6
  <1>7. RecordFits(t)'  BY <1>1, <1>2, <1>5, <1>6 DEF RecordFits
  <1>8. TurnTypes  BY <1>1, <1>2, <1>3, <1>4, <1>5, <1>6, TypeFacts DEF TurnTypes, Effect
  <1>9. TurnMoves(t)  BY <1>2, <1>5, <1>6, <1>7 DEF TurnMoves, Effect
  <1> QED BY <1>8, <1>9, TurnMovesKeeps

\* The runner returns an outcome.
LEMMA RunnerKeeps ==
  ASSUME IInv, OwnersAssumption, NEW t \in Tasks, RunnerReturns(t)
  PROVE  IInv'
  <1>1. TypeOK /\ RecordFits(t)  BY DEF IInv
  <1>2. /\ step[t] = "running" /\ step[t] \in InTurn
        /\ UNCHANGED <<accepting, revoked, jobs, failures, profiles, profile, result, disk, published, ready, aborted, due, stopping, awaited, wait, faults>>
    BY DEF RunnerReturns, registryVars, stopVars, InTurn
  <1>3. Effect(t) /\ result'[t] = result[t] /\ step'[t] = "finalizing" /\ status'[t] \in Terminal
    <2>1. PICK code \in Terminal : status' = [status EXCEPT ![t] = code]  BY DEF RunnerReturns, Terminal
    <2>2. Go(t, "finalizing") /\ "finalizing" \in InTurn /\ result' = result  BY <1>2 DEF RunnerReturns, InTurn
    <2> QED BY <1>1, <2>1, <2>2, GoEffect
  <1>4. RecordFits(t)'  BY <1>1, <1>2, <1>3 DEF RecordFits
  <1>5. TurnTypes  BY <1>1, <1>2, <1>3, TypeFacts DEF TurnTypes, Effect
  <1>6. TurnMoves(t)  BY <1>2, <1>3, <1>4 DEF TurnMoves, Effect
  <1> QED BY <1>5, <1>6, TurnMovesKeeps

\* The terminal record is written, or that fails.
LEMMA WriteTerminalKeeps ==
  ASSUME IInv, OwnersAssumption, NEW t \in Tasks, WriteTerminal(t)
  PROVE  IInv'
  <1>1. TypeOK /\ RecordFits(t)  BY DEF IInv
  <1>2. /\ step[t] \in {"finalizing", "concluding", "reporting"} /\ step[t] \in InTurn
        /\ UNCHANGED <<accepting, revoked, jobs, failures, profiles, status, published, ready, aborted, due, stopping, awaited, wait>>
    BY DEF WriteTerminal, registryVars, stopVars, InTurn
  <1>3. faults' \in Nat /\ status[t] \in Terminal /\ disk[t] \notin Terminal
    BY <1>1, <1>2, FaultsType DEF WriteTerminal, RecordFits
  <1>4. Profiled  BY <1>1, NoProfileType DEF WriteTerminal
  <1>5. PICK value \in {"ok", "error", "cancelled"} :
          /\ Return(t, value)
          /\ \/ disk' = [disk EXCEPT ![t] = status[t]]
             \/ disk' = disk /\ value # "ok"
    <2>1. Errors(t) \subseteq {"error", "cancelled"}  BY <1>1, CodesFit
    <2> QED BY <2>1 DEF WriteTerminal
  <1>6. /\ disk' \in [Tasks -> Stored] /\ \A u \in Tasks : u # t => disk'[u] = disk[u]
        /\ value = "ok" => disk'[t] \in Terminal
        /\ disk[t] # "absent" => disk'[t] # "absent"
    <2>1. disk \in [Tasks -> Stored] /\ Terminal \subseteq Stored /\ "absent" \notin Terminal
      BY <1>1, TypeFacts DEF Stored, Terminal
    <2> QED BY <1>3, <1>5, <2>1
  <1>7. Effect(t) /\ step'[t] = "ended" /\ result'[t] = value
    BY <1>1, <1>2, <1>5, ReturnEffect
  <1>8. RecordFits(t)'  BY <1>1, <1>2, <1>6, <1>7 DEF RecordFits
  <1>9. TurnTypes  BY <1>1, <1>2, <1>3, <1>4, <1>6, <1>7, TypeFacts DEF TurnTypes, Effect, Profiled
  <1>10. TurnMoves(t)  BY <1>2, <1>3, <1>6, <1>7, <1>8 DEF TurnMoves, Effect
  <1> QED BY <1>9, <1>10, TurnMovesKeeps

-----------------------------------------------------------------------------
(* Starting and ending a task *)

\* Nobody but t changes.
OthersStay(t) ==
  \A u \in Tasks : u # t =>
    /\ step'[u] = step[u] /\ disk'[u] = disk[u] /\ status'[u] = status[u]
    /\ published'[u] = published[u] /\ result'[u] = result[u] /\ ready'[u] = ready[u]
    /\ wait'[u] = wait[u] /\ (u \in jobs' <=> u \in jobs) /\ (u \in armed' => u \in armed)

LEMMA OthersKept ==
  ASSUME IInv, NEW t, OthersStay(t), stopping' = stopping, failures \subseteq failures'
  PROVE  \A u \in Tasks : u # t => RecordFits(u)' /\ HandleFits(u)' /\ WaitFits(u)'
  <1> SUFFICES ASSUME NEW u \in Tasks, u # t
               PROVE  RecordFits(u)' /\ HandleFits(u)' /\ WaitFits(u)'
    OBVIOUS
  <1>1. ReportsKept(u)  BY ReportsSame
  <1>2. RecordFits(u) /\ HandleFits(u) /\ WaitFits(u)  BY DEF IInv
  <1>3. /\ Moves(u) /\ disk'[u] = disk[u] /\ status'[u] = status[u]
        /\ published'[u] = published[u] /\ result'[u] = result[u] /\ ready'[u] = ready[u]
        /\ wait'[u] = wait[u] /\ (u \in jobs' <=> u \in jobs) /\ (u \in armed' => u \in armed)
    BY DEF OthersStay, Moves
  <1>4. RecordFits(u)'  BY <1>2, <1>3, RecordKept
  <1>5. HandleFits(u)'  BY <1>1, <1>2, <1>3, HandleKept
  <1>6. WaitFits(u)'  BY <1>1, <1>2, <1>3, WaitKept DEF ReportsKept
  <1> QED BY <1>4, <1>5, <1>6

\* A task that was not started has no record, no handle and no wait.
LEMMA IdleFacts ==
  ASSUME IInv, NEW t \in Tasks, step[t] = "idle"
  PROVE  /\ disk[t] \notin Terminal /\ result[t] = "none" /\ published[t] # "pending"
         /\ t \notin jobs /\ t \notin armed /\ ready[t] # "ok" /\ wait[t] = "no"
         /\ step[t] \notin Live
  <1>1. RecordFits(t) /\ HandleFits(t) /\ WaitFits(t)  BY DEF IInv
  <1>2. step[t] \notin Live  BY StepFacts
  <1> QED BY <1>1, <1>2 DEF RecordFits, HandleFits, WaitFits

\* A refused start changes nothing but the task's own step and answer.
LEMMA RefusedKeeps ==
  ASSUME IInv, OwnersAssumption, NEW t \in Tasks, step[t] = "idle",
         StartInitial(t) \/ Continue(t), Refused(t)
  PROVE  IInv'
  <1>1. TypeOK /\ TypeOK'  BY StartTypes DEF IInv
  <1>2. /\ UNCHANGED <<accepting, revoked, jobs, profiles, failures, turns, status, result, disk, published, aborted, armed, stopping, awaited, wait>>
        /\ ready' = [ready EXCEPT ![t] = "err"]
        /\ step' = [step EXCEPT ![t] = "refused"]
    BY DEF StartInitial, Continue, Refused, stopVars
  <1>3. /\ \A u \in Tasks : u # t => step'[u] = step[u] /\ ready'[u] = ready[u]
        /\ step'[t] = "refused" /\ ready'[t] = "err"
    BY <1>1, <1>2, TypeFacts
  <1>4. OthersStay(t)  BY <1>2, <1>3 DEF OthersStay
  <1>5. "refused" \notin Live /\ "refused" \notin Queued /\ "refused" \notin InTurn
    BY DEF Live, Queued, InTurn
  <1>6. RecordFits(t)' /\ HandleFits(t)' /\ WaitFits(t)'
    BY <1>2, <1>3, <1>5, IdleFacts DEF RecordFits, HandleFits, WaitFits
  <1>7. \A u \in Tasks : RecordFits(u)' /\ HandleFits(u)' /\ WaitFits(u)'
    BY <1>2, <1>4, <1>6, OthersKept
  <1>8. \A c \in Children : QueueFits(c)'
    <2> SUFFICES ASSUME NEW c \in Children PROVE QueueFits(c)'  OBVIOUS
    <2>1. \A u \in Tasks : /\ step'[u] \in Queued <=> step[u] \in Queued
                           /\ step'[u] \in InTurn <=> step[u] \in InTurn
      BY <1>3, <1>5, IdleFacts, StepFacts
    <2>2. QueueFits(c)  BY DEF IInv
    <2> QED BY <1>1, <1>2, <2>1, <2>2, QueueSame
  <1>9. ChildIsNew'  BY <1>2, <1>3 DEF IInv, ChildIsNew, Initial
  <1>10. ScopesFit' /\ FailureRevokesRoot'  BY <1>2, ScopesKept, FailuresKept DEF IInv
  <1> QED BY <1>1, <1>7, <1>8, <1>9, <1>10 DEF IInv

\* An accepted start: the turn joins its child's queue, or it is withdrawn at
\* once because its signal has aborted already.
Started(t) ==
  /\ step[t] = "idle" /\ CanStart(t) /\ OthersStay(t)
  /\ jobs' = jobs \cup {t}
  /\ \/ t \in Initial /\ profiles' = profiles \cup {ChildOf[t]}
     \/ ChildOf[t] \in profiles /\ profiles' = profiles
  /\ \/ /\ turns' = [turns EXCEPT ![ChildOf[t]] = Append(@, t)]
        /\ step'[t] = IF turns[ChildOf[t]] = <<>> THEN "entered" ELSE "queued"
     \/ turns' = turns /\ step'[t] = "withdrawn" /\ status'[t] = "cancelled"
  /\ UNCHANGED <<accepting, revoked, failures, result, disk, ready, stopping, awaited, wait>>

LEMMA StartedKeeps ==
  ASSUME IInv, TypeOK', OwnersAssumption, NEW t \in Tasks, Started(t)
  PROVE  IInv'
  <1> DEFINE d == ChildOf[t]
  <1>1. /\ d \in Children /\ RootOf[t] \in Roots
        /\ \A u \in Tasks : ChildOf[u] = d => RootOf[u] = RootOf[t]
        /\ \A u \in Initial : t \in Initial /\ ChildOf[u] = d => u = t
        /\ \A u \in Tasks : ChildOf[u] \in Children
    BY DEF OwnersAssumption, Initial
  <1>2. TypeOK /\ turns \in [Children -> Seq(Tasks)]  BY TypeFacts DEF IInv
  <1>3. step'[t] \in {"entered", "queued", "withdrawn"} /\ (step'[t] = "withdrawn" => status'[t] = "cancelled")
    BY DEF Started
  <1>4. step'[t] \in Live /\ step'[t] # "settled"  BY <1>3 DEF Live, InTurn
  <1>5. /\ step[t] = "idle" /\ OthersStay(t) /\ jobs' = jobs \cup {t}
        /\ UNCHANGED <<accepting, revoked, failures, result, disk, ready, stopping, awaited, wait>>
    BY DEF Started
  <1>6. \A u \in Tasks : RecordFits(u)' /\ HandleFits(u)' /\ WaitFits(u)'
    <2>1. RecordFits(t)'  BY <1>3, <1>5, IdleFacts DEF RecordFits, Terminal
    <2>2. HandleFits(t)'  BY <1>4, <1>5, IdleFacts DEF HandleFits
    <2>3. WaitFits(t)'  BY <1>5, IdleFacts DEF WaitFits
    <2> QED BY <1>5, <2>1, <2>2, <2>3, OthersKept
  <1>7. \A c \in Children : QueueFits(c)'
    <2> SUFFICES ASSUME NEW c \in Children PROVE QueueFits(c)'  OBVIOUS
    <2>1. QueueFits(c)  BY DEF IInv
    <2>2. \A u \in Tasks : u # t => step'[u] = step[u]  BY <1>5 DEF OthersStay
    <2>3. step[t] \notin Queued  BY <1>5 DEF Queued, InTurn
    <2>4. CASE turns'[c] = turns[c] /\ (c # d \/ step'[t] = "withdrawn")
      <3>1. \A u \in Tasks : ChildOf[u] = c => /\ step'[u] \in Queued <=> step[u] \in Queued
                                               /\ step'[u] \in InTurn <=> step[u] \in InTurn
        BY <2>2, <2>3, <2>4, StepFacts
      <3> QED BY <1>2, <2>1, <2>4, <3>1, QueueSame
    <2>5. CASE /\ c = d /\ turns'[c] = Append(turns[c], t)
               /\ step'[t] = IF turns[c] = <<>> THEN "entered" ELSE "queued"
      <3>1. IF turns[c] = <<>> THEN step'[t] \in InTurn ELSE step'[t] = "queued"
        BY <2>5, StepFacts
      <3> QED BY <1>2, <2>1, <2>2, <2>3, <2>5, <3>1, QueueJoined
    <2> QED BY <1>1, <1>2, <2>4, <2>5 DEF Started
  <1>8. ChildIsNew'
    <2> SUFFICES ASSUME NEW u \in Initial, step'[u] = "idle"
                 PROVE  /\ ChildOf[u] \notin profiles'
                        /\ \A v \in Tasks : ChildOf[v] = ChildOf[u] => step'[v] \in {"idle", "refused"}
      BY DEF ChildIsNew
    <2>1. u \in Tasks /\ u # t /\ step[u] = "idle"
      BY <1>3, <1>5 DEF Initial, OthersStay
    <2>2. /\ ChildOf[u] \notin profiles
          /\ \A v \in Tasks : ChildOf[v] = ChildOf[u] => step[v] \in {"idle", "refused"}
      BY <2>1 DEF IInv, ChildIsNew
    <2>3. ChildOf[u] # d  BY <1>1, <2>1, <2>2 DEF Started
    <2> QED BY <1>5, <2>2, <2>3 DEF Started, OthersStay
  <1>9. ScopesFit'
    <2>1. ScopesFit /\ accepting /\ RootOf[t] \notin revoked  BY DEF IInv, Started, CanStart
    <2>2. stopping[All] = "no" /\ stopping[RootOf[t]] = "no"
      BY <1>1, <2>1 DEF ScopesFit
    <2>3. \A s \in Scopes : t \in TasksOf(s) => stopping[s] = "no"
      BY <2>2 DEF TasksOf
    <2>4. \A s \in Scopes : stopping[s] # "no" => jobs' \cap TasksOf(s) = jobs \cap TasksOf(s)
      BY <1>5, <2>3
    <2>5. \A s : TasksOf(s)' = TasksOf(s)  BY DEF TasksOf
    <2> QED BY <1>5, <2>1, <2>4, <2>5 DEF ScopesFit
  <1>10. FailureRevokesRoot'
    <2>1. FailureRevokesRoot /\ RootOf[t] \notin revoked  BY DEF IInv, Started, CanStart
    <2>2. profiles' \subseteq profiles \cup {d}  BY DEF Started
    <2> QED BY <1>1, <1>5, <2>1, <2>2 DEF FailureRevokesRoot
  <1> QED BY <1>6, <1>7, <1>8, <1>9, <1>10 DEF IInv

\* A first task finds the queue of its child empty.
LEMMA FirstFinds ==
  ASSUME IInv, OwnersAssumption, NEW t \in Initial, step[t] = "idle"
  PROVE  turns[ChildOf[t]] = <<>>
  <1>1. t \in Tasks /\ ChildOf[t] \in Children  BY DEF OwnersAssumption, Initial
  <1>2. turns[ChildOf[t]] \in Seq(Tasks)  BY <1>1, TypeFacts DEF IInv
  <1>3. \A u : InSeq(turns[ChildOf[t]], u) =>
          u \in Tasks /\ ChildOf[u] = ChildOf[t] /\ step[u] \in Queued
    BY <1>1 DEF IInv, QueueFits
  <1>4. \A u \in Tasks : ChildOf[u] = ChildOf[t] => step[u] \in {"idle", "refused"}
    BY DEF IInv, ChildIsNew
  <1>5. "idle" \notin Queued /\ "refused" \notin Queued  BY DEF Queued, InTurn
  <1> QED BY <1>2, <1>3, <1>4, <1>5, TailFacts

LEMMA StartKeeps ==
  ASSUME IInv, OwnersAssumption, NEW t \in Tasks, StartInitial(t) \/ Continue(t)
  PROVE  IInv'
  <1>1. step[t] = "idle"  BY DEF StartInitial, Continue
  <1>2. TypeOK /\ TypeOK' /\ ChildOf[t] \in Children  BY StartTypes DEF IInv, OwnersAssumption
  <1>t1. turns \in [Children -> Seq(Tasks)]  BY <1>2, TypeFacts
  <1>t2. step \in [Tasks -> Steps]  BY <1>2, TypeFacts
  <1>t3. published \in [Tasks -> {"none", "pending", "ok", "failed"}]  BY <1>2, TypeFacts
  <1>t4. status \in [Tasks -> Terminal \cup {"none"}]  BY <1>2, TypeFacts
  <1>3. CASE Refused(t)  BY <1>1, <1>3, RefusedKeeps
  <1>4. CASE StartInitial(t) /\ ~Refused(t)
    <2>1. /\ CanStart(t) /\ t \in Initial
          /\ jobs' = jobs \cup {t} /\ profiles' = profiles \cup {ChildOf[t]}
          /\ turns' = [turns EXCEPT ![ChildOf[t]] = Append(@, t)]
          /\ step' = [step EXCEPT ![t] = "entered"]
          /\ published' = [published EXCEPT ![t] = "ok"]
          /\ armed' = armed \cup {t}
          /\ UNCHANGED <<accepting, revoked, failures, status, result, disk, ready, stopping, awaited, wait>>
      BY <1>4 DEF StartInitial, stopVars
    <2>2. turns[ChildOf[t]] = <<>>  BY <1>1, <2>1, FirstFinds
    <2>3. OthersStay(t)  BY <2>1, <1>t2, <1>t3 DEF OthersStay
    <2>4. step'[t] = "entered"  BY <2>1, <1>t2
    <2>5. Started(t)  BY <1>1, <2>1, <2>2, <2>3, <2>4 DEF Started
    <2> QED BY <1>2, <2>5, StartedKeeps
  <1>5. CASE Continue(t) /\ ~Refused(t)
    <2>1. /\ CanStart(t) /\ ChildOf[t] \in profiles /\ profiles' = profiles
          /\ jobs' = jobs \cup {t}
          /\ published' = [published EXCEPT ![t] = "pending"]
          /\ armed' = armed \cup {t}
          /\ UNCHANGED <<accepting, revoked, failures, result, disk, ready, stopping, awaited, wait>>
      BY <1>5 DEF Continue, stopVars
    <2>2. \/ /\ turns[ChildOf[t]] = <<>> /\ turns' = [turns EXCEPT ![ChildOf[t]] = <<t>>]
             /\ step' = [step EXCEPT ![t] = "entered"] /\ status' = status
          \/ /\ turns[ChildOf[t]] # <<>> /\ turns' = [turns EXCEPT ![ChildOf[t]] = Append(@, t)]
             /\ step' = [step EXCEPT ![t] = "queued"] /\ status' = status
          \/ /\ turns' = turns /\ step' = [step EXCEPT ![t] = "withdrawn"]
             /\ status' = [status EXCEPT ![t] = "cancelled"]
      BY <1>5 DEF Continue
    <2>3. /\ \A u \in Tasks : u # t => step'[u] = step[u] /\ status'[u] = status[u]
          /\ \/ /\ turns' = [turns EXCEPT ![ChildOf[t]] = Append(@, t)]
                /\ step'[t] = IF turns[ChildOf[t]] = <<>> THEN "entered" ELSE "queued"
             \/ turns' = turns /\ step'[t] = "withdrawn" /\ status'[t] = "cancelled"
      <3>1. <<t>> = Append(<<>>, t)  OBVIOUS
      <3> QED BY <2>2, <3>1, <1>2, <1>t1, <1>t2, <1>t4
    <2>4. OthersStay(t)  BY <2>1, <2>3, <1>t3 DEF OthersStay
    <2>5. Started(t)  BY <1>1, <2>1, <2>3, <2>4 DEF Started
    <2> QED BY <1>2, <2>5, StartedKeeps
  <1> QED BY <1>3, <1>4, <1>5

\* The write of the blocked record answers; a failure takes a queued turn out.
LEMMA PublishKeeps ==
  ASSUME IInv, OwnersAssumption, NEW t \in Tasks, Publish(t)
  PROVE  IInv'
  <1>1. TypeOK /\ TypeOK' /\ RecordFits(t) /\ HandleFits(t) /\ WaitFits(t) /\ ChildOf[t] \in Children
    BY EndTypes DEF IInv, OwnersAssumption
  <1>2. /\ step[t] \in Live /\ published[t] = "pending"
        /\ UNCHANGED <<accepting, revoked, jobs, failures, profiles, status, armed, stopping, awaited, wait>>
    BY DEF Publish, registryVars, clockVars, stopVars
  <1>t1. step \in [Tasks -> Steps]  BY <1>1, TypeFacts
  <1>t2. published \in [Tasks -> {"none", "pending", "ok", "failed"}]  BY <1>1, TypeFacts
  <1>t3. ready \in [Tasks -> {"none", "ok", "err"}]  BY <1>1, TypeFacts
  <1>t4. disk \in [Tasks -> Stored]  BY <1>1, TypeFacts
  <1>t5. result \in [Tasks -> {"none", "ok", "error", "cancelled"}]  BY <1>1, TypeFacts
  <1>3. /\ \/ disk' = [disk EXCEPT ![t] = "blocked"] /\ HandOut(t, TRUE) /\ UNCHANGED <<turns, step, result>>
              /\ published' = [published EXCEPT ![t] = "ok"]
           \/ disk' = disk /\ HandOut(t, FALSE) /\ published' = [published EXCEPT ![t] = "failed"]
              /\ \/ /\ step[t] = "queued" /\ turns' = Leave(t)
                    /\ step' = [step EXCEPT ![t] = "ended"]
                    /\ result' = [result EXCEPT ![t] = "error"]
                 \/ UNCHANGED <<turns, step, result>>
    BY DEF Publish
  <1>4. /\ OthersStay(t) /\ published'[t] # "pending"
        /\ disk'[t] \in {disk[t], "blocked"}
        /\ ready'[t] = ready[t] \/ disk'[t] = "blocked"
        /\ \/ turns' = turns /\ step' = step /\ result' = result
           \/ /\ step[t] = "queued" /\ turns' = Leave(t) /\ step'[t] = "ended" /\ result'[t] = "error"
              /\ disk'[t] = disk[t]
    BY <1>2, <1>3, <1>t1, <1>t2, <1>t3, <1>t4, <1>t5 DEF OthersStay, HandOut
  <1>5. disk[t] \notin Terminal /\ "blocked" \notin Terminal /\ step[t] # "settled"
    BY <1>1, <1>2 DEF RecordFits, Terminal, Live, InTurn
  <1>6. \A u \in Tasks : RecordFits(u)' /\ HandleFits(u)' /\ WaitFits(u)'
    <2>1. RecordFits(t)'  BY <1>1, <1>2, <1>4, <1>5 DEF RecordFits
    <2>2. step'[t] \in Live /\ step'[t] # "settled"  BY <1>2, <1>4, <1>5 DEF Live
    <2>3. HandleFits(t)'  BY <1>1, <1>2, <1>4, <2>2 DEF HandleFits
    <2>4. ReportedByStop(t) => ReportedByStop(t)'  BY <1>2 DEF ReportedByStop
    <2>5. ready[t] = "ok" => ready'[t] = "ok"  BY <1>3, <1>t3 DEF HandOut
    <2>6. WaitFits(t)'  BY <1>1, <1>2, <1>5, <2>4, <2>5, WaitKept
    <2> QED BY <1>2, <1>4, <2>1, <2>3, <2>6, OthersKept
  <1>7. \A c \in Children : QueueFits(c)'
    <2> SUFFICES ASSUME NEW c \in Children PROVE QueueFits(c)'  OBVIOUS
    <2>1. QueueFits(c)  BY DEF IInv
    <2>2. CASE turns' = turns /\ step' = step
      BY <1>1, <2>1, <2>2, QueueSame
    <2>3. CASE step[t] = "queued" /\ turns' = Leave(t) /\ step'[t] = "ended"
      <3>1. \A u \in Tasks : u # t => step'[u] = step[u]  BY <1>4 DEF OthersStay
      <3>2. CASE c = ChildOf[t]
        <4>1. turns'[c] = Without(turns[c], {t})  BY <1>1, <2>3, <3>2, LeaveFacts
        <4>2. \A u \in Tasks : ChildOf[u] = c => IF u \in {t} THEN step'[u] \notin Queued
                                                 ELSE step'[u] = step[u]
          BY <2>3, <3>1, StepFacts
        <4> QED BY <1>1, <2>1, <2>3, <4>1, <4>2, QueueLeft
      <3>3. CASE c # ChildOf[t]
        <4>1. turns'[c] = turns[c]  BY <1>1, <2>3, <3>3, LeaveFacts
        <4>2. \A u \in Tasks : ChildOf[u] = c => step'[u] = step[u]  BY <3>1, <3>3
        <4> QED BY <1>1, <2>1, <4>1, <4>2, QueueSame
      <3> QED BY <3>2, <3>3
    <2> QED BY <1>4, <2>2, <2>3
  <1>8. ChildIsNew'
    <2>1. \A u \in Tasks : \/ step'[u] = step[u]
                           \/ step[u] \notin {"idle", "refused"} /\ step'[u] # "idle"
      BY <1>4 DEF OthersStay
    <2>2. ChildIsNew  BY DEF IInv
    <2> QED BY <1>2, <2>1, <2>2, ChildKept
  <1>9. ScopesFit' /\ FailureRevokesRoot'  BY <1>2, ScopesKept, FailuresKept DEF IInv
  <1> QED BY <1>1, <1>6, <1>7, <1>8, <1>9 DEF IInv

\* A withdrawn turn writes its terminal, if its record was published.
LEMMA WithdrawnKeeps ==
  ASSUME IInv, OwnersAssumption, NEW t \in Tasks, Withdrawn(t)
  PROVE  IInv'
  <1>1. TypeOK /\ TypeOK' /\ RecordFits(t) /\ HandleFits(t) /\ WaitFits(t)
    BY EndTypes DEF IInv
  <1>2. /\ step[t] = "withdrawn" /\ published[t] # "pending"
        /\ step' = [step EXCEPT ![t] = "ended"]
        /\ UNCHANGED <<accepting, revoked, jobs, failures, profiles, turns, status, published, ready, armed, stopping, awaited, wait>>
    BY DEF Withdrawn, registryVars, clockVars, stopVars
  <1>t1. step \in [Tasks -> Steps]  BY <1>1, TypeFacts
  <1>t4. disk \in [Tasks -> Stored]  BY <1>1, TypeFacts
  <1>t5. result \in [Tasks -> {"none", "ok", "error", "cancelled"}]  BY <1>1, TypeFacts
  <1>3. /\ status[t] \in Terminal /\ disk[t] \notin Terminal /\ "absent" \notin Terminal
        /\ step[t] \in Live /\ "ended" \in Live
    BY <1>1, <1>2 DEF RecordFits, Live, Terminal
  <1>4. \/ disk' = disk /\ result' = [result EXCEPT ![t] = "error"]
        \/ disk' = [disk EXCEPT ![t] = status[t]] /\ result' = [result EXCEPT ![t] = "ok"]
    BY DEF Withdrawn, QueuedTerminal
  <1>5. /\ OthersStay(t) /\ step'[t] = "ended"
        /\ \/ disk'[t] = disk[t] /\ result'[t] = "error"
           \/ disk'[t] = status[t] /\ result'[t] = "ok"
    BY <1>2, <1>4, <1>t1, <1>t4, <1>t5 DEF OthersStay
  <1>6. \A u \in Tasks : RecordFits(u)' /\ HandleFits(u)' /\ WaitFits(u)'
    <2>1. RecordFits(t)'  BY <1>2, <1>3, <1>5 DEF RecordFits
    <2>2. HandleFits(t)'  BY <1>1, <1>2, <1>3, <1>5 DEF HandleFits
    <2>3. ReportedByStop(t) => ReportedByStop(t)'  BY <1>2 DEF ReportedByStop
    <2>4. WaitFits(t)'  BY <1>1, <1>2, <1>3, <2>3, WaitKept
    <2> QED BY <1>2, <1>5, <2>1, <2>2, <2>4, OthersKept
  <1>7. \A c \in Children : QueueFits(c)'
    <2> SUFFICES ASSUME NEW c \in Children PROVE QueueFits(c)'  OBVIOUS
    <2>1. QueueFits(c)  BY DEF IInv
    <2>2. \A u \in Tasks : /\ step'[u] \in Queued <=> step[u] \in Queued
                           /\ step'[u] \in InTurn <=> step[u] \in InTurn
      BY <1>2, <1>5, StepFacts DEF OthersStay
    <2> QED BY <1>1, <1>2, <2>1, <2>2, QueueSame
  <1>8. ChildIsNew'
    <2>1. \A u \in Tasks : \/ step'[u] = step[u]
                           \/ step[u] \notin {"idle", "refused"} /\ step'[u] # "idle"
      BY <1>2, <1>5 DEF OthersStay
    <2>2. ChildIsNew  BY DEF IInv
    <2> QED BY <1>2, <2>1, <2>2, ChildKept
  <1>9. ScopesFit' /\ FailureRevokesRoot'  BY <1>2, ScopesKept, FailuresKept DEF IInv
  <1> QED BY <1>1, <1>6, <1>7, <1>8, <1>9 DEF IInv

\* The job settles: it leaves the registry, and a failure that a handle's
\* owner could wait for is retained.
LEMMA SettleKeeps ==
  ASSUME IInv, OwnersAssumption, NEW t \in Tasks, SettleTerminal(t)
  PROVE  IInv'
  <1>1. TypeOK /\ TypeOK' /\ RecordFits(t) /\ HandleFits(t) /\ WaitFits(t)
    BY EndTypes DEF IInv
  <1>2. /\ step[t] = "ended" /\ step' = [step EXCEPT ![t] = "settled"]
        /\ ready' = [ready EXCEPT ![t] = IF @ = "none" THEN "err" ELSE @]
        /\ armed' = armed \ {t} /\ jobs' = jobs \ {t}
        /\ status' = [status EXCEPT ![t] = "none"]
        /\ published' = [published EXCEPT ![t] = "none"]
        /\ UNCHANGED <<accepting, turns, result, disk, stopping, awaited, wait>>
    BY DEF SettleTerminal, stopVars
  <1>3. \/ result[t] # "ok" /\ ready[t] = "ok" /\ Retain(t)
        \/ ~(result[t] # "ok" /\ ready[t] = "ok") /\ UNCHANGED <<failures, revoked, profiles>>
    BY DEF SettleTerminal
  <1>4. failures \subseteq failures' /\ revoked \subseteq revoked' /\ profiles' \subseteq profiles
    BY <1>3 DEF Retain
  <1>t1. step \in [Tasks -> Steps]  BY <1>1, TypeFacts
  <1>t2. published \in [Tasks -> {"none", "pending", "ok", "failed"}]  BY <1>1, TypeFacts
  <1>t3. ready \in [Tasks -> {"none", "ok", "err"}]  BY <1>1, TypeFacts
  <1>t4. status \in [Tasks -> Terminal \cup {"none"}]  BY <1>1, TypeFacts
  <1>5. /\ OthersStay(t) /\ step'[t] = "settled" /\ t \notin jobs' /\ t \notin armed'
        /\ published'[t] = "none" /\ (ready'[t] = "ok" <=> ready[t] = "ok")
    BY <1>2, <1>t1, <1>t2, <1>t3, <1>t4 DEF OthersStay
  <1>6. \A u \in Tasks : RecordFits(u)' /\ HandleFits(u)' /\ WaitFits(u)'
    <2>1. RecordFits(t)'  BY <1>1, <1>2, <1>5 DEF RecordFits
    <2>2. ready[t] = "ok" => disk[t] \in Terminal \/ t \in failures'
      BY <1>1, <1>3 DEF RecordFits, Retain
    <2>3. HandleFits(t)'
      <3>1. "settled" \notin Live  BY DEF Live, InTurn
      <3> QED BY <1>1, <1>2, <1>5, <2>2, <3>1 DEF HandleFits
    <2>4. ReportedByStop(t) => ReportedByStop(t)'  BY <1>2 DEF ReportedByStop
    <2>5. WaitFits(t)'  BY <1>1, <1>2, <1>5, <2>4, WaitKept
    <2> QED BY <1>2, <1>4, <1>5, <2>1, <2>3, <2>5, OthersKept
  <1>7. \A c \in Children : QueueFits(c)'
    <2> SUFFICES ASSUME NEW c \in Children PROVE QueueFits(c)'  OBVIOUS
    <2>1. QueueFits(c)  BY DEF IInv
    <2>2. \A u \in Tasks : /\ step'[u] \in Queued <=> step[u] \in Queued
                           /\ step'[u] \in InTurn <=> step[u] \in InTurn
      <3>1. {"settled", "ended"} \cap Queued = {} /\ InTurn \subseteq Queued  BY DEF Queued, InTurn
      <3> QED BY <1>2, <1>5, <3>1 DEF OthersStay
    <2> QED BY <1>1, <1>2, <2>1, <2>2, QueueSame
  <1>8. ChildIsNew'
    <2>1. \A u \in Tasks : \/ step'[u] = step[u]
                           \/ step[u] \notin {"idle", "refused"} /\ step'[u] # "idle"
      BY <1>2, <1>5 DEF OthersStay
    <2>2. ChildIsNew  BY DEF IInv
    <2> QED BY <1>4, <2>1, <2>2, ChildKept
  <1>9. ScopesFit'  BY <1>2, <1>4, ScopesKept DEF IInv
  <1>10. FailureRevokesRoot'
    <2>1. FailureRevokesRoot  BY DEF IInv
    <2>2. CASE Retain(t)  BY <2>1, <2>2 DEF Retain, FailureRevokesRoot
    <2>3. CASE UNCHANGED <<failures, revoked, profiles>>  BY <2>1, <2>3 DEF FailureRevokesRoot
    <2> QED BY <1>3, <2>2, <2>3
  <1> QED BY <1>1, <1>6, <1>7, <1>8, <1>9, <1>10 DEF IInv

-----------------------------------------------------------------------------
(* Timers, aborts, waits and stops *)

\* A clock, a controller or the registry's copy of a profile changes.
LEMMA ClockKeeps ==
  ASSUME IInv, TypeOK', profiles' \subseteq profiles, armed' \subseteq armed,
         UNCHANGED <<accepting, revoked, jobs, failures, turns, step, status, result, disk,
                     published, ready, stopping, awaited, wait>>
  PROVE  IInv'
  <1>1. \A c \in Children : QueueFits(c)'  BY DEF IInv, QueueFits
  <1>2. ASSUME NEW t \in Tasks PROVE RecordFits(t)' /\ HandleFits(t)' /\ WaitFits(t)'
    <2>1. RecordFits(t) /\ HandleFits(t) /\ WaitFits(t) /\ Moves(t) /\ ReportsKept(t)
      BY ReportsSame DEF IInv, Moves
    <2>2. RecordFits(t)'  BY <2>1, RecordKept
    <2>3. HandleFits(t)'  BY <2>1, HandleKept
    <2>4. WaitFits(t)'  BY <2>1, WaitKept DEF ReportsKept
    <2> QED BY <2>2, <2>3, <2>4
  <1>3. ChildIsNew' /\ ScopesFit' /\ FailureRevokesRoot'
    BY ChildKept, ScopesKept, FailuresKept DEF IInv
  <1> QED BY <1>1, <1>2, <1>3 DEF IInv

LEMMA TimerKeeps ==
  ASSUME IInv, NEW t \in Tasks, Expire(t) \/ ExecutionTimer(t)
  PROVE  IInv'
  <1>1. /\ UNCHANGED <<accepting, revoked, jobs, failures, profiles, turns, profile, step, status, result, disk, published, ready, armed, stopping, awaited, wait, faults>>
        /\ due' \subseteq due \cup {t}
        /\ aborted' = aborted \/ aborted' = [aborted EXCEPT ![t] = "execution"]
    BY DEF Expire, ExecutionTimer, registryVars, stopVars, clockVars
  <1>2. TypeOK  BY DEF IInv
  <1>3. due' \subseteq Tasks  BY <1>1, <1>2, TypeFacts
  <1>4. aborted' \in [Tasks -> Reasons]
    <2>1. aborted \in [Tasks -> Reasons]  BY <1>2, TypeFacts
    <2> QED BY <1>1, <2>1 DEF Reasons
  <1>5. TypeOK'  BY <1>1, <1>2, <1>3, <1>4 DEF TypeOK, Reasons
  <1> QED BY <1>1, <1>5, ClockKeeps

LEMMA ForgetKeeps ==
  ASSUME IInv, NEW c \in Children, ForgetProfile(c)
  PROVE  IInv'
  <1>1. /\ UNCHANGED <<accepting, revoked, jobs, failures, turns, profile, step, status, result, disk, published, ready, aborted, due, armed, stopping, awaited, wait, faults>>
        /\ profiles' \subseteq profiles
    BY DEF ForgetProfile, registryVars, clockVars, stopVars
  <1>2. TypeOK'  BY <1>1 DEF IInv, TypeOK
  <1> QED BY <1>1, <1>2, ClockKeeps

\* A wait asks the registry, then the store; the answer it can give follows
\* from what it saw before its await.
LEMMA WaitKeeps ==
  ASSUME IInv, NEW t \in Tasks, Wait(t) \/ WaitStep(t)
  PROVE  IInv'
  <1>1. TypeOK /\ RecordFits(t) /\ HandleFits(t) /\ WaitFits(t)  BY DEF IInv
  <1>2. UNCHANGED <<accepting, revoked, jobs, failures, profiles, turns, profile, step, status, result, disk, published, ready, aborted, due, armed, stopping, awaited>>
    BY DEF Wait, WaitStep, WaitListed, WaitJoined, WaitRead, Asked, registryVars, clockVars
  <1>3. \E next \in Waits : wait' = [wait EXCEPT ![t] = next]
    BY DEF Wait, WaitStep, WaitListed, WaitJoined, WaitRead, Asked, Waits, Seen
  <1>t. wait \in [Tasks -> Waits]  BY <1>1, TypeFacts
  <1>4. wait' \in [Tasks -> Waits] /\ \A u \in Tasks : u # t => wait'[u] = wait[u]  BY <1>3, <1>t
  <1>5. faults' \in Nat
    BY <1>1, FaultsType DEF Wait, WaitStep, WaitListed, WaitJoined, WaitRead
  <1>6. TypeOK'  BY <1>1, <1>2, <1>4, <1>5 DEF TypeOK, Waits
  <1>7. WaitFits(t)'
    <2>1. ReportedByStop(t)' = ReportedByStop(t)  BY <1>2 DEF ReportedByStop
    <2>2. CASE Wait(t)
      <3>1. ready[t] = "ok" /\ wait'[t] = Seen(t)  BY <2>2, <1>t DEF Wait, Asked
      <3>2. Seen(t) = "stored" => disk[t] \in Terminal \/ ReportedByStop(t)
        BY <3>1, <1>1 DEF Seen, HandleFits
      <3> QED BY <3>1, <3>2, <2>1, <1>2 DEF WaitFits, Seen
    <2>3. CASE WaitListed(t)
      <3>1. \/ wait'[t] = "error" /\ wait[t] \in {"retained", "local", "stored"}
            \/ wait[t] = "local" /\ wait'[t] = "joining"
            \/ wait[t] = "stored" /\ wait'[t] = IF disk[t] = "absent" THEN "open" ELSE "reading"
        BY <2>3, <1>t DEF WaitListed, Asked
      <3>2. "absent" \notin Terminal  BY DEF Terminal
      <3> QED BY <3>1, <3>2, <2>1, <1>1, <1>2 DEF WaitFits
    <2>4. CASE WaitJoined(t)
      <3>1. wait[t] = "joining" /\ wait'[t] = IF result[t] = "ok" THEN "ok" ELSE "error"
        BY <2>4, <1>t DEF WaitJoined, Asked
      <3> QED BY <3>1, <2>1, <1>1, <1>2 DEF WaitFits, RecordFits
    <2>5. CASE WaitRead(t)
      <3>1. wait[t] = "reading" /\ wait'[t] \in {"error", IF disk[t] \in Terminal THEN "ok" ELSE "open"}
        BY <2>5, <1>t DEF WaitRead, Asked, Found
      <3> QED BY <3>1, <2>1, <1>1, <1>2 DEF WaitFits
    <2> QED BY <2>2, <2>3, <2>4, <2>5 DEF WaitStep
  <1>8. OthersStay(t)  BY <1>2, <1>4 DEF OthersStay
  <1>9. Moves(t) /\ ReportsKept(t)  BY <1>2, ReportsSame DEF Moves
  <1>10. RecordFits(t)' /\ HandleFits(t)'  BY <1>1, <1>2, <1>9, RecordKept, HandleKept
  <1>11. \A u \in Tasks : RecordFits(u)' /\ HandleFits(u)' /\ WaitFits(u)'
    BY <1>2, <1>7, <1>8, <1>10, OthersKept
  <1>12. \A c \in Children : QueueFits(c)'  BY <1>2 DEF IInv, QueueFits
  <1>13. ChildIsNew' /\ ScopesFit' /\ FailureRevokesRoot'
    BY <1>2, ChildKept, ScopesKept, FailuresKept DEF IInv
  <1> QED BY <1>6, <1>11, <1>12, <1>13 DEF IInv

\* Aborted turns that wait leave their queues; nothing of a record changes.
LEMMA AbortKeeps ==
  ASSUME IInv, OwnersAssumption, NEW who, NEW why \in Aborts,
         NEW code \in Terminal, AbortAll(who, why, code),
         profiles' \subseteq profiles, armed' \subseteq armed, revoked \subseteq revoked',
         UNCHANGED <<jobs, failures, result, disk, published, ready, wait>>,
         \A u \in Tasks : ReportedByStop(u) => ReportedByStop(u)'
  PROVE  /\ \A c \in Children : QueueFits(c)'
         /\ \A u \in Tasks : RecordFits(u)' /\ HandleFits(u)' /\ WaitFits(u)'
         /\ ChildIsNew' /\ FailureRevokesRoot'
  <1> DEFINE out == {t \in {u \in who : aborted[u] = "none"} : Withdrawable(t)}
  <1>1. /\ \A t \in Tasks : step'[t] = IF t \in out THEN "withdrawn" ELSE step[t]
        /\ \A t \in Tasks : status'[t] = IF t \in out THEN code ELSE status[t]
        /\ \A c \in Children : turns'[c] = Without(turns[c], out)
        /\ \A t \in out : step[t] = "queued"
    BY DEF AbortAll, Withdrawable
  <1> HIDE DEF out
  <1>2. \A c \in Children : QueueFits(c)'
    <2> SUFFICES ASSUME NEW c \in Children PROVE QueueFits(c)'  OBVIOUS
    <2>1. TypeOK /\ QueueFits(c)  BY DEF IInv
    <2>2. \A u \in Tasks : ChildOf[u] = c => IF u \in out THEN step'[u] \notin Queued
                                             ELSE step'[u] = step[u]
      BY <1>1, StepFacts
    <2> QED BY <1>1, <2>1, <2>2, QueueLeft
  <1>3. ASSUME NEW u \in Tasks PROVE RecordFits(u)' /\ HandleFits(u)' /\ WaitFits(u)'
    <2>1. RecordFits(u) /\ HandleFits(u) /\ WaitFits(u) /\ ReportsKept(u)
      BY DEF IInv, ReportsKept
    <2>2. WaitFits(u)'  BY <2>1, WaitKept DEF ReportsKept
    <2>3. CASE u \notin out
      <3>1. Moves(u) /\ status'[u] = status[u]  BY <1>1, <2>3 DEF Moves
      <3> QED BY <2>1, <2>2, <3>1, RecordKept, HandleKept
    <2>4. CASE u \in out
      <3>1. step[u] = "queued" /\ step'[u] = "withdrawn" /\ status'[u] = code  BY <1>1, <2>4
      <3>2. "queued" \in Live /\ "withdrawn" \in Live  BY DEF Live
      <3>3. RecordFits(u)'  BY <2>1, <3>1 DEF RecordFits
      <3>4. HandleFits(u)'  BY <2>1, <3>1, <3>2 DEF HandleFits
      <3> QED BY <2>2, <3>3, <3>4
    <2> QED BY <2>3, <2>4
  <1>4. ChildIsNew'
    <2>1. \A u \in Tasks : \/ step'[u] = step[u]
                           \/ step[u] \notin {"idle", "refused"} /\ step'[u] # "idle"
      BY <1>1
    <2>2. ChildIsNew  BY DEF IInv
    <2> QED BY <2>1, <2>2, ChildKept
  <1>5. FailureRevokesRoot'  BY FailuresKept DEF IInv
  <1> QED BY <1>2, <1>3, <1>4, <1>5

LEMMA CancelKeeps ==
  ASSUME IInv, OwnersAssumption, NEW t \in Tasks, Cancel(t) \/ LifecycleTimer(t)
  PROVE  IInv'
  <1>1. /\ UNCHANGED <<accepting, revoked, jobs, failures, profiles, profile, result, disk, published, ready, due, stopping, awaited, wait, faults>>
        /\ armed' \subseteq armed
    BY DEF Cancel, LifecycleTimer, registryVars, clockVars, stopVars
  <1> DEFINE who == {t}
  <1>2. PICK why \in Aborts, code \in Terminal : AbortAll(who, why, code)
    BY DEF Cancel, LifecycleTimer, Aborts, Terminal
  <1> HIDE DEF who
  <1>3. TypeOK  BY DEF IInv
  <1>4. TypeOK'
    <2>1. /\ turns' \in [Children -> Seq(Tasks)]
          /\ step' \in [Tasks -> Steps]
          /\ status' \in [Tasks -> Terminal \cup {"none"}]
          /\ aborted' \in [Tasks -> {"none", "cancelled", "lifecycle", "execution", "failed"}]
      BY <1>2, <1>3, AbortType
    <2>2. armed' \subseteq Tasks  BY <1>1, <1>3 DEF TypeOK
    <2> QED BY <1>1, <1>3, <2>1, <2>2 DEF TypeOK, Steps
  <1>5. \A u \in Tasks : ReportedByStop(u) => ReportedByStop(u)'  BY <1>1 DEF ReportedByStop
  <1>6. /\ \A c \in Children : QueueFits(c)'
        /\ \A u \in Tasks : RecordFits(u)' /\ HandleFits(u)' /\ WaitFits(u)'
        /\ ChildIsNew' /\ FailureRevokesRoot'
    BY <1>1, <1>2, <1>5, AbortKeeps
  <1>7. ScopesFit'  BY <1>1, ScopesKept DEF IInv
  <1> QED BY <1>4, <1>6, <1>7 DEF IInv

\* cancelRoot and shutdown: the scope takes no job from now on, and all of its
\* jobs are awaited.
LEMMA StopKeeps ==
  ASSUME IInv, OwnersAssumption, NEW scope \in Scopes, stopping[scope] = "no", Stop(scope),
         \/ scope \in Roots /\ CancelRoot(scope)
         \/ scope = All /\ Shutdown
  PROVE  IInv'
  <1>1. /\ UNCHANGED <<jobs, failures, profile, result, disk, published, ready, due, armed, wait, faults>>
        /\ revoked \subseteq revoked' /\ revoked' \subseteq revoked \cup {scope}
        /\ scope = All => accepting' = FALSE /\ revoked' = revoked
        /\ scope # All => accepting' = accepting /\ scope \in revoked'
        /\ profiles' \subseteq profiles
    BY DEF CancelRoot, Shutdown, clockVars, OwnersAssumption
  <1>2. /\ stopping' = [stopping EXCEPT ![scope] = "waiting"]
        /\ awaited' = [awaited EXCEPT ![scope] = jobs \cap TasksOf(scope)]
        /\ AbortAll(jobs \cap TasksOf(scope), "cancelled", "cancelled")
    BY DEF Stop, JobsToAwait
  <1>3. TypeOK /\ "cancelled" \in Terminal /\ "cancelled" \in Aborts  BY DEF IInv, Terminal, Aborts
  <1>t1. stopping \in [Scopes -> {"no", "waiting", "done", "failed"}]  BY <1>3, TypeFacts
  <1>t2. awaited \in [Scopes -> SUBSET Tasks] /\ jobs \subseteq Tasks  BY <1>3, TypeFacts
  <1>4. TypeOK'
    <2>1. /\ turns' \in [Children -> Seq(Tasks)]
          /\ step' \in [Tasks -> Steps]
          /\ status' \in [Tasks -> Terminal \cup {"none"}]
          /\ aborted' \in [Tasks -> {"none", "cancelled", "lifecycle", "execution", "failed"}]
      BY <1>2, <1>3, AbortType
    <2>2. stopping' \in [Scopes -> {"no", "waiting", "done", "failed"}]  BY <1>2, <1>t1
    <2>3. awaited' \in [Scopes -> SUBSET Tasks]  BY <1>2, <1>t2
    <2>4. revoked' \subseteq Roots /\ accepting' \in BOOLEAN /\ profiles' \subseteq Children
      BY <1>1, <1>3, TypeFacts DEF Scopes
    <2> QED BY <1>1, <1>3, <2>1, <2>2, <2>3, <2>4 DEF TypeOK, Steps
  <1>5. \A s \in Scopes : s # scope => stopping'[s] = stopping[s] /\ awaited'[s] = awaited[s]
    BY <1>2, <1>t1, <1>t2
  <1>6. stopping'[scope] = "waiting" /\ awaited'[scope] = jobs \cap TasksOf(scope)
    BY <1>2, <1>t1, <1>t2
  <1>7. \A u \in Tasks : ReportedByStop(u) => ReportedByStop(u)'
    <2>1. \A u \in Tasks : RootOf[u] \in Scopes /\ All \in Scopes  BY DEF OwnersAssumption, Scopes
    <2> QED BY <1>5, <2>1 DEF ReportedByStop
  <1>8. /\ \A c \in Children : QueueFits(c)'
        /\ \A u \in Tasks : RecordFits(u)' /\ HandleFits(u)' /\ WaitFits(u)'
        /\ ChildIsNew' /\ FailureRevokesRoot'
    BY <1>1, <1>2, <1>3, <1>7, AbortKeeps
  <1>9. ScopesFit'
    <2>1. ScopesFit /\ All \in Scopes /\ Roots \subseteq Scopes /\ All \notin Roots
      BY DEF IInv, Scopes, OwnersAssumption
    <2>2. \A s : TasksOf(s)' = TasksOf(s)  BY DEF TasksOf
    <2>3. stopping'[All] # "no" => ~accepting'  BY <1>1, <1>5, <2>1 DEF ScopesFit
    <2>4. \A r \in Roots : stopping'[r] # "no" => r \in revoked'  BY <1>1, <1>5, <2>1 DEF ScopesFit
    <2>5. \A s \in Scopes : stopping'[s] = "waiting" => jobs' \cap TasksOf(s) \subseteq awaited'[s]
      BY <1>1, <1>5, <1>6, <2>1 DEF ScopesFit
    <2>6. \A s \in Scopes : stopping'[s] \in {"done", "failed"} => jobs' \cap TasksOf(s) = {}
      BY <1>1, <1>5, <1>6, <2>1 DEF ScopesFit
    <2> QED BY <2>2, <2>3, <2>4, <2>5, <2>6 DEF ScopesFit
  <1> QED BY <1>4, <1>8, <1>9 DEF IInv

\* Every awaited job has settled: nothing of the scope is left, and a failure
\* that was retained for it is in the answer.
LEMMA StoppedKeeps ==
  ASSUME IInv, OwnersAssumption, NEW scope \in Scopes, Stopped(scope)
  PROVE  IInv'
  <1>1. /\ UNCHANGED <<accepting, revoked, profile, step, status, result, disk, published, ready, aborted, due, armed, awaited, wait, faults>>
        /\ stopping[scope] = "waiting" /\ stopping' = [stopping EXCEPT ![scope] = Verdict(scope)]
        /\ \A t \in awaited[scope] : step[t] = "settled"
        /\ failures' = failures \ TasksOf(scope)
        /\ \/ scope = All /\ jobs' = {} /\ profiles' = {} /\ turns' = [c \in Children |-> <<>>]
           \/ scope # All /\ UNCHANGED <<jobs, profiles, turns>>
    BY DEF Stopped, clockVars
  <1>2. TypeOK  BY DEF IInv
  <1>t. stopping \in [Scopes -> {"no", "waiting", "done", "failed"}]  BY <1>2, TypeFacts
  <1>3. /\ stopping'[scope] \in {"done", "failed"}
        /\ failures \cap TasksOf(scope) # {} => stopping'[scope] = "failed"
        /\ \A s \in Scopes : s # scope => stopping'[s] = stopping[s]
        /\ stopping' \in [Scopes -> {"no", "waiting", "done", "failed"}]
    BY <1>1, <1>t DEF Verdict
  <1>4. TypeOK'
    <2>1. turns' \in [Children -> Seq(Tasks)]
      <3>1. <<>> \in Seq(Tasks) /\ turns \in [Children -> Seq(Tasks)]  BY <1>2, TypeFacts
      <3> QED BY <1>1, <3>1
    <2>2. jobs' \subseteq Tasks /\ profiles' \subseteq Children /\ failures' \subseteq Tasks
      BY <1>1, <1>2, TypeFacts
    <2> QED BY <1>1, <1>2, <1>3, <2>1, <2>2 DEF TypeOK
  <1>5. jobs \cap TasksOf(scope) = {}
    <2>1. jobs \cap TasksOf(scope) \subseteq awaited[scope]  BY <1>1 DEF IInv, ScopesFit
    <2>2. \A t \in Tasks : t \in jobs => step[t] \in Live  BY DEF IInv, HandleFits
    <2>3. "settled" \notin Live /\ jobs \subseteq Tasks  BY <1>2, TypeFacts DEF Live, InTurn
    <2> QED BY <1>1, <2>1, <2>2, <2>3
  <1>6. jobs' = jobs /\ profiles' \subseteq profiles
    <2>1. TasksOf(All) = Tasks /\ jobs \subseteq Tasks  BY <1>2, TypeFacts DEF TasksOf
    <2> QED BY <1>1, <1>5, <2>1
  <1>7. \A u \in Tasks : ReportsKept(u)
    <2> SUFFICES ASSUME NEW u \in Tasks PROVE ReportsKept(u)  OBVIOUS
    <2>1. RootOf[u] \in Scopes /\ All \in Scopes  BY DEF OwnersAssumption, Scopes
    <2>2. ReportedByStop(u) => ReportedByStop(u)'
      BY <1>1, <1>3, <2>1 DEF ReportedByStop
    <2>3. u \in failures => u \in failures' \/ ReportedByStop(u)'
      <3>1. u \in TasksOf(scope) => scope \in {All, RootOf[u]}  BY DEF TasksOf
      <3> QED BY <1>1, <1>3, <3>1 DEF ReportedByStop
    <2> QED BY <2>2, <2>3 DEF ReportsKept
  <1>8. ASSUME NEW u \in Tasks PROVE RecordFits(u)' /\ HandleFits(u)' /\ WaitFits(u)'
    <2>1. RecordFits(u) /\ HandleFits(u) /\ WaitFits(u) /\ Moves(u) /\ ReportsKept(u)
      BY <1>1, <1>7 DEF IInv, Moves
    <2>2. RecordFits(u)'  BY <1>1, <2>1, RecordKept
    <2>3. HandleFits(u)'  BY <1>1, <1>6, <2>1, HandleKept
    <2>4. WaitFits(u)'  BY <1>1, <2>1, WaitKept DEF ReportsKept
    <2> QED BY <2>2, <2>3, <2>4
  <1>9. \A c \in Children : QueueFits(c)'
    <2> SUFFICES ASSUME NEW c \in Children PROVE QueueFits(c)'  OBVIOUS
    <2>1. QueueFits(c)  BY DEF IInv
    <2>2. CASE turns' = turns  BY <1>1, <2>1, <2>2 DEF QueueFits
    <2>3. CASE scope = All
      <3>1. \A t \in Tasks : step[t] \notin Queued
        <4>1. TasksOf(All) = Tasks  BY DEF TasksOf
        <4>2. \A t \in Tasks : t \notin jobs  BY <1>5, <2>3, <4>1
        <4> QED BY <4>2, StepFacts DEF IInv, HandleFits
      <3>2. turns'[c] = <<>> /\ \A y : ~InSeq(<<>>, y)  BY <1>1, <2>3 DEF InSeq
      <3>3. Distinct(<<>>)  BY DEF Distinct
      <3>4. \A t \in Tasks : step'[t] \notin Queued /\ step'[t] \notin InTurn
        BY <1>1, <3>1, StepFacts
      <3> QED BY <3>2, <3>3, <3>4 DEF QueueFits
    <2> QED BY <1>1, <2>2, <2>3
  <1>10. ChildIsNew'  BY <1>1, <1>6, ChildKept DEF IInv
  <1>11. FailureRevokesRoot'  BY <1>1, <1>6, FailuresKept DEF IInv
  <1>12. ScopesFit'
    <2>1. ScopesFit /\ All \in Scopes /\ Roots \subseteq Scopes  BY DEF IInv, Scopes
    <2>2. \A s : TasksOf(s)' = TasksOf(s)  BY DEF TasksOf
    <2>3. stopping'[All] # "no" => ~accepting'  BY <1>1, <1>3, <2>1 DEF ScopesFit
    <2>4. \A r \in Roots : stopping'[r] # "no" => r \in revoked'  BY <1>1, <1>3, <2>1 DEF ScopesFit
    <2>5. \A s \in Scopes : stopping'[s] = "waiting" => jobs' \cap TasksOf(s) \subseteq awaited'[s]
      BY <1>1, <1>3, <1>6, <2>1 DEF ScopesFit
    <2>6. \A s \in Scopes : stopping'[s] \in {"done", "failed"} => jobs' \cap TasksOf(s) = {}
      BY <1>3, <1>5, <1>6, <2>1 DEF ScopesFit
    <2> QED BY <2>2, <2>3, <2>4, <2>5, <2>6 DEF ScopesFit
  <1> QED BY <1>4, <1>8, <1>9, <1>10, <1>11, <1>12 DEF IInv

-----------------------------------------------------------------------------
(* The theorems *)

\* Nothing runs at first.
LEMMA InitFits ==
  ASSUME OwnersAssumption, Init
  PROVE  IInv
  <1>1. TypeOK
    <2>1. <<>> \in Seq(Tasks) /\ {} \in SUBSET Tasks /\ "idle" \in Live \cup {"idle", "refused", "settled"}
      OBVIOUS
    <2>2. turns \in [Children -> Seq(Tasks)]  BY <2>1 DEF Init
    <2> QED BY <2>1, <2>2 DEF Init, TypeOK
  <1>2. /\ "idle" \notin Live /\ "idle" \notin Queued /\ "idle" \notin InTurn
        /\ "absent" \notin Terminal
    BY DEF Live, Queued, InTurn, Terminal
  <1>3. \A c \in Children : QueueFits(c)
    <2> SUFFICES ASSUME NEW c \in Children PROVE QueueFits(c)  OBVIOUS
    <2>1. turns[c] = <<>> /\ \A t \in Tasks : step[t] \notin Queued /\ step[t] \notin InTurn
      BY <1>2 DEF Init
    <2>2. (\A y : ~InSeq(<<>>, y)) /\ Distinct(<<>>)  BY DEF InSeq, Distinct
    <2> QED BY <2>1, <2>2 DEF QueueFits
  <1>4. \A t \in Tasks : RecordFits(t) /\ HandleFits(t) /\ WaitFits(t)
    BY <1>2 DEF Init, RecordFits, HandleFits, WaitFits
  <1>5. ChildIsNew /\ FailureRevokesRoot
    BY DEF Init, ChildIsNew, FailureRevokesRoot, Initial
  <1>6. ScopesFit
    <2>1. \A s \in Scopes : stopping[s] = "no"  BY DEF Init
    <2>2. All \in Scopes /\ Roots \subseteq Scopes  BY DEF Scopes
    <2> QED BY <2>1, <2>2 DEF ScopesFit
  <1> QED BY <1>1, <1>3, <1>4, <1>5, <1>6 DEF IInv

\* Every step keeps the invariant.
LEMMA NextKeeps ==
  ASSUME IInv, OwnersAssumption, [Next]_vars
  PROVE  IInv'
  <1>1. ASSUME NEW t \in Tasks, TurnStep(t)
        PROVE  IInv'
    BY <1>1, PublishKeeps, EnterKeeps, OpenKeeps, RegisterKeeps, WithdrawKeeps, LookUpKeeps,
       ExecuteKeeps, MarkStartedKeeps, WriteTerminalKeeps, WithdrawnKeeps, SettleKeeps DEF TurnStep
  <1>2. ASSUME NEW t \in Tasks,
               StartInitial(t) \/ Continue(t) \/ TimerStep(t) \/ RunnerReturns(t) \/ Cancel(t) \/ Wait(t) \/ WaitStep(t)
        PROVE  IInv'
    BY <1>2, StartKeeps, TimerKeeps, CancelKeeps, RunnerKeeps, WaitKeeps DEF TimerStep
  <1>3. ASSUME NEW c \in Children, ForgetProfile(c)
        PROVE  IInv'
    BY <1>3, ForgetKeeps
  <1>4. ASSUME NEW r \in Roots, CancelRoot(r)
        PROVE  IInv'
    <2>1. r \in Scopes /\ stopping[r] = "no" /\ Stop(r)  BY <1>4 DEF CancelRoot, Scopes
    <2> QED BY <1>4, <2>1, StopKeeps
  <1>5. CASE Shutdown
    <2>1. All \in Scopes /\ stopping[All] = "no" /\ Stop(All)  BY <1>5 DEF Shutdown, Scopes
    <2> QED BY <1>5, <2>1, StopKeeps
  <1>6. ASSUME NEW s \in Scopes, Stopped(s)
        PROVE  IInv'
    BY <1>6, StoppedKeeps
  <1>7. CASE UNCHANGED vars
    <2>1. UNCHANGED <<accepting, revoked, jobs, profiles, failures, turns, step, status, result, disk, published, ready, armed, stopping, awaited, wait>>
      BY <1>7 DEF vars
    <2>2. TypeOK'  BY <1>7 DEF IInv, TypeOK, vars
    <2> QED BY <2>1, <2>2, ClockKeeps
  <1> QED BY <1>1, <1>2, <1>3, <1>4, <1>5, <1>6, <1>7 DEF Next

\* The inductive invariant holds in every reachable state (background-jobs.ts,
\* background-terminal.ts, background-launcher.ts and task-supervisor.ts).
THEOREM BackgroundInvariant == Spec => []IInv
  <1>1. Init => IInv  BY OwnersAssumption, InitFits
  <1>2. IInv /\ [Next]_vars => IInv'  BY OwnersAssumption, NextKeeps
  <1> QED BY <1>1, <1>2, PTL DEF Spec

\* Every variable has its type in every reachable state.
THEOREM BackgroundTypes == Spec => []TypeOK
  <1>1. IInv => TypeOK  BY DEF IInv
  <1> QED BY <1>1, BackgroundInvariant, PTL

\* Two turns of one child never run at once (enqueueTurn): whatever runs is at
\* the head of the child's queue.
LEMMA SerialTurns ==
  ASSUME IInv, OwnersAssumption
  PROVE  OneTurnPerChild
  <1>1. \A t \in Tasks : ChildOf[t] \in Children  BY DEF OwnersAssumption
  <1>2. \A t \in Tasks : step[t] \in InTurn => Head(turns[ChildOf[t]]) = t
    BY <1>1 DEF IInv, QueueFits
  <1> QED BY <1>2 DEF OneTurnPerChild

\* A handle that was returned, and a wait for it, is answered by the store, by
\* a retained failure or by the stop that reported it (TaskAccess.wait).
THEOREM HandlesAnswered == Spec => []HandlesAreAnswered
  <1>1. IInv => HandlesAreAnswered
    BY DEF IInv, HandleFits, WaitFits, HandlesAreAnswered
  <1> QED BY <1>1, BackgroundInvariant, PTL

\* A failure closes its root, a stop drains its scope, and a task that ended
\* leaves no job, turn or timer behind.
THEOREM ScopesClosed == Spec => []ScopesAreClosed
  <1>1. IInv => ScopesAreClosed
    <2> SUFFICES ASSUME IInv PROVE ScopesAreClosed  OBVIOUS
    <2>1. FailureRevokesRoot  BY DEF IInv
    <2>2. \A t \in Tasks : t \in jobs <=> step[t] \in Live  BY DEF IInv, HandleFits
    <2>3. StopDrainsScope
      <3>1. \A s \in Scopes : stopping[s] \in {"done", "failed"} => jobs \cap TasksOf(s) = {}
        BY DEF IInv, ScopesFit
      <3>2. \A s : TasksOf(s) \subseteq Tasks  BY DEF TasksOf
      <3> QED BY <2>2, <3>1, <3>2 DEF StopDrainsScope
    <2>4. NothingLeaked
      <3> SUFFICES ASSUME NEW t \in Tasks, step[t] \notin Live
                   PROVE  t \notin jobs \cup armed \cup Range(turns[ChildOf[t]])
        BY DEF NothingLeaked
      <3>1. t \notin jobs /\ t \notin armed  BY <2>2 DEF IInv, HandleFits
      <3>2. ChildOf[t] \in Children  BY OwnersAssumption DEF OwnersAssumption
      <3>3. ~InSeq(turns[ChildOf[t]], t)  BY <3>2, StepFacts DEF IInv, QueueFits
      <3> QED BY <3>1, <3>3 DEF Range, InSeq
    <2> QED BY <2>1, <2>3, <2>4 DEF ScopesAreClosed
  <1> QED BY <1>1, BackgroundInvariant, PTL

\* Only a task that has come to an end, or whose queue wrote its end, has a
\* terminal record, and none of its later steps writes one.
LEMMA TerminalStays ==
  ASSUME IInv, OwnersAssumption, [Next]_vars, NEW t \in Tasks, disk[t] \in Terminal
  PROVE  disk'[t] = disk[t]
  <1>1. step[t] \in {"looking", "ended", "settled"} /\ published[t] # "pending"
    BY DEF IInv, RecordFits
  <1>2. disk \in [Tasks -> Stored]  BY TypeFacts DEF IInv
  <1>3. ASSUME NEW u \in Tasks, TurnStep(u) PROVE disk'[t] = disk[t]
    <2>1. CASE Publish(u)  BY <1>1, <1>2, <2>1 DEF Publish
    <2>2. CASE Requeue(u) \/ Register(u)  BY <1>1, <1>2, <2>2 DEF Requeue, Register
    <2>3. CASE Withdraw(u)  BY <1>1, <1>2, <2>3 DEF Withdraw
    <2>4. CASE MarkStarted(u)  BY <1>1, <1>2, <2>4 DEF MarkStarted
    <2>5. CASE WriteTerminal(u)  BY <1>1, <1>2, <2>5 DEF WriteTerminal
    <2>6. CASE Withdrawn(u)  BY <1>1, <1>2, <2>6 DEF Withdrawn, QueuedTerminal
    <2>7. CASE Enter(u) \/ Open(u) \/ LookUp(u) \/ Execute(u) \/ SettleTerminal(u)
      BY <2>7 DEF Enter, Open, LookUp, Execute, SettleTerminal
    <2> QED BY <1>3, <2>1, <2>2, <2>3, <2>4, <2>5, <2>6, <2>7 DEF TurnStep
  <1>4. CASE ~\E u \in Tasks : TurnStep(u)
    BY <1>4 DEF Next, StartInitial, Continue, TimerStep, Expire, LifecycleTimer, ExecutionTimer,
                RunnerReturns, Cancel, Wait, WaitStep, WaitListed, WaitJoined, WaitRead, Asked,
                ForgetProfile, CancelRoot, Shutdown, Stopped, vars
  <1> QED BY <1>3, <1>4

\* A queued turn is entered by the end of the turn that ran, and by nothing else.
LEMMA EntersByEnd ==
  ASSUME IInv, OwnersAssumption, [Next]_vars, NEW y \in Tasks,
         step[y] = "queued", step'[y] = "entered"
  PROVE  \E t \in Tasks : step[t] \in InTurn /\ EndTurn(t, "ended")
  <1>1. step \in [Tasks -> Steps]  BY TypeFacts DEF IInv
  <1>2. \A t \in Tasks : step[t] \in InTurn => t # y  BY StepFacts
  <1>3. ASSUME NEW t \in Tasks, step[t] \in InTurn, NEW next, Go(t, next) PROVE FALSE
    <2>1. step'[y] = step[y]  BY <1>1, <1>2, <1>3 DEF Go
    <2> QED BY <2>1
  <1>4. ASSUME NEW t \in Tasks, step[t] \in InTurn, NEW value, Return(t, value)
        PROVE  \E u \in Tasks : step[u] \in InTurn /\ EndTurn(u, "ended")
    BY <1>4 DEF Return
  <1>5. ASSUME NEW t \in Tasks, step[t] \in InTurn, NEW code, NEW error, Report(t, code, error)
        PROVE  \E u \in Tasks : step[u] \in InTurn /\ EndTurn(u, "ended")
    BY <1>3, <1>4, <1>5 DEF Report
  <1>6. ASSUME NEW t \in Tasks, StartInitial(t) \/ Continue(t) PROVE FALSE
    BY <1>1, <1>6 DEF StartInitial, Continue, Refused
  <1>7. ASSUME NEW t \in Tasks, TurnStep(t)
        PROVE  \E u \in Tasks : step[u] \in InTurn /\ EndTurn(u, "ended")
    <2>1. CASE Publish(t) \/ Withdrawn(t) \/ SettleTerminal(t)
      BY <1>1, <2>1 DEF Publish, Withdrawn, SettleTerminal
    <2>2. CASE Enter(t)  BY <1>3, <1>4, <1>5, <2>2 DEF Enter, InTurn
    <2>3. CASE Open(t) \/ Requeue(t)  BY <1>3, <1>5, <2>3 DEF Open, Requeue, InTurn
    <2>4. CASE Register(t)  BY <1>3, <1>5, <2>4 DEF Register, InTurn
    <2>5. CASE Withdraw(t)  BY <1>3, <2>5 DEF Withdraw, InTurn
    <2>6. CASE LookUp(t)  BY <1>4, <1>5, <2>6 DEF LookUp, InTurn
    <2>7. CASE Execute(t) \/ MarkStarted(t)  BY <1>3, <2>7 DEF Execute, MarkStarted, Conclude, InTurn
    <2>8. CASE WriteTerminal(t)  BY <1>4, <2>8 DEF WriteTerminal, InTurn
    <2> QED BY <1>7, <2>1, <2>2, <2>3, <2>4, <2>5, <2>6, <2>7, <2>8 DEF TurnStep
  <1>8. ASSUME NEW who, NEW why, NEW code, AbortAll(who, why, code) PROVE FALSE
    BY <1>8 DEF AbortAll
  <1>9. ASSUME NEW t \in Tasks,
               TimerStep(t) \/ RunnerReturns(t) \/ Cancel(t) \/ Wait(t) \/ WaitStep(t)
        PROVE  FALSE
    <2>1. CASE RunnerReturns(t)  BY <1>3, <2>1 DEF RunnerReturns, InTurn
    <2>2. CASE Cancel(t) \/ LifecycleTimer(t)  BY <1>8, <2>2 DEF Cancel, LifecycleTimer
    <2>3. CASE Expire(t) \/ ExecutionTimer(t) \/ Wait(t) \/ WaitStep(t)
      BY <2>3 DEF Expire, ExecutionTimer, Wait, WaitStep, WaitListed, WaitJoined, WaitRead, Asked
    <2> QED BY <1>9, <2>1, <2>2, <2>3 DEF TimerStep
  <1>10. CASE \/ \E c \in Children : ForgetProfile(c)
              \/ \E r \in Roots : CancelRoot(r)
              \/ Shutdown
              \/ \E s \in Scopes : Stopped(s)
    BY <1>8, <1>10 DEF ForgetProfile, CancelRoot, Shutdown, Stop, Stopped
  <1>11. CASE UNCHANGED vars  BY <1>11 DEF vars
  <1> QED BY <1>6, <1>7, <1>9, <1>10, <1>11 DEF Next

\* The turn that is entered is the first of those that were queued.
LEMMA EntersFirst ==
  ASSUME IInv, OwnersAssumption, [Next]_vars, NEW c \in Children,
         NEW i \in DOMAIN turns[c], NEW j \in DOMAIN turns[c], i < j,
         step[turns[c][i]] = "queued", step'[turns[c][j]] = "entered"
  PROVE  FALSE
  <1> DEFINE s == turns[c]
             x == s[i]
             y == s[j]
  <1>1. s \in Seq(Tasks)  BY TypeFacts DEF IInv
  <1>2. /\ Distinct(s)
        /\ \A u : InSeq(s, u) => u \in Tasks /\ ChildOf[u] = c /\ step[u] \in Queued
        /\ \A u \in Tasks : ChildOf[u] = c /\ step[u] \in InTurn => Head(s) = u
    BY DEF IInv, QueueFits
  <1>3. i \in Nat /\ j \in Nat /\ 1 <= i /\ j # 1 /\ 1 \in DOMAIN s /\ Head(s) = s[1]
    BY <1>1
  <1> HIDE DEF s
  <1>4. y \in Tasks /\ ChildOf[y] = c /\ step[y] \in Queued /\ step[x] = "queued"
    BY <1>2 DEF InSeq, s
  <1>5. step[y] \notin InTurn
    <2>1. step[y] \in InTurn => s[1] = s[j]  BY <1>2, <1>3, <1>4
    <2> QED BY <2>1, <1>2, <1>3 DEF Distinct, s
  <1>6. step[y] = "queued" /\ step'[y] = "entered"  BY <1>4, <1>5, StepFacts DEF s
  <1>7. PICK t \in Tasks : step[t] \in InTurn /\ EndTurn(t, "ended")
    <2> HIDE DEF y
    <2> QED BY <1>4, <1>6, EntersByEnd
  <1> DEFINE w == Without(s, {t})
             d == ChildOf[t]
             next == {u \in Starts(Leave(t), d) : step[u] = "queued"}
  <1>8. y \in next
    <2>1. step' = [u \in Tasks |-> IF u = t THEN "ended"
                                   ELSE IF u \in next THEN "entered" ELSE step[u]]
      BY <1>7 DEF EndTurn
    <2> HIDE DEF next, y
    <2> QED BY <2>1, <1>4, <1>6
  <1>9. Leave(t)[d] # <<>> /\ y = Head(Leave(t)[d])
    <2> HIDE DEF y
    <2> QED BY <1>8 DEF Starts
  <1>10. d = c
    <2>1. d \in Children /\ Leave(t)[d] \in Seq(Tasks)
          /\ Leave(t)[d] = Without(turns[d], {t}) /\ turns[d] \in Seq(Tasks)
      <3>1. TypeOK /\ d \in Children /\ turns \in [Children -> Seq(Tasks)]
        BY TypeFacts DEF IInv, OwnersAssumption
      <3>2. /\ Leave(t) \in [Children -> Seq(Tasks)]
            /\ Leave(t)[d] = Without(turns[d], {t})
        BY <3>1, LeaveFacts
      <3> HIDE DEF d
      <3> QED BY <3>1, <3>2
    <2>2. InSeq(Leave(t)[d], y)
      <3> HIDE DEF y, d
      <3> QED BY <1>9, <2>1, TailFacts
    <2>3. InSeq(turns[d], y)
      <3> HIDE DEF y, d
      <3> QED BY <2>1, <2>2, WithoutFacts
    <2> HIDE DEF y, d
    <2> QED BY <1>4, <2>1, <2>3 DEF IInv, QueueFits
  <1>11. Leave(t)[d] = w
    <2> HIDE DEF y
    <2> QED BY <1>10, LeaveFacts DEF IInv, s
  <1>12. PICK k \in DOMAIN s : y = s[k] /\ \A m \in 1 .. k - 1 : s[m] \in {t}
    <2> HIDE DEF y
    <2> QED BY <1>1, <1>9, <1>11, WithoutFacts
  <1>13. k = j  BY <1>2, <1>12 DEF Distinct, s
  <1>14. i \in 1 .. k - 1  BY <1>3, <1>13
  <1>15. x = t  BY <1>12, <1>14
  <1> QED BY <1>4, <1>7, <1>15, StepFacts

\* Terminal records are final, turns of a child start in order, one at a time.
THEOREM OrderKept == Spec => OrderIsKept
  <1>1. IInv /\ [Next]_vars => [\A t \in Tasks : disk[t] \in Terminal => disk'[t] = disk[t]]_vars
    BY OwnersAssumption, TerminalStays
  <1>2. IInv /\ [Next]_vars =>
          [\A c \in Children : \A i, j \in DOMAIN turns[c] :
             i < j /\ step[turns[c][i]] = "queued" /\ step'[turns[c][j]] = "entered"
             => step'[turns[c][i]] # "queued"]_vars
    BY OwnersAssumption, EntersFirst
  <1>3. IInv => OneTurnPerChild  BY OwnersAssumption, SerialTurns
  <1>4. Spec => TerminalIsFinal  BY <1>1, BackgroundInvariant, PTL DEF Spec, TerminalIsFinal
  <1>5. Spec => TurnsInOrder  BY <1>2, BackgroundInvariant, PTL DEF Spec, TurnsInOrder
  <1>6. Spec => []OneTurnPerChild  BY <1>3, BackgroundInvariant, PTL
  <1> QED BY <1>4, <1>5, <1>6 DEF OrderIsKept

=============================================================================

------------------------ MODULE TaskAdmissionProofs ------------------------
(***************************************************************************)
(* Theorems about TaskAdmission, for every set of tasks, every limit and   *)
(* any number of faults and crashes: the inductive invariant IInv, one     *)
(* lemma per action that preserves it, and what follows from it.           *)
(***************************************************************************)
EXTENDS TaskAdmission, Queues, SequenceTheorems, FiniteSetTheorems, TLAPS

-----------------------------------------------------------------------------
(* Queues *)

\* push adds the pushed entry and nothing else.
LEMMA AppendFacts ==
  ASSUME NEW S, NEW s \in Seq(S), NEW x \in S
  PROVE  /\ Append(s, x) \in Seq(S)
         /\ \A y : InSeq(Append(s, x), y) <=> InSeq(s, y) \/ y = x
         /\ Distinct(s) /\ ~InSeq(s, x) => Distinct(Append(s, x))
  <1> DEFINE a == Append(s, x)
  <1>1. /\ a \in Seq(S) /\ Len(a) = Len(s) + 1 /\ DOMAIN a = 1..Len(s) + 1
        /\ \A i \in DOMAIN s : i \in DOMAIN a /\ a[i] = s[i]
        /\ Len(s) + 1 \in DOMAIN a /\ a[Len(s) + 1] = x
        /\ \A i \in DOMAIN a : i \in DOMAIN s \/ i = Len(s) + 1
    OBVIOUS
  <1> HIDE DEF a
  <1> QED BY <1>1 DEF InSeq, Distinct, a

\* shift removes the first entry, and all of it when entries are distinct.
LEMMA TailFacts ==
  ASSUME NEW S, NEW s \in Seq(S), s # <<>>
  PROVE  /\ Tail(s) \in Seq(S)
         /\ InSeq(s, Head(s))
         /\ \A y : InSeq(Tail(s), y) => InSeq(s, y)
         /\ \A y : InSeq(s, y) /\ y # Head(s) => InSeq(Tail(s), y)
         /\ Distinct(s) => Distinct(Tail(s)) /\ ~InSeq(Tail(s), Head(s))
  <1> DEFINE a == Tail(s)
  <1>1. /\ a \in Seq(S) /\ 1 \in DOMAIN s /\ Head(s) = s[1]
        /\ \A i \in DOMAIN a : i + 1 \in DOMAIN s /\ a[i] = s[i + 1] /\ i + 1 # 1
        /\ \A i \in DOMAIN s : i # 1 => i - 1 \in DOMAIN a /\ a[i - 1] = s[i]
        /\ \A i, j \in DOMAIN a : i + 1 = j + 1 => i = j
    OBVIOUS
  <1> HIDE DEF a
  <1> QED BY <1>1 DEF InSeq, Distinct, a

\* splice(i, 1) removes the entry at i, and only it when entries are distinct.
LEMMA RemoveFacts ==
  ASSUME NEW S, NEW s \in Seq(S), NEW i \in DOMAIN s, Distinct(s)
  PROVE  /\ RemoveAt(s, i) \in Seq(S)
         /\ \A y : InSeq(RemoveAt(s, i), y) <=> InSeq(s, y) /\ y # s[i]
         /\ Distinct(RemoveAt(s, i))
  <1> DEFINE left == SubSeq(s, 1, i - 1)
             right == SubSeq(s, i + 1, Len(s))
             r == RemoveAt(s, i)
  <1>0. i \in 1..Len(s) /\ Len(s) \in Nat  OBVIOUS
  <1>1. left \in Seq(S) /\ Len(left) = i - 1 /\ \A k \in 1..(i - 1) : left[k] = s[k]
    BY <1>0, SubSeqProperties
  <1>2. right \in Seq(S) /\ Len(right) = Len(s) - i /\ \A k \in 1..(Len(s) - i) : right[k] = s[i + k]
    BY <1>0, SubSeqProperties
  <1>3. r = left \o right  BY DEF RemoveAt
  <1> HIDE DEF left, right
  <1>4. /\ r \in Seq(S) /\ Len(r) = Len(s) - 1
        /\ \A k \in 1..(Len(s) - 1) : r[k] = IF k < i THEN s[k] ELSE s[k + 1]
    BY <1>0, <1>1, <1>2, <1>3, ConcatProperties
  <1> HIDE DEF r
  <1>5. /\ \A k \in DOMAIN r : \E m \in DOMAIN s : m # i /\ r[k] = s[m]
        /\ \A m \in DOMAIN s : m # i => \E k \in DOMAIN r : r[k] = s[m]
    <2>1. \A k \in DOMAIN r : IF k < i THEN k \in DOMAIN s /\ k # i /\ r[k] = s[k]
                              ELSE k + 1 \in DOMAIN s /\ k + 1 # i /\ r[k] = s[k + 1]
      BY <1>0, <1>4
    <2>2. \A m \in DOMAIN s : m # i => IF m < i THEN m \in DOMAIN r /\ r[m] = s[m]
                                       ELSE m - 1 \in DOMAIN r /\ r[m - 1] = s[m]
      BY <1>0, <1>4
    <2> QED BY <2>1, <2>2
  <1>6. \A y : InSeq(r, y) <=> InSeq(s, y) /\ y # s[i]  BY <1>5 DEF InSeq, Distinct
  <1>7. Distinct(r)
    <2> SUFFICES ASSUME NEW k \in DOMAIN r, NEW m \in DOMAIN r, r[k] = r[m]
                 PROVE  k = m
      BY DEF Distinct
    <2> DEFINE at(j) == IF j < i THEN j ELSE j + 1
    <2>1. k \in 1..(Len(s) - 1) /\ m \in 1..(Len(s) - 1)  BY <1>4
    <2>2. \A j \in 1..(Len(s) - 1) : at(j) \in 1..Len(s) /\ r[j] = s[at(j)]
      <3> SUFFICES ASSUME NEW j \in 1..(Len(s) - 1)
                   PROVE  at(j) \in 1..Len(s) /\ r[j] = s[at(j)]
        OBVIOUS
      <3>1. at(j) \in 1..Len(s)  BY <1>0
      <3>2. CASE j < i  BY <3>2, <3>1, <1>4
      <3>3. CASE ~(j < i)  BY <3>3, <3>1, <1>4
      <3> QED BY <3>2, <3>3, <1>0
    <2>3. at(k) = at(m)
      <3>1. s[at(k)] = s[at(m)] /\ at(k) \in DOMAIN s /\ at(m) \in DOMAIN s  BY SMTT(20), <2>1, <2>2
      <3> HIDE DEF at
      <3> QED BY <3>1 DEF Distinct
    <2> QED BY <2>1, <2>3, <1>0
  <1> QED BY <1>4, <1>6, <1>7 DEF r

\* Admitting the first n entries leaves the others, in distinct queues apart.
LEMMA SplitFacts ==
  ASSUME NEW S, NEW s \in Seq(S), NEW n \in 0..Len(s), Distinct(s)
  PROVE  /\ SubSeq(s, n + 1, Len(s)) \in Seq(S)
         /\ Distinct(SubSeq(s, n + 1, Len(s)))
         /\ \A y : InSeq(s, y) <=> y \in Prefix(s, n) \/ InSeq(SubSeq(s, n + 1, Len(s)), y)
         /\ \A y \in Prefix(s, n) : ~InSeq(SubSeq(s, n + 1, Len(s)), y)
         /\ n = Len(s) => \A y : ~InSeq(SubSeq(s, n + 1, Len(s)), y)
         /\ IsFiniteSet(Prefix(s, n)) /\ Cardinality(Prefix(s, n)) = n
         /\ Prefix(s, n) \subseteq S
  <1> DEFINE r == SubSeq(s, n + 1, Len(s))
  <1>1. /\ r \in Seq(S) /\ Len(r) = Len(s) - n
        /\ \A k \in 1..(Len(s) - n) : r[k] = s[n + k]
    BY SubSeqProperties
  <1> HIDE DEF r
  <1>2. /\ \A k \in DOMAIN r : n + k \in DOMAIN s /\ n + k \notin 1..n /\ r[k] = s[n + k]
        /\ \A m \in DOMAIN s : m \notin 1..n => m - n \in DOMAIN r /\ r[m - n] = s[m]
        /\ \A m \in 1..n : m \in DOMAIN s
        /\ \A k, m \in DOMAIN r : n + k = n + m => k = m
    BY SMTT(20), <1>1
  <1>3. Distinct(r)  BY <1>2 DEF Distinct
  <1>4. \A y : InSeq(s, y) <=> y \in Prefix(s, n) \/ InSeq(r, y)  BY <1>2 DEF InSeq, Prefix
  <1>5. \A y \in Prefix(s, n) : ~InSeq(r, y)  BY <1>2 DEF InSeq, Prefix, Distinct
  <1>6. n = Len(s) => \A y : ~InSeq(r, y)  BY <1>1 DEF InSeq
  <1>7. Prefix(s, n) \subseteq S  BY <1>2 DEF Prefix
  <1>8. IsFiniteSet(Prefix(s, n)) /\ Cardinality(Prefix(s, n)) = n
    <2> DEFINE f == [i \in 1..n |-> s[i]]
    <2>1. f \in Injection(1..n, Prefix(s, n))  BY <1>2 DEF Injection, IsInjective, Prefix, Distinct
    <2>2. f \in Surjection(1..n, Prefix(s, n))  BY DEF Surjection, Prefix
    <2>3. IsFiniteSet(1..n) /\ Cardinality(1..n) = n  BY FS_Interval
    <2> HIDE DEF f
    <2> QED BY <2>1, <2>2, <2>3, FS_Surjection
  <1> QED BY <1>1, <1>3, <1>4, <1>5, <1>6, <1>7, <1>8 DEF r

-----------------------------------------------------------------------------
(* The inductive invariant *)

\* The operation `kind' of t is chained and has not begun.
Chained(kind, t) == InSeq(ops, Op(kind, t))

\* An operation of t is between two of its awaits.
Begun(step, t) == lock.step = step /\ lock.task = t

Queued(t) == InSeq(waiters, t)

\* Phases in which the task holds a lease of the queue.
Leased == {"admitted", "starting", "started", "running", "finalizing", "releasing"}
Enqueuing == {"list", "reserve", "persist"}

Claims == {"none", "cancelled", "timed_out"}

\* A chained operation belongs to a task that is where the operation expects
\* it, and that has not begun the same operation.
OpsFit ==
  \A t \in Tasks :
    /\ Chained("enqueue", t) => phase[t] = "registering" /\ \A step \in Enqueuing : ~Begun(step, t)
    /\ Chained("cancel", t)  => claim[t] # "none" /\ phase[t] \notin {"idle", "registering"}
    /\ Chained("start", t)   => phase[t] = "starting" /\ ~Begun("startWrite", t)
    /\ Chained("release", t) => phase[t] = "releasing"

QueuesDistinct == Distinct(ops) /\ Distinct(waiters)

LockFits ==
  /\ \/ lock.step = "idle" /\ lock.task = NoTask
     \/ lock.step \in Steps \ {"idle"} /\ lock.task \in Tasks
  /\ lock.step \in Enqueuing => phase[lock.task] = "registering"
  /\ lock.step = "cancelWrite" => phase[lock.task] = "cancelling" /\ claim[lock.task] # "none"
  /\ lock.step = "startWrite" => phase[lock.task] = "starting"

WaitersFit == \A t \in Tasks : phase[t] = "waiting" <=> Queued(t)

ActiveFit == \A t \in Tasks : t \in active <=> phase[t] \in Leased

\* The two sets the child limit counts, and who is in which.
ChildFits(t) ==
  /\ t \in pendingRoots => \/ phase[t] \in {"waiting", "admitted", "starting", "finalizing", "releasing"}
                           \/ Begun("persist", t)
  /\ phase[t] \in {"waiting", "admitted", "starting"} \/ Begun("persist", t) => t \in pendingRoots
  /\ disk[t].started => /\ t \notin pendingRoots
                        /\ phase[t] \in {"started", "running", "finalizing", "releasing", "done", "lost"}
  /\ phase[t] \in {"started", "running"} => disk[t].started
  /\ phase[t] = "finalizing" => /\ outcome[t].status \in Terminal
                                /\ outcome[t].started = disk[t].started

ChildrenFit == \A t \in Tasks : ChildFits(t)

OwnersFit ==
  \A t \in Tasks :
    /\ t \in owned => phase[t] \in {"waiting"} \cup Leased \/ Begun("persist", t)
    /\ Writes[t] # {} /\ (phase[t] \in {"waiting"} \cup Leased \/ Begun("persist", t)) => t \in owned

OwnersDisjoint == \A t, u \in owned : t # u => Writes[t] \cap Writes[u] = {}

\* What enqueue decided before it awaited the reservation still holds after it.
DecisionHolds == lock.step = "reserve" => CanAccept(lock.task)

\* A waiter whose attempt is claimed has its cancellation chained.
CancellationChained ==
  \A t \in Tasks : phase[t] = "waiting" /\ claim[t] # "none" => Chained("cancel", t)

\* A slot is free only while every waiter is claimed.
SlotsFit ==
  activeCount < MaxActive => \A t \in Tasks : Queued(t) => claim[t] # "none"

IInv ==
  /\ TypeOK
  /\ OpsFit /\ QueuesDistinct /\ LockFits /\ WaitersFit /\ ActiveFit /\ ActiveLimit
  /\ ChildrenFit /\ OwnersFit /\ OwnersDisjoint /\ DecisionHolds /\ ChildLimit
  /\ CancellationChained /\ SlotsFit

-----------------------------------------------------------------------------
(* The chain of operations and the line of waiters *)

OpType == [kind : OpKinds, task : Tasks]

\* What the records the actions build contain.
LEMMA RecordFacts ==
  /\ \A s \in Nonterminal \cup Terminal, b \in BOOLEAN : [status |-> s, started |-> b] \in Record
  /\ \A s, b : /\ [status |-> s, started |-> b].status = s
              /\ [status |-> s, started |-> b].started = b
  /\ \A r \in Record : /\ r.started \in BOOLEAN
                      /\ [r EXCEPT !.status = "interrupted"] \in Record
                      /\ [r EXCEPT !.status = "interrupted"].started = r.started
  BY DEF Record, Terminal

\* Two operations are the same when kind and task are.
LEMMA OpFacts ==
  /\ \A k \in OpKinds, t \in Tasks : Op(k, t) \in OpType
  /\ \A k, l, t, u : Op(k, t) = Op(l, u) <=> k = l /\ t = u
  BY DEF Op, OpType

\* Chaining an operation leaves the others chained.
LEMMA OpsAppend ==
  ASSUME ops \in Seq(OpType), NEW k \in OpKinds, NEW t \in Tasks, ops' = Append(ops, Op(k, t))
  PROVE  /\ ops' \in Seq(OpType)
         /\ \A l, u : Chained(l, u)' <=> Chained(l, u) \/ (l = k /\ u = t)
         /\ Distinct(ops) /\ ~Chained(k, t) => Distinct(ops')
  BY OpFacts, AppendFacts DEF Chained

\* The operation that begins is chained no longer, and the others still are.
LEMMA OpsTail ==
  ASSUME ops \in Seq(OpType), Distinct(ops), NEW k \in OpKinds, NEW t \in Tasks,
         ops # <<>>, Head(ops) = Op(k, t), ops' = Tail(ops)
  PROVE  /\ ops' \in Seq(OpType) /\ Distinct(ops')
         /\ Chained(k, t)
         /\ \A l, u : Chained(l, u)' <=> Chained(l, u) /\ ~(l = k /\ u = t)
  BY OpFacts, TailFacts DEF Chained

\* What drain does to a line ws, `count' tasks holding leases before it.
LEMMA DrainFacts ==
  ASSUME NEW ws \in Seq(Tasks), NEW held \in SUBSET Tasks, NEW count \in Nat, NEW ph \in [Tasks -> Phases],
         Distinct(ws), \A t \in held : ~InSeq(ws, t),
         count = Cardinality(held), count <= MaxActive,
         Drain(ws, held, count, ph)
  PROVE  /\ waiters' \in Seq(Tasks) /\ Distinct(waiters')
         /\ active' \subseteq Tasks /\ held \subseteq active'
         /\ ActiveLimit' /\ activeCount' \in Nat
         /\ \A t : InSeq(ws, t) <=> t \in active' \ held \/ Queued(t)'
         /\ \A t : Queued(t)' => t \notin active'
         /\ activeCount' < MaxActive => \A t : ~Queued(t)'
         /\ phase' = [t \in Tasks |-> IF t \in active' \ held THEN "admitted" ELSE ph[t]]
  <1> DEFINE n == IF FreeSlots(count) < Len(ws) THEN FreeSlots(count) ELSE Len(ws)
             rest == SubSeq(ws, n + 1, Len(ws))
             admitted == Prefix(ws, n)
  <1>1. /\ n \in 0..Len(ws) /\ count + n <= MaxActive
        /\ count + n < MaxActive => n = Len(ws)
    BY LimitsAssumption DEF FreeSlots
  <1>2. /\ waiters' = rest /\ active' = held \cup admitted /\ activeCount' = count + n
        /\ phase' = [t \in Tasks |-> IF t \in admitted THEN "admitted" ELSE ph[t]]
    BY DEF Drain, OldestFirst, Prefix
  <1> HIDE DEF n
  <1>3. /\ rest \in Seq(Tasks) /\ Distinct(rest)
        /\ \A t : InSeq(ws, t) <=> t \in admitted \/ InSeq(rest, t)
        /\ \A t \in admitted : ~InSeq(rest, t)
        /\ n = Len(ws) => \A t : ~InSeq(rest, t)
        /\ IsFiniteSet(admitted) /\ Cardinality(admitted) = n /\ admitted \subseteq Tasks
    BY <1>1, SplitFacts
  <1> HIDE DEF rest, admitted
  <1>4. held \cap admitted = {}  BY <1>3
  <1>5. active' \ held = admitted  BY <1>2, <1>4
  <1>6. IsFiniteSet(held)  BY FS_Subset, TasksAssumption
  <1>7. Cardinality(held \cup admitted) = count + n
    <2>1. Cardinality(held \cup admitted) = Cardinality(held) + Cardinality(admitted) - Cardinality(held \cap admitted)
      BY <1>3, <1>6, FS_Union
    <2>2. Cardinality(held \cap admitted) = 0  BY <1>4, FS_EmptySet
    <2> QED BY <1>1, <1>3, <2>1, <2>2
  <1> QED BY <1>1, <1>2, <1>3, <1>5, <1>7 DEF Queued, ActiveLimit

-----------------------------------------------------------------------------
(* The children a root has accepted *)

Counts(t) == disk[t].started \/ t \in pendingRoots

LEMMA AcceptedFinite ==
  ASSUME NEW root
  PROVE  IsFiniteSet(AcceptedChildren(root)) /\ Cardinality(AcceptedChildren(root)) \in Nat
  <1>1. AcceptedChildren(root) \subseteq Children  BY TasksAssumption DEF AcceptedChildren
  <1> QED BY <1>1, FS_Subset, FS_CardinalityType, TasksAssumption

LEMMA AcceptedSame ==
  ASSUME \A t \in Tasks : Counts(t)' = Counts(t)
  PROVE  /\ \A root : AcceptedChildren(root)' = AcceptedChildren(root)
         /\ \A t : CanAccept(t) => CanAccept(t)'
         /\ ChildLimit => ChildLimit'
  <1>1. \A root : AcceptedChildren(root)' = AcceptedChildren(root)  BY DEF AcceptedChildren, Counts
  <1> QED BY <1>1 DEF CanAccept, ChildLimit

LEMMA AcceptedShrinks ==
  ASSUME ChildLimit, \A t \in Tasks : Counts(t)' => Counts(t)
  PROVE  ChildLimit'
  <1> SUFFICES ASSUME NEW root \in Roots
               PROVE  Cardinality(AcceptedChildren(root)') <= MaxChildrenPerRoot
    BY DEF ChildLimit
  <1>1. AcceptedChildren(root)' \subseteq AcceptedChildren(root)  BY DEF AcceptedChildren, Counts
  <1>2. Cardinality(AcceptedChildren(root)') <= Cardinality(AcceptedChildren(root))
    BY <1>1, AcceptedFinite, FS_Subset
  <1>3. Cardinality(AcceptedChildren(root)) <= MaxChildrenPerRoot  BY DEF ChildLimit
  <1>4. IsFiniteSet(AcceptedChildren(root)')  BY <1>1, AcceptedFinite, FS_Subset
  <1>5. Cardinality(AcceptedChildren(root)') \in Nat  BY <1>4, FS_CardinalityType
  <1> QED BY <1>2, <1>3, <1>5, AcceptedFinite, LimitsAssumption

\* One more task is counted, and enqueue had found room for its child.
LEMMA AcceptedGrows ==
  ASSUME ChildLimit, NEW t \in Tasks, CanAccept(t),
         \A u \in Tasks : Counts(u)' => Counts(u) \/ u = t
  PROVE  ChildLimit'
  <1> SUFFICES ASSUME NEW root \in Roots
               PROVE  Cardinality(AcceptedChildren(root)') <= MaxChildrenPerRoot
    BY DEF ChildLimit
  <1> DEFINE A == AcceptedChildren(root)
  <1>0. IsFiniteSet(A) /\ Cardinality(A) \in Nat /\ Cardinality(A) <= MaxChildrenPerRoot
    BY AcceptedFinite DEF ChildLimit
  <1>1. CASE RootOf[t] # root \/ ChildOf[t] \in A
    <2>1. A' \subseteq A  BY <1>1 DEF AcceptedChildren, Counts
    <2>2. IsFiniteSet(A') /\ Cardinality(A') <= Cardinality(A)  BY <2>1, <1>0, FS_Subset
    <2> QED BY <2>2, <1>0, FS_CardinalityType, LimitsAssumption
  <1>2. CASE RootOf[t] = root /\ ChildOf[t] \notin A
    <2>1. A' \subseteq A \cup {ChildOf[t]}  BY DEF AcceptedChildren, Counts
    <2>2. IsFiniteSet(A \cup {ChildOf[t]}) /\ Cardinality(A \cup {ChildOf[t]}) = Cardinality(A) + 1
      BY <1>0, <1>2, FS_AddElement
    <2>3. IsFiniteSet(A') /\ Cardinality(A') <= Cardinality(A) + 1  BY <2>1, <2>2, FS_Subset
    <2>4. Cardinality(A) < MaxChildrenPerRoot  BY <1>2 DEF CanAccept
    <2> QED BY <2>3, <2>4, <1>0, FS_CardinalityType, LimitsAssumption
  <1> QED BY <1>1, <1>2

-----------------------------------------------------------------------------
(* Every step keeps the invariant *)

\* runForeground chains an enqueue.
LEMMA RegisterKeeps ==
  ASSUME IInv, NEW t \in Tasks, Register(t)
  PROVE  IInv'
  <1> USE DEF IInv
  <1>u. UNCHANGED <<disk, waiters, active, activeCount, pendingRoots, owned, lock, reason, expired,
      outcome, result, mode, stale, faults, crashes>>
    BY DEF Register, queueVars, clientVars, systemVars
  <1>w. \A u : Queued(u)' <=> Queued(u)
    BY <1>u DEF Queued
  <1>a. /\ ops' \in Seq(OpType) /\ Distinct(ops')
        /\ \A l, u : Chained(l, u)' <=> Chained(l, u) \/ (l = "enqueue" /\ u = t)
    BY OpsAppend, "enqueue" \in OpKinds
    DEF Register, queueVars, clientVars, systemVars, OpKinds, OpType, QueuesDistinct, OpsFit, TypeOK
  <1>b. /\ phase[t] = "idle" /\ phase' = [phase EXCEPT ![t] = "registering"]
        /\ claim' \in [Tasks -> Claims] /\ \A u \in Tasks : u # t => claim'[u] = claim[u]
    BY DEF Register, queueVars, clientVars, systemVars, Claims, TypeOK
  <1>s. \A u \in Tasks : Counts(u)' = Counts(u)
    BY <1>u, <1>w, <1>a, <1>b
    DEF Counts, ChildrenFit, ChildFits, OpsFit, LockFits, Begun, Enqueuing, TypeOK
  <1>1. TypeOK'
    BY <1>u, <1>w, <1>a, <1>b
    DEF TypeOK, OpType, Claims, Phases, Record, Reasons, Terminal, Nonterminal
  <1>2. OpsFit'
    BY <1>u, <1>w, <1>a, <1>b
    DEF OpsFit, OpsFit, LockFits, WaitersFit, ActiveFit, Begun, Enqueuing, Leased, TypeOK
  <1>3. QueuesDistinct'
    BY <1>u, <1>w, <1>a, <1>b DEF QueuesDistinct
  <1>4. LockFits'
    BY <1>u, <1>w, <1>a, <1>b, TasksAssumption
    DEF LockFits, OpsFit, Begun, Enqueuing, Steps, TypeOK
  <1>5. WaitersFit'
    BY <1>u, <1>w, <1>a, <1>b
    DEF WaitersFit, OpsFit, LockFits, WaitersFit, ActiveFit, Begun, Enqueuing, Leased, TypeOK
  <1>6. ActiveFit'
    BY <1>u, <1>w, <1>a, <1>b DEF ActiveFit, LockFits, OpsFit, Leased, Enqueuing, TypeOK
  <1>7. ChildrenFit'
    BY <1>u, <1>w, <1>a, <1>b
    DEF ChildrenFit, ChildFits, OpsFit, LockFits, WaitersFit, ActiveFit, Begun, Enqueuing,
        Leased, TypeOK
  <1>8. OwnersFit'
    BY <1>u, <1>w, <1>a, <1>b
    DEF OwnersFit, OpsFit, LockFits, WaitersFit, ActiveFit, Begun, Enqueuing, Leased, TypeOK
  <1>9. DecisionHolds' /\ ChildLimit'
    BY <1>u, <1>w, <1>a, <1>b, <1>s, AcceptedSame DEF DecisionHolds
  <1>10. CancellationChained'
    BY <1>u, <1>w, <1>a, <1>b
    DEF CancellationChained, OpsFit, LockFits, WaitersFit, ActiveFit, Begun, Enqueuing, Leased,
        TypeOK
  <1>11. SlotsFit'
    BY <1>u, <1>w, <1>a, <1>b
    DEF SlotsFit, OpsFit, LockFits, WaitersFit, ActiveFit, Begun, Enqueuing, Leased, TypeOK
  <1>12. ActiveLimit' /\ OwnersDisjoint'
    BY <1>u, <1>w DEF ActiveLimit, OwnersDisjoint
  <1> QED BY <1>1, <1>2, <1>3, <1>4, <1>5, <1>6, <1>7, <1>8, <1>9, <1>10, <1>11, <1>12

\* enqueue begins: it is refused at once or waits for the list.
LEMMA EnqueueBeginKeeps ==
  ASSUME IInv, NEW t \in Tasks, EnqueueBegin(t)
  PROVE  IInv'
  <1> USE DEF IInv
  <1>u. UNCHANGED <<disk, waiters, active, activeCount, pendingRoots, owned, reason, expired,
      outcome, mode, stale, faults, crashes>>
    BY DEF EnqueueBegin, Refuse, Free, queueVars, clientVars, systemVars
  <1>w. \A u : Queued(u)' <=> Queued(u)
    BY <1>u DEF Queued
  <1>a. /\ ops' \in Seq(OpType) /\ Distinct(ops')
        /\ Chained("enqueue", t)
        /\ \A l, u : Chained(l, u)' <=> Chained(l, u) /\ ~(l = "enqueue" /\ u = t)
    BY OpsTail, "enqueue" \in OpKinds
    DEF EnqueueBegin, Refuse, Free, queueVars, clientVars, systemVars, OpKinds, OpType,
        QueuesDistinct, TypeOK
  <1>b. /\ claim' \in [Tasks -> Claims]
        /\ \A u \in Tasks : claim[u] # "none" => claim'[u] = claim[u]
        /\ \A u \in Tasks : u # t => claim'[u] = claim[u]
    BY
    DEF EnqueueBegin, Refuse, Free, queueVars, clientVars, systemVars, CurrentClaim, Claims, TypeOK
  <1>c. /\ lock.step = "idle" /\ lock' \in [step : Steps, task : Tasks \cup {NoTask}]
        /\ \/ /\ phase' = [phase EXCEPT ![t] = "done"] /\ result' = [result EXCEPT ![t] = "error"]
              /\ lock'.step = "idle" /\ lock'.task = NoTask
           \/ phase' = phase /\ result' = result /\ lock'.step = "list" /\ lock'.task = t
    BY DEF EnqueueBegin, Refuse, Free, queueVars, clientVars, systemVars, Steps
  <1>s. \A u \in Tasks : Counts(u)' = Counts(u)
    BY <1>u, <1>w, <1>a, <1>b, <1>c
    DEF Counts, ChildrenFit, ChildFits, OpsFit, LockFits, Begun, Enqueuing, TypeOK
  <1>1. TypeOK'
    BY ZenonT(30), <1>u, <1>w, <1>a, <1>b, <1>c
    DEF TypeOK, OpType, Claims, Phases, Record, Reasons, Terminal, Nonterminal
  <1>2. OpsFit'
    BY <1>u, <1>w, <1>a, <1>b, <1>c
    DEF OpsFit, OpsFit, LockFits, WaitersFit, ActiveFit, Begun, Enqueuing, Leased, TypeOK
  <1>3. QueuesDistinct'
    BY <1>u, <1>w, <1>a, <1>b, <1>c DEF QueuesDistinct
  <1>4. LockFits'
    BY <1>u, <1>w, <1>a, <1>b, <1>c, TasksAssumption
    DEF LockFits, OpsFit, Begun, Enqueuing, Steps, TypeOK
  <1>5. WaitersFit'
    BY <1>u, <1>w, <1>a, <1>b, <1>c
    DEF WaitersFit, OpsFit, LockFits, WaitersFit, ActiveFit, Begun, Enqueuing, Leased, TypeOK
  <1>6. ActiveFit'
    BY <1>u, <1>w, <1>a, <1>b, <1>c DEF ActiveFit, LockFits, OpsFit, Leased, Enqueuing, TypeOK
  <1>7. ChildrenFit'
    BY <1>u, <1>w, <1>a, <1>b, <1>c
    DEF ChildrenFit, ChildFits, OpsFit, LockFits, WaitersFit, ActiveFit, Begun, Enqueuing,
        Leased, TypeOK
  <1>8. OwnersFit'
    BY <1>u, <1>w, <1>a, <1>b, <1>c
    DEF OwnersFit, OpsFit, LockFits, WaitersFit, ActiveFit, Begun, Enqueuing, Leased, TypeOK
  <1>9. DecisionHolds' /\ ChildLimit'
    BY <1>u, <1>w, <1>a, <1>b, <1>c, <1>s, AcceptedSame DEF DecisionHolds
  <1>10. CancellationChained'
    BY <1>u, <1>w, <1>a, <1>b, <1>c
    DEF CancellationChained, OpsFit, LockFits, WaitersFit, ActiveFit, Begun, Enqueuing, Leased,
        TypeOK
  <1>11. SlotsFit'
    BY <1>u, <1>w, <1>a, <1>b, <1>c
    DEF SlotsFit, OpsFit, LockFits, WaitersFit, ActiveFit, Begun, Enqueuing, Leased, TypeOK
  <1>12. ActiveLimit' /\ OwnersDisjoint'
    BY <1>u, <1>w DEF ActiveLimit, OwnersDisjoint
  <1> QED BY <1>1, <1>2, <1>3, <1>4, <1>5, <1>6, <1>7, <1>8, <1>9, <1>10, <1>11, <1>12

\* The list has answered and the child limit is decided.
LEMMA EnqueueListKeeps ==
  ASSUME IInv, NEW t \in Tasks, EnqueueList(t)
  PROVE  IInv'
  <1> USE DEF IInv
  <1>u. UNCHANGED <<disk, waiters, active, activeCount, owned, ops, reason, expired, outcome, mode,
      stale, crashes>>
    BY DEF EnqueueList, Refuse, Free, Fails, Succeeds, queueVars, clientVars, systemVars
  <1>o. \A k, u : Chained(k, u)' <=> Chained(k, u)
    BY <1>u DEF Chained
  <1>w. \A u : Queued(u)' <=> Queued(u)
    BY <1>u DEF Queued
  <1>a. lock.step = "list" /\ lock.task = t
    BY DEF EnqueueList, Refuse, Free, Fails, Succeeds, queueVars, clientVars, systemVars, Holds
  <1>b. /\ claim' \in [Tasks -> Claims]
        /\ \A u \in Tasks : claim[u] # "none" => claim'[u] = claim[u]
        /\ \A u \in Tasks : u # t => claim'[u] = claim[u]
    BY
    DEF EnqueueList, Refuse, Free, Fails, Succeeds, queueVars, clientVars, systemVars,
        CurrentClaim, Claims, TypeOK
  <1>c. /\ lock' \in [step : Steps, task : Tasks \cup {NoTask}] /\ faults' \in Nat
        /\ \/ /\ phase' = [phase EXCEPT ![t] = "done"] /\ result' = [result EXCEPT ![t] = "error"]
              /\ lock'.step = "idle" /\ lock'.task = NoTask
              /\ pendingRoots' = pendingRoots
           \/ /\ phase' = phase /\ result' = result /\ lock'.task = t /\ CanAccept(t)
              /\ \/ lock'.step = "reserve" /\ pendingRoots' = pendingRoots
                 \/ lock'.step = "persist" /\ pendingRoots' = pendingRoots \cup {t} /\ Writes[t] = {}
    BY
    DEF EnqueueList, Refuse, Free, Fails, Succeeds, queueVars, clientVars, systemVars, Steps, TypeOK
  <1>1. TypeOK'
    BY ZenonT(30), <1>u, <1>o, <1>w, <1>a, <1>b, <1>c
    DEF TypeOK, OpType, Claims, Phases, Record, Reasons, Terminal, Nonterminal
  <1>2. OpsFit'
    BY <1>u, <1>o, <1>w, <1>a, <1>b, <1>c
    DEF OpsFit, OpsFit, LockFits, WaitersFit, ActiveFit, Begun, Enqueuing, Leased, TypeOK
  <1>3. LockFits'
    BY <1>u, <1>o, <1>w, <1>a, <1>b, <1>c, TasksAssumption
    DEF LockFits, OpsFit, Begun, Enqueuing, Steps, TypeOK
  <1>4. WaitersFit'
    BY <1>u, <1>o, <1>w, <1>a, <1>b, <1>c
    DEF WaitersFit, OpsFit, LockFits, WaitersFit, ActiveFit, Begun, Enqueuing, Leased, TypeOK
  <1>5. ActiveFit'
    BY SMTT(20), <1>u, <1>o, <1>w, <1>a, <1>b, <1>c
    DEF ActiveFit, LockFits, OpsFit, Leased, Enqueuing, TypeOK
  <1>6. ChildrenFit'
    BY <1>u, <1>o, <1>w, <1>a, <1>b, <1>c
    DEF ChildrenFit, ChildFits, OpsFit, LockFits, WaitersFit, ActiveFit, Begun, Enqueuing,
        Leased, TypeOK
  <1>7. OwnersFit'
    BY <1>u, <1>o, <1>w, <1>a, <1>b, <1>c
    DEF OwnersFit, OpsFit, LockFits, WaitersFit, ActiveFit, Begun, Enqueuing, Leased, TypeOK
  <1>8. DecisionHolds'
    <2>1. CASE pendingRoots' = pendingRoots
      <3>1. \A u \in Tasks : Counts(u)' = Counts(u)  BY <2>1, <1>u DEF Counts
      <3> QED BY <3>1, <1>u, <1>o, <1>w, <1>a, <1>b, <1>c, AcceptedSame DEF DecisionHolds
    <2>2. CASE CanAccept(t) /\ pendingRoots' = pendingRoots \cup {t} /\ lock'.step = "persist"
      <3>1. \A u \in Tasks : Counts(u)' => Counts(u) \/ u = t  BY <2>2, <1>u DEF Counts
      <3> QED BY <2>2, <3>1, AcceptedGrows DEF DecisionHolds
    <2> QED BY <2>1, <2>2, <1>c
  <1>9. ChildLimit'
    <2>1. CASE pendingRoots' = pendingRoots
      <3>1. \A u \in Tasks : Counts(u)' = Counts(u)  BY <2>1, <1>u DEF Counts
      <3> QED BY <3>1, <1>u, <1>o, <1>w, <1>a, <1>b, <1>c, AcceptedSame DEF DecisionHolds
    <2>2. CASE CanAccept(t) /\ pendingRoots' = pendingRoots \cup {t} /\ lock'.step = "persist"
      <3>1. \A u \in Tasks : Counts(u)' => Counts(u) \/ u = t  BY <2>2, <1>u DEF Counts
      <3> QED BY <2>2, <3>1, AcceptedGrows DEF DecisionHolds
    <2> QED BY <2>1, <2>2, <1>c
  <1>10. CancellationChained'
    BY <1>u, <1>o, <1>w, <1>a, <1>b, <1>c
    DEF CancellationChained, OpsFit, LockFits, WaitersFit, ActiveFit, Begun, Enqueuing, Leased,
        TypeOK
  <1>11. SlotsFit'
    BY <1>u, <1>o, <1>w, <1>a, <1>b, <1>c
    DEF SlotsFit, OpsFit, LockFits, WaitersFit, ActiveFit, Begun, Enqueuing, Leased, TypeOK
  <1>12. QueuesDistinct' /\ ActiveLimit' /\ OwnersDisjoint'
    BY <1>u, <1>o, <1>w DEF QueuesDistinct, ActiveLimit, OwnersDisjoint
  <1> QED BY <1>1, <1>2, <1>3, <1>4, <1>5, <1>6, <1>7, <1>8, <1>9, <1>10, <1>11, <1>12

\* The write paths are resolved and the reservation decided.
LEMMA EnqueueReserveKeeps ==
  ASSUME IInv, NEW t \in Tasks, EnqueueReserve(t)
  PROVE  IInv'
  <1> USE DEF IInv
  <1>u. UNCHANGED <<disk, waiters, active, activeCount, ops, reason, expired, outcome, mode, stale,
      crashes>>
    BY DEF EnqueueReserve, Refuse, Free, Fails, Succeeds, queueVars, clientVars, systemVars
  <1>o. \A k, u : Chained(k, u)' <=> Chained(k, u)
    BY <1>u DEF Chained
  <1>w. \A u : Queued(u)' <=> Queued(u)
    BY <1>u DEF Queued
  <1>a. lock.step = "reserve" /\ lock.task = t
    BY
    DEF EnqueueReserve, Refuse, Free, Fails, Succeeds, queueVars, clientVars, systemVars, Holds
  <1>b. /\ claim' \in [Tasks -> Claims]
        /\ \A u \in Tasks : claim[u] # "none" => claim'[u] = claim[u]
        /\ \A u \in Tasks : u # t => claim'[u] = claim[u]
    BY
    DEF EnqueueReserve, Refuse, Free, Fails, Succeeds, queueVars, clientVars, systemVars,
        CurrentClaim, Claims, TypeOK
  <1>c. /\ lock' \in [step : Steps, task : Tasks \cup {NoTask}] /\ faults' \in Nat
        /\ \/ /\ phase' = [phase EXCEPT ![t] = "done"] /\ result' = [result EXCEPT ![t] = "error"]
              /\ lock'.step = "idle" /\ lock'.task = NoTask
              /\ pendingRoots' = pendingRoots /\ owned' = owned
           \/ /\ phase' = phase /\ result' = result /\ lock'.task = t /\ CanAccept(t)
              /\ lock'.step = "persist" /\ pendingRoots' = pendingRoots \cup {t}
              /\ owned' = owned \cup {t} /\ \A u \in owned : Writes[u] \cap Writes[t] = {}
    BY <1>a
    DEF EnqueueReserve, Refuse, Free, Fails, Succeeds, queueVars, clientVars, systemVars, Steps,
        Conflicts, DecisionHolds, TypeOK
  <1>1. TypeOK'
    <2>1. phase' \in [Tasks -> Phases]  BY <1>u, <1>c DEF TypeOK, Phases
    <2>2. result' \in [Tasks -> Terminal \cup {"none", "error"}]  BY <1>c DEF TypeOK
    <2>3. pendingRoots' \subseteq Tasks /\ owned' \subseteq Tasks  BY <1>u, <1>c DEF TypeOK
    <2> QED BY <2>1, <2>2, <2>3, <1>u, <1>b, <1>c DEF TypeOK, Claims
  <1>2. OpsFit'
    BY <1>u, <1>o, <1>w, <1>a, <1>b, <1>c
    DEF OpsFit, OpsFit, LockFits, WaitersFit, ActiveFit, Begun, Enqueuing, Leased, TypeOK
  <1>3. LockFits'
    BY <1>u, <1>o, <1>w, <1>a, <1>b, <1>c, TasksAssumption
    DEF LockFits, OpsFit, Begun, Enqueuing, Steps, TypeOK
  <1>4. WaitersFit'
    BY <1>u, <1>o, <1>w, <1>a, <1>b, <1>c
    DEF WaitersFit, OpsFit, LockFits, WaitersFit, ActiveFit, Begun, Enqueuing, Leased, TypeOK
  <1>5. ActiveFit'
    BY <1>u, <1>o, <1>w, <1>a, <1>b, <1>c
    DEF ActiveFit, LockFits, OpsFit, Leased, Enqueuing, TypeOK
  <1>6. ChildrenFit'
    BY <1>u, <1>o, <1>w, <1>a, <1>b, <1>c
    DEF ChildrenFit, ChildFits, OpsFit, LockFits, WaitersFit, ActiveFit, Begun, Enqueuing,
        Leased, TypeOK
  <1>7. OwnersFit'
    BY <1>u, <1>o, <1>w, <1>a, <1>b, <1>c
    DEF OwnersFit, OpsFit, LockFits, WaitersFit, ActiveFit, Begun, Enqueuing, Leased, TypeOK
  <1>8. OwnersDisjoint'
    BY <1>u, <1>o, <1>w, <1>a, <1>b, <1>c DEF OwnersDisjoint
  <1>9. DecisionHolds'
    <2>1. CASE pendingRoots' = pendingRoots
      <3>1. \A u \in Tasks : Counts(u)' = Counts(u)  BY <2>1, <1>u DEF Counts
      <3> QED BY <3>1, <1>u, <1>o, <1>w, <1>a, <1>b, <1>c, AcceptedSame DEF DecisionHolds
    <2>2. CASE CanAccept(t) /\ pendingRoots' = pendingRoots \cup {t} /\ lock'.step = "persist"
      <3>1. \A u \in Tasks : Counts(u)' => Counts(u) \/ u = t  BY <2>2, <1>u DEF Counts
      <3> QED BY <2>2, <3>1, AcceptedGrows DEF DecisionHolds
    <2> QED BY <2>1, <2>2, <1>c
  <1>10. ChildLimit'
    <2>1. CASE pendingRoots' = pendingRoots
      <3>1. \A u \in Tasks : Counts(u)' = Counts(u)  BY <2>1, <1>u DEF Counts
      <3> QED BY <3>1, <1>u, <1>o, <1>w, <1>a, <1>b, <1>c, AcceptedSame DEF DecisionHolds
    <2>2. CASE CanAccept(t) /\ pendingRoots' = pendingRoots \cup {t} /\ lock'.step = "persist"
      <3>1. \A u \in Tasks : Counts(u)' => Counts(u) \/ u = t  BY <2>2, <1>u DEF Counts
      <3> QED BY <2>2, <3>1, AcceptedGrows DEF DecisionHolds
    <2> QED BY <2>1, <2>2, <1>c
  <1>11. CancellationChained'
    BY <1>u, <1>o, <1>w, <1>a, <1>b, <1>c
    DEF CancellationChained, OpsFit, LockFits, WaitersFit, ActiveFit, Begun, Enqueuing, Leased,
        TypeOK
  <1>12. SlotsFit'
    BY <1>u, <1>o, <1>w, <1>a, <1>b, <1>c
    DEF SlotsFit, OpsFit, LockFits, WaitersFit, ActiveFit, Begun, Enqueuing, Leased, TypeOK
  <1>13. QueuesDistinct' /\ ActiveLimit'
    BY <1>u, <1>o, <1>w DEF QueuesDistinct, ActiveLimit
  <1> QED BY <1>1, <1>2, <1>3, <1>4, <1>5, <1>6, <1>7, <1>8, <1>9, <1>10, <1>11, <1>12, <1>13

\* The queued record is not written: everything is given back.
LEMMA EnqueueFailsKeeps ==
  ASSUME IInv, NEW t \in Tasks, EnqueuePersist(t),
         Fails, Refuse(t), GiveBack(t), UNCHANGED <<disk, queueVars, ops>>
  PROVE  IInv'
  <1> USE DEF IInv
  <1>u. UNCHANGED <<disk, waiters, active, activeCount, ops, reason, expired, outcome, mode, stale,
      crashes>>
    BY
    DEF EnqueuePersist, Refuse, Free, Fails, Succeeds, GiveBack, queueVars, clientVars, systemVars
  <1>o. \A k, u : Chained(k, u)' <=> Chained(k, u)
    BY <1>u DEF Chained
  <1>w. \A u : Queued(u)' <=> Queued(u)
    BY <1>u DEF Queued
  <1>a. lock.step = "persist" /\ lock.task = t
    BY
    DEF EnqueuePersist, Refuse, Free, Fails, Succeeds, GiveBack, queueVars, clientVars,
        systemVars, Holds
  <1>b. /\ claim' \in [Tasks -> Claims]
        /\ \A u \in Tasks : claim[u] # "none" => claim'[u] = claim[u]
        /\ \A u \in Tasks : u # t => claim'[u] = claim[u]
    BY
    DEF EnqueuePersist, Refuse, Free, Fails, Succeeds, GiveBack, queueVars, clientVars,
        systemVars, CurrentClaim, Claims, TypeOK
  <1>c. /\ phase[t] = "registering" /\ t \notin active /\ ~Queued(t) /\ disk[t].started = FALSE /\ ~Chained("cancel", t)
        /\ \A u \in active : ~Queued(u)
    BY <1>a, RecordFacts
    DEF LockFits, WaitersFit, ActiveFit, ChildrenFit, ChildFits, OpsFit, Leased, Enqueuing, TypeOK
  <1>d. /\ lock' \in [step : Steps, task : Tasks \cup {NoTask}] /\ lock'.step = "idle" /\ lock'.task = NoTask /\ faults' \in Nat
        /\ phase' = [phase EXCEPT ![t] = "done"] /\ result' = [result EXCEPT ![t] = "error"]
        /\ pendingRoots' = pendingRoots \ {t} /\ owned' = owned \ {t}
    BY
    DEF EnqueuePersist, Refuse, Free, Fails, Succeeds, GiveBack, queueVars, clientVars,
        systemVars, Steps, TypeOK
  <1>1. TypeOK'
    <2>1. phase' \in [Tasks -> Phases]  BY <1>d DEF TypeOK, Phases
    <2>2. result' \in [Tasks -> Terminal \cup {"none", "error"}]  BY <1>d DEF TypeOK
    <2>3. pendingRoots' \subseteq Tasks /\ owned' \subseteq Tasks  BY <1>d DEF TypeOK
    <2> QED BY <2>1, <2>2, <2>3, <1>u, <1>b, <1>d DEF TypeOK, Claims
  <1>2. OpsFit'
    BY <1>u, <1>o, <1>w, <1>a, <1>b, <1>c, <1>d
    DEF OpsFit, OpsFit, LockFits, WaitersFit, ActiveFit, Begun, Enqueuing, Leased, TypeOK
  <1>3. LockFits'
    BY <1>u, <1>o, <1>w, <1>a, <1>b, <1>c, <1>d, TasksAssumption
    DEF LockFits, OpsFit, Begun, Enqueuing, Steps, TypeOK
  <1>4. WaitersFit'
    BY <1>u, <1>o, <1>w, <1>a, <1>b, <1>c, <1>d
    DEF WaitersFit, OpsFit, LockFits, WaitersFit, ActiveFit, Begun, Enqueuing, Leased, TypeOK
  <1>5. ActiveFit'
    BY <1>u, <1>o, <1>w, <1>a, <1>b, <1>c, <1>d
    DEF ActiveFit, LockFits, OpsFit, Leased, Enqueuing, TypeOK
  <1>6. ChildrenFit'
    BY <1>u, <1>o, <1>w, <1>a, <1>b, <1>c, <1>d
    DEF ChildrenFit, ChildFits, OpsFit, LockFits, WaitersFit, ActiveFit, Begun, Enqueuing,
        Leased, TypeOK
  <1>7. OwnersFit'
    BY <1>u, <1>o, <1>w, <1>a, <1>b, <1>c, <1>d
    DEF OwnersFit, OpsFit, LockFits, WaitersFit, ActiveFit, Begun, Enqueuing, Leased, TypeOK
  <1>8. OwnersDisjoint'
    BY <1>u, <1>o, <1>w, <1>a, <1>b, <1>c, <1>d DEF OwnersDisjoint
  <1>9. DecisionHolds'
    BY <1>d DEF DecisionHolds
  <1>10. ChildLimit'
    <2>1. \A u \in Tasks : Counts(u)' => Counts(u)  BY <1>u, <1>d DEF Counts
    <2> QED BY <2>1, AcceptedShrinks
  <1>11. CancellationChained'
    BY <1>u, <1>o, <1>w, <1>a, <1>b, <1>c, <1>d
    DEF CancellationChained, OpsFit, LockFits, WaitersFit, ActiveFit, Begun, Enqueuing, Leased,
        TypeOK
  <1>12. SlotsFit'
    BY <1>u, <1>o, <1>w, <1>a, <1>b, <1>c, <1>d
    DEF SlotsFit, OpsFit, LockFits, WaitersFit, ActiveFit, Begun, Enqueuing, Leased, TypeOK
  <1>13. QueuesDistinct' /\ ActiveLimit'
    BY <1>u, <1>o, <1>w DEF QueuesDistinct, ActiveLimit
  <1> QED BY <1>1, <1>2, <1>3, <1>4, <1>5, <1>6, <1>7, <1>8, <1>9, <1>10, <1>11, <1>12, <1>13

\* A task already cancelled joins the line and chains its cancellation.
LEMMA EnqueueJoinsClaimedKeeps ==
  ASSUME IInv, NEW t \in Tasks, EnqueuePersist(t),
         Succeeds, lock' = Free, disk' = [disk EXCEPT ![t] = [status |-> "queued", started |-> FALSE]],
         UNCHANGED <<pendingRoots, owned, result>>,
         CurrentClaim(t) # "none", waiters' = Append(waiters, t), phase' = [phase EXCEPT ![t] = "waiting"],
         ops' = Append(ops, Op("cancel", t)), UNCHANGED <<active, activeCount>>
  PROVE  IInv'
  <1> USE DEF IInv
  <1>u. UNCHANGED <<active, activeCount, pendingRoots, owned, reason, expired, outcome, result,
      mode, stale, faults, crashes>>
    BY DEF EnqueuePersist, Free, Succeeds, queueVars, clientVars, systemVars
  <1>a. lock.step = "persist" /\ lock.task = t
    BY DEF EnqueuePersist, Free, Succeeds, queueVars, clientVars, systemVars, Holds
  <1>b. /\ claim' \in [Tasks -> Claims]
        /\ \A u \in Tasks : claim[u] # "none" => claim'[u] = claim[u]
        /\ \A u \in Tasks : u # t => claim'[u] = claim[u]
    BY
    DEF EnqueuePersist, Free, Succeeds, queueVars, clientVars, systemVars, CurrentClaim, Claims,
        TypeOK
  <1>c. /\ phase[t] = "registering" /\ t \notin active /\ ~Queued(t) /\ disk[t].started = FALSE /\ ~Chained("cancel", t)
        /\ \A u \in active : ~Queued(u)
    BY <1>a, RecordFacts
    DEF LockFits, WaitersFit, ActiveFit, ChildrenFit, ChildFits, OpsFit, Leased, Enqueuing, TypeOK
  <1>d. disk' \in [Tasks -> Record] /\ \A u \in Tasks : disk'[u].started = disk[u].started
    <2> DEFINE r == [status |-> "queued", started |-> FALSE]
    <2>1. "queued" \in Nonterminal  BY DEF Nonterminal
    <2>2. r \in Record /\ r.started = FALSE  BY <2>1, RecordFacts
    <2>3. disk' = [disk EXCEPT ![t] = r]  OBVIOUS
    <2> HIDE DEF r
    <2>4. disk' \in [Tasks -> Record]
      <3>1. disk \in [Tasks -> Record]  BY DEF TypeOK
      <3> HIDE DEF IInv
      <3> QED BY <2>2, <2>3, <3>1
    <2>5. \A u \in Tasks : disk'[u].started = disk[u].started
      <3>1. disk'[t] = r /\ \A u \in Tasks : u # t => disk'[u] = disk[u]  BY <2>3 DEF TypeOK
      <3> QED BY <2>2, <3>1, <1>c
    <2> QED BY <2>4, <2>5
  <1>e. /\ lock' \in [step : Steps, task : Tasks \cup {NoTask}] /\ lock'.step = "idle" /\ lock'.task = NoTask
        /\ claim'[t] # "none" /\ phase' = [phase EXCEPT ![t] = "waiting"]
    BY DEF EnqueuePersist, Free, Succeeds, queueVars, clientVars, systemVars, Steps, TypeOK
  <1>f. /\ ops' \in Seq(OpType) /\ Distinct(ops')
        /\ \A l, u : Chained(l, u)' <=> Chained(l, u) \/ (l = "cancel" /\ u = t)
    BY <1>c, OpsAppend, "cancel" \in OpKinds DEF OpKinds, OpType, QueuesDistinct, TypeOK
  <1>g. /\ waiters' \in Seq(Tasks) /\ Distinct(waiters')
        /\ \A u : Queued(u)' <=> Queued(u) \/ u = t
    BY <1>c, AppendFacts DEF Queued, QueuesDistinct, TypeOK
  <1>s. \A u \in Tasks : Counts(u)' = Counts(u)
    BY <1>u, <1>a, <1>b, <1>c, <1>d, <1>e, <1>f, <1>g
    DEF Counts, ChildrenFit, ChildFits, OpsFit, LockFits, Begun, Enqueuing, TypeOK
  <1>1. TypeOK'
    <2>1. phase' \in [Tasks -> Phases]  BY <1>e DEF TypeOK, Phases
    <2> QED BY <2>1, <1>u, <1>b, <1>d, <1>e, <1>f, <1>g DEF TypeOK, OpType, Claims
  <1>2. OpsFit'
    BY <1>u, <1>a, <1>b, <1>c, <1>d, <1>e, <1>f, <1>g
    DEF OpsFit, OpsFit, LockFits, WaitersFit, ActiveFit, Begun, Enqueuing, Leased, TypeOK
  <1>3. QueuesDistinct'
    BY <1>u, <1>a, <1>b, <1>c, <1>d, <1>e, <1>f, <1>g DEF QueuesDistinct
  <1>4. LockFits'
    BY <1>u, <1>a, <1>b, <1>c, <1>d, <1>e, <1>f, <1>g, TasksAssumption
    DEF LockFits, OpsFit, Begun, Enqueuing, Steps, TypeOK
  <1>5. WaitersFit'
    BY <1>u, <1>a, <1>b, <1>c, <1>d, <1>e, <1>f, <1>g
    DEF WaitersFit, OpsFit, LockFits, WaitersFit, ActiveFit, Begun, Enqueuing, Leased, TypeOK
  <1>6. ActiveFit'
    BY <1>u, <1>a, <1>b, <1>c, <1>d, <1>e, <1>f, <1>g
    DEF ActiveFit, LockFits, OpsFit, Leased, Enqueuing, TypeOK
  <1>7. ChildrenFit'
    BY <1>u, <1>a, <1>b, <1>c, <1>d, <1>e, <1>f, <1>g
    DEF ChildrenFit, ChildFits, OpsFit, LockFits, WaitersFit, ActiveFit, Begun, Enqueuing,
        Leased, TypeOK
  <1>8. OwnersFit'
    BY <1>u, <1>a, <1>b, <1>c, <1>d, <1>e, <1>f, <1>g
    DEF OwnersFit, OpsFit, LockFits, WaitersFit, ActiveFit, Begun, Enqueuing, Leased, TypeOK
  <1>9. DecisionHolds' /\ ChildLimit'
    BY <1>u, <1>a, <1>b, <1>c, <1>d, <1>e, <1>f, <1>g, <1>s, AcceptedSame DEF DecisionHolds
  <1>10. CancellationChained'
    BY <1>u, <1>a, <1>b, <1>c, <1>d, <1>e, <1>f, <1>g
    DEF CancellationChained, OpsFit, LockFits, WaitersFit, ActiveFit, Begun, Enqueuing, Leased,
        TypeOK
  <1>11. SlotsFit'
    BY <1>u, <1>a, <1>b, <1>c, <1>d, <1>e, <1>f, <1>g
    DEF SlotsFit, OpsFit, LockFits, WaitersFit, ActiveFit, Begun, Enqueuing, Leased, TypeOK
  <1>12. ActiveLimit' /\ OwnersDisjoint'
    BY <1>u DEF ActiveLimit, OwnersDisjoint
  <1> QED BY <1>1, <1>2, <1>3, <1>4, <1>5, <1>6, <1>7, <1>8, <1>9, <1>10, <1>11, <1>12

\* A task joins the line, which is drained.
LEMMA EnqueueJoinsKeeps ==
  ASSUME IInv, NEW t \in Tasks, EnqueuePersist(t),
         Succeeds, lock' = Free, disk' = [disk EXCEPT ![t] = [status |-> "queued", started |-> FALSE]],
         UNCHANGED <<pendingRoots, owned, result>>,
         CurrentClaim(t) = "none", UNCHANGED ops,
         Drain(Append(waiters, t), active, activeCount, [phase EXCEPT ![t] = "waiting"])
  PROVE  IInv'
  <1> USE DEF IInv
  <1>u. UNCHANGED <<pendingRoots, owned, ops, reason, expired, outcome, result, mode, stale,
      faults, crashes>>
    BY DEF EnqueuePersist, Free, Succeeds, queueVars, clientVars, systemVars
  <1>o. \A k, u : Chained(k, u)' <=> Chained(k, u)
    BY <1>u DEF Chained
  <1>a. lock.step = "persist" /\ lock.task = t
    BY DEF EnqueuePersist, Free, Succeeds, queueVars, clientVars, systemVars, Holds
  <1>b. /\ claim' \in [Tasks -> Claims]
        /\ \A u \in Tasks : claim[u] # "none" => claim'[u] = claim[u]
        /\ \A u \in Tasks : u # t => claim'[u] = claim[u]
    BY
    DEF EnqueuePersist, Free, Succeeds, queueVars, clientVars, systemVars, CurrentClaim, Claims,
        TypeOK
  <1>c. /\ phase[t] = "registering" /\ t \notin active /\ ~Queued(t) /\ disk[t].started = FALSE /\ ~Chained("cancel", t)
        /\ \A u \in active : ~Queued(u)
    BY <1>a, RecordFacts
    DEF LockFits, WaitersFit, ActiveFit, ChildrenFit, ChildFits, OpsFit, Leased, Enqueuing, TypeOK
  <1>d. disk' \in [Tasks -> Record] /\ \A u \in Tasks : disk'[u].started = disk[u].started
    <2> DEFINE r == [status |-> "queued", started |-> FALSE]
    <2>1. "queued" \in Nonterminal  BY DEF Nonterminal
    <2>2. r \in Record /\ r.started = FALSE  BY <2>1, RecordFacts
    <2>3. disk' = [disk EXCEPT ![t] = r]  OBVIOUS
    <2> HIDE DEF r
    <2>4. disk' \in [Tasks -> Record]
      <3>1. disk \in [Tasks -> Record]  BY DEF TypeOK
      <3> HIDE DEF IInv
      <3> QED BY <2>2, <2>3, <3>1
    <2>5. \A u \in Tasks : disk'[u].started = disk[u].started
      <3>1. disk'[t] = r /\ \A u \in Tasks : u # t => disk'[u] = disk[u]  BY <2>3 DEF TypeOK
      <3> QED BY <2>2, <3>1, <1>c
    <2> QED BY <2>4, <2>5
  <1>e. /\ lock' \in [step : Steps, task : Tasks \cup {NoTask}] /\ lock'.step = "idle" /\ lock'.task = NoTask /\ claim'[t] = "none"
    BY DEF EnqueuePersist, Free, Succeeds, queueVars, clientVars, systemVars, Steps, TypeOK
  <1>f. /\ waiters' \in Seq(Tasks) /\ Distinct(waiters')
        /\ active' \subseteq Tasks /\ active \subseteq active'
        /\ ActiveLimit' /\ activeCount' \in Nat
        /\ \A u : Queued(u) \/ u = t <=> u \in active' \ active \/ Queued(u)'
        /\ \A u : Queued(u)' => u \notin active'
        /\ activeCount' < MaxActive => \A u : ~Queued(u)'
        /\ phase' = [u \in Tasks |-> IF u \in active' \ active THEN "admitted"
                                    ELSE IF u = t THEN "waiting" ELSE phase[u]]
    <2> DEFINE ph == [phase EXCEPT ![t] = "waiting"]
               line == Append(waiters, t)
    <2>1. ph \in [Tasks -> Phases]  BY DEF TypeOK, Phases
    <2>2. Drain(line, active, activeCount, ph)  OBVIOUS
    <2>3. \A u \in Tasks : ph[u] = IF u = t THEN "waiting" ELSE phase[u]  BY DEF TypeOK
    <2>4. /\ line \in Seq(Tasks) /\ Distinct(line)
          /\ \A u : InSeq(line, u) <=> Queued(u) \/ u = t
      BY <1>c, AppendFacts DEF Queued, QueuesDistinct, TypeOK
    <2> HIDE DEF ph, line
    <2>5. active \subseteq Tasks /\ \A u \in active : ~InSeq(line, u)  BY <1>c, <2>4 DEF TypeOK
    <2>6. activeCount \in Nat /\ activeCount = Cardinality(active) /\ activeCount <= MaxActive
      BY DEF ActiveLimit, TypeOK
    <2>7. /\ waiters' \in Seq(Tasks) /\ Distinct(waiters')
          /\ active' \subseteq Tasks /\ active \subseteq active'
          /\ ActiveLimit' /\ activeCount' \in Nat
          /\ \A u : InSeq(line, u) <=> u \in active' \ active \/ Queued(u)'
          /\ \A u : Queued(u)' => u \notin active'
          /\ activeCount' < MaxActive => \A u : ~Queued(u)'
          /\ phase' = [u \in Tasks |-> IF u \in active' \ active THEN "admitted" ELSE ph[u]]
      BY <2>1, <2>2, <2>4, <2>5, <2>6, DrainFacts
    <2> QED BY <2>3, <2>4, <2>7
  <1>s. \A u \in Tasks : Counts(u)' = Counts(u)
    BY <1>u, <1>o, <1>a, <1>b, <1>c, <1>d, <1>e, <1>f
    DEF Counts, ChildrenFit, ChildFits, OpsFit, LockFits, Begun, Enqueuing, TypeOK
  <1>1. TypeOK'
    <2>1. phase' \in [Tasks -> Phases]  BY <1>f DEF TypeOK, Phases
    <2> QED BY <2>1, <1>u, <1>b, <1>d, <1>e, <1>f DEF TypeOK, Claims
  <1>2. OpsFit'
    BY <1>u, <1>o, <1>a, <1>b, <1>c, <1>d, <1>e, <1>f
    DEF OpsFit, OpsFit, LockFits, WaitersFit, ActiveFit, Begun, Enqueuing, Leased, TypeOK
  <1>3. QueuesDistinct'
    BY <1>u, <1>o, <1>a, <1>b, <1>c, <1>d, <1>e, <1>f DEF QueuesDistinct
  <1>4. LockFits'
    BY <1>u, <1>o, <1>a, <1>b, <1>c, <1>d, <1>e, <1>f, TasksAssumption
    DEF LockFits, OpsFit, Begun, Enqueuing, Steps, TypeOK
  <1>5. WaitersFit'
    BY <1>u, <1>o, <1>a, <1>b, <1>c, <1>d, <1>e, <1>f
    DEF WaitersFit, OpsFit, LockFits, WaitersFit, ActiveFit, Begun, Enqueuing, Leased, TypeOK
  <1>6. ActiveFit'
    BY <1>u, <1>o, <1>a, <1>b, <1>c, <1>d, <1>e, <1>f
    DEF ActiveFit, LockFits, OpsFit, Leased, Enqueuing, TypeOK
  <1>7. ActiveLimit'
    BY <1>u, <1>o, <1>a, <1>b, <1>c, <1>d, <1>e, <1>f DEF ActiveLimit
  <1>8. ChildrenFit'
    BY <1>u, <1>o, <1>a, <1>b, <1>c, <1>d, <1>e, <1>f
    DEF ChildrenFit, ChildFits, OpsFit, LockFits, WaitersFit, ActiveFit, Begun, Enqueuing,
        Leased, TypeOK
  <1>9. OwnersFit'
    BY <1>u, <1>o, <1>a, <1>b, <1>c, <1>d, <1>e, <1>f
    DEF OwnersFit, OpsFit, LockFits, WaitersFit, ActiveFit, Begun, Enqueuing, Leased, TypeOK
  <1>10. DecisionHolds' /\ ChildLimit'
    BY <1>u, <1>o, <1>a, <1>b, <1>c, <1>d, <1>e, <1>f, <1>s, AcceptedSame DEF DecisionHolds
  <1>11. CancellationChained'
    BY <1>u, <1>o, <1>a, <1>b, <1>c, <1>d, <1>e, <1>f
    DEF CancellationChained, OpsFit, LockFits, WaitersFit, ActiveFit, Begun, Enqueuing, Leased,
        TypeOK
  <1>12. SlotsFit'
    BY <1>u, <1>o, <1>a, <1>b, <1>c, <1>d, <1>e, <1>f
    DEF SlotsFit, OpsFit, LockFits, WaitersFit, ActiveFit, Begun, Enqueuing, Leased, TypeOK
  <1>13. OwnersDisjoint'
    BY <1>u, <1>o DEF OwnersDisjoint
  <1> QED BY <1>1, <1>2, <1>3, <1>4, <1>5, <1>6, <1>7, <1>8, <1>9, <1>10, <1>11, <1>12, <1>13

\* The queued record has been written, or not.
LEMMA EnqueuePersistKeeps ==
  ASSUME IInv, NEW t \in Tasks, EnqueuePersist(t)
  PROVE  IInv'
  <1>1. CASE Fails /\ Refuse(t) /\ GiveBack(t) /\ UNCHANGED <<disk, queueVars, ops>>
    BY <1>1, EnqueueFailsKeeps
  <1>2. CASE /\ Succeeds /\ Join(t) /\ lock' = Free /\ UNCHANGED <<pendingRoots, owned, result>>
             /\ disk' = [disk EXCEPT ![t] = [status |-> "queued", started |-> FALSE]]
    <2>1. CASE CurrentClaim(t) # "none"  BY <1>2, <2>1, EnqueueJoinsClaimedKeeps DEF Join
    <2>2. CASE CurrentClaim(t) = "none"  BY <1>2, <2>2, EnqueueJoinsKeeps DEF Join
    <2> QED BY <2>1, <2>2
  <1> QED BY <1>1, <1>2 DEF EnqueuePersist

\* A chained cancellation begins: it withdraws a waiter and finds nothing to do otherwise.
LEMMA CancelBeginKeeps ==
  ASSUME IInv, NEW t \in Tasks, CancelBegin(t)
  PROVE  IInv'
  <1> USE DEF IInv
  <1>u. UNCHANGED <<disk, active, activeCount, claim, reason, expired, outcome, result, mode,
      stale, faults, crashes>>
    BY DEF CancelBegin, GiveBack, StillWaiting, queueVars, clientVars, systemVars
  <1>a. /\ ops' \in Seq(OpType) /\ Distinct(ops')
        /\ Chained("cancel", t)
        /\ \A l, u : Chained(l, u)' <=> Chained(l, u) /\ ~(l = "cancel" /\ u = t)
    BY OpsTail, "cancel" \in OpKinds
    DEF CancelBegin, GiveBack, StillWaiting, queueVars, clientVars, systemVars, OpKinds, OpType,
        QueuesDistinct, TypeOK
  <1>b. /\ lock.step = "idle" /\ claim[t] # "none"
        /\ \/ /\ ~Queued(t) /\ waiters' = waiters /\ pendingRoots' = pendingRoots /\ owned' = owned
              /\ phase' = phase /\ lock' = lock
           \/ /\ \E i \in DOMAIN waiters : waiters[i] = t /\ waiters' = RemoveAt(waiters, i)
              /\ pendingRoots' = pendingRoots \ {t} /\ owned' = owned \ {t}
              /\ phase' = [phase EXCEPT ![t] = "cancelling"]
              /\ lock' \in [step : Steps, task : Tasks \cup {NoTask}] /\ lock'.step = "cancelWrite" /\ lock'.task = t
    <2>1. lock.step = "idle" /\ claim[t] # "none"  BY <1>a DEF CancelBegin, Free, OpsFit
    <2>2. StillWaiting(t) <=> Queued(t)  BY DEF StillWaiting, Range, Queued, InSeq
    <2> QED BY <2>1, <2>2 DEF CancelBegin, GiveBack, StillWaiting, queueVars, clientVars, systemVars, Steps
  <1>c. /\ waiters' \in Seq(Tasks) /\ Distinct(waiters')
        /\ \/ waiters' = waiters /\ ~Queued(t) /\ phase' = phase /\ lock' = lock
                /\ pendingRoots' = pendingRoots /\ owned' = owned
           \/ /\ Queued(t) /\ phase' = [phase EXCEPT ![t] = "cancelling"]
              /\ lock'.step = "cancelWrite" /\ lock'.task = t
              /\ pendingRoots' = pendingRoots \ {t} /\ owned' = owned \ {t}
        /\ \A u : Queued(u)' <=> Queued(u) /\ u # t
    <2>0. (\E i \in DOMAIN waiters : waiters[i] = t) => Queued(t)  BY DEF Queued, InSeq
    <2>1. CASE ~Queued(t)
      <3>1. \A u : Queued(u)' <=> Queued(u)  BY <2>0, <2>1, <1>b DEF Queued
      <3> QED BY <3>1, <2>0, <2>1, <1>b DEF QueuesDistinct, TypeOK
    <2>2. CASE Queued(t)
      <3>1. PICK i \in DOMAIN waiters : waiters[i] = t /\ waiters' = RemoveAt(waiters, i)  BY <2>2, <1>b
      <3>2. /\ waiters' \in Seq(Tasks) /\ Distinct(waiters')
            /\ \A u : InSeq(waiters', u) <=> InSeq(waiters, u) /\ u # t
        BY <3>1, RemoveFacts DEF QueuesDistinct, TypeOK
      <3> QED BY <2>2, <3>2, <1>b DEF Queued
    <2> QED BY <2>1, <2>2, <1>b
  <1>1. TypeOK'
    BY <1>u, <1>a, <1>b, <1>c
    DEF TypeOK, OpType, Claims, Phases, Record, Reasons, Terminal, Nonterminal
  <1>2. OpsFit'
    BY <1>u, <1>a, <1>b, <1>c
    DEF OpsFit, OpsFit, LockFits, WaitersFit, ActiveFit, Begun, Enqueuing, Leased, TypeOK
  <1>3. QueuesDistinct'
    BY <1>u, <1>a, <1>b, <1>c DEF QueuesDistinct
  <1>4. LockFits'
    BY <1>u, <1>a, <1>b, <1>c, TasksAssumption
    DEF LockFits, OpsFit, Begun, Enqueuing, Steps, TypeOK
  <1>5. WaitersFit'
    BY <1>u, <1>a, <1>b, <1>c
    DEF WaitersFit, OpsFit, LockFits, WaitersFit, ActiveFit, Begun, Enqueuing, Leased, TypeOK
  <1>6. ActiveFit'
    BY <1>u, <1>a, <1>b, <1>c DEF ActiveFit, WaitersFit, Leased, TypeOK
  <1>7. ChildrenFit'
    BY <1>u, <1>a, <1>b, <1>c
    DEF ChildrenFit, ChildFits, OpsFit, LockFits, WaitersFit, ActiveFit, Begun, Enqueuing,
        Leased, TypeOK
  <1>8. OwnersFit'
    BY <1>u, <1>a, <1>b, <1>c
    DEF OwnersFit, OpsFit, LockFits, WaitersFit, ActiveFit, Begun, Enqueuing, Leased, TypeOK
  <1>9. OwnersDisjoint'
    BY <1>u, <1>a, <1>b, <1>c DEF OwnersDisjoint
  <1>10. DecisionHolds'
    BY <1>b, <1>c DEF DecisionHolds
  <1>11. ChildLimit'
    <2>1. \A u \in Tasks : Counts(u)' => Counts(u)  BY <1>u, <1>c DEF Counts
    <2> QED BY <2>1, AcceptedShrinks
  <1>12. CancellationChained'
    BY <1>u, <1>a, <1>b, <1>c
    DEF CancellationChained, OpsFit, LockFits, WaitersFit, ActiveFit, Begun, Enqueuing, Leased,
        TypeOK
  <1>13. SlotsFit'
    BY <1>u, <1>a, <1>b, <1>c
    DEF SlotsFit, OpsFit, LockFits, WaitersFit, ActiveFit, Begun, Enqueuing, Leased, TypeOK
  <1>14. ActiveLimit'
    BY <1>u DEF ActiveLimit
  <1> QED BY <1>1, <1>2, <1>3, <1>4, <1>5, <1>6, <1>7, <1>8, <1>9, <1>10, <1>11, <1>12, <1>13, <1>14

\* The cancelled record is written and the slots it was waiting for are handed on.
LEMMA CancelWriteKeeps ==
  ASSUME IInv, NEW t \in Tasks, CancelWrite(t)
  PROVE  IInv'
  <1> USE DEF IInv
  <1>u. UNCHANGED <<pendingRoots, owned, ops, claim, reason, expired, outcome, mode, stale, crashes>>
    BY DEF CancelWrite, Free, Fails, Succeeds, queueVars, clientVars, systemVars
  <1>o. \A k, u : Chained(k, u)' <=> Chained(k, u)
    BY <1>u DEF Chained
  <1>a. lock.step = "cancelWrite" /\ lock.task = t
    BY DEF CancelWrite, Free, Fails, Succeeds, queueVars, clientVars, systemVars, Holds
  <1>b. /\ phase[t] = "cancelling" /\ t \notin active /\ ~Queued(t) /\ ~disk[t].started
        /\ \A u \in active : ~Queued(u)
    BY <1>a DEF LockFits, WaitersFit, ActiveFit, ChildrenFit, ChildFits, Leased, TypeOK
  <1>c. /\ lock' \in [step : Steps, task : Tasks \cup {NoTask}] /\ lock'.step = "idle" /\ lock'.task = NoTask
        /\ faults' \in Nat /\ result' \in [Tasks -> Terminal \cup {"none", "error"}]
        /\ disk' \in [Tasks -> Record] /\ \A u \in Tasks : disk'[u].started = disk[u].started
    <2>1. claim[t] \in Terminal  BY <1>a DEF LockFits, Terminal, TypeOK
    <2>2. \/ disk' = disk
          \/ disk' = [disk EXCEPT ![t] = [status |-> claim[t], started |-> FALSE]]
      BY DEF CancelWrite
    <2> DEFINE r == [status |-> claim[t], started |-> FALSE]
    <2>r. r \in Record /\ r.started = FALSE  BY <2>1, RecordFacts
    <2> HIDE DEF r
    <2>3. disk' \in [Tasks -> Record]  BY <2>r, <2>2 DEF TypeOK, r
    <2>4. \A u \in Tasks : disk'[u].started = disk[u].started
      <3>1. disk[t].started = FALSE  BY <1>b, RecordFacts DEF TypeOK
      <3> QED BY <2>2, <2>r, <3>1 DEF TypeOK, r
    <2>5. result' \in [Tasks -> Terminal \cup {"none", "error"}]  BY DEF CancelWrite, TypeOK
    <2> QED BY <2>3, <2>4, <2>5 DEF CancelWrite, Free, Fails, Succeeds, Steps, TypeOK
  <1>d. /\ waiters' \in Seq(Tasks) /\ Distinct(waiters')
        /\ active' \subseteq Tasks /\ active \subseteq active'
        /\ ActiveLimit' /\ activeCount' \in Nat
        /\ \A u : Queued(u) <=> u \in active' \ active \/ Queued(u)'
        /\ \A u : Queued(u)' => u \notin active'
        /\ activeCount' < MaxActive => \A u : ~Queued(u)'
        /\ phase' = [u \in Tasks |-> IF u \in active' \ active THEN "admitted"
                                    ELSE IF u = t THEN "done" ELSE phase[u]]
    <2> DEFINE ph == [phase EXCEPT ![t] = "done"]
    <2>1. ph \in [Tasks -> Phases]  BY DEF TypeOK, Phases
    <2>2. Drain(waiters, active, activeCount, ph)  BY DEF CancelWrite
    <2>3. \A u \in Tasks : ph[u] = IF u = t THEN "done" ELSE phase[u]  BY DEF TypeOK
    <2> HIDE DEF ph
    <2> QED BY SMTT(20), <1>b, <2>1, <2>2, <2>3, DrainFacts DEF Queued, QueuesDistinct, ActiveLimit, TypeOK
  <1>s. \A u \in Tasks : Counts(u)' = Counts(u)
    BY <1>u, <1>o, <1>a, <1>b, <1>c, <1>d
    DEF Counts, ChildrenFit, ChildFits, OpsFit, LockFits, Begun, Enqueuing, TypeOK
  <1>1. TypeOK'
    <2>1. phase' \in [Tasks -> Phases]  BY <1>d DEF TypeOK, Phases
    <2> QED BY <2>1, <1>u, <1>c, <1>d DEF TypeOK
  <1>2. OpsFit'
    BY <1>u, <1>o, <1>a, <1>b, <1>c, <1>d
    DEF OpsFit, OpsFit, LockFits, WaitersFit, ActiveFit, Begun, Enqueuing, Leased, TypeOK
  <1>3. QueuesDistinct'
    BY <1>u, <1>o, <1>a, <1>b, <1>c, <1>d DEF QueuesDistinct
  <1>4. LockFits'
    BY <1>u, <1>o, <1>a, <1>b, <1>c, <1>d, TasksAssumption
    DEF LockFits, OpsFit, Begun, Enqueuing, Steps, TypeOK
  <1>5. WaitersFit'
    BY <1>u, <1>o, <1>a, <1>b, <1>c, <1>d
    DEF WaitersFit, OpsFit, LockFits, WaitersFit, ActiveFit, Begun, Enqueuing, Leased, TypeOK
  <1>6. ActiveFit'
    BY <1>u, <1>o, <1>a, <1>b, <1>c, <1>d
    DEF ActiveFit, LockFits, OpsFit, Leased, Enqueuing, TypeOK
  <1>7. ActiveLimit'
    BY <1>u, <1>o, <1>a, <1>b, <1>c, <1>d DEF ActiveLimit
  <1>8. ChildrenFit'
    BY <1>u, <1>o, <1>a, <1>b, <1>c, <1>d
    DEF ChildrenFit, ChildFits, OpsFit, LockFits, WaitersFit, ActiveFit, Begun, Enqueuing,
        Leased, TypeOK
  <1>9. OwnersFit'
    BY <1>u, <1>o, <1>a, <1>b, <1>c, <1>d
    DEF OwnersFit, OpsFit, LockFits, WaitersFit, ActiveFit, Begun, Enqueuing, Leased, TypeOK
  <1>10. DecisionHolds' /\ ChildLimit'
    BY <1>u, <1>o, <1>a, <1>b, <1>c, <1>d, <1>s, AcceptedSame DEF DecisionHolds
  <1>11. CancellationChained'
    BY <1>u, <1>o, <1>a, <1>b, <1>c, <1>d
    DEF CancellationChained, OpsFit, LockFits, WaitersFit, ActiveFit, Begun, Enqueuing, Leased,
        TypeOK
  <1>12. SlotsFit'
    BY <1>u, <1>o, <1>a, <1>b, <1>c, <1>d
    DEF SlotsFit, OpsFit, LockFits, WaitersFit, ActiveFit, Begun, Enqueuing, Leased, TypeOK
  <1>13. OwnersDisjoint'
    BY <1>u, <1>o DEF OwnersDisjoint
  <1> QED BY <1>1, <1>2, <1>3, <1>4, <1>5, <1>6, <1>7, <1>8, <1>9, <1>10, <1>11, <1>12, <1>13

\* markStarted begins.
LEMMA StartBeginKeeps ==
  ASSUME IInv, NEW t \in Tasks, StartBegin(t)
  PROVE  IInv'
  <1> USE DEF IInv
  <1>u. UNCHANGED <<disk, waiters, active, activeCount, pendingRoots, owned, claim, reason,
      expired, phase, outcome, result, mode, stale, faults, crashes>>
    BY DEF StartBegin, Free, queueVars, clientVars, systemVars
  <1>w. \A u : Queued(u)' <=> Queued(u)
    BY <1>u DEF Queued
  <1>a. /\ ops' \in Seq(OpType) /\ Distinct(ops')
        /\ Chained("start", t)
        /\ \A l, u : Chained(l, u)' <=> Chained(l, u) /\ ~(l = "start" /\ u = t)
    BY OpsTail, "start" \in OpKinds
    DEF StartBegin, Free, queueVars, clientVars, systemVars, OpKinds, OpType, QueuesDistinct, TypeOK
  <1>b. /\ lock.step = "idle" /\ lock' \in [step : Steps, task : Tasks \cup {NoTask}]
        /\ lock'.step = "startWrite" /\ lock'.task = t
    BY DEF StartBegin, Free, queueVars, clientVars, systemVars, Steps
  <1>s. \A u \in Tasks : Counts(u)' = Counts(u)
    BY <1>u, <1>w, <1>a, <1>b
    DEF Counts, ChildrenFit, ChildFits, OpsFit, LockFits, Begun, Enqueuing, TypeOK
  <1>1. TypeOK'
    BY <1>u, <1>w, <1>a, <1>b
    DEF TypeOK, OpType, Claims, Phases, Record, Reasons, Terminal, Nonterminal
  <1>2. OpsFit'
    BY <1>u, <1>w, <1>a, <1>b
    DEF OpsFit, OpsFit, LockFits, WaitersFit, ActiveFit, Begun, Enqueuing, Leased, TypeOK
  <1>3. QueuesDistinct'
    BY <1>u, <1>w, <1>a, <1>b DEF QueuesDistinct
  <1>4. LockFits'
    BY <1>u, <1>w, <1>a, <1>b, TasksAssumption
    DEF LockFits, OpsFit, Begun, Enqueuing, Steps, TypeOK
  <1>5. ChildrenFit'
    BY <1>u, <1>w, <1>a, <1>b
    DEF ChildrenFit, ChildFits, OpsFit, LockFits, WaitersFit, ActiveFit, Begun, Enqueuing,
        Leased, TypeOK
  <1>6. OwnersFit'
    BY <1>u, <1>w, <1>a, <1>b
    DEF OwnersFit, OpsFit, LockFits, WaitersFit, ActiveFit, Begun, Enqueuing, Leased, TypeOK
  <1>7. DecisionHolds' /\ ChildLimit'
    BY <1>u, <1>w, <1>a, <1>b, <1>s, AcceptedSame DEF DecisionHolds
  <1>8. CancellationChained'
    BY <1>u, <1>w, <1>a, <1>b
    DEF CancellationChained, OpsFit, LockFits, WaitersFit, ActiveFit, Begun, Enqueuing, Leased,
        TypeOK
  <1>9. WaitersFit' /\ ActiveFit' /\ ActiveLimit' /\ OwnersDisjoint' /\ SlotsFit'
    BY <1>u, <1>w DEF WaitersFit, ActiveFit, ActiveLimit, OwnersDisjoint, SlotsFit
  <1> QED BY <1>1, <1>2, <1>3, <1>4, <1>5, <1>6, <1>7, <1>8, <1>9

\* The running record is written: the task has started, or is concluded as failed.
LEMMA StartWriteKeeps ==
  ASSUME IInv, NEW t \in Tasks, StartWrite(t)
  PROVE  IInv'
  <1> USE DEF IInv
  <1>u. UNCHANGED <<waiters, active, activeCount, owned, ops, claim, expired, result, mode, stale,
      crashes>>
    BY DEF StartWrite, Free, Fails, Succeeds, queueVars, clientVars, systemVars
  <1>o. \A k, u : Chained(k, u)' <=> Chained(k, u)
    BY <1>u DEF Chained
  <1>w. \A u : Queued(u)' <=> Queued(u)
    BY <1>u DEF Queued
  <1>a. lock.step = "startWrite" /\ lock.task = t
    BY DEF StartWrite, Free, Fails, Succeeds, queueVars, clientVars, systemVars, Holds
  <1>b. /\ lock' \in [step : Steps, task : Tasks \cup {NoTask}] /\ lock'.step = "idle" /\ lock'.task = NoTask /\ faults' \in Nat
        /\ \/ /\ disk' = [disk EXCEPT ![t] = [status |-> "running", started |-> TRUE]]
              /\ pendingRoots' = pendingRoots \ {t} /\ phase' = [phase EXCEPT ![t] = "started"]
              /\ reason' = reason /\ outcome' = outcome
           \/ /\ disk' = disk /\ pendingRoots' = pendingRoots /\ phase' = [phase EXCEPT ![t] = "finalizing"]
              /\ outcome' = [outcome EXCEPT ![t] = [status |-> "failed", started |-> FALSE]]
              /\ \/ reason' = reason
                 \/ reason' = [reason EXCEPT ![t] = "failed"]
    <2>1. [reason EXCEPT ![t] = reason[t]] = reason  BY DEF TypeOK
    <2>2. CASE reason[t] = "none"  BY <2>1, <2>2 DEF StartWrite, Free, Fails, Succeeds, Steps, TypeOK
    <2>3. CASE reason[t] # "none"  BY <2>1, <2>3 DEF StartWrite, Free, Fails, Succeeds, Steps, TypeOK
    <2> QED BY <2>2, <2>3
  <1>c. phase[t] = "starting" /\ ~disk[t].started /\ t \in pendingRoots
    BY <1>a DEF LockFits, ChildrenFit, ChildFits, TypeOK
  <1>s. \A u \in Tasks : Counts(u)' = Counts(u)
    BY <1>u, <1>o, <1>w, <1>a, <1>b, <1>c
    DEF Counts, ChildrenFit, ChildFits, OpsFit, LockFits, Begun, Enqueuing, TypeOK
  <1>1. TypeOK'
    <2>1. disk' \in [Tasks -> Record] /\ outcome' \in [Tasks -> Record]
      <3>1. "running" \in Nonterminal /\ "failed" \in Terminal  BY DEF Nonterminal, Terminal
      <3> DEFINE run == [status |-> "running", started |-> TRUE]
                 fail == [status |-> "failed", started |-> FALSE]
      <3>2. run \in Record /\ fail \in Record  BY <3>1, RecordFacts
      <3>3. disk' = [disk EXCEPT ![t] = run] \/ disk' = disk  BY <1>b
      <3>4. outcome' = [outcome EXCEPT ![t] = fail] \/ outcome' = outcome  BY <1>b
      <3> HIDE DEF run, fail
      <3> QED BY SMTT(20), <3>2, <3>3, <3>4 DEF TypeOK
    <2>2. phase' \in [Tasks -> Phases] /\ reason' \in [Tasks -> Reasons]  BY <1>b DEF TypeOK, Phases, Reasons
    <2> QED BY <2>1, <2>2, <1>u, <1>b DEF TypeOK
  <1>2. OpsFit'
    BY <1>u, <1>o, <1>w, <1>a, <1>b, <1>c
    DEF OpsFit, OpsFit, LockFits, WaitersFit, ActiveFit, Begun, Enqueuing, Leased, TypeOK
  <1>3. LockFits'
    BY <1>u, <1>o, <1>w, <1>a, <1>b, <1>c, TasksAssumption
    DEF LockFits, OpsFit, Begun, Enqueuing, Steps, TypeOK
  <1>4. WaitersFit'
    BY <1>u, <1>o, <1>w, <1>a, <1>b, <1>c
    DEF WaitersFit, OpsFit, LockFits, WaitersFit, ActiveFit, Begun, Enqueuing, Leased, TypeOK
  <1>5. ActiveFit'
    BY <1>u, <1>o, <1>w, <1>a, <1>b, <1>c
    DEF ActiveFit, LockFits, OpsFit, Leased, Enqueuing, TypeOK
  <1>6. ChildrenFit'
    <2>1. \A u \in Tasks : ~Begun("persist", u)'  BY <1>b DEF Begun
    <2>2. ASSUME NEW u \in Tasks, u # t
          PROVE  /\ phase'[u] = phase[u] /\ disk'[u] = disk[u] /\ outcome'[u] = outcome[u]
                 /\ u \in pendingRoots' <=> u \in pendingRoots
                 /\ ~Begun("persist", u)
      BY <2>2, <1>a, <1>b DEF TypeOK, Begun
    <2>3. CASE phase' = [phase EXCEPT ![t] = "started"]
      <3>1. disk'[t].started /\ t \notin pendingRoots' /\ phase'[t] = "started"  BY <2>3, <1>b DEF TypeOK
      <3> QED BY <2>1, <2>2, <3>1 DEF ChildrenFit, ChildFits
    <2>4. CASE phase' = [phase EXCEPT ![t] = "finalizing"]
      <3>1. /\ disk'[t] = disk[t] /\ pendingRoots' = pendingRoots /\ phase'[t] = "finalizing"
            /\ outcome'[t].status = "failed" /\ outcome'[t].started = FALSE
        BY <2>4, <1>b DEF TypeOK
      <3>2. disk[t].started = FALSE /\ "failed" \in Terminal  BY <1>c, RecordFacts DEF Terminal, TypeOK
      <3> QED BY <2>1, <2>2, <3>1, <3>2, <1>c DEF ChildrenFit, ChildFits
    <2> QED BY <2>3, <2>4, <1>b
  <1>7. OwnersFit'
    BY <1>u, <1>o, <1>w, <1>a, <1>b, <1>c
    DEF OwnersFit, OpsFit, LockFits, WaitersFit, ActiveFit, Begun, Enqueuing, Leased, TypeOK
  <1>8. DecisionHolds' /\ ChildLimit'
    BY <1>u, <1>o, <1>w, <1>a, <1>b, <1>c, <1>s, AcceptedSame DEF DecisionHolds
  <1>9. CancellationChained'
    BY <1>u, <1>o, <1>w, <1>a, <1>b, <1>c
    DEF CancellationChained, OpsFit, LockFits, WaitersFit, ActiveFit, Begun, Enqueuing, Leased,
        TypeOK
  <1>10. QueuesDistinct' /\ ActiveLimit' /\ OwnersDisjoint' /\ SlotsFit'
    BY <1>u, <1>o, <1>w DEF QueuesDistinct, ActiveLimit, OwnersDisjoint, SlotsFit
  <1> QED BY <1>1, <1>2, <1>3, <1>4, <1>5, <1>6, <1>7, <1>8, <1>9, <1>10

\* release gives the slot and the paths back and admits the next waiters.
LEMMA ReleaseKeeps ==
  ASSUME IInv, NEW t \in Tasks, Release(t)
  PROVE  IInv'
  <1> USE DEF IInv
  <1>u. UNCHANGED <<disk, lock, claim, reason, expired, outcome, result, mode, stale, faults,
      crashes>>
    BY DEF Release, Free, queueVars, clientVars, systemVars
  <1>a. /\ ops' \in Seq(OpType) /\ Distinct(ops')
        /\ Chained("release", t)
        /\ \A l, u : Chained(l, u)' <=> Chained(l, u) /\ ~(l = "release" /\ u = t)
    BY OpsTail, "release" \in OpKinds
    DEF Release, Free, queueVars, clientVars, systemVars, OpKinds, OpType, QueuesDistinct, TypeOK
  <1>b. /\ lock.step = "idle" /\ lock.task = NoTask /\ t \in active /\ phase[t] = "releasing" /\ ~Queued(t)
        /\ owned' = owned \ {t} /\ pendingRoots' \subseteq pendingRoots /\ t \notin pendingRoots'
        /\ \A u \in Tasks : u # t /\ u \in pendingRoots => u \in pendingRoots'
        /\ \A u \in active : ~Queued(u)
    BY <1>a
    DEF Release, Free, queueVars, clientVars, systemVars, OpsFit, WaitersFit, ActiveFit,
        ChildrenFit, ChildFits, Leased, TypeOK
  <1>c. /\ waiters' \in Seq(Tasks) /\ Distinct(waiters')
        /\ active' \subseteq Tasks /\ active \ {t} \subseteq active' /\ t \notin active'
        /\ ActiveLimit' /\ activeCount' \in Nat
        /\ \A u : Queued(u) <=> u \in active' \ active \/ Queued(u)'
        /\ \A u : Queued(u)' => u \notin active'
        /\ activeCount' < MaxActive => \A u : ~Queued(u)'
        /\ phase' = [u \in Tasks |-> IF u \in active' \ active THEN "admitted"
                                    ELSE IF u = t THEN "done" ELSE phase[u]]
    <2> DEFINE ph == [phase EXCEPT ![t] = "done"]
               rest == active \ {t}
    <2>1. ph \in [Tasks -> Phases]  BY DEF TypeOK, Phases
    <2>2. Drain(waiters, rest, activeCount - 1, ph)  BY DEF Release
    <2>3. \A u \in Tasks : ph[u] = IF u = t THEN "done" ELSE phase[u]  BY DEF TypeOK
    <2>4. IsFiniteSet(active)  BY FS_Subset, TasksAssumption DEF TypeOK
    <2>5. Cardinality(rest) = activeCount - 1 /\ Cardinality(rest) \in Nat
      BY <1>b, <2>4, FS_RemoveElement, FS_CardinalityType DEF ActiveLimit
    <2>6. activeCount - 1 \in Nat /\ activeCount - 1 <= MaxActive
      BY <2>5, LimitsAssumption DEF ActiveLimit, TypeOK
    <2>7. rest \subseteq Tasks /\ \A u \in rest : ~InSeq(waiters, u)  BY <1>b DEF Queued, TypeOK
    <2>8. t \notin rest /\ \A u : u \in rest <=> u \in active /\ u # t  OBVIOUS
    <2> HIDE DEF ph, rest
    <2>9. /\ waiters' \in Seq(Tasks) /\ Distinct(waiters')
          /\ active' \subseteq Tasks /\ rest \subseteq active'
          /\ ActiveLimit' /\ activeCount' \in Nat
          /\ \A u : Queued(u) <=> u \in active' \ rest \/ Queued(u)'
          /\ \A u : Queued(u)' => u \notin active'
          /\ activeCount' < MaxActive => \A u : ~Queued(u)'
          /\ phase' = [u \in Tasks |-> IF u \in active' \ rest THEN "admitted" ELSE ph[u]]
      BY <2>1, <2>2, <2>5, <2>6, <2>7, DrainFacts DEF Queued, QueuesDistinct, TypeOK
    <2> QED BY <1>b, <2>3, <2>8, <2>9
  <1>1. TypeOK'
    <2>1. phase' \in [Tasks -> Phases]  BY <1>c DEF TypeOK, Phases
    <2>2. pendingRoots' \subseteq Tasks /\ owned' \subseteq Tasks  BY <1>b DEF TypeOK
    <2> QED BY <2>1, <2>2, <1>u, <1>a, <1>c DEF TypeOK, OpType
  <1>2. OpsFit'
    BY <1>u, <1>a, <1>b, <1>c
    DEF OpsFit, OpsFit, LockFits, WaitersFit, ActiveFit, Begun, Enqueuing, Leased, TypeOK
  <1>3. QueuesDistinct'
    BY <1>u, <1>a, <1>b, <1>c DEF QueuesDistinct
  <1>4. LockFits'
    BY <1>u, <1>a, <1>b, <1>c, TasksAssumption
    DEF LockFits, OpsFit, Begun, Enqueuing, Steps, TypeOK
  <1>5. WaitersFit'
    BY <1>u, <1>a, <1>b, <1>c
    DEF WaitersFit, OpsFit, LockFits, WaitersFit, ActiveFit, Begun, Enqueuing, Leased, TypeOK
  <1>6. ActiveFit'
    BY <1>u, <1>a, <1>b, <1>c DEF ActiveFit, LockFits, OpsFit, Leased, Enqueuing, TypeOK
  <1>7. ActiveLimit'
    BY <1>u, <1>a, <1>b, <1>c DEF ActiveLimit
  <1>8. ChildrenFit'
    BY <1>u, <1>a, <1>b, <1>c
    DEF ChildrenFit, ChildFits, OpsFit, LockFits, WaitersFit, ActiveFit, Begun, Enqueuing,
        Leased, TypeOK
  <1>9. OwnersFit'
    BY <1>u, <1>a, <1>b, <1>c
    DEF OwnersFit, OpsFit, LockFits, WaitersFit, ActiveFit, Begun, Enqueuing, Leased, TypeOK
  <1>10. OwnersDisjoint'
    BY <1>u, <1>a, <1>b, <1>c DEF OwnersDisjoint
  <1>11. DecisionHolds'
    BY <1>u, <1>b DEF DecisionHolds
  <1>12. ChildLimit'
    <2>1. \A u \in Tasks : Counts(u)' => Counts(u)  BY <1>u, <1>b DEF Counts
    <2> QED BY <2>1, AcceptedShrinks
  <1>13. CancellationChained'
    BY <1>u, <1>a, <1>b, <1>c
    DEF CancellationChained, OpsFit, LockFits, WaitersFit, ActiveFit, Begun, Enqueuing, Leased,
        TypeOK
  <1>14. SlotsFit'
    BY <1>u, <1>a, <1>b, <1>c
    DEF SlotsFit, OpsFit, LockFits, WaitersFit, ActiveFit, Begun, Enqueuing, Leased, TypeOK
  <1> QED BY <1>1, <1>2, <1>3, <1>4, <1>5, <1>6, <1>7, <1>8, <1>9, <1>10, <1>11, <1>12, <1>13, <1>14

\* Steps that only touch deadlines, controllers, results or the recovery.
LEMMA FrameKeeps ==
  ASSUME IInv, TypeOK',
         UNCHANGED <<waiters, active, activeCount, pendingRoots, owned, ops, lock, claim, phase, outcome>>,
         \A u \in Tasks : disk'[u].started = disk[u].started
  PROVE  IInv'
  <1> USE DEF IInv
  <1>1. /\ \A k, t : Chained(k, t)' <=> Chained(k, t)
        /\ \A t : Queued(t)' <=> Queued(t)
        /\ \A k, t : Begun(k, t)' <=> Begun(k, t)
    BY DEF Chained, Queued, Begun
  <1>2. \A u \in Tasks : Counts(u)' = Counts(u)  BY DEF Counts
  <1>3. QueuesDistinct' /\ LockFits' /\ ActiveFit' /\ ActiveLimit' /\ OwnersDisjoint'
    BY DEF QueuesDistinct, LockFits, ActiveFit, ActiveLimit, OwnersDisjoint
  <1>4. OpsFit' /\ WaitersFit' /\ CancellationChained' /\ SlotsFit'
    BY <1>1 DEF OpsFit, WaitersFit, CancellationChained, SlotsFit
  <1>5. ChildrenFit' /\ OwnersFit'
    BY <1>1 DEF ChildrenFit, ChildFits, OwnersFit
  <1>6. DecisionHolds' /\ ChildLimit'
    BY <1>2, AcceptedSame DEF DecisionHolds
  <1> QED BY <1>3, <1>4, <1>5, <1>6

\* A claim is made once; a waiter's chains the cancellation.
LEMMA ClaimFacts ==
  ASSUME IInv, NEW t \in Tasks, NEW cause \in Claims \ {"none"}, ClaimAttempt(t, cause)
  PROVE  /\ ops' \in Seq(OpType) /\ Distinct(ops') /\ claim' \in [Tasks -> Claims]
         /\ \A u \in Tasks : u # t \/ claim[u] # "none" => claim'[u] = claim[u]
         /\ \/ claim' = claim /\ \A l, u : Chained(l, u)' <=> Chained(l, u)
            \/ /\ claim[t] = "none" /\ claim'[t] # "none" /\ phase[t] = "waiting"
               /\ \A l, u : Chained(l, u)' <=> Chained(l, u) \/ (l = "cancel" /\ u = t)
            \/ /\ claim[t] = "none" /\ claim'[t] # "none" /\ phase[t] = "registering"
               /\ \A l, u : Chained(l, u)' <=> Chained(l, u)
  <1> USE DEF IInv
  <1>1. ops \in Seq(OpType) /\ Distinct(ops) /\ claim \in [Tasks -> Claims]
    BY DEF TypeOK, OpType, QueuesDistinct, Claims
  <1>2. CASE phase[t] = "waiting" /\ claim[t] = "none"
    <2>1. claim' = [claim EXCEPT ![t] = cause] /\ ops' = Append(ops, Op("cancel", t))
      BY <1>2 DEF ClaimAttempt
    <2>2. ~Chained("cancel", t)  BY <1>2 DEF OpsFit
    <2>3. /\ ops' \in Seq(OpType) /\ Distinct(ops')
          /\ \A l, u : Chained(l, u)' <=> Chained(l, u) \/ (l = "cancel" /\ u = t)
      BY <1>1, <2>1, <2>2, OpsAppend, "cancel" \in OpKinds DEF OpKinds
    <2> QED BY <1>1, <1>2, <2>1, <2>3
  <1>3. CASE phase[t] = "registering" /\ claim[t] = "none"
    <2>1. claim' = [claim EXCEPT ![t] = cause] /\ ops' = ops  BY <1>3 DEF ClaimAttempt
    <2>2. \A l, u : Chained(l, u)' <=> Chained(l, u)  BY <2>1 DEF Chained
    <2> QED BY <1>1, <1>3, <2>1, <2>2
  <1>4. CASE ~(phase[t] \in {"registering", "waiting"} /\ claim[t] = "none")
    <2>1. claim' = claim /\ ops' = ops  BY <1>4 DEF ClaimAttempt
    <2>2. \A l, u : Chained(l, u)' <=> Chained(l, u)  BY <2>1 DEF Chained
    <2> QED BY <1>1, <2>1, <2>2
  <1> QED BY <1>2, <1>3, <1>4

\* The caller's signal aborts the controller and claims the attempt.
LEMMA AbortKeeps ==
  ASSUME IInv, NEW t \in Tasks, Abort(t)
  PROVE  IInv'
  <1> USE DEF IInv
  <1>u. UNCHANGED <<disk, waiters, active, activeCount, pendingRoots, owned, lock, expired, phase,
      outcome, result, mode, stale, faults, crashes>>
    BY DEF Abort, queueVars, clientVars, systemVars
  <1>w. \A u : Queued(u)' <=> Queued(u)
    BY <1>u DEF Queued
  <1>a. /\ ops' \in Seq(OpType) /\ Distinct(ops') /\ claim' \in [Tasks -> Claims]
        /\ \A u \in Tasks : u # t \/ claim[u] # "none" => claim'[u] = claim[u]
        /\ \/ claim' = claim /\ \A l, u : Chained(l, u)' <=> Chained(l, u)
           \/ /\ claim[t] = "none" /\ claim'[t] # "none" /\ phase[t] = "waiting"
              /\ \A l, u : Chained(l, u)' <=> Chained(l, u) \/ (l = "cancel" /\ u = t)
           \/ /\ claim[t] = "none" /\ claim'[t] # "none" /\ phase[t] = "registering"
              /\ \A l, u : Chained(l, u)' <=> Chained(l, u)
    <2>1. ClaimAttempt(t, "cancelled")  BY DEF Abort, queueVars, clientVars, systemVars
    <2> QED BY <2>1, ClaimFacts, "cancelled" \in Claims \ {"none"} DEF Claims
  <1>b. reason' \in [Tasks -> Reasons]
    BY DEF Abort, queueVars, clientVars, systemVars, Reasons, TypeOK
  <1>s. \A u \in Tasks : Counts(u)' = Counts(u)
    BY <1>u, <1>w, <1>a, <1>b
    DEF Counts, ChildrenFit, ChildFits, OpsFit, LockFits, Begun, Enqueuing, TypeOK
  <1>1. TypeOK'
    BY <1>u, <1>w, <1>a, <1>b DEF TypeOK, OpType, Claims
  <1>2. OpsFit'
    BY <1>u, <1>w, <1>a, <1>b
    DEF OpsFit, OpsFit, LockFits, WaitersFit, ActiveFit, Begun, Enqueuing, Leased, TypeOK
  <1>3. QueuesDistinct'
    BY <1>u, <1>w, <1>a, <1>b DEF QueuesDistinct
  <1>4. LockFits'
    BY <1>u, <1>w, <1>a, <1>b, TasksAssumption
    DEF LockFits, OpsFit, Begun, Enqueuing, Steps, TypeOK
  <1>5. DecisionHolds' /\ ChildLimit'
    BY <1>u, <1>w, <1>a, <1>b, <1>s, AcceptedSame DEF DecisionHolds
  <1>6. CancellationChained'
    BY <1>u, <1>w, <1>a, <1>b
    DEF CancellationChained, OpsFit, LockFits, WaitersFit, ActiveFit, Begun, Enqueuing, Leased,
        TypeOK
  <1>7. SlotsFit'
    BY <1>u, <1>w, <1>a, <1>b
    DEF SlotsFit, OpsFit, LockFits, WaitersFit, ActiveFit, Begun, Enqueuing, Leased, TypeOK
  <1>8. WaitersFit' /\ ActiveFit' /\ ActiveLimit' /\ ChildrenFit' /\ OwnersFit' /\ OwnersDisjoint'
    BY <1>u, <1>w
    DEF WaitersFit, ActiveFit, ActiveLimit, ChildrenFit, ChildFits, OwnersFit, OwnersDisjoint,
        Begun, ChildFits
  <1> QED BY <1>1, <1>2, <1>3, <1>4, <1>5, <1>6, <1>7, <1>8

\* The deadline timer of an attempt claims it.
LEMMA AttemptTimerKeeps ==
  ASSUME IInv, NEW t \in Tasks, AttemptTimer(t)
  PROVE  IInv'
  <1> USE DEF IInv
  <1>u. UNCHANGED <<disk, waiters, active, activeCount, pendingRoots, owned, lock, reason, expired,
      phase, outcome, result, mode, stale, faults, crashes>>
    BY DEF AttemptTimer, queueVars, clientVars, systemVars
  <1>w. \A u : Queued(u)' <=> Queued(u)
    BY <1>u DEF Queued
  <1>a. /\ ops' \in Seq(OpType) /\ Distinct(ops') /\ claim' \in [Tasks -> Claims]
        /\ \A u \in Tasks : u # t \/ claim[u] # "none" => claim'[u] = claim[u]
        /\ \/ claim' = claim /\ \A l, u : Chained(l, u)' <=> Chained(l, u)
           \/ /\ claim[t] = "none" /\ claim'[t] # "none" /\ phase[t] = "waiting"
              /\ \A l, u : Chained(l, u)' <=> Chained(l, u) \/ (l = "cancel" /\ u = t)
           \/ /\ claim[t] = "none" /\ claim'[t] # "none" /\ phase[t] = "registering"
              /\ \A l, u : Chained(l, u)' <=> Chained(l, u)
    <2>1. ClaimAttempt(t, "timed_out")  BY DEF AttemptTimer, queueVars, clientVars, systemVars
    <2> QED BY <2>1, ClaimFacts, "timed_out" \in Claims \ {"none"} DEF Claims
  <1>s. \A u \in Tasks : Counts(u)' = Counts(u)
    BY <1>u, <1>w, <1>a
    DEF Counts, ChildrenFit, ChildFits, OpsFit, LockFits, Begun, Enqueuing, TypeOK
  <1>1. TypeOK'
    BY <1>u, <1>w, <1>a DEF TypeOK, OpType, Claims
  <1>2. OpsFit'
    BY <1>u, <1>w, <1>a
    DEF OpsFit, OpsFit, LockFits, WaitersFit, ActiveFit, Begun, Enqueuing, Leased, TypeOK
  <1>3. QueuesDistinct'
    BY <1>u, <1>w, <1>a DEF QueuesDistinct
  <1>4. LockFits'
    BY <1>u, <1>w, <1>a, TasksAssumption DEF LockFits, OpsFit, Begun, Enqueuing, Steps, TypeOK
  <1>5. DecisionHolds' /\ ChildLimit'
    BY <1>u, <1>w, <1>a, <1>s, AcceptedSame DEF DecisionHolds
  <1>6. CancellationChained'
    BY <1>u, <1>w, <1>a
    DEF CancellationChained, OpsFit, LockFits, WaitersFit, ActiveFit, Begun, Enqueuing, Leased,
        TypeOK
  <1>7. SlotsFit'
    BY <1>u, <1>w, <1>a
    DEF SlotsFit, OpsFit, LockFits, WaitersFit, ActiveFit, Begun, Enqueuing, Leased, TypeOK
  <1>8. WaitersFit' /\ ActiveFit' /\ ActiveLimit' /\ ChildrenFit' /\ OwnersFit' /\ OwnersDisjoint'
    BY <1>u, <1>w
    DEF WaitersFit, ActiveFit, ActiveLimit, ChildrenFit, ChildFits, OwnersFit, OwnersDisjoint,
        Begun, ChildFits
  <1> QED BY <1>1, <1>2, <1>3, <1>4, <1>5, <1>6, <1>7, <1>8

\* A deadline passes.
LEMMA ExpireKeeps ==
  ASSUME IInv, NEW t \in Tasks, Expire(t)
  PROVE  IInv'
  <1> USE DEF IInv
  <1>u. UNCHANGED <<disk, waiters, active, activeCount, pendingRoots, owned, ops, lock, claim,
      reason, phase, outcome, result, mode, stale, faults, crashes>>
    BY DEF Expire, queueVars, clientVars, systemVars
  <1>a. expired' \subseteq Tasks
    BY DEF Expire, queueVars, clientVars, systemVars, TypeOK
  <1>1. TypeOK'
    BY <1>u, <1>a DEF TypeOK
  <1> QED BY <1>1, <1>u, <1>a, FrameKeeps

\* The deadline timer of an execution aborts its controller.
LEMMA ExecutionTimerKeeps ==
  ASSUME IInv, NEW t \in Tasks, ExecutionTimer(t)
  PROVE  IInv'
  <1> USE DEF IInv
  <1>u. UNCHANGED <<disk, waiters, active, activeCount, pendingRoots, owned, ops, lock, claim,
      expired, phase, outcome, result, mode, stale, faults, crashes>>
    BY DEF ExecutionTimer, queueVars, clientVars, systemVars
  <1>a. reason' \in [Tasks -> Reasons]
    BY DEF ExecutionTimer, queueVars, clientVars, systemVars, Reasons, TypeOK
  <1>1. TypeOK'
    BY <1>u, <1>a DEF TypeOK
  <1> QED BY <1>1, <1>u, <1>a, FrameKeeps

\* Concluding a task prepares a terminal record for it.
LEMMA ConcludeFacts ==
  ASSUME TypeOK, NEW t \in Tasks, NEW s \in Terminal, NEW b \in BOOLEAN, Conclude(t, s, b)
  PROVE  /\ phase' = [phase EXCEPT ![t] = "finalizing"] /\ outcome' \in [Tasks -> Record]
         /\ \A u \in Tasks : u # t => outcome'[u] = outcome[u]
         /\ outcome'[t].status \in Terminal /\ outcome'[t].started = b
  <1> DEFINE r == [status |-> s, started |-> b]
  <1>1. r \in Record /\ r.status = s /\ r.started = b  BY RecordFacts
  <1>2. phase' = [phase EXCEPT ![t] = "finalizing"] /\ outcome' = [outcome EXCEPT ![t] = r]
    BY DEF Conclude
  <1> HIDE DEF r
  <1> QED BY <1>1, <1>2 DEF TypeOK

\* execute chains markStarted, or concludes the task without a run.
LEMMA ExecuteKeeps ==
  ASSUME IInv, NEW t \in Tasks, Execute(t)
  PROVE  IInv'
  <1> USE DEF IInv
  <1>u. UNCHANGED <<disk, waiters, active, activeCount, pendingRoots, owned, lock, claim, expired,
      result, mode, stale, crashes>>
    BY DEF Execute, Fails, Succeeds, queueVars, clientVars, systemVars
  <1>w. \A u : Queued(u)' <=> Queued(u)
    BY <1>u DEF Queued
  <1>a. phase[t] = "admitted" /\ disk[t].started = FALSE /\ reason' \in [Tasks -> Reasons] /\ faults' \in Nat
    <2>1. phase[t] = "admitted"  BY DEF Execute
    <2>2. disk[t].started = FALSE  BY <2>1, RecordFacts DEF ChildrenFit, ChildFits, TypeOK
    <2>3. \/ reason' = reason
          \/ \E why \in Reasons : reason' = [reason EXCEPT ![t] = why]
      BY DEF Execute, Reasons, TypeOK
    <2>4. faults' = faults \/ faults' = faults + 1  BY DEF Execute, Fails, Succeeds
    <2> QED BY <2>1, <2>2, <2>3, <2>4 DEF TypeOK
  <1>b. /\ ops' \in Seq(OpType) /\ Distinct(ops')
        /\ \/ /\ \A l, u : Chained(l, u)' <=> Chained(l, u)
              /\ phase' = [phase EXCEPT ![t] = "finalizing"] /\ outcome' \in [Tasks -> Record]
              /\ \A u \in Tasks : u # t => outcome'[u] = outcome[u]
              /\ outcome'[t].status \in Terminal /\ outcome'[t].started = FALSE
           \/ /\ \A l, u : Chained(l, u)' <=> Chained(l, u) \/ (l = "start" /\ u = t)
              /\ phase' = [phase EXCEPT ![t] = "starting"] /\ outcome' = outcome
    <2>1. ops \in Seq(OpType) /\ Distinct(ops)  BY DEF TypeOK, OpType, QueuesDistinct
    <2>2. CASE \E s \in Terminal : Conclude(t, s, FALSE) /\ ops' = ops
      <3>1. \A l, u : Chained(l, u)' <=> Chained(l, u)  BY <2>2 DEF Chained
      <3> QED BY <2>1, <2>2, <3>1, ConcludeFacts
    <2>3. CASE /\ phase' = [phase EXCEPT ![t] = "starting"] /\ outcome' = outcome
               /\ ops' = Append(ops, Op("start", t))
      <3>1. ~Chained("start", t)  BY <1>a DEF OpsFit
      <3> QED BY <2>1, <2>3, <3>1, OpsAppend, "start" \in OpKinds DEF OpKinds
    <2>4. \A why : AbortStatus(why) \in Terminal  BY DEF AbortStatus, Terminal
    <2>5. "failed" \in Terminal  BY DEF Terminal
    <2> QED BY <2>2, <2>3, <2>4, <2>5 DEF Execute, Succeeds, Fails
  <1>s. \A u \in Tasks : Counts(u)' = Counts(u)
    BY <1>u, <1>w, <1>a, <1>b
    DEF Counts, ChildrenFit, ChildFits, OpsFit, LockFits, Begun, Enqueuing, TypeOK
  <1>1. TypeOK'
    <2>1. phase' \in [Tasks -> Phases]  BY <1>b DEF TypeOK, Phases
    <2> QED BY <2>1, <1>u, <1>a, <1>b DEF TypeOK, OpType
  <1>2. OpsFit'
    BY <1>u, <1>w, <1>a, <1>b
    DEF OpsFit, OpsFit, LockFits, WaitersFit, ActiveFit, Begun, Enqueuing, Leased, TypeOK
  <1>3. QueuesDistinct'
    BY <1>u, <1>w, <1>a, <1>b DEF QueuesDistinct
  <1>4. LockFits'
    BY <1>u, <1>w, <1>a, <1>b, TasksAssumption
    DEF LockFits, OpsFit, Begun, Enqueuing, Steps, TypeOK
  <1>5. WaitersFit'
    BY <1>u, <1>w, <1>a, <1>b
    DEF WaitersFit, OpsFit, LockFits, WaitersFit, ActiveFit, Begun, Enqueuing, Leased, TypeOK
  <1>6. ActiveFit'
    BY <1>u, <1>w, <1>a, <1>b DEF ActiveFit, LockFits, OpsFit, Leased, Enqueuing, TypeOK
  <1>7. ChildrenFit'
    <2>1. ASSUME NEW u \in Tasks, u # t  PROVE ChildFits(u)'
      <3>1. /\ phase'[u] = phase[u] /\ outcome'[u] = outcome[u] /\ disk'[u] = disk[u]
            /\ u \in pendingRoots' <=> u \in pendingRoots
            /\ Begun("persist", u)' <=> Begun("persist", u)
        BY <2>1, <1>u, <1>w, <1>a, <1>b DEF Begun, TypeOK
      <3> QED BY <3>1 DEF ChildrenFit, ChildFits
    <2>2. ChildFits(t)'
      <3>1. ~Begun("persist", t)'  BY <1>u, <1>a DEF LockFits, Begun, Enqueuing
      <3>2. \/ phase'[t] = "starting"
            \/ /\ phase'[t] = "finalizing" /\ outcome'[t].status \in Terminal
               /\ outcome'[t].started = FALSE
        BY <1>a, <1>b DEF TypeOK
      <3>3. disk'[t] = disk[t] /\ pendingRoots' = pendingRoots /\ ChildFits(t)  BY <1>u DEF ChildrenFit, ChildFits
      <3> QED BY <3>1, <3>2, <3>3, <1>a DEF ChildFits
    <2> QED BY <2>1, <2>2 DEF ChildrenFit, ChildFits
  <1>8. OwnersFit'
    BY <1>u, <1>w, <1>a, <1>b
    DEF OwnersFit, OpsFit, LockFits, WaitersFit, ActiveFit, Begun, Enqueuing, Leased, TypeOK
  <1>9. DecisionHolds' /\ ChildLimit'
    BY <1>u, <1>w, <1>a, <1>b, <1>s, AcceptedSame DEF DecisionHolds
  <1>10. CancellationChained'
    BY <1>u, <1>w, <1>a, <1>b
    DEF CancellationChained, OpsFit, LockFits, WaitersFit, ActiveFit, Begun, Enqueuing, Leased,
        TypeOK
  <1>11. ActiveLimit' /\ OwnersDisjoint' /\ SlotsFit'
    BY <1>u, <1>w DEF ActiveLimit, OwnersDisjoint, SlotsFit
  <1> QED BY <1>1, <1>2, <1>3, <1>4, <1>5, <1>6, <1>7, <1>8, <1>9, <1>10, <1>11

\* run enters the runner, or concludes a task aborted meanwhile.
LEMMA RunKeeps ==
  ASSUME IInv, NEW t \in Tasks, Run(t)
  PROVE  IInv'
  <1> USE DEF IInv
  <1>u. UNCHANGED <<disk, waiters, active, activeCount, pendingRoots, owned, ops, lock, claim,
      reason, expired, result, mode, stale, faults, crashes>>
    BY DEF Run, queueVars, clientVars, systemVars
  <1>o. \A k, u : Chained(k, u)' <=> Chained(k, u)
    BY <1>u DEF Chained
  <1>w. \A u : Queued(u)' <=> Queued(u)
    BY <1>u DEF Queued
  <1>a. phase[t] = "started" /\ disk[t].started = TRUE
    BY RecordFacts DEF Run, ChildrenFit, ChildFits, TypeOK
  <1>b. \/ phase' = [phase EXCEPT ![t] = "running"] /\ outcome' = outcome
        \/ /\ phase' = [phase EXCEPT ![t] = "finalizing"] /\ outcome' \in [Tasks -> Record]
           /\ \A u \in Tasks : u # t => outcome'[u] = outcome[u]
           /\ outcome'[t].status \in Terminal /\ outcome'[t].started = TRUE
    <2>1. AbortStatus(reason[t]) \in Terminal  BY DEF AbortStatus, Terminal
    <2> QED BY <2>1, ConcludeFacts DEF Run
  <1>s. \A u \in Tasks : Counts(u)' = Counts(u)
    BY <1>u, <1>o, <1>w, <1>a, <1>b
    DEF Counts, ChildrenFit, ChildFits, OpsFit, LockFits, Begun, Enqueuing, TypeOK
  <1>1. TypeOK'
    <2>1. phase' \in [Tasks -> Phases]  BY <1>b DEF TypeOK, Phases
    <2> QED BY <2>1, <1>u, <1>a, <1>b DEF TypeOK
  <1>2. OpsFit'
    BY <1>u, <1>o, <1>w, <1>a, <1>b
    DEF OpsFit, OpsFit, LockFits, WaitersFit, ActiveFit, Begun, Enqueuing, Leased, TypeOK
  <1>3. LockFits'
    BY <1>u, <1>o, <1>w, <1>a, <1>b, TasksAssumption
    DEF LockFits, OpsFit, Begun, Enqueuing, Steps, TypeOK
  <1>4. WaitersFit'
    BY <1>u, <1>o, <1>w, <1>a, <1>b
    DEF WaitersFit, OpsFit, LockFits, WaitersFit, ActiveFit, Begun, Enqueuing, Leased, TypeOK
  <1>5. ActiveFit'
    BY <1>u, <1>o, <1>w, <1>a, <1>b DEF ActiveFit, LockFits, OpsFit, Leased, Enqueuing, TypeOK
  <1>6. ChildrenFit'
    <2>1. ASSUME NEW u \in Tasks, u # t  PROVE ChildFits(u)'
      <3>1. /\ phase'[u] = phase[u] /\ outcome'[u] = outcome[u] /\ disk'[u] = disk[u]
            /\ u \in pendingRoots' <=> u \in pendingRoots
            /\ Begun("persist", u)' <=> Begun("persist", u)
        BY <2>1, <1>u, <1>o, <1>w, <1>a, <1>b DEF Begun, TypeOK
      <3> QED BY <3>1 DEF ChildrenFit, ChildFits
    <2>2. ChildFits(t)'
      <3>1. ~Begun("persist", t)'  BY <1>u, <1>a DEF LockFits, Begun, Enqueuing
      <3>2. \/ phase'[t] = "running"
            \/ /\ phase'[t] = "finalizing" /\ outcome'[t].status \in Terminal
               /\ outcome'[t].started = TRUE
        BY <1>a, <1>b DEF TypeOK
      <3>3. disk'[t] = disk[t] /\ pendingRoots' = pendingRoots /\ ChildFits(t)  BY <1>u DEF ChildrenFit, ChildFits
      <3> QED BY <3>1, <3>2, <3>3, <1>a DEF ChildFits
    <2> QED BY <2>1, <2>2 DEF ChildrenFit, ChildFits
  <1>7. OwnersFit'
    BY <1>u, <1>o, <1>w, <1>a, <1>b
    DEF OwnersFit, OpsFit, LockFits, WaitersFit, ActiveFit, Begun, Enqueuing, Leased, TypeOK
  <1>8. DecisionHolds' /\ ChildLimit'
    BY <1>u, <1>o, <1>w, <1>a, <1>b, <1>s, AcceptedSame DEF DecisionHolds
  <1>9. CancellationChained'
    BY <1>u, <1>o, <1>w, <1>a, <1>b
    DEF CancellationChained, OpsFit, LockFits, WaitersFit, ActiveFit, Begun, Enqueuing, Leased,
        TypeOK
  <1>10. QueuesDistinct' /\ ActiveLimit' /\ OwnersDisjoint' /\ SlotsFit'
    BY <1>u, <1>o, <1>w DEF QueuesDistinct, ActiveLimit, OwnersDisjoint, SlotsFit
  <1> QED BY <1>1, <1>2, <1>3, <1>4, <1>5, <1>6, <1>7, <1>8, <1>9, <1>10

\* The runner returns and the task is concluded.
LEMMA RunnerReturnsKeeps ==
  ASSUME IInv, NEW t \in Tasks, RunnerReturns(t)
  PROVE  IInv'
  <1> USE DEF IInv
  <1>u. UNCHANGED <<disk, waiters, active, activeCount, pendingRoots, owned, ops, lock, claim,
      reason, expired, result, mode, stale, faults, crashes>>
    BY DEF RunnerReturns, queueVars, clientVars, systemVars
  <1>o. \A k, u : Chained(k, u)' <=> Chained(k, u)
    BY <1>u DEF Chained
  <1>w. \A u : Queued(u)' <=> Queued(u)
    BY <1>u DEF Queued
  <1>a. phase[t] = "running" /\ disk[t].started = TRUE
    BY RecordFacts DEF RunnerReturns, ChildrenFit, ChildFits, TypeOK
  <1>b. /\ phase' = [phase EXCEPT ![t] = "finalizing"] /\ outcome' \in [Tasks -> Record]
        /\ \A u \in Tasks : u # t => outcome'[u] = outcome[u]
        /\ outcome'[t].status \in Terminal /\ outcome'[t].started = TRUE
    <2>1. AbortStatus(reason[t]) \in Terminal /\ {"succeeded", "failed"} \subseteq Terminal  BY DEF AbortStatus, Terminal
    <2>2. PICK s \in Terminal : Conclude(t, s, TRUE)  BY <2>1 DEF RunnerReturns
    <2> QED BY <2>2, ConcludeFacts
  <1>s. \A u \in Tasks : Counts(u)' = Counts(u)
    BY <1>u, <1>o, <1>w, <1>a, <1>b
    DEF Counts, ChildrenFit, ChildFits, OpsFit, LockFits, Begun, Enqueuing, TypeOK
  <1>1. TypeOK'
    <2>1. phase' \in [Tasks -> Phases]  BY <1>b DEF TypeOK, Phases
    <2> QED BY <2>1, <1>u, <1>a, <1>b DEF TypeOK
  <1>2. OpsFit'
    BY <1>u, <1>o, <1>w, <1>a, <1>b
    DEF OpsFit, OpsFit, LockFits, WaitersFit, ActiveFit, Begun, Enqueuing, Leased, TypeOK
  <1>3. LockFits'
    BY <1>u, <1>o, <1>w, <1>a, <1>b, TasksAssumption
    DEF LockFits, OpsFit, Begun, Enqueuing, Steps, TypeOK
  <1>4. WaitersFit'
    BY <1>u, <1>o, <1>w, <1>a, <1>b
    DEF WaitersFit, OpsFit, LockFits, WaitersFit, ActiveFit, Begun, Enqueuing, Leased, TypeOK
  <1>5. ActiveFit'
    BY <1>u, <1>o, <1>w, <1>a, <1>b DEF ActiveFit, LockFits, OpsFit, Leased, Enqueuing, TypeOK
  <1>6. ChildrenFit'
    <2>1. ASSUME NEW u \in Tasks, u # t  PROVE ChildFits(u)'
      <3>1. /\ phase'[u] = phase[u] /\ outcome'[u] = outcome[u] /\ disk'[u] = disk[u]
            /\ u \in pendingRoots' <=> u \in pendingRoots
            /\ Begun("persist", u)' <=> Begun("persist", u)
        BY <2>1, <1>u, <1>o, <1>w, <1>a, <1>b DEF Begun, TypeOK
      <3> QED BY <3>1 DEF ChildrenFit, ChildFits
    <2>2. ChildFits(t)'
      <3>1. ~Begun("persist", t)'  BY <1>u, <1>a DEF LockFits, Begun, Enqueuing
      <3>2. /\ phase'[t] = "finalizing" /\ outcome'[t].status \in Terminal
            /\ outcome'[t].started = TRUE
        BY <1>a, <1>b DEF TypeOK
      <3>3. disk'[t] = disk[t] /\ pendingRoots' = pendingRoots /\ ChildFits(t)  BY <1>u DEF ChildrenFit, ChildFits
      <3> QED BY <3>1, <3>2, <3>3, <1>a DEF ChildFits
    <2> QED BY <2>1, <2>2 DEF ChildrenFit, ChildFits
  <1>7. OwnersFit'
    BY <1>u, <1>o, <1>w, <1>a, <1>b
    DEF OwnersFit, OpsFit, LockFits, WaitersFit, ActiveFit, Begun, Enqueuing, Leased, TypeOK
  <1>8. DecisionHolds' /\ ChildLimit'
    BY <1>u, <1>o, <1>w, <1>a, <1>b, <1>s, AcceptedSame DEF DecisionHolds
  <1>9. CancellationChained'
    BY <1>u, <1>o, <1>w, <1>a, <1>b
    DEF CancellationChained, OpsFit, LockFits, WaitersFit, ActiveFit, Begun, Enqueuing, Leased,
        TypeOK
  <1>10. QueuesDistinct' /\ ActiveLimit' /\ OwnersDisjoint' /\ SlotsFit'
    BY <1>u, <1>o, <1>w DEF QueuesDistinct, ActiveLimit, OwnersDisjoint, SlotsFit
  <1> QED BY <1>1, <1>2, <1>3, <1>4, <1>5, <1>6, <1>7, <1>8, <1>9, <1>10

\* The terminal record is written and release chained.
LEMMA FinalizeKeeps ==
  ASSUME IInv, NEW t \in Tasks, Finalize(t)
  PROVE  IInv'
  <1> USE DEF IInv
  <1>u. UNCHANGED <<waiters, active, activeCount, pendingRoots, owned, lock, claim, reason,
      expired, outcome, mode, stale, crashes>>
    BY DEF Finalize, Fails, Succeeds, queueVars, clientVars, systemVars
  <1>w. \A u : Queued(u)' <=> Queued(u)
    BY <1>u DEF Queued
  <1>a. /\ phase[t] = "finalizing" /\ phase' = [phase EXCEPT ![t] = "releasing"]
        /\ outcome[t] \in Record /\ outcome[t].status \in Terminal /\ outcome[t].started = disk[t].started
        /\ (disk' = disk \/ disk' = [disk EXCEPT ![t] = outcome[t]]) /\ faults' \in Nat
    BY
    DEF Finalize, Fails, Succeeds, queueVars, clientVars, systemVars, ChildrenFit, ChildFits, TypeOK
  <1>b. /\ ops' \in Seq(OpType) /\ Distinct(ops')
        /\ \A l, u : Chained(l, u)' <=> Chained(l, u) \/ (l = "release" /\ u = t)
    BY OpsAppend, "release" \in OpKinds
    DEF Finalize, Fails, Succeeds, queueVars, clientVars, systemVars, OpKinds, OpType,
        QueuesDistinct, OpsFit, TypeOK
  <1>c. disk' \in [Tasks -> Record] /\ \A u \in Tasks : disk'[u].started = disk[u].started
    BY <1>a DEF TypeOK
  <1>d. result' \in [Tasks -> Terminal \cup {"none", "error"}]
    <2>1. PICK r \in Terminal \cup {"none", "error"} : result' = [result EXCEPT ![t] = r]  BY <1>a DEF Finalize
    <2> QED BY <2>1 DEF TypeOK
  <1>s. \A u \in Tasks : Counts(u)' = Counts(u)
    BY <1>u, <1>w, <1>a, <1>b, <1>c, <1>d
    DEF Counts, ChildrenFit, ChildFits, OpsFit, LockFits, Begun, Enqueuing, TypeOK
  <1>1. TypeOK'
    <2>1. phase' \in [Tasks -> Phases]  BY <1>a DEF TypeOK, Phases
    <2> QED BY <2>1, <1>u, <1>a, <1>b, <1>c, <1>d DEF TypeOK, OpType
  <1>2. OpsFit'
    BY <1>u, <1>w, <1>a, <1>b, <1>c, <1>d
    DEF OpsFit, OpsFit, LockFits, WaitersFit, ActiveFit, Begun, Enqueuing, Leased, TypeOK
  <1>3. QueuesDistinct'
    BY <1>u, <1>w, <1>a, <1>b, <1>c, <1>d DEF QueuesDistinct
  <1>4. LockFits'
    BY <1>u, <1>w, <1>a, <1>b, <1>c, <1>d, TasksAssumption
    DEF LockFits, OpsFit, Begun, Enqueuing, Steps, TypeOK
  <1>5. WaitersFit'
    BY <1>u, <1>w, <1>a, <1>b, <1>c, <1>d
    DEF WaitersFit, OpsFit, LockFits, WaitersFit, ActiveFit, Begun, Enqueuing, Leased, TypeOK
  <1>6. ActiveFit'
    BY <1>u, <1>w, <1>a, <1>b, <1>c, <1>d
    DEF ActiveFit, LockFits, OpsFit, Leased, Enqueuing, TypeOK
  <1>7. ChildrenFit'
    BY <1>u, <1>w, <1>a, <1>b, <1>c, <1>d
    DEF ChildrenFit, ChildFits, OpsFit, LockFits, WaitersFit, ActiveFit, Begun, Enqueuing,
        Leased, TypeOK
  <1>8. OwnersFit'
    BY <1>u, <1>w, <1>a, <1>b, <1>c, <1>d
    DEF OwnersFit, OpsFit, LockFits, WaitersFit, ActiveFit, Begun, Enqueuing, Leased, TypeOK
  <1>9. DecisionHolds' /\ ChildLimit'
    BY <1>u, <1>w, <1>a, <1>b, <1>c, <1>d, <1>s, AcceptedSame DEF DecisionHolds
  <1>10. CancellationChained'
    BY <1>u, <1>w, <1>a, <1>b, <1>c, <1>d
    DEF CancellationChained, OpsFit, LockFits, WaitersFit, ActiveFit, Begun, Enqueuing, Leased,
        TypeOK
  <1>11. ActiveLimit' /\ OwnersDisjoint' /\ SlotsFit'
    BY <1>u, <1>w DEF ActiveLimit, OwnersDisjoint, SlotsFit
  <1> QED BY <1>1, <1>2, <1>3, <1>4, <1>5, <1>6, <1>7, <1>8, <1>9, <1>10, <1>11

\* A crash empties everything but the store.
LEMMA CrashKeeps ==
  ASSUME IInv, Crash
  PROVE  IInv'
  <1> USE DEF IInv
  <1>u. UNCHANGED <<disk, claim, reason, expired, outcome, result, faults>>
    BY DEF Crash, Free, queueVars, clientVars, systemVars
  <1>a. /\ waiters' = <<>> /\ ops' = <<>> /\ active' = {} /\ activeCount' = 0 /\ pendingRoots' = {} /\ owned' = {}
        /\ lock'.step = "idle" /\ lock'.task = NoTask /\ mode' = "down" /\ stale' = {} /\ crashes' \in Nat
    BY DEF Crash, Free, queueVars, clientVars, systemVars, TypeOK
  <1>b. (\A k, u : ~Chained(k, u)') /\ \A u : ~Queued(u)'
    BY <1>a DEF Chained, Queued, InSeq
  <1>c. \A u \in Tasks : phase'[u] = IF phase[u] \in {"idle", "done"} THEN phase[u] ELSE "lost"
    BY DEF Crash, Free, queueVars, clientVars, systemVars
  <1>1. TypeOK'
    <2>1. phase' \in [Tasks -> Phases] /\ lock' \in [step : Steps, task : Tasks \cup {NoTask}]
      BY DEF Crash, Free, TypeOK, Phases, Steps
    <2> QED BY <2>1, <1>u, <1>a DEF TypeOK
  <1>2. OpsFit'
    BY <1>u, <1>a, <1>b, <1>c
    DEF OpsFit, OpsFit, LockFits, WaitersFit, ActiveFit, Begun, Enqueuing, Leased, TypeOK
  <1>3. QueuesDistinct'
    BY <1>a DEF QueuesDistinct, Distinct
  <1>4. LockFits'
    BY <1>u, <1>a, <1>b, <1>c, TasksAssumption
    DEF LockFits, OpsFit, Begun, Enqueuing, Steps, TypeOK
  <1>5. WaitersFit'
    BY <1>u, <1>a, <1>b, <1>c
    DEF WaitersFit, OpsFit, LockFits, WaitersFit, ActiveFit, Begun, Enqueuing, Leased, TypeOK
  <1>6. ActiveFit'
    BY <1>u, <1>a, <1>b, <1>c DEF ActiveFit, LockFits, OpsFit, Leased, Enqueuing, TypeOK
  <1>7. ActiveLimit'
    BY <1>a, FS_EmptySet, LimitsAssumption DEF ActiveLimit
  <1>8. ChildrenFit'
    BY <1>u, <1>a, <1>b, <1>c
    DEF ChildrenFit, ChildFits, OpsFit, LockFits, WaitersFit, ActiveFit, Begun, Enqueuing,
        Leased, TypeOK
  <1>9. OwnersFit'
    BY <1>u, <1>a, <1>b, <1>c
    DEF OwnersFit, OpsFit, LockFits, WaitersFit, ActiveFit, Begun, Enqueuing, Leased, TypeOK
  <1>10. OwnersDisjoint'
    BY <1>u, <1>a, <1>b, <1>c DEF OwnersDisjoint
  <1>11. DecisionHolds'
    BY <1>a DEF DecisionHolds
  <1>12. ChildLimit'
    <2>1. \A u \in Tasks : Counts(u)' => Counts(u)  BY <1>u, <1>a DEF Counts
    <2> QED BY <2>1, AcceptedShrinks
  <1>13. CancellationChained'
    BY <1>u, <1>a, <1>b, <1>c
    DEF CancellationChained, OpsFit, LockFits, WaitersFit, ActiveFit, Begun, Enqueuing, Leased,
        TypeOK
  <1>14. SlotsFit'
    BY <1>u, <1>a, <1>b, <1>c
    DEF SlotsFit, OpsFit, LockFits, WaitersFit, ActiveFit, Begun, Enqueuing, Leased, TypeOK
  <1> QED BY <1>1, <1>2, <1>3, <1>4, <1>5, <1>6, <1>7, <1>8, <1>9, <1>10, <1>11, <1>12, <1>13, <1>14

\* initialize lists the records.
LEMMA InitializeKeeps ==
  ASSUME IInv, Initialize
  PROVE  IInv'
  <1> USE DEF IInv
  <1>u. UNCHANGED <<disk, waiters, active, activeCount, pendingRoots, owned, ops, lock, claim,
      reason, expired, phase, outcome, result, crashes>>
    BY DEF Initialize, Fails, Succeeds, queueVars, clientVars, systemVars
  <1>a. mode' \in {"down", "recovering", "up"} /\ stale' \subseteq Tasks /\ faults' \in Nat
    BY DEF Initialize, Fails, Succeeds, queueVars, clientVars, systemVars, Unfinished, TypeOK
  <1>1. TypeOK'
    BY <1>u, <1>a DEF TypeOK
  <1> QED BY <1>1, <1>u, <1>a, FrameKeeps

\* An unfinished record is rewritten as interrupted.
LEMMA ReconcileKeeps ==
  ASSUME IInv, NEW t \in Tasks, Reconcile(t)
  PROVE  IInv'
  <1> USE DEF IInv
  <1>u. UNCHANGED <<waiters, active, activeCount, pendingRoots, owned, ops, lock, claim, reason,
      expired, phase, outcome, result, crashes>>
    BY DEF Reconcile, Fails, Succeeds, queueVars, clientVars, systemVars
  <1>a. /\ mode' \in {"down", "recovering", "up"} /\ stale' \subseteq Tasks /\ faults' \in Nat
        /\ disk' = disk \/ disk' = [disk EXCEPT ![t].status = "interrupted"]
    BY DEF Reconcile, Fails, Succeeds, queueVars, clientVars, systemVars, TypeOK
  <1>b. disk' \in [Tasks -> Record] /\ \A u \in Tasks : disk'[u].started = disk[u].started
    <2> DEFINE r == [disk[t] EXCEPT !.status = "interrupted"]
    <2>1. r \in Record /\ r.started = disk[t].started  BY RecordFacts DEF TypeOK
    <2>2. disk' = disk \/ disk' = [disk EXCEPT ![t] = r]  BY <1>a
    <2> HIDE DEF r
    <2> QED BY <2>1, <2>2 DEF TypeOK
  <1>1. TypeOK'
    BY <1>u, <1>a, <1>b DEF TypeOK
  <1> QED BY <1>1, <1>u, <1>a, <1>b, FrameKeeps

\* Every record is reconciled.
LEMMA InitializedKeeps ==
  ASSUME IInv, Initialized
  PROVE  IInv'
  <1> USE DEF IInv
  <1>u. UNCHANGED <<disk, waiters, active, activeCount, pendingRoots, owned, ops, lock, claim,
      reason, expired, phase, outcome, result, stale, faults, crashes>>
    BY DEF Initialized, queueVars, clientVars, systemVars
  <1>a. mode' \in {"down", "recovering", "up"}
    BY DEF Initialized, queueVars, clientVars, systemVars
  <1>1. TypeOK'
    BY <1>u, <1>a DEF TypeOK
  <1> QED BY <1>1, <1>u, <1>a, FrameKeeps

-----------------------------------------------------------------------------
(* What holds of every behaviour *)

LEMMA InitEstablishes ==
  ASSUME Init
  PROVE  IInv
  <1>1. TypeOK
    BY DEF Init, TypeOK, Free, Absent, Record, OpKinds, Steps, Phases, Reasons
  <1>2. /\ \A k, t : ~Chained(k, t)
        /\ \A t : ~Queued(t)
        /\ QueuesDistinct
    BY DEF Init, Chained, Queued, InSeq, QueuesDistinct, Distinct
  <1>3. \A t \in Tasks : disk[t].started = FALSE /\ phase[t] = "idle"  BY DEF Init, Absent
  <1>4. lock.step = "idle" /\ lock.task = NoTask  BY DEF Init, Free
  <1>5. active = {} /\ activeCount = 0 /\ pendingRoots = {} /\ owned = {}  BY DEF Init
  <1>6. ChildLimit
    <2>1. \A root : AcceptedChildren(root) = {}  BY <1>3, <1>5 DEF AcceptedChildren
    <2> QED BY <2>1, FS_EmptySet, LimitsAssumption DEF ChildLimit
  <1>7. ActiveLimit  BY <1>5, FS_EmptySet, LimitsAssumption DEF ActiveLimit
  <1>8. LockFits  BY <1>4 DEF LockFits, Enqueuing
  <1>9. OpsFit /\ WaitersFit /\ CancellationChained /\ SlotsFit
    BY <1>2, <1>3 DEF OpsFit, WaitersFit, CancellationChained, SlotsFit
  <1>10. ActiveFit /\ ChildrenFit /\ OwnersFit /\ OwnersDisjoint /\ DecisionHolds
    BY <1>3, <1>4, <1>5 DEF ActiveFit, Leased, ChildrenFit, ChildFits, OwnersFit, OwnersDisjoint, DecisionHolds, Begun
  <1> QED BY <1>1, <1>2, <1>6, <1>7, <1>8, <1>9, <1>10 DEF IInv

\* Stuttering changes nothing the invariant reads.
LEMMA StutterKeeps ==
  ASSUME IInv, UNCHANGED vars
  PROVE  IInv'
  <1>1. TypeOK'  BY DEF vars, IInv, TypeOK
  <1> QED BY <1>1, FrameKeeps DEF vars

LEMMA NextKeeps ==
  ASSUME IInv, Next
  PROVE  IInv'
  <1>1. ASSUME NEW t \in Tasks, Register(t)  PROVE IInv'  BY <1>1, RegisterKeeps
  <1>2. ASSUME NEW t \in Tasks, QueueStep(t)  PROVE IInv'
    BY <1>2, EnqueueBeginKeeps, EnqueueListKeeps, EnqueueReserveKeeps, EnqueuePersistKeeps,
       CancelBeginKeeps, CancelWriteKeeps, StartBeginKeeps, StartWriteKeeps, ReleaseKeeps
    DEF QueueStep
  <1>3. ASSUME NEW t \in Tasks, ClientStep(t)  PROVE IInv'
    BY <1>3, ExecuteKeeps, RunKeeps, RunnerReturnsKeeps, FinalizeKeeps DEF ClientStep
  <1>4. ASSUME NEW t \in Tasks, TimerStep(t)  PROVE IInv'
    BY <1>4, ExpireKeeps, AttemptTimerKeeps, ExecutionTimerKeeps DEF TimerStep
  <1>5. ASSUME NEW t \in Tasks, Abort(t)  PROVE IInv'  BY <1>5, AbortKeeps
  <1>6. CASE Recovery
    BY <1>6, InitializeKeeps, InitializedKeeps, ReconcileKeeps DEF Recovery
  <1>7. CASE Crash  BY <1>7, CrashKeeps
  <1> QED BY <1>1, <1>2, <1>3, <1>4, <1>5, <1>6, <1>7 DEF Next

\* The invariant is inductive.
THEOREM Invariance == Spec => []IInv
  <1>1. Init => IInv  BY InitEstablishes
  <1>2. IInv /\ [Next]_vars => IInv'  BY NextKeeps, StutterKeeps
  <1> QED BY <1>1, <1>2, PTL DEF Spec

\* Every variable keeps the type the code gives it.
THEOREM TypeCorrect == Spec => []TypeOK
  <1>1. IInv => TypeOK  BY DEF IInv
  <1> QED BY <1>1, Invariance, PTL

\* Neither delegation.maxChildrenPerRoot nor delegation.maxActive is passed,
\* and the counter of leases that admission decides by is right.
THEOREM LimitsAreKept == Spec => []LimitsHold
  <1>1. IInv => LimitsHold  BY DEF IInv, LimitsHold
  <1> QED BY <1>1, Invariance, PTL

\* Two live leases never cover overlapping write paths.
THEOREM WriterExclusionHolds == Spec => []WriterExclusion
  <1>1. ASSUME IInv  PROVE WriterExclusion
    <2> USE <1>1 DEF IInv
    <2>1. \A t \in active : t \in Tasks /\ phase[t] \in Leased  BY DEF ActiveFit, TypeOK
    <2>2. \A t \in active : Writes[t] # {} => t \in owned  BY <2>1 DEF OwnersFit
    <2> QED BY <2>2 DEF WriterExclusion, OwnersDisjoint
  <1> QED BY <1>1, Invariance, PTL

\* A task outside registration and release holds no slot, path, claim on the
\* child limit or place in the line.
THEOREM NothingIsLeaked == Spec => []NothingLeaked
  <1>1. ASSUME IInv  PROVE NothingLeaked
    <2> USE <1>1 DEF IInv
    <2>1. SUFFICES ASSUME NEW t \in Tasks, phase[t] \in {"idle", "done", "lost"}
                   PROVE  t \notin active \cup owned \cup pendingRoots \cup Range(waiters)
      BY DEF NothingLeaked
    <2>2. ~Begun("persist", t)  BY <2>1 DEF LockFits, Begun, Enqueuing
    <2>3. t \notin active /\ ~Queued(t)  BY <2>1 DEF ActiveFit, WaitersFit, Leased
    <2>4. t \notin owned  BY <2>1, <2>2 DEF OwnersFit, Leased
    <2>5. t \notin pendingRoots  BY <2>1, <2>2 DEF ChildrenFit, ChildFits
    <2>6. t \notin Range(waiters)  BY <2>3 DEF Queued, InSeq, Range
    <2> QED BY <2>3, <2>4, <2>5, <2>6
  <1> QED BY <1>1, Invariance, PTL

\* A slot is never free while a waiter that nobody withdraws stands in line.
THEOREM NoWakeupIsLost == Spec => []NoLostWakeup
  <1>1. ASSUME IInv  PROVE NoLostWakeup
    <2> USE <1>1 DEF IInv
    <2>1. SUFFICES ASSUME activeCount < MaxActive, NEW t \in Range(waiters)
                   PROVE  claim[t] # "none" /\ Op("cancel", t) \in Range(ops)
      BY DEF NoLostWakeup
    <2>2. Queued(t) /\ t \in Tasks  BY DEF Queued, InSeq, Range, TypeOK
    <2>3. claim[t] # "none"  BY <2>1, <2>2 DEF SlotsFit
    <2>4. Chained("cancel", t)  BY <2>2, <2>3 DEF WaitersFit, CancellationChained
    <2> QED BY <2>3, <2>4 DEF Chained, InSeq, Range
  <1> QED BY <1>1, Invariance, PTL

-----------------------------------------------------------------------------
(* The order of a line under the operations of the code's queues *)

LEMMA BeforeFacts ==
  ASSUME NEW S, NEW s \in Seq(S), NEW x, NEW y, Before(s, x, y)
  PROVE  /\ InSeq(s, x) /\ InSeq(s, y)
         /\ Distinct(s) => x # y /\ ~Before(s, y, x)
  BY DEF Before, InSeq, Distinct

LEMMA BeforeAppend ==
  ASSUME NEW S, NEW s \in Seq(S), NEW z \in S, NEW x, NEW y
  PROVE  Before(Append(s, z), x, y) <=> Before(s, x, y) \/ (InSeq(s, x) /\ y = z)
  <1> DEFINE a == Append(s, z)
  <1>1. /\ Len(s) \in Nat /\ DOMAIN s = 1..Len(s) /\ DOMAIN a = 1..(Len(s) + 1)
        /\ a[Len(s) + 1] = z
        /\ \A i \in DOMAIN s : i \in DOMAIN a /\ a[i] = s[i]
    OBVIOUS
  <1> HIDE DEF a
  <1>2. ASSUME Before(a, x, y) PROVE Before(s, x, y) \/ (InSeq(s, x) /\ y = z)
    <2>1. PICK i \in DOMAIN a, j \in DOMAIN a : i < j /\ a[i] = x /\ a[j] = y
      BY <1>2 DEF Before
    <2>2. i \in DOMAIN s  BY <1>1, <2>1
    <2>3. j \in DOMAIN s \/ j = Len(s) + 1  BY <1>1
    <2> QED BY <1>1, <2>1, <2>2, <2>3 DEF Before, InSeq
  <1>3. ASSUME Before(s, x, y) PROVE Before(a, x, y)
    BY <1>1, <1>3 DEF Before
  <1>4. ASSUME InSeq(s, x), y = z PROVE Before(a, x, y)
    <2>1. PICK i \in DOMAIN s : s[i] = x  BY <1>4 DEF InSeq
    <2>2. i < Len(s) + 1 /\ i \in DOMAIN a /\ Len(s) + 1 \in DOMAIN a  BY <1>1
    <2> QED BY <1>1, <1>4, <2>1, <2>2 DEF Before
  <1> QED BY <1>2, <1>3, <1>4 DEF a

LEMMA BeforeTail ==
  ASSUME NEW S, NEW s \in Seq(S), s # <<>>, NEW x, NEW y
  PROVE  /\ Before(Tail(s), x, y) => Before(s, x, y)
         /\ InSeq(Tail(s), y) => Before(s, Head(s), y)
  <1> DEFINE a == Tail(s)
  <1>1. /\ 1 \in DOMAIN s /\ Head(s) = s[1]
        /\ \A i \in DOMAIN a : i + 1 \in DOMAIN s /\ a[i] = s[i + 1] /\ 1 < i + 1
        /\ \A i, j \in DOMAIN a : i < j => i + 1 < j + 1
    OBVIOUS
  <1> HIDE DEF a
  <1> QED BY <1>1 DEF Before, InSeq, a

LEMMA BeforeRemove ==
  ASSUME NEW S, NEW s \in Seq(S), NEW i \in DOMAIN s, NEW x, NEW y, Before(RemoveAt(s, i), x, y)
  PROVE  Before(s, x, y)
  <1> DEFINE left == SubSeq(s, 1, i - 1)
             right == SubSeq(s, i + 1, Len(s))
             r == RemoveAt(s, i)
  <1>0. i \in 1..Len(s) /\ Len(s) \in Nat /\ DOMAIN s = 1..Len(s)  OBVIOUS
  <1>1. left \in Seq(S) /\ Len(left) = i - 1 /\ \A k \in 1..(i - 1) : left[k] = s[k]
    BY <1>0, SubSeqProperties
  <1>2. right \in Seq(S) /\ Len(right) = Len(s) - i /\ \A k \in 1..(Len(s) - i) : right[k] = s[i + k]
    BY <1>0, SubSeqProperties
  <1>3. r = left \o right  BY DEF RemoveAt
  <1> HIDE DEF left, right, r
  <1>4. /\ r \in Seq(S) /\ Len(r) = Len(s) - 1
        /\ \A k \in 1..(Len(s) - 1) : r[k] = IF k < i THEN s[k] ELSE s[k + 1]
    <2>1. /\ r \in Seq(S) /\ Len(r) = Len(left) + Len(right)
          /\ \A k \in 1..(Len(left) + Len(right)) :
               r[k] = IF k <= Len(left) THEN left[k] ELSE right[k - Len(left)]
      BY <1>1, <1>2, <1>3, ConcatProperties
    <2>2. ASSUME NEW k \in 1..(Len(s) - 1) PROVE r[k] = IF k < i THEN s[k] ELSE s[k + 1]
      <3>1. CASE k < i
        <4>1. k <= Len(left) /\ k \in 1..(i - 1) /\ k \in 1..(Len(left) + Len(right))  BY <1>0, <1>1, <1>2, <3>1
        <4> QED BY <1>1, <2>1, <3>1, <4>1
      <3>2. CASE ~(k < i)
        <4>1. /\ ~(k <= Len(left)) /\ k \in 1..(Len(left) + Len(right))
              /\ k - Len(left) \in 1..(Len(s) - i) /\ i + (k - Len(left)) = k + 1
          BY <1>0, <1>1, <1>2, <3>2
        <4> QED BY <1>2, <2>1, <3>2, <4>1
      <3> QED BY <3>1, <3>2
    <2> QED BY <1>0, <1>1, <1>2, <2>1, <2>2
  <1> DEFINE old(k) == IF k < i THEN k ELSE k + 1
  <1>5. ASSUME NEW k \in DOMAIN r PROVE old(k) \in DOMAIN s /\ r[k] = s[old(k)]
    <2>1. k \in 1..(Len(s) - 1)  BY <1>4
    <2>2. old(k) \in DOMAIN s  BY <1>0, <2>1
    <2>3. CASE k < i  BY <1>4, <2>1, <2>2, <2>3
    <2>4. CASE ~(k < i)  BY <1>4, <2>1, <2>2, <2>4
    <2> QED BY <2>3, <2>4
  <1>6. \A k, l \in DOMAIN r : k < l => old(k) < old(l)  BY <1>0, <1>4
  <1>7. Before(r, x, y)  BY DEF r
  <1> HIDE DEF old
  <1> QED BY <1>5, <1>6, <1>7 DEF Before

LEMMA BeforeSplit ==
  ASSUME NEW S, NEW s \in Seq(S), NEW n \in 0..Len(s), NEW x, NEW y
  PROVE  /\ Before(SubSeq(s, n + 1, Len(s)), x, y) => Before(s, x, y)
         /\ Distinct(s) /\ Before(s, x, y) /\ y \in Prefix(s, n) => x \in Prefix(s, n)
  <1> DEFINE r == SubSeq(s, n + 1, Len(s))
  <1>1. /\ r \in Seq(S) /\ Len(r) = Len(s) - n
        /\ \A k \in 1..(Len(s) - n) : r[k] = s[n + k]
    BY SubSeqProperties
  <1>2. \A k \in DOMAIN r : k \in Nat /\ n + k \in DOMAIN s /\ r[k] = s[n + k]  BY <1>1
  <1> HIDE DEF r
  <1>3. Before(r, x, y) => Before(s, x, y)  BY <1>2 DEF Before
  <1>4. ASSUME Distinct(s), Before(s, x, y), y \in Prefix(s, n) PROVE x \in Prefix(s, n)
    <2>1. PICK i \in DOMAIN s, j \in DOMAIN s : i < j /\ s[i] = x /\ s[j] = y
      BY <1>4 DEF Before
    <2>2. PICK k \in 1..n : s[k] = y  BY <1>4 DEF Prefix
    <2>3. j = k  BY <1>4, <2>1, <2>2 DEF Distinct
    <2>4. i \in 1..n  BY <2>1, <2>3
    <2> QED BY <2>1, <2>4 DEF Prefix
  <1> QED BY <1>3, <1>4 DEF r

-----------------------------------------------------------------------------
(* The line *)

FifoStep ==
  \A t, u \in Tasks : Ahead(u, t) =>
    /\ ~Ahead(t, u)'
    /\ t \in active' => u \notin InLine'

Enq(t) == Op("enqueue", t)

\* A task stands in one of the three places at most, once, and not yet with a lease.
LEMMA Places ==
  ASSUME IInv, NEW t \in Tasks
  PROVE  /\ t \in Range(waiters) <=> Queued(t)
         /\ t \in Calling <=> Chained("enqueue", t)
         /\ t \in Arriving <=> lock.step \in Enqueuing /\ lock.task = t
         /\ Queued(t) => t \notin Arriving /\ t \notin Calling
         /\ t \in Arriving => t \notin Calling
         /\ t \in InLine => t \notin active
  <1>1. /\ t \in Range(waiters) <=> Queued(t)
        /\ t \in Calling <=> Chained("enqueue", t)
        /\ t \in Arriving <=> lock.step \in Enqueuing /\ lock.task = t
    BY DEF Range, Queued, Chained, InSeq, Calling, Arriving, Enqueuing
  <1>2. Queued(t) => phase[t] = "waiting"  BY DEF IInv, WaitersFit
  <1>3. t \in Arriving => phase[t] = "registering" /\ ~Chained("enqueue", t)
    BY <1>1 DEF IInv, LockFits, OpsFit, Begun, Enqueuing
  <1>4. t \in Calling => phase[t] = "registering"  BY <1>1 DEF IInv, OpsFit
  <1>5. t \in active => phase[t] \notin {"waiting", "registering"}  BY DEF IInv, ActiveFit, Leased
  <1> QED BY <1>1, <1>2, <1>3, <1>4, <1>5 DEF InLine

\* Nobody is ahead of a task that is ahead of him.
LEMMA AheadIsStrict ==
  ASSUME IInv, NEW u \in Tasks, NEW t \in Tasks, Ahead(u, t)
  PROVE  u \in InLine /\ t \in InLine /\ ~Ahead(t, u)
  <1>1. /\ waiters \in Seq(Tasks) /\ Distinct(waiters)
        /\ ops \in Seq(OpType) /\ Distinct(ops)
    BY DEF IInv, TypeOK, QueuesDistinct, OpType
  <1>2. Before(waiters, u, t) => Queued(u) /\ Queued(t) /\ ~Before(waiters, t, u)
    BY <1>1, BeforeFacts DEF Queued
  <1>3. Before(ops, Enq(u), Enq(t)) =>
          Chained("enqueue", u) /\ Chained("enqueue", t) /\ ~Before(ops, Enq(t), Enq(u))
    BY <1>1, BeforeFacts DEF Chained, Enq
  <1>4. /\ Before(waiters, t, u) => Queued(u) /\ Queued(t)
        /\ Before(ops, Enq(t), Enq(u)) => Chained("enqueue", u) /\ Chained("enqueue", t)
    BY <1>1, BeforeFacts DEF Queued, Chained, Enq
  <1>5. u \in InLine /\ t \in InLine
    BY <1>2, <1>3, Places DEF Ahead, InLine, Enq
  <1>6. ~(u \in Arriving /\ t \in Arriving /\ u # t)  BY DEF Arriving
  <1>7. ASSUME Ahead(t, u) PROVE FALSE
    BY <1>2, <1>3, <1>4, <1>7, Places DEF Ahead, Enq
  <1> QED BY <1>5, <1>7

\* A step that keeps the order of those who are in line and admits nobody
\* whom it does not admit after those ahead of him.
LEMMA FifoFollows ==
  ASSUME IInv, IInv',
         \A x, y \in Tasks : x \in InLine /\ y \in InLine /\ Ahead(x, y)' => Ahead(x, y),
         \A u, t \in Tasks : Ahead(u, t) /\ t \in active' => u \in active'
  PROVE  FifoStep
  <1> SUFFICES ASSUME NEW t \in Tasks, NEW u \in Tasks, Ahead(u, t)
               PROVE  ~Ahead(t, u)' /\ (t \in active' => u \notin InLine')
    BY DEF FifoStep
  <1>1. u \in InLine /\ t \in InLine /\ ~Ahead(t, u)  BY AheadIsStrict
  <1>2. ~Ahead(t, u)'  BY <1>1
  <1>3. ASSUME t \in active', u \in InLine' PROVE FALSE
    <2>1. phase'[u] \notin {"waiting", "registering"}
      BY <1>3 DEF IInv, ActiveFit, Leased
    <2>2. /\ u \in Range(waiters)' => phase'[u] = "waiting"
      BY DEF IInv, WaitersFit, Queued, InSeq, Range
    <2>3. u \in Arriving' => phase'[u] = "registering"
      BY DEF IInv, LockFits, Enqueuing, Arriving
    <2>4. u \in Calling' => phase'[u] = "registering"
      BY DEF IInv, OpsFit, Chained, InSeq, Calling, Range
    <2> QED BY <1>3, <2>1, <2>2, <2>3, <2>4 DEF InLine
  <1> QED BY <1>2, <1>3

\* Nobody comes in but behind the line, and nobody changes his place in it.
LEMMA LineStays ==
  ASSUME IInv, IInv',
         \A x, y \in Tasks : Before(waiters', x, y) => Before(waiters, x, y),
         \A x \in Tasks : Queued(x)' => Queued(x),
         \A x \in Tasks : x \in Arriving' => x \in Arriving,
         \A x, y \in Tasks : x \in InLine /\ y \in InLine /\ Before(ops', Enq(x), Enq(y))
                             => Before(ops, Enq(x), Enq(y)),
         \A x \in Tasks : x \in InLine /\ Chained("enqueue", x)' => Chained("enqueue", x),
         \A u, t \in Tasks : Ahead(u, t) /\ t \in active' => u \in active'
  PROVE  FifoStep
  <1> SUFFICES ASSUME NEW x \in Tasks, NEW y \in Tasks, x \in InLine, y \in InLine, Ahead(x, y)'
               PROVE  Ahead(x, y)
    BY FifoFollows
  <1>1. /\ x \in Range(waiters)' <=> Queued(x)'
        /\ y \in Calling' <=> Chained("enqueue", y)'
    BY DEF Range, Queued, Chained, InSeq, Calling
  <1>2. /\ x \in Range(waiters) <=> Queued(x)
        /\ y \in Calling <=> Chained("enqueue", y)
    BY Places
  <1>3. \/ Before(waiters', x, y)
        \/ Queued(x)' /\ (y \in Arriving' \/ Chained("enqueue", y)')
        \/ x \in Arriving' /\ Chained("enqueue", y)'
        \/ Before(ops', Enq(x), Enq(y))
    BY <1>1 DEF Ahead, Enq
  <1> QED BY <1>2, <1>3 DEF Ahead, Enq

\* The common case: waiters and leases are left alone.
LEMMA LineIdle ==
  ASSUME IInv, IInv', UNCHANGED waiters, active' = active,
         \A x \in Tasks : x \in Arriving' => x \in Arriving,
         \A x, y \in Tasks : x \in InLine /\ y \in InLine /\ Before(ops', Enq(x), Enq(y))
                             => Before(ops, Enq(x), Enq(y)),
         \A x \in Tasks : x \in InLine /\ Chained("enqueue", x)' => Chained("enqueue", x)
  PROVE  FifoStep
  <1>1. \A u, t \in Tasks : Ahead(u, t) => t \notin active  BY AheadIsStrict, Places
  <1>2. \A x \in Tasks : Queued(x)' => Queued(x)  BY DEF Queued
  <1> QED BY <1>1, <1>2, LineStays

\* Chaining and beginning anything but an enqueue.
LEMMA ChainKeeps ==
  ASSUME IInv, NEW k \in OpKinds, k # "enqueue", NEW t \in Tasks,
         \/ ops' = ops
         \/ ops' = Append(ops, Op(k, t))
         \/ ops # <<>> /\ ops' = Tail(ops)
  PROVE  /\ \A x, y \in Tasks : Before(ops', Enq(x), Enq(y)) => Before(ops, Enq(x), Enq(y))
         /\ \A x \in Tasks : Chained("enqueue", x)' => Chained("enqueue", x)
  <1>1. ops \in Seq(OpType)  BY DEF IInv, TypeOK, OpType
  <1>2. \A x : Enq(x) # Op(k, t)  BY DEF Enq, Op
  <1>3. Op(k, t) \in OpType  BY DEF Op, OpType
  <1>4. CASE ops' = ops  BY <1>4 DEF Chained
  <1>5. CASE ops' = Append(ops, Op(k, t))
    BY <1>1, <1>2, <1>3, <1>5, BeforeAppend, AppendFacts DEF Chained, Enq
  <1>6. CASE ops # <<>> /\ ops' = Tail(ops)
    BY <1>1, <1>6, BeforeTail, TailFacts DEF Chained, Enq
  <1> QED BY <1>4, <1>5, <1>6

\* drain takes from the front of the line.
LEMMA DrainInTurn ==
  ASSUME NEW ws \in Seq(Tasks), NEW held, NEW count \in Nat, NEW ph, Distinct(ws),
         Drain(ws, held, count, ph)
  PROVE  /\ \A x, y : Before(waiters', x, y) => Before(ws, x, y)
         /\ \A x : Queued(x)' => InSeq(ws, x)
         /\ \A y : y \in active' => y \in held \/ InSeq(ws, y)
         /\ \A x, y : Before(ws, x, y) /\ y \in active' => y \in held \/ x \in active'
  <1> DEFINE n == IF FreeSlots(count) < Len(ws) THEN FreeSlots(count) ELSE Len(ws)
             rest == SubSeq(ws, n + 1, Len(ws))
             admitted == Prefix(ws, n)
  <1>1. n \in 0..Len(ws)  BY LimitsAssumption DEF FreeSlots
  <1>2. waiters' = rest /\ active' = held \cup admitted
    BY DEF Drain, OldestFirst, Prefix
  <1> HIDE DEF n
  <1>3. \A y : InSeq(ws, y) <=> y \in admitted \/ InSeq(rest, y)
    BY <1>1, SplitFacts
  <1>4. /\ \A x, y : Before(rest, x, y) => Before(ws, x, y)
        /\ \A x, y : Before(ws, x, y) /\ y \in admitted => x \in admitted
    BY <1>1, BeforeSplit
  <1> HIDE DEF rest, admitted
  <1> QED BY <1>2, <1>3, <1>4 DEF Queued

\* A step that admits from the line as it stands.
LEMMA LineDrained ==
  ASSUME IInv, IInv', NEW held \in SUBSET active, NEW count \in Nat, NEW ph,
         Drain(waiters, held, count, ph),
         \A x \in Tasks : x \in Arriving' => x \in Arriving,
         \A x, y \in Tasks : Before(ops', Enq(x), Enq(y)) => Before(ops, Enq(x), Enq(y)),
         \A x \in Tasks : Chained("enqueue", x)' => Chained("enqueue", x)
  PROVE  FifoStep
  <1>1. waiters \in Seq(Tasks) /\ Distinct(waiters)  BY DEF IInv, TypeOK, QueuesDistinct
  <1>2. /\ \A x, y : Before(waiters', x, y) => Before(waiters, x, y)
        /\ \A x : Queued(x)' => Queued(x)
        /\ \A y : y \in active' => y \in held \/ Queued(y)
        /\ \A x, y : Before(waiters, x, y) /\ y \in active' => y \in held \/ x \in active'
    BY <1>1, DrainInTurn DEF Queued
  <1>3. ASSUME NEW u \in Tasks, NEW t \in Tasks, Ahead(u, t), t \in active' PROVE u \in active'
    <2>1. t \notin active  BY <1>3, AheadIsStrict, Places
    <2>2. Queued(t)  BY <1>2, <1>3, <2>1
    <2>3. t \notin Arriving /\ t \notin Calling  BY <2>2, Places
    <2>4. Before(ops, Enq(u), Enq(t)) => Chained("enqueue", t)
      <3>1. ops \in Seq(OpType)  BY DEF IInv, TypeOK, OpType
      <3> QED BY <3>1, BeforeFacts DEF Chained, Enq
    <2>5. Before(waiters, u, t)  BY <1>3, <2>3, <2>4, Places DEF Ahead, Enq
    <2> QED BY <1>2, <1>3, <2>1, <2>5
  <1> QED BY <1>2, <1>3, LineStays

-----------------------------------------------------------------------------
(* Every step of the queue *)

LEMMA RegisterInTurn ==
  ASSUME IInv, IInv', NEW t \in Tasks, Register(t)
  PROVE  FifoStep
  <1>1. /\ UNCHANGED <<waiters, active, lock>> /\ phase[t] = "idle"
        /\ ops' = Append(ops, Op("enqueue", t))
    BY DEF Register, queueVars
  <1>2. t \notin InLine
    <2>1. ~Queued(t) /\ ~Chained("enqueue", t)  BY <1>1 DEF IInv, WaitersFit, OpsFit
    <2>2. t \notin Arriving  BY <1>1 DEF IInv, LockFits, Arriving, Enqueuing
    <2> QED BY <2>1, <2>2, Places DEF InLine
  <1>3. ops \in Seq(OpType) /\ Op("enqueue", t) \in OpType
    BY DEF IInv, TypeOK, OpType, OpKinds, Op
  <1>4. ASSUME NEW x \in Tasks, x # t PROVE Enq(x) # Op("enqueue", t)  BY <1>4 DEF Enq, Op
  <1>5. ASSUME NEW x \in Tasks, NEW y \in Tasks, y # t, Before(ops', Enq(x), Enq(y))
        PROVE  Before(ops, Enq(x), Enq(y))
    BY <1>1, <1>3, <1>4, <1>5, BeforeAppend
  <1>6. ASSUME NEW x \in Tasks, x # t, Chained("enqueue", x)' PROVE Chained("enqueue", x)
    BY <1>1, <1>3, <1>4, <1>6, AppendFacts DEF Chained, Enq
  <1>7. \A x \in Tasks : x \in Arriving' => x \in Arriving  BY <1>1 DEF Arriving
  <1> QED BY <1>1, <1>2, <1>5, <1>6, <1>7, LineIdle

\* enqueue begins: the first of the chain goes before the rest of it.
LEMMA EnqueueBeginInTurn ==
  ASSUME IInv, IInv', NEW t \in Tasks, EnqueueBegin(t)
  PROVE  FifoStep
  <1>1. /\ UNCHANGED <<waiters, active, activeCount>> /\ lock.step = "idle"
        /\ ops # <<>> /\ Head(ops) = Enq(t) /\ ops' = Tail(ops)
        /\ lock' = Free \/ lock' = [step |-> "list", task |-> t]
    BY DEF EnqueueBegin, Refuse, Free, Enq, queueVars
  <1>2. ops \in Seq(OpType)  BY DEF IInv, TypeOK, OpType
  <1>3. /\ \A x, y : Before(ops', x, y) => Before(ops, x, y)
        /\ \A y : InSeq(ops', y) => InSeq(ops, y) /\ Before(ops, Enq(t), y)
    BY <1>1, <1>2, BeforeTail, TailFacts
  <1>4. InSeq(ops, Enq(t))  BY <1>1, <1>2, TailFacts
  <1>5. t \in Calling  BY <1>4, Places DEF Chained, Enq
  <1>6. Arriving' \subseteq {t}  BY <1>1 DEF Arriving, Free
  <1>7. ASSUME NEW x \in Tasks, NEW y \in Tasks, Ahead(x, y)' PROVE Ahead(x, y)
    <2>1. ASSUME NEW z \in Tasks, z \in Calling' PROVE z \in Calling /\ Before(ops, Enq(t), Enq(z))
      <3>1. InSeq(ops', Enq(z))  BY <2>1 DEF Calling, Range, InSeq, Enq
      <3>2. InSeq(ops, Enq(z)) /\ Before(ops, Enq(t), Enq(z))  BY <1>3, <3>1
      <3> QED BY <3>2, Places DEF Chained, Enq
    <2>2. \/ Before(waiters, x, y)
          \/ x \in Range(waiters) /\ (y = t \/ y \in Calling')
          \/ x = t /\ y \in Calling'
          \/ Before(ops', Enq(x), Enq(y))
      BY <1>1, <1>6, <1>7 DEF Ahead, Enq
    <2> QED BY <1>3, <1>5, <2>1, <2>2 DEF Ahead, Enq
  <1>8. \A u, v \in Tasks : Ahead(u, v) => v \notin active  BY AheadIsStrict, Places
  <1> QED BY <1>1, <1>7, <1>8, FifoFollows

\* The awaits of enqueue leave the task where it stands, a refusal takes it out.
LEMMA EnqueueInTurn ==
  ASSUME IInv, IInv', NEW t \in Tasks, EnqueueList(t) \/ EnqueueReserve(t)
  PROVE  FifoStep
  <1>1. UNCHANGED <<waiters, active, ops>>
    BY DEF EnqueueList, EnqueueReserve, queueVars
  <1>2. /\ lock = [step |-> "list", task |-> t] \/ lock = [step |-> "reserve", task |-> t]
        /\ \/ lock' = Free
           \/ lock' = [step |-> "reserve", task |-> t]
           \/ lock' = [step |-> "persist", task |-> t]
    BY DEF EnqueueList, EnqueueReserve, Refuse, Holds
  <1>3. \A x \in Tasks : x \in Arriving' => x \in Arriving  BY <1>2 DEF Arriving, Free
  <1>4. \A x \in Tasks : Chained("enqueue", x)' => Chained("enqueue", x)  BY <1>1 DEF Chained
  <1> QED BY <1>1, <1>3, <1>4, LineIdle

\* The task that arrived becomes the last waiter, or leaves.
LEMMA EnqueuePersistInTurn ==
  ASSUME IInv, IInv', NEW t \in Tasks, EnqueuePersist(t)
  PROVE  FifoStep
  <1>1. lock = [step |-> "persist", task |-> t] /\ lock' = Free
    BY DEF EnqueuePersist, Refuse, Holds
  <1>2. t \in Arriving /\ Arriving' = {}  BY <1>1 DEF Arriving, Free
  <1>3. CASE UNCHANGED <<waiters, active, ops>>
    <2>1. \A x \in Tasks : Chained("enqueue", x)' => Chained("enqueue", x)  BY <1>3 DEF Chained
    <2> QED BY <1>2, <1>3, <2>1, LineIdle
  <1>4. CASE Join(t)
    <2> DEFINE line == Append(waiters, t)
    <2>1. waiters \in Seq(Tasks) /\ Distinct(waiters) /\ ~Queued(t) /\ t \notin active
      BY <1>2, Places DEF IInv, TypeOK, QueuesDistinct, InLine
    <2>2. /\ line \in Seq(Tasks) /\ Distinct(line)
          /\ \A x : InSeq(line, x) <=> Queued(x) \/ x = t
      BY <2>1, AppendFacts DEF Queued
    <2>3. \A x, y : Before(line, x, y) <=> Before(waiters, x, y) \/ (Queued(x) /\ y = t)
      BY <2>1, BeforeAppend DEF Queued
    <2>4. /\ \A x, y : Before(waiters', x, y) => Before(line, x, y)
          /\ \A x : Queued(x)' => InSeq(line, x)
          /\ \A y : y \in active' => y \in active \/ InSeq(line, y)
          /\ \A x, y : Before(line, x, y) /\ y \in active' => y \in active \/ x \in active'
      <3> HIDE DEF line
      <3>1. CASE waiters' = line /\ UNCHANGED <<active, activeCount>>
        BY <3>1 DEF Queued
      <3>2. CASE Drain(line, active, activeCount, [phase EXCEPT ![t] = "waiting"])
        <4>1. activeCount \in Nat  BY DEF IInv, TypeOK
        <4> QED BY <2>2, <3>2, <4>1, DrainInTurn
      <3> QED BY <1>4, <3>1, <3>2 DEF Join, line
    <2> HIDE DEF line
    <2>5. /\ \A x, y \in Tasks : Before(ops', Enq(x), Enq(y)) => Before(ops, Enq(x), Enq(y))
          /\ \A x \in Tasks : Chained("enqueue", x)' => Chained("enqueue", x)
      <3>1. "cancel" \in OpKinds /\ "cancel" # "enqueue"  BY DEF OpKinds
      <3>2. ops' = ops \/ ops' = Append(ops, Op("cancel", t))  BY <1>4 DEF Join
      <3> QED BY <3>1, <3>2, ChainKeeps
    <2>6. ASSUME NEW x \in Tasks, NEW y \in Tasks, Ahead(x, y)' PROVE Ahead(x, y)
      <3>1. x \in Range(waiters)' => x \in Range(waiters) \/ x = t
        <4>1. x \in Range(waiters)' <=> Queued(x)'  BY DEF Range, Queued, InSeq
        <4> QED BY <2>2, <2>4, <4>1, Places
      <3>2. y \in Calling' => y \in Calling
        <4>1. y \in Calling' <=> Chained("enqueue", y)'  BY DEF Range, Chained, InSeq, Calling
        <4> QED BY <2>5, <4>1, Places
      <3>3. \/ Before(waiters', x, y)
            \/ x \in Range(waiters)' /\ y \in Calling'
            \/ Before(ops', Enq(x), Enq(y))
        BY <1>2, <2>6 DEF Ahead, Enq
      <3>4. Before(waiters', x, y) => Before(waiters, x, y) \/ (x \in Range(waiters) /\ y = t)
        BY <2>3, <2>4, Places
      <3> QED BY <1>2, <2>5, <3>1, <3>2, <3>3, <3>4 DEF Ahead, Enq
    <2>7. ASSUME NEW u \in Tasks, NEW v \in Tasks, Ahead(u, v), v \in active' PROVE u \in active'
      <3>1. v \notin active  BY <2>7, AheadIsStrict, Places
      <3>2. Queued(v) \/ v = t  BY <2>2, <2>4, <2>7, <3>1
      <3>3. v \notin Calling /\ (v \in Arriving => v = t) /\ (Queued(v) => v \notin Arriving)
        BY <1>1, <1>2, <3>2, Places DEF Arriving
      <3>4. Before(ops, Enq(u), Enq(v)) => Chained("enqueue", v)
        <4>1. ops \in Seq(OpType)  BY DEF IInv, TypeOK, OpType
        <4> QED BY <4>1, BeforeFacts DEF Chained, Enq
      <3>5. Before(waiters, u, v) \/ (Queued(u) /\ v = t)
        BY <2>7, <3>3, <3>4, Places DEF Ahead, Enq
      <3>6. Before(line, u, v)  BY <2>3, <3>5
      <3> QED BY <2>4, <2>7, <3>1, <3>6
    <2> QED BY <2>6, <2>7, FifoFollows
  <1> QED BY <1>3, <1>4 DEF EnqueuePersist, queueVars

\* A cancellation takes one task out of the line.
LEMMA CancelBeginInTurn ==
  ASSUME IInv, IInv', NEW t \in Tasks, CancelBegin(t)
  PROVE  FifoStep
  <1>1. /\ active' = active /\ lock.step = "idle" /\ ops # <<>> /\ ops' = Tail(ops)
        /\ lock' = lock \/ lock'.step = "cancelWrite"
    BY DEF CancelBegin, Free
  <1>2. "cancel" \in OpKinds /\ "cancel" # "enqueue"  BY DEF OpKinds
  <1>3. /\ \A x, y \in Tasks : Before(ops', Enq(x), Enq(y)) => Before(ops, Enq(x), Enq(y))
        /\ \A x \in Tasks : Chained("enqueue", x)' => Chained("enqueue", x)
    BY <1>1, <1>2, ChainKeeps
  <1>4. \A x \in Tasks : x \in Arriving' => x \in Arriving  BY <1>1 DEF Arriving
  <1>5. waiters \in Seq(Tasks) /\ Distinct(waiters)  BY DEF IInv, TypeOK, QueuesDistinct
  <1>6. /\ \A x, y \in Tasks : Before(waiters', x, y) => Before(waiters, x, y)
        /\ \A x \in Tasks : Queued(x)' => Queued(x)
    <2>1. CASE waiters' = waiters  BY <2>1 DEF Queued
    <2>2. CASE \E i \in DOMAIN waiters : waiters' = RemoveAt(waiters, i)
      BY <1>5, <2>2, BeforeRemove, RemoveFacts DEF Queued
    <2> QED BY <2>1, <2>2 DEF CancelBegin
  <1>7. \A u, v \in Tasks : Ahead(u, v) => v \notin active  BY AheadIsStrict, Places
  <1> QED BY <1>1, <1>3, <1>4, <1>6, <1>7, LineStays

LEMMA CancelWriteInTurn ==
  ASSUME IInv, IInv', NEW t \in Tasks, CancelWrite(t)
  PROVE  FifoStep
  <1>1. /\ lock' = Free /\ ops' = ops
        /\ Drain(waiters, active, activeCount, [phase EXCEPT ![t] = "done"])
    BY DEF CancelWrite
  <1>2. \A x \in Tasks : x \in Arriving' => x \in Arriving  BY <1>1 DEF Arriving, Free
  <1>3. \A x \in Tasks : Chained("enqueue", x)' => Chained("enqueue", x)  BY <1>1 DEF Chained
  <1>4. activeCount \in Nat  BY DEF IInv, TypeOK
  <1> QED BY <1>1, <1>2, <1>3, <1>4, LineDrained

LEMMA ReleaseInTurn ==
  ASSUME IInv, IInv', NEW t \in Tasks, Release(t)
  PROVE  FifoStep
  <1>1. /\ lock' = lock /\ ops # <<>> /\ ops' = Tail(ops) /\ t \in active
        /\ Drain(waiters, active \ {t}, activeCount - 1, [phase EXCEPT ![t] = "done"])
    BY DEF Release
  <1>2. "release" \in OpKinds /\ "release" # "enqueue"  BY DEF OpKinds
  <1>3. /\ \A x, y \in Tasks : Before(ops', Enq(x), Enq(y)) => Before(ops, Enq(x), Enq(y))
        /\ \A x \in Tasks : Chained("enqueue", x)' => Chained("enqueue", x)
    BY <1>1, <1>2, ChainKeeps
  <1>4. \A x \in Tasks : x \in Arriving' => x \in Arriving  BY <1>1 DEF Arriving
  <1>5. activeCount - 1 \in Nat
    <2>1. IsFiniteSet(active)  BY FS_Subset, TasksAssumption DEF IInv, TypeOK
    <2>2. Cardinality(active) # 0  BY <1>1, <2>1, FS_EmptySet
    <2>3. activeCount \in Nat /\ activeCount = Cardinality(active)  BY DEF IInv, TypeOK, ActiveLimit
    <2> QED BY <2>2, <2>3
  <1> QED BY <1>1, <1>3, <1>4, <1>5, LineDrained

LEMMA StartInTurn ==
  ASSUME IInv, IInv', NEW t \in Tasks, StartBegin(t) \/ StartWrite(t)
  PROVE  FifoStep
  <1>1. UNCHANGED <<waiters, active>>  BY DEF StartBegin, StartWrite, queueVars
  <1>2. (ops # <<>> /\ ops' = Tail(ops)) \/ ops' = ops  BY DEF StartBegin, StartWrite
  <1>3. "start" \in OpKinds /\ "start" # "enqueue"  BY DEF OpKinds
  <1>4. /\ \A x, y \in Tasks : Before(ops', Enq(x), Enq(y)) => Before(ops, Enq(x), Enq(y))
        /\ \A x \in Tasks : Chained("enqueue", x)' => Chained("enqueue", x)
    BY <1>2, <1>3, ChainKeeps
  <1>5. lock'.step = "startWrite" \/ lock' = Free  BY DEF StartBegin, StartWrite
  <1>6. \A x \in Tasks : x \in Arriving' => x \in Arriving  BY <1>5 DEF Arriving, Free
  <1> QED BY <1>1, <1>4, <1>6, LineIdle

\* Everything outside the lock chains at most a cancellation, a start or a release.
LEMMA OutsideInTurn ==
  ASSUME IInv, IInv', NEW t \in Tasks, ClientStep(t) \/ TimerStep(t) \/ Abort(t)
  PROVE  FifoStep
  <1>1. UNCHANGED <<waiters, active, lock>>
    BY DEF ClientStep, TimerStep, Abort, Execute, Run, RunnerReturns, Finalize, Expire, AttemptTimer, ExecutionTimer, queueVars
  <1>2. \/ ops' = ops
        \/ \E k \in OpKinds : k # "enqueue" /\ ops' = Append(ops, Op(k, t))
    BY DEF ClientStep, TimerStep, Abort, Execute, Run, RunnerReturns, Finalize, Expire, AttemptTimer, ExecutionTimer,
           ClaimAttempt, OpKinds
  <1>3. "start" \in OpKinds /\ "start" # "enqueue"  BY DEF OpKinds
  <1>4. /\ \A x, y \in Tasks : Before(ops', Enq(x), Enq(y)) => Before(ops, Enq(x), Enq(y))
        /\ \A x \in Tasks : Chained("enqueue", x)' => Chained("enqueue", x)
    <2>1. CASE ops' = ops  BY <1>3, <2>1, ChainKeeps
    <2>2. CASE \E k \in OpKinds : k # "enqueue" /\ ops' = Append(ops, Op(k, t))
      BY <2>2, ChainKeeps
    <2> QED BY <1>2, <2>1, <2>2
  <1>5. \A x \in Tasks : x \in Arriving' => x \in Arriving  BY <1>1 DEF Arriving
  <1> QED BY <1>1, <1>4, <1>5, LineIdle

LEMMA RestInTurn ==
  ASSUME IInv, IInv', Recovery \/ Crash \/ UNCHANGED vars
  PROVE  FifoStep
  <1>1. CASE Crash
    <2>1. waiters' = <<>> /\ active' = {} /\ ops' = <<>> /\ lock' = Free  BY <1>1 DEF Crash
    <2>2. \A x, y : ~Ahead(x, y)'
      BY <2>1 DEF Ahead, Before, Arriving, Calling, Free, Range
    <2> QED BY <2>1, <2>2, FifoFollows
  <1>2. CASE Recovery \/ UNCHANGED vars
    <2>1. UNCHANGED <<waiters, active, ops, lock>>
      BY <1>2 DEF Recovery, Initialize, Initialized, Reconcile, queueVars, vars
    <2>2. \A x \in Tasks : x \in Arriving' => x \in Arriving  BY <2>1 DEF Arriving
    <2>3. \A x \in Tasks : Chained("enqueue", x)' => Chained("enqueue", x)  BY <2>1 DEF Chained
    <2> QED BY <2>1, <2>2, <2>3, LineIdle
  <1> QED BY <1>1, <1>2

LEMMA NextInTurn ==
  ASSUME IInv, [Next]_vars
  PROVE  FifoStep
  <1>1. IInv'  BY NextKeeps, StutterKeeps
  <1>2. ASSUME NEW t \in Tasks, QueueStep(t) PROVE FifoStep
    BY <1>1, <1>2, EnqueueBeginInTurn, EnqueueInTurn, EnqueuePersistInTurn, CancelBeginInTurn,
       CancelWriteInTurn, ReleaseInTurn, StartInTurn DEF QueueStep
  <1>3. ASSUME NEW t \in Tasks, Register(t) \/ ClientStep(t) \/ TimerStep(t) \/ Abort(t) PROVE FifoStep
    BY <1>1, <1>3, RegisterInTurn, OutsideInTurn
  <1>4. CASE Recovery \/ Crash \/ UNCHANGED vars  BY <1>1, <1>4, RestInTurn
  <1> QED BY <1>2, <1>3, <1>4 DEF Next

\* Admission is strictly first in, first out in the order of the calls to
\* register, whatever the awaits of enqueue and the cancellations do.
THEOREM AdmissionIsFifo == Spec => FifoAdmission
  <1>1. IInv /\ [Next]_vars => [FifoStep]_vars  BY NextInTurn
  <1>2. IInv /\ [Next]_vars =>
          [\A t, u \in Tasks : Ahead(u, t) =>
             /\ ~Ahead(t, u)'
             /\ t \in active' => u \notin InLine']_vars
    BY <1>1 DEF FifoStep
  <1> QED BY <1>2, Invariance, PTL DEF Spec, FifoAdmission

-----------------------------------------------------------------------------
(* What the store says of a task is true and final, in every interleaving   *)
(* and across any number of crashes: a second inductive invariant, beside   *)
(* IInv, about records, results and reconciliation.                         *)

\* Where a task is that no step of this life concerns any more, or not yet.
Quiet == {"idle", "done", "lost"}

\* Where a task is whose record is about to be written.
Writing == {"registering", "cancelling", "starting", "finalizing"}

RecordFits(t) ==
  /\ phase[t] = "idle" => disk[t].status = "absent"
  /\ disk[t].status \in Terminal => phase[t] \in {"releasing", "done", "lost"}
  /\ result[t] \in Terminal => disk[t].status = result[t]
  /\ phase[t] = "lost" /\ disk[t].status \in Nonterminal =>
       mode = "down" \/ (mode = "recovering" /\ t \in stale)
  /\ t \in stale => mode = "recovering" /\ disk[t].status \in Nonterminal
  /\ mode # "up" => phase[t] \in Quiet

RecordsFit == \A t \in Tasks : RecordFits(t)

-----------------------------------------------------------------------------
(* What the steps of this life of the process do to one record *)

\* A record changes only while its task is at a write, and turns terminal only
\* as its task leaves the queue or begins to release; a result is an error, or
\* what was written in the same step; a task never comes back.
Moves(u) ==
  /\ disk'[u] # disk[u] =>
       /\ phase[u] \in Writing
       /\ disk'[u].status \in Terminal => phase'[u] \in {"releasing", "done"}
  /\ result'[u] # result[u] => result'[u] \in {"error", disk'[u].status}
  /\ phase'[u] # phase[u] =>
       /\ phase[u] \notin {"done", "lost"} /\ phase'[u] \notin {"idle", "lost"}
       /\ phase[u] = "idle" => mode = "up"
       /\ phase[u] = "releasing" => phase'[u] = "done"

MovesAll == UNCHANGED <<mode, stale>> /\ \A u \in Tasks : Moves(u)

\* Whoever drain admits was in the line it is given.
LEMMA DrainMoves ==
  ASSUME NEW ws \in Seq(Tasks), NEW held, NEW count \in Nat, NEW ph, Drain(ws, held, count, ph),
         NEW u \in Tasks
  PROVE  phase'[u] = ph[u] \/ (phase'[u] = "admitted" /\ InSeq(ws, u))
  <1> DEFINE n == IF FreeSlots(count) < Len(ws) THEN FreeSlots(count) ELSE Len(ws)
  <1>1. n \in 0..Len(ws)  BY LimitsAssumption DEF FreeSlots
  <1>2. phase' = [t \in Tasks |-> IF t \in {ws[i] : i \in 1..n} THEN "admitted" ELSE ph[t]]
    BY DEF Drain, OldestFirst
  <1> HIDE DEF n
  <1>3. CASE u \in {ws[i] : i \in 1..n}
    <2>1. PICK i \in 1..n : u = ws[i]  BY <1>3
    <2>2. i \in 1..Len(ws)  BY <1>1
    <2>3. InSeq(ws, u)  BY <2>1, <2>2 DEF InSeq
    <2> QED BY <1>2, <1>3, <2>3
  <1>4. CASE u \notin {ws[i] : i \in 1..n}  BY <1>2, <1>4
  <1> QED BY <1>3, <1>4

\* enqueue gives up before it wrote anything.
LEMMA RefuseMoves ==
  ASSUME TypeOK, NEW t \in Tasks, phase[t] = "registering", Refuse(t), UNCHANGED <<disk, mode, stale>>
  PROVE  MovesAll
  BY DEF Refuse, TypeOK, MovesAll, Moves

\* A new task has no record yet: nothing is written.
LEMMA RegisterMoves == ASSUME IInv, NEW t \in Tasks, Register(t) PROVE MovesAll
  BY DEF IInv, TypeOK, Register, clientVars, systemVars, MovesAll, Moves

\* enqueue up to its write changes at most the phase of its own task.
LEMMA EnqueueMoves ==
  ASSUME IInv, NEW t \in Tasks, EnqueueBegin(t) \/ EnqueueList(t) \/ EnqueueReserve(t)
  PROVE  MovesAll
  <1>1. phase[t] = "registering"
    <2>1. CASE EnqueueBegin(t)
      <3>1. Chained("enqueue", t)  
        BY <2>1, OpsTail, "enqueue" \in OpKinds DEF EnqueueBegin, IInv, TypeOK, QueuesDistinct, OpKinds, OpType
      <3> QED BY <3>1 DEF IInv, OpsFit
    <2>2. CASE EnqueueList(t) \/ EnqueueReserve(t)
      BY <2>2 DEF EnqueueList, EnqueueReserve, Holds, IInv, LockFits, Enqueuing
    <2> QED BY <2>1, <2>2
  <1>2. UNCHANGED <<disk, mode, stale>>
    BY DEF EnqueueBegin, EnqueueList, EnqueueReserve, systemVars
  <1>3. Refuse(t) \/ UNCHANGED <<phase, result>>
    BY DEF EnqueueBegin, EnqueueList, EnqueueReserve
  <1> QED BY <1>1, <1>2, <1>3, RefuseMoves DEF IInv, MovesAll, Moves

\* The queued record is written while its task registers, and is not terminal.
LEMMA EnqueuePersistMoves ==
  ASSUME IInv, NEW t \in Tasks, EnqueuePersist(t)
  PROVE  MovesAll
  <1>1. phase[t] = "registering"
    BY DEF EnqueuePersist, Holds, IInv, LockFits, Enqueuing
  <1>2. UNCHANGED <<mode, stale>>  BY DEF EnqueuePersist, systemVars
  <1>3. CASE Refuse(t) /\ UNCHANGED disk
    BY <1>1, <1>2, <1>3, RefuseMoves DEF IInv
  <1>4. CASE Join(t) /\ disk' = [disk EXCEPT ![t] = [status |-> "queued", started |-> FALSE]]
             /\ UNCHANGED result
    <2>1. ASSUME NEW u \in Tasks
          PROVE  phase'[u] = phase[u] \/ (phase[u] \in {"registering", "waiting"} /\ phase'[u] \in {"waiting", "admitted"})
      <3>1. CASE phase' = [phase EXCEPT ![t] = "waiting"]
        BY <1>1, <3>1 DEF IInv, TypeOK
      <3>2. CASE Drain(Append(waiters, t), active, activeCount, [phase EXCEPT ![t] = "waiting"])
        <4> DEFINE ph == [phase EXCEPT ![t] = "waiting"]
                   line == Append(waiters, t)
        <4>1. waiters \in Seq(Tasks) /\ activeCount \in Nat  BY DEF IInv, TypeOK
        <4>2. line \in Seq(Tasks) /\ (InSeq(line, u) => u = t \/ Queued(u))
          BY <4>1, AppendFacts DEF Queued
        <4>3. ph[u] = IF u = t THEN "waiting" ELSE phase[u]  BY DEF IInv, TypeOK
        <4>4. Drain(line, active, activeCount, ph)  BY <3>2
        <4> HIDE DEF ph, line
        <4>5. phase'[u] = ph[u] \/ (phase'[u] = "admitted" /\ InSeq(line, u))
          BY <4>1, <4>2, <4>4, DrainMoves
        <4>6. Queued(u) => phase[u] = "waiting"  BY DEF IInv, WaitersFit
        <4> QED BY <1>1, <4>2, <4>3, <4>5, <4>6
      <3> QED BY <1>4, <3>1, <3>2 DEF Join
    <2>2. ASSUME NEW u \in Tasks
          PROVE  disk'[u] # disk[u] => phase[u] \in Writing /\ disk'[u].status \notin Terminal
      <3>1. CASE u = t
        <4> DEFINE r == [status |-> "queued", started |-> FALSE]
        <4>1. disk'[t] = r  BY <1>4 DEF IInv, TypeOK
        <4>2. r.status = "queued"  OBVIOUS
        <4> QED BY <1>1, <3>1, <4>1, <4>2 DEF Writing, Terminal
      <3>2. CASE u # t  BY <1>4, <3>2 DEF IInv, TypeOK
      <3> QED BY <3>1, <3>2
    <2> QED BY <1>2, <1>4, <2>1, <2>2 DEF MovesAll, Moves
  <1> QED BY <1>3, <1>4 DEF EnqueuePersist

\* A cancellation moves only a task that still waits.
LEMMA CancelBeginMoves ==
  ASSUME IInv, NEW t \in Tasks, CancelBegin(t)
  PROVE  MovesAll
  <1>1. UNCHANGED <<disk, result, mode, stale>>  BY DEF CancelBegin, clientVars, systemVars
  <1>2. \/ phase' = phase
        \/ phase[t] = "waiting" /\ phase' = [phase EXCEPT ![t] = "cancelling"]
    <2>1. StillWaiting(t) => phase[t] = "waiting"
      BY DEF StillWaiting, IInv, WaitersFit, Queued, InSeq, Range
    <2> QED BY <2>1 DEF CancelBegin
  <1> QED BY <1>1, <1>2 DEF IInv, TypeOK, MovesAll, Moves

\* Draining the line after t has left it.
LEMMA LeaveMoves ==
  ASSUME IInv, NEW t \in Tasks, NEW held, NEW count \in Nat,
         Drain(waiters, held, count, [phase EXCEPT ![t] = "done"]), NEW u \in Tasks
  PROVE  \/ phase[u] = "waiting" /\ phase'[u] = "admitted"
         \/ phase'[u] = IF u = t THEN "done" ELSE phase[u]
  <1> DEFINE ph == [phase EXCEPT ![t] = "done"]
  <1>1. waiters \in Seq(Tasks)  BY DEF IInv, TypeOK
  <1>2. ph[u] = IF u = t THEN "done" ELSE phase[u]  BY DEF IInv, TypeOK
  <1> HIDE DEF ph
  <1>3. phase'[u] = ph[u] \/ (phase'[u] = "admitted" /\ InSeq(waiters, u))
    BY <1>1, DrainMoves DEF ph
  <1>4. InSeq(waiters, u) => phase[u] = "waiting"  BY DEF IInv, WaitersFit, Queued
  <1> QED BY <1>2, <1>3, <1>4

\* The cancelled record is written by the task that leaves the queue with it.
LEMMA CancelWriteMoves ==
  ASSUME IInv, NEW t \in Tasks, CancelWrite(t)
  PROVE  MovesAll
  <1>1. phase[t] = "cancelling"  BY DEF CancelWrite, Holds, IInv, LockFits
  <1>2. /\ UNCHANGED <<mode, stale>> /\ result' = [result EXCEPT ![t] = "error"]
        /\ \/ disk' = disk
           \/ disk' = [disk EXCEPT ![t] = [status |-> claim[t], started |-> FALSE]]
        /\ Drain(waiters, active, activeCount, [phase EXCEPT ![t] = "done"])
    BY DEF CancelWrite, systemVars
  <1>3. activeCount \in Nat  BY DEF IInv, TypeOK
  <1>4. ASSUME NEW u \in Tasks PROVE Moves(u)
    <2>1. u # t => disk'[u] = disk[u] /\ result'[u] = result[u]  BY <1>2 DEF IInv, TypeOK
    <2>2. result'[t] = "error"  BY <1>2 DEF IInv, TypeOK
    <2>3. \/ phase[u] = "waiting" /\ phase'[u] = "admitted"
          \/ phase'[u] = IF u = t THEN "done" ELSE phase[u]
      BY <1>2, <1>3, LeaveMoves
    <2> QED BY <1>1, <2>1, <2>2, <2>3 DEF Moves, Writing
  <1> QED BY <1>2, <1>4 DEF MovesAll

\* release ends its task and writes nothing.
LEMMA ReleaseMoves ==
  ASSUME IInv, NEW t \in Tasks, Release(t)
  PROVE  MovesAll
  <1>1. phase[t] = "releasing"
    <2>1. Chained("release", t)
      BY OpsTail, "release" \in OpKinds DEF Release, IInv, TypeOK, QueuesDistinct, OpKinds, OpType
    <2> QED BY <2>1 DEF IInv, OpsFit
  <1>2. /\ UNCHANGED <<disk, result, mode, stale>>
        /\ Drain(waiters, active \ {t}, activeCount - 1, [phase EXCEPT ![t] = "done"])
        /\ t \in active
    BY DEF Release, clientVars, systemVars
  <1>3. activeCount - 1 \in Nat
    <2>1. IsFiniteSet(active)  BY FS_Subset, TasksAssumption DEF IInv, TypeOK
    <2>2. activeCount = Cardinality(active) /\ activeCount \in Nat  BY DEF IInv, ActiveLimit, TypeOK
    <2>3. activeCount # 0  BY <1>2, <2>1, <2>2, FS_EmptySet
    <2> QED BY <2>2, <2>3
  <1>4. ASSUME NEW u \in Tasks PROVE Moves(u)
    <2>1. \/ phase[u] = "waiting" /\ phase'[u] = "admitted"
          \/ phase'[u] = IF u = t THEN "done" ELSE phase[u]
      BY <1>2, <1>3, LeaveMoves
    <2> QED BY <1>1, <1>2, <2>1 DEF Moves
  <1> QED BY <1>2, <1>4 DEF MovesAll

\* start writes a running record, or gives up before it wrote.
LEMMA StartMoves ==
  ASSUME IInv, NEW t \in Tasks, StartBegin(t) \/ StartWrite(t)
  PROVE  MovesAll
  <1>1. CASE StartBegin(t)
    BY <1>1 DEF StartBegin, clientVars, systemVars, MovesAll, Moves
  <1>2. CASE StartWrite(t)
    <2>1. phase[t] = "starting"  BY <1>2 DEF StartWrite, Holds, IInv, LockFits
    <2> DEFINE r == [status |-> "running", started |-> TRUE]
    <2>2. /\ UNCHANGED <<result, mode, stale>>
          /\ disk' = disk \/ disk' = [disk EXCEPT ![t] = r]
          /\ phase' = [phase EXCEPT ![t] = "started"] \/ phase' = [phase EXCEPT ![t] = "finalizing"]
      BY <1>2 DEF StartWrite, systemVars
    <2>3. r.status \notin Terminal  BY DEF Terminal
    <2> HIDE DEF r
    <2>4. ASSUME NEW u \in Tasks PROVE Moves(u)
      <3>1. u # t => disk'[u] = disk[u] /\ phase'[u] = phase[u]  BY <2>2 DEF IInv, TypeOK
      <3>2. disk'[t] = disk[t] \/ disk'[t] = r  BY <2>2 DEF IInv, TypeOK
      <3>3. phase'[t] \in {"started", "finalizing"}  BY <2>2 DEF IInv, TypeOK
      <3> QED BY <2>1, <2>2, <2>3, <3>1, <3>2, <3>3 DEF Moves, Writing
    <2> QED BY <2>2, <2>4 DEF MovesAll
  <1> QED BY <1>1, <1>2

\* What the runner does between two writes changes no record.
LEMMA ClientMoves ==
  ASSUME IInv, NEW t \in Tasks, Execute(t) \/ Run(t) \/ RunnerReturns(t)
  PROVE  MovesAll
  <1>1. /\ UNCHANGED <<disk, result, mode, stale>>
        /\ phase[t] \in {"admitted", "started", "running"}
        /\ \/ phase' = [phase EXCEPT ![t] = "finalizing"]
           \/ phase' = [phase EXCEPT ![t] = "starting"]
           \/ phase' = [phase EXCEPT ![t] = "running"]
    BY DEF Execute, Run, RunnerReturns, Conclude, systemVars
  <1> QED BY <1>1 DEF IInv, TypeOK, MovesAll, Moves

\* The result of a task is the record written in the same step, or an error.
LEMMA FinalizeMoves ==
  ASSUME IInv, NEW t \in Tasks, Finalize(t)
  PROVE  MovesAll
  <1>1. /\ phase[t] = "finalizing" /\ phase' = [phase EXCEPT ![t] = "releasing"]
        /\ UNCHANGED <<mode, stale>>
        /\ \/ /\ disk' = [disk EXCEPT ![t] = outcome[t]]
              /\ result' = [result EXCEPT ![t] = IF outcome[t].started THEN outcome[t].status ELSE "error"]
           \/ disk' = disk /\ result' = [result EXCEPT ![t] = "error"]
    BY DEF Finalize, systemVars
  <1>2. ASSUME NEW u \in Tasks PROVE Moves(u)
    <2>1. u # t => disk'[u] = disk[u] /\ phase'[u] = phase[u] /\ result'[u] = result[u]
      BY <1>1 DEF IInv, TypeOK
    <2>2. phase'[t] = "releasing"  BY <1>1 DEF IInv, TypeOK
    <2>3. result'[t] \in {"error", disk'[t].status}  BY <1>1 DEF IInv, TypeOK
    <2> QED BY <1>1, <2>1, <2>2, <2>3 DEF Moves, Writing
  <1> QED BY <1>1, <1>2 DEF MovesAll

\* Aborts and timers change no record, result or phase.
LEMMA SignalMoves ==
  ASSUME IInv, NEW t \in Tasks, Abort(t) \/ TimerStep(t)
  PROVE  MovesAll
  BY DEF Abort, TimerStep, Expire, AttemptTimer, ExecutionTimer, systemVars, MovesAll, Moves

-----------------------------------------------------------------------------
(* The invariant is inductive *)

\* Such a step keeps what the records say, and rewrites no terminal one.
LEMMA MovesKeep ==
  ASSUME IInv, RecordsFit, MovesAll
  PROVE  /\ RecordsFit'
         /\ \A t \in Tasks : disk[t].status \in Terminal => disk'[t] = disk[t]
  <1>1. \A t \in Tasks : disk[t].status \in Terminal => disk'[t] = disk[t]
    BY DEF RecordsFit, RecordFits, MovesAll, Moves, Writing
  <1>2. ASSUME NEW t \in Tasks PROVE RecordFits(t)'
    <2>1. RecordFits(t) /\ Moves(t) /\ mode' = mode /\ stale' = stale
      BY DEF RecordsFit, MovesAll
    <2>2. disk'[t].status \in Terminal => phase'[t] \in {"releasing", "done", "lost"}
      BY <2>1 DEF RecordFits, Moves
    <2>3. result'[t] \in Terminal => disk'[t].status = result'[t]
      BY <1>1, <2>1 DEF RecordFits, Moves, Terminal
    <2>4. phase'[t] = "lost" /\ disk'[t].status \in Nonterminal =>
            mode' = "down" \/ (mode' = "recovering" /\ t \in stale')
      BY <2>1 DEF RecordFits, Moves, Writing
    <2>5. t \in stale' => mode' = "recovering" /\ disk'[t].status \in Nonterminal
      BY <2>1 DEF RecordFits, Moves, Quiet, Writing
    <2>6. mode' # "up" => phase'[t] \in Quiet
      BY <2>1 DEF RecordFits, Moves, Quiet
    <2>7. phase'[t] = "idle" => disk'[t].status = "absent"
      BY <2>1 DEF RecordFits, Moves, Writing
    <2> QED BY <2>2, <2>3, <2>4, <2>5, <2>6, <2>7 DEF RecordFits
  <1> QED BY <1>1, <1>2 DEF RecordsFit

\* initialize goes on, or the process dies.
LEMMA RestartKeeps ==
  ASSUME IInv, RecordsFit, Recovery \/ Crash
  PROVE  /\ RecordsFit'
         /\ \A t \in Tasks : disk[t].status \in Terminal => disk'[t] = disk[t]
  <1>1. CASE Crash
    <2>1. /\ UNCHANGED <<disk, result>> /\ mode' = "down" /\ stale' = {}
          /\ \A t \in Tasks : phase'[t] = IF phase[t] \in {"idle", "done"} THEN phase[t] ELSE "lost"
      BY <1>1 DEF Crash, clientVars
    <2> QED BY <2>1 DEF RecordsFit, RecordFits, Quiet
  <1>2. CASE Initialize
    BY <1>2 DEF Initialize, Unfinished, clientVars, RecordsFit, RecordFits
  <1>3. CASE Initialized
    BY <1>3 DEF Initialized, clientVars, RecordsFit, RecordFits
  <1>4. ASSUME NEW t \in Tasks, Reconcile(t)
        PROVE  /\ RecordsFit'
               /\ \A u \in Tasks : disk[u].status \in Terminal => disk'[u] = disk[u]
    <2>1. mode = "recovering" /\ t \in stale /\ UNCHANGED <<phase, result>>
      BY <1>4 DEF Reconcile, clientVars
    <2>2. disk[t].status \in Nonterminal  BY <2>1 DEF RecordsFit, RecordFits
    <2>3. disk[t].status \notin Terminal  BY <2>2 DEF Nonterminal, Terminal
    <2>4. CASE disk' = disk /\ mode' = "down" /\ stale' = {}
      BY <2>1, <2>4 DEF RecordsFit, RecordFits
    <2>5. CASE disk' = [disk EXCEPT ![t].status = "interrupted"] /\ stale' = stale \ {t} /\ mode' = mode
      <3>1. disk'[t].status = "interrupted"
        <4>1. disk[t] \in Record  BY DEF IInv, TypeOK
        <4>2. disk'[t] = [disk[t] EXCEPT !.status = "interrupted"]  BY <2>5 DEF IInv, TypeOK
        <4> QED BY <4>1, <4>2 DEF Record
      <3>2. \A u \in Tasks : u # t => disk'[u] = disk[u]  BY <2>5 DEF IInv, TypeOK
      <3>3. phase[t] \in {"done", "lost"}
        <4>1. phase[t] \in Quiet  BY <2>1 DEF RecordsFit, RecordFits
        <4>2. phase[t] # "idle"  BY <2>2 DEF RecordsFit, RecordFits, Nonterminal
        <4> QED BY <4>1, <4>2 DEF Quiet
      <3>4. \A u \in Tasks : RecordFits(u)'
        BY <2>1, <2>3, <2>5, <3>1, <3>2, <3>3 DEF RecordsFit, RecordFits, Terminal, Nonterminal
      <3> QED BY <2>3, <3>2, <3>4 DEF RecordsFit
    <2> QED BY <1>4, <2>4, <2>5 DEF Reconcile
  <1> QED BY <1>1, <1>2, <1>3, <1>4 DEF Recovery

\* Every step keeps the invariant and rewrites no terminal record.
LEMMA StepKeeps ==
  ASSUME IInv, RecordsFit, [Next]_vars
  PROVE  /\ RecordsFit'
         /\ \A t \in Tasks : disk[t].status \in Terminal => disk'[t] = disk[t]
  <1>1. ASSUME NEW t \in Tasks, Register(t) \/ QueueStep(t) \/ ClientStep(t) \/ TimerStep(t) \/ Abort(t)
        PROVE  MovesAll
    BY <1>1, RegisterMoves, EnqueueMoves, EnqueuePersistMoves, CancelBeginMoves, CancelWriteMoves, ReleaseMoves,
       StartMoves, ClientMoves, FinalizeMoves, SignalMoves DEF QueueStep, ClientStep
  <1>2. CASE UNCHANGED vars  BY <1>2 DEF vars, RecordsFit, RecordFits
  <1> QED BY <1>1, <1>2, MovesKeep, RestartKeeps DEF Next

\* Both invariants hold in every reachable state.
THEOREM RecordInvariance == Spec => [](IInv /\ RecordsFit)
  <1>1. Init => IInv /\ RecordsFit
    <2>1. Init => RecordsFit
      BY DEF Init, Absent, RecordsFit, RecordFits, Terminal, Nonterminal, Quiet
    <2> QED BY <2>1, InitEstablishes
  <1>2. (IInv /\ RecordsFit) /\ [Next]_vars => (IInv /\ RecordsFit)'
    BY NextKeeps, StutterKeeps, StepKeeps
  <1> QED BY <1>1, <1>2, PTL DEF Spec

\* A terminal record is never rewritten: not by the cancellation that lost the
\* race with admission, not by a late start, not by reconciliation
\* (admission.ts, task-runtime.ts, task-access.ts).
THEOREM TerminalRecordsStay == Spec => TerminalIsFinal
  <1>1. (IInv /\ RecordsFit) /\ [Next]_vars =>
          [\A t \in Tasks : disk[t].status \in Terminal => disk'[t] = disk[t]]_vars
    BY StepKeeps
  <1> QED BY <1>1, RecordInvariance, PTL DEF Spec, TerminalIsFinal

\* What a caller was told of a finished run is what the store says from then
\* on, and after initialize no task of an earlier life reads as unfinished.
THEOREM StoreTellsTheTruth == Spec => []RestartTellsTheTruth
  <1>1. IInv /\ RecordsFit => RestartTellsTheTruth
    BY DEF RecordsFit, RecordFits, RestartTellsTheTruth
  <1> QED BY <1>1, RecordInvariance, PTL
=============================================================================

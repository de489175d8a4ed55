---------------------- MODULE InstallTransactionProofs ----------------------
(***************************************************************************)
(* The installation of the Blender integration, for any installers,        *)
(* targets, plans, edits, failures and deaths: one installer at a time has *)
(* the lock, an interrupted transaction is undone completely - up to a     *)
(* created directory whose removal was cut off, on which a conflict is     *)
(* reported -, what the user saved is kept, and a conflict is reported     *)
(* only where there is one.                                                *)
(*                                                                         *)
(* This holds for installers that follow one another, and for installers   *)
(* that overlap as long as two things do not happen, which the code does   *)
(* not exclude: a lock is renamed away that is not the stale one that was  *)
(* read, or a failed commit takes its lock again after another installer   *)
(* may have recovered its journal.                                         *)
(***************************************************************************)
EXTENDS InstallTransaction, TLAPS

Careful ==
  \A p \in Installers : (Reclaim(p) => Stale) /\ (Relock(p) => Owns(p) \/ ~overlapped)

-----------------------------------------------------------------------------
(* The invariant *)

Steps == {"idle", "ended", "dead", "relocking"} \cup Acquiring \cup Inside

States == {"none", "staged", "snapshotted", "activating", "active", "rolled_back", "recovery_conflict"}

Places == [Installers -> [Targets -> Contents]]

DiskTypes ==
  /\ live \in [Targets -> Contents] /\ temp \in [Targets -> {"absent", "new", "torn"}]
  /\ spare \in [Targets -> Contents]
  /\ displaced \in Places /\ backup \in Places /\ evidence \in Places

JournalTypes ==
  /\ status \in [Installers -> {"none", "active", "committed", "rolled_back", "recovery_conflict"}]
  /\ state \in [Installers -> [Targets -> States]] /\ pre \in Places
  /\ token \in [Installers -> Installers \cup {None}]

ControlTypes ==
  /\ lock \in [by : Installers, whole : BOOLEAN] \cup {None}
  /\ pc \in [Installers -> Steps] /\ at \in [Installers -> 0 .. Last]
  /\ of \in [Installers -> Installers]
  /\ tries \in [Installers -> 1 .. 2] /\ fromPost \subseteq Installers

UserTypes ==
  /\ plan \in Plans /\ edited \subseteq Targets /\ raced \subseteq edited /\ overlapped \in BOOLEAN
  /\ halved \subseteq Targets

Types == DiskTypes /\ JournalTypes /\ ControlTypes /\ UserTypes

\* Who works has the lock; who is about to reclaim a lock still finds it stale.
LockFits ==
  /\ \A p \in Installers :
       /\ pc[p] \in Inside => Owns(p)
       /\ pc[p] = "writing" => lock = [by |-> p, whole |-> FALSE]
       /\ ~overlapped /\ pc[p] = "reclaiming" => Stale
  /\ ~overlapped => \A p, q \in Installers : Alive(p) /\ Alive(q) => p = q

Unused(p) ==
  /\ status[p] = "none"
  /\ \A t \in Targets : /\ state[p][t] = "none" /\ displaced[p][t] = "absent"
                        /\ backup[p][t] = "absent" /\ evidence[p][t] = "absent"

\* Before it creates its transaction.
Ahead(p) ==
  \/ pc[p] \in {"idle", "recovering", "planning", "creating"} \cup Acquiring
  \/ pc[p] \in Undoing /\ of[p] # p

\* The transaction an installer is about.
OwnerFits(p) ==
  /\ Ahead(p) => Unused(p)
  /\ pc[p] \in Forward => of[p] = p /\ status[p] = "active" /\ token[p] = p
  /\ pc[p] = "relocking" => of[p] = p /\ (Owns(p) \/ ~overlapped => status[p] = "active")
  /\ pc[p] \in Undoing => status[of[p]] = "active"
  /\ pc[p] \in {"planning", "creating"} => Active = {}
  /\ pc[p] = "creating" => \A j \in Installers : status[j] # "committed"
  /\ pc[p] \in (Forward \cup Undoing) \ {"advancing"} => at[p] \in Targets

OneActive ==
  \A j, k \in Installers : status[j] = "active" =>
    (status[k] = "active" => j = k) /\ status[k] # "committed"

\* Where the journal of an installation says each target is.
Going(p, t) ==
  CASE pc[p] = "advancing" -> IF at[p] = 0 THEN "staged" ELSE IF t <= at[p] THEN "active" ELSE "snapshotted"
    [] pc[p] \in {"checking", "saving"} -> IF t < at[p] THEN "snapshotted" ELSE "staged"
    [] pc[p] = "beginning" -> IF t < at[p] THEN "active" ELSE "snapshotted"
    [] pc[p] \in {"committing", "sealing"} -> "active"
    [] OTHER -> IF t < at[p] THEN "active" ELSE IF t = at[p] THEN "activating" ELSE "snapshotted"

Closed == {"staged", "rolled_back", "recovery_conflict"}

JournalFits(p) ==
  /\ pc[p] \in Forward => \A t \in Targets : state[p][t] = Going(p, t)
  /\ pc[p] \in Undoing => \A t \in Targets :
       t > at[p] \/ pc[p] = "finishing" => state[of[p]][t] \in Closed
  /\ pc[p] \in Undoing \ {"rolling", "finishing"} => ~Untouched(state[of[p]][at[p]])

\* A target between its first and its expected content: the user left it alone.
Between(j, t) ==
  /\ live[t] \in {Original(t), Post(t), "absent"}
  /\ displaced[j][t] \in {"absent", "torn", Original(t)} /\ evidence[j][t] \in {"absent", "torn", Post(t)}
  /\ live[t] = "absent" /\ Original(t) # "absent" /\ Post(t) # "absent" =>
       /\ ~IsFile(t)
       /\ evidence[j][t] = Post(t) \/ (state[j][t] = "activating" /\ displaced[j][t] = Original(t))
  /\ live[t] = Post(t) /\ Post(t) # "absent" => evidence[j][t] = "absent"

\* What a recovery of the active transaction may find, whenever it begins.
DiskFits(j, t) ==
  /\ pre[j][t] = Original(t)
  /\ state[j][t] \notin {"none", "recovery_conflict"}
  /\ state[j][t] \in {"staged", "snapshotted"} =>
       live[t] = Original(t) /\ displaced[j][t] = "absent" /\ evidence[j][t] = "absent"
  /\ state[j][t] = "rolled_back" => live[t] = Original(t)
  /\ state[j][t] \in {"snapshotted", "activating", "active"} => backup[j][t] = Original(t)
  /\ state[j][t] \in {"activating", "active"} => Between(j, t)

\* ... or of a target that an earlier rollback of it has removed in part.
Broken(j, t) ==
  /\ t \in halved /\ pre[j][t] = "absent" /\ live[t] = "part"
  /\ state[j][t] \in {"activating", "active", "recovery_conflict"}

Drafting == {"copying", "rechecking", "displacing"}

\* What the installation itself knows of a target the user left alone.
ForwardFits(p, t) ==
  /\ pre[p][t] = Original(t)
  /\ displaced[p][t] \in {"absent", Original(t)} /\ evidence[p][t] = "absent"
  /\ state[p][t] = "active" => live[t] = Post(t)
  /\ at[p] = t =>
       /\ pc[p] \in Drafting => live[t] = Original(t) /\ displaced[p][t] = "absent"
       /\ pc[p] = "placing" =>
            IF Displaces(p, t) THEN live[t] = "absent" /\ displaced[p][t] = Original(t)
            ELSE live[t] = Original(t) /\ displaced[p][t] = "absent"
       /\ pc[p] \in {"clearing", "activated"} => live[t] = Post(t)

\* ... and a rollback.
UndoFits(p) ==
  LET t == at[p]
      j == of[p]
  IN /\ pc[p] = "puttingBack" => live[t] = "absent" /\ displaced[j][t] = Original(t)
     /\ pc[p] \in {"restoring", "retiring"} => live[t] = Post(t) \/ Retired(j, t)
     /\ pc[p] = "evicting" => live[t] = Post(t)
     /\ pc[p] = "returning" /\ ~IsFile(t) => live[t] = "absent"
     /\ pc[p] = "dismissing" \/ (pc[p] = "returning" /\ ~IsFile(t) /\ Post(t) # "absent") =>
          evidence[j][t] \in {"absent", Post(t)}
     /\ pc[p] \in {"dismissing", "settling"} => live[t] = Original(t) /\ pre[j][t] = Original(t)

\* The target at hand, whoever changed it.
StepFits(p) ==
  LET t == at[p]
      j == of[p]
  IN /\ pc[p] \in {"copying", "placing"} => Post(t) = "new"
     /\ pc[p] = "displacing" => Displaces(p, t)
     /\ pc[p] \in {"retiring", "evicting", "dismissing"} => pre[j][t] # "absent" /\ ~IsFile(t) /\ Post(t) # "absent"
     /\ pc[p] \in {"retiring", "evicting", "returning"} => pre[j][t] # "absent" /\ spare[t] = pre[j][t]
     /\ pc[p] = "evicting" => evidence[j][t] = "absent"

\* What the user saved before a check is in the backup, or not at the path.
MineAt(p) ==
  LET t == at[p]
      j == of[p]
      kept == live[t] # "mine" \/ t \in raced
  IN /\ pc[p] \in Forward => \A u \in Targets :
          /\ state[p][u] \in {"staged", "snapshotted"} => displaced[p][u] = "absent"
          /\ state[p][u] = "staged" => backup[p][u] = "absent"
     /\ pc[p] = "saving" /\ pre[p][t] = "mine" => live[t] = "mine"
     /\ pc[p] \in Drafting => displaced[p][t] = "absent"
     /\ pc[p] = "placing" /\ IsFile(t) => live[t] = pre[p][t] \/ t \in raced
     /\ pc[p] \in {"puttingBack", "restoring", "returning"} /\ IsFile(t) => kept
     /\ pc[p] = "restoring" /\ pre[j][t] = "absent" => kept

\* All an installer knows.
PlaceFits(p) ==
  /\ OwnerFits(p) /\ JournalFits(p) /\ StepFits(p) /\ MineAt(p)
  /\ pc[p] = "creating" => \A t \in Targets \ edited : pre[p][t] = Original(t)
  /\ pc[p] \in Forward => \A t \in Targets \ edited : ForwardFits(p, t)
  /\ pc[p] \in Undoing /\ at[p] \notin edited => UndoFits(p)

MineSaved(j, t) ==
  pre[j][t] = "mine" => t \in edited /\ (state[j][t] \notin {"none", "staged"} => backup[j][t] = "mine")

\* Target t: what the user saved, and what he left alone.
Kept(t) ==
  t \in edited \ raced =>
    live[t] = "mine" \/ \E j \in Installers : "mine" \in {displaced[j][t], evidence[j][t], backup[j][t]}

Own(t) == t \notin edited => live[t] # "mine" /\ spare[t] \in {"absent", "torn", Original(t)}

\* A directory that was removed in part: on it a conflict is reported, or will be.
Halved(t) ==
  /\ ~IsFile(t)
  /\ t \notin edited =>
       \E j \in Installers :
         state[j][t] = "recovery_conflict" \/ (status[j] = "active" /\ Broken(j, t))

Installed(t) ==
  live[t] = IF \E p \in Installers : status[p] = "committed" THEN Post(t) ELSE Original(t)

InstallInv ==
  /\ Types /\ LockFits /\ OneActive
  /\ \A p \in Installers : PlaceFits(p)
  /\ \A t \in Targets : Kept(t) /\ Own(t) /\ (t \in halved => Halved(t))
  /\ \A j \in Installers, t \in Targets :
       /\ MineSaved(j, t) /\ (state[j][t] = "recovery_conflict" => t \in edited \cup halved)
       /\ status[j] = "active" => state[j][t] # "none" /\ (t \notin edited => DiskFits(j, t) \/ Broken(j, t))
  /\ Active = {} => \A t \in Targets \ edited : Installed(t)

-----------------------------------------------------------------------------
(* What the invariant says of those who do not have the lock *)

LEMMA PlanFacts ==
  ASSUME Types, NEW t \in Targets
  PROVE  /\ Original(t) \in {"absent", "old", "part"} /\ Post(t) \in {"absent", "new"}
         /\ Original(t) # Post(t) /\ (t \in halved => Original(t) = "part")
  <1>1. plan \in Plan /\ ~(plan[t].original = "absent" /\ plan[t].post = "absent")
    BY InstallAssumption DEF Types, UserTypes
  <1>2. plan[t].original \in {"absent", "old"} /\ plan[t].post \in {"absent", "new"}
    BY <1>1 DEF Plan
  <1> QED BY <1>1, <1>2 DEF Original, Post

LEMMA LockFacts ==
  ASSUME InstallInv, NEW p \in Installers, pc[p] \in Inside
  PROVE  /\ lock = [by |-> p, whole |-> TRUE] /\ lock # None /\ ~Stale /\ Alive(p)
         /\ \A q \in Installers \ {p} :
              /\ ~Owns(q) /\ pc[q] \notin Inside /\ pc[q] # "writing"
              /\ Alive(q) => overlapped
  <1>1. lock = [by |-> p, whole |-> TRUE]  BY DEF InstallInv, LockFits, Owns
  <1>2. [by |-> p, whole |-> TRUE] # None
    <2>1. [by |-> p, whole |-> TRUE] \in [by : Installers, whole : BOOLEAN]  OBVIOUS
    <2> QED BY <2>1, InstallAssumption
  <1>3. Alive(p)  BY DEF Alive, Inside, Forward, Undoing
  <1>4. ~Stale  BY <1>1, <1>3 DEF Stale
  <1>5. ASSUME NEW q \in Installers \ {p}
        PROVE  /\ ~Owns(q) /\ pc[q] \notin Inside /\ pc[q] # "writing"
               /\ Alive(q) => overlapped
    <2>1. [by |-> p, whole |-> TRUE] # [by |-> q, whole |-> TRUE]
      <3>1. [by |-> p, whole |-> TRUE].by = p /\ [by |-> q, whole |-> TRUE].by = q  OBVIOUS
      <3> QED BY <3>1
    <2>2. ~Owns(q)  BY <1>1, <2>1 DEF Owns
    <2>3. pc[q] \notin Inside  BY <2>2 DEF InstallInv, LockFits
    <2>4. pc[q] # "writing"
      <3>1. [by |-> q, whole |-> FALSE].whole = FALSE /\ [by |-> p, whole |-> TRUE].whole = TRUE  OBVIOUS
      <3> QED BY <1>1, <3>1 DEF InstallInv, LockFits
    <2>5. Alive(q) => overlapped  BY <1>3 DEF InstallInv, LockFits, Types, UserTypes
    <2> QED BY <2>2, <2>3, <2>4, <2>5
  <1> QED BY <1>1, <1>2, <1>3, <1>4, <1>5

\* Nothing is expected of an installer that is outside, but that its transaction
\* is not begun, or not touched.
LEMMA OutsideFits ==
  ASSUME NEW q \in Installers, PlaceFits(q), pc[q] \notin Inside,
         pc'[q] = pc[q], of'[q] = of[q],
         Unused(q) => Unused(q)',
         pc[q] = "relocking" => (Owns(q)' \/ ~overlapped' => status'[q] = "active")
  PROVE  PlaceFits(q)'
  <1>1. pc'[q] \notin Forward \cup Undoing \cup {"planning", "creating"} /\ pc[q] \notin Undoing
    BY DEF Inside
  <1>2. OwnerFits(q)'
    <2>1. Ahead(q)' => Ahead(q)  BY <1>1 DEF Ahead
    <2> QED BY <1>1, <2>1 DEF PlaceFits, OwnerFits
  <1>3. JournalFits(q)'  BY <1>1 DEF JournalFits
  <1>4. pc'[q] \notin {"copying", "placing", "displacing", "retiring", "evicting", "dismissing",
                       "returning", "saving", "rechecking", "puttingBack", "restoring"}
    BY <1>1 DEF Forward, Undoing
  <1>5. StepFits(q)'  BY <1>4 DEF StepFits
  <1>6. MineAt(q)'  BY <1>1, <1>4 DEF MineAt, Drafting
  <1> QED BY <1>1, <1>2, <1>3, <1>5, <1>6 DEF PlaceFits

\* One installer goes on inside, and the others do nothing.
Works(p) ==
  /\ pc[p] \in Inside /\ pc'[p] \in Inside /\ lock' = lock /\ UNCHANGED user
  /\ \A q \in Installers \ {p} : pc'[q] = pc[q] /\ of'[q] = of[q]

LEMMA WorkFits ==
  ASSUME InstallInv, NEW p \in Installers, Works(p),
         \A q \in Installers \ {p} : Unused(q) => Unused(q)'
  PROVE  LockFits' /\ \A q \in Installers \ {p} : PlaceFits(q)'
  <1>1. \A q \in Installers \ {p} :
          ~Owns(q) /\ pc[q] \notin Inside /\ pc[q] # "writing" /\ (Alive(q) => overlapped)
    BY LockFacts DEF Works
  <1>2. Owns(p) /\ Alive(p) /\ Alive(p)' /\ pc'[p] # "writing" /\ pc'[p] # "reclaiming"
    BY LockFacts DEF Works, Alive, Owns, Inside, Forward, Undoing
  <1>3. overlapped' = overlapped /\ lock' = lock  BY DEF Works, user
  <1>4. \A q \in Installers : Alive(q)' <=> Alive(q)  BY <1>2 DEF Works, Alive
  <1>5. LockFits'
    <2>1. ASSUME NEW q \in Installers, q # p
          PROVE  /\ pc'[q] \notin Inside /\ pc'[q] # "writing"
                 /\ pc'[q] = "reclaiming" => overlapped
      BY <1>1, <2>1 DEF Works, Alive
    <2>2. Owns(p)'  BY <1>2, <1>3 DEF Owns
    <2>3. ~overlapped => \A x, y \in Installers : Alive(x) /\ Alive(y) => x = y
      BY DEF InstallInv, LockFits
    <2>4. ~overlapped' => \A x, y \in Installers : Alive(x)' /\ Alive(y)' => x = y
      BY <1>3, <1>4, <2>3
    <2> QED BY <1>2, <1>3, <2>1, <2>2, <2>4 DEF LockFits
  <1>6. ASSUME NEW q \in Installers \ {p}  PROVE PlaceFits(q)'
    <2>1. ~Owns(q)' /\ (pc[q] = "relocking" => overlapped')
      BY <1>1, <1>3 DEF Owns, Alive
    <2>2. PlaceFits(q) /\ pc[q] \notin Inside /\ pc'[q] = pc[q] /\ of'[q] = of[q]
      BY <1>1 DEF InstallInv, Works
    <2> QED BY <2>1, <2>2, OutsideFits
  <1> QED BY <1>5, <1>6

-----------------------------------------------------------------------------
(* Most steps change one target, of the transaction the installer is about *)

Touches(p, j, t) ==
  /\ Works(p) /\ of[p] = j /\ of'[p] = j /\ Types'
  /\ \/ pc[p] \in Forward /\ pc'[p] \in Forward
     \/ pc[p] \in Undoing /\ pc'[p] \in Undoing
  /\ pc'[p] = "advancing" \/ at'[p] \in Targets
  /\ UNCHANGED <<status, pre, token>>
  /\ \A u \in Targets \ {t} : live'[u] = live[u] /\ spare'[u] = spare[u]
  /\ \A k \in Installers, u \in Targets : k # j \/ u # t =>
       /\ displaced'[k][u] = displaced[k][u] /\ evidence'[k][u] = evidence[k][u]
       /\ backup'[k][u] = backup[k][u] /\ state'[k][u] = state[k][u]

LEMMA TouchFits ==
  ASSUME InstallInv, NEW p \in Installers, NEW j \in Installers, NEW t \in Targets, Touches(p, j, t),
         JournalFits(p)', StepFits(p)', MineAt(p)',
         pc[p] \in Forward => \A u \in Targets \ edited : ForwardFits(p, u)',
         pc[p] \in Undoing /\ at'[p] \notin edited => UndoFits(p)',
         Kept(t)', Own(t)', MineSaved(j, t)',
         state'[j][t] # "none", state'[j][t] = "recovery_conflict" => t \in edited \cup halved,
         t \notin edited => DiskFits(j, t)' \/ Broken(j, t)'
  PROVE  InstallInv'
  <1>1. status[j] = "active" /\ PlaceFits(p)
    BY DEF InstallInv, Touches, PlaceFits, OwnerFits
  <1>2. \A k \in Installers : k # j => status[k] # "active" /\ status[k] # "committed"
    BY <1>1 DEF InstallInv, OneActive
  <1>3. UNCHANGED <<status, pre, token, plan, edited, raced, halved, overlapped>>  BY DEF Touches, Works, user
  <1>4. \A q \in Installers : Unused(q) => Unused(q)'
    BY <1>1, <1>3 DEF Unused, Touches
  <1>5. LockFits' /\ \A q \in Installers \ {p} : PlaceFits(q)'
    BY <1>4, WorkFits DEF Touches
  <1>6. PlaceFits(p)'
    <2>1. pc'[p] \in Forward => pc[p] \in Forward  BY DEF Touches, Forward, Undoing
    <2>2. pc'[p] \in Undoing => pc[p] \in Undoing  BY DEF Touches, Forward, Undoing
    <2>3. pc'[p] \notin {"idle", "recovering", "planning", "creating", "relocking"} \cup Acquiring
      BY DEF Touches, Forward, Undoing, Acquiring
    <2>4. OwnerFits(p)'
      <3>1. Ahead(p)' => Ahead(p)  BY <2>2, <2>3 DEF Ahead, Touches
      <3> QED BY <1>1, <1>3, <1>4, <2>1, <2>2, <2>3, <3>1 DEF OwnerFits, PlaceFits, Touches
    <2> QED BY <1>3, <2>1, <2>2, <2>3, <2>4 DEF PlaceFits
  <1>7. ASSUME NEW u \in Targets PROVE Kept(u)' /\ Own(u)'
    <2>1. CASE u = t  BY <2>1
    <2>2. CASE u # t
      <3>1. Kept(u) /\ Own(u)  BY DEF InstallInv
      <3>2. /\ live'[u] = live[u] /\ spare'[u] = spare[u]
            /\ \A k \in Installers : displaced'[k][u] = displaced[k][u] /\ evidence'[k][u] = evidence[k][u]
                                     /\ backup'[k][u] = backup[k][u]
        BY <2>2 DEF Touches
      <3> QED BY <1>3, <3>1, <3>2 DEF Kept, Own, Original
    <2> QED BY <2>1, <2>2
  <1>8. ASSUME NEW k \in Installers, NEW u \in Targets
        PROVE  /\ MineSaved(k, u)' /\ (state'[k][u] = "recovery_conflict" => u \in edited \cup halved)
               /\ status'[k] = "active" => state'[k][u] # "none" /\ (u \notin edited => DiskFits(k, u)' \/ Broken(k, u)')
    <2>1. /\ MineSaved(k, u) /\ (state[k][u] = "recovery_conflict" => u \in edited \cup halved)
          /\ status[k] = "active" => state[k][u] # "none" /\ (u \notin edited => DiskFits(k, u) \/ Broken(k, u))
      BY DEF InstallInv
    <2>2. CASE k = j /\ u = t  BY <2>2
    <2>3. CASE k # j \/ u # t
      <3>1. /\ displaced'[k][u] = displaced[k][u] /\ evidence'[k][u] = evidence[k][u]
            /\ backup'[k][u] = backup[k][u] /\ state'[k][u] = state[k][u]
        BY <2>3 DEF Touches
      <3>2. MineSaved(k, u)' /\ (state'[k][u] = "recovery_conflict" => u \in edited \cup halved)
        BY <1>3, <2>1, <3>1 DEF MineSaved
      <3>3. ASSUME status'[k] = "active", u \notin edited  PROVE DiskFits(k, u)' \/ Broken(k, u)'
        <4>1. k = j /\ u # t  BY <1>2, <1>3, <2>3, <3>3
        <4>2. live'[u] = live[u]  BY <4>1 DEF Touches
        <4>3. DiskFits(k, u) \/ Broken(k, u)  BY <1>1, <2>1, <3>3, <4>1
        <4>4. DiskFits(k, u) => DiskFits(k, u)'
          BY <1>3, <3>1, <4>2 DEF DiskFits, Between, Original, Post, IsFile
        <4>5. Broken(k, u) => Broken(k, u)'  BY <1>3, <3>1, <4>2 DEF Broken
        <4> QED BY <4>3, <4>4, <4>5
      <3>4. status'[k] = "active" => state'[k][u] # "none"  BY <1>3, <2>1, <3>1
      <3> QED BY <3>2, <3>3, <3>4
    <2> QED BY <2>2, <2>3
  <1>9. OneActive'  BY <1>3 DEF InstallInv, OneActive
  <1>10. j \in Active'  BY <1>1, <1>3 DEF Active
  <1>11. ASSUME NEW u \in Targets, u \in halved  PROVE Halved(u)'
    <2>1. Halved(u)  BY <1>11 DEF InstallInv
    <2>2. ~IsFile(u)' /\ u \in halved'  BY <1>3, <1>11, <2>1 DEF Halved, IsFile
    <2>3. ASSUME u \notin edited, NEW k \in Installers,
                 state[k][u] = "recovery_conflict" \/ (status[k] = "active" /\ Broken(k, u))
          PROVE  \E i \in Installers :
                   state'[i][u] = "recovery_conflict" \/ (status'[i] = "active" /\ Broken(i, u)')
      <3>1. DiskFits(j, u) \/ Broken(j, u)  BY <1>1, <2>3 DEF InstallInv
      <3>2. DiskFits(j, u)' \/ Broken(j, u)'  BY <1>1, <1>3, <1>8, <2>3
      <3>3. CASE Broken(j, u)'  BY <1>1, <1>3, <3>3
      <3>4. CASE ~Broken(j, u)' /\ DiskFits(j, u)'
        <4>1. Original(u) = "part" /\ Original(u)' = "part"  BY <1>3, <1>11 DEF Original
        <4>2. pre[j][u] = "part"  BY <1>3, <3>4, <4>1 DEF DiskFits
        <4>3. ~Broken(j, u) /\ DiskFits(j, u)  BY <3>1, <4>2 DEF Broken
        <4>4. state[j][u] # "recovery_conflict"  BY <4>3 DEF DiskFits
        <4>5. k # j /\ state[k][u] = "recovery_conflict"  BY <1>2, <2>3, <4>3, <4>4
        <4>6. state'[k][u] = state[k][u]  BY <4>5 DEF Touches
        <4> QED BY <4>5, <4>6
      <3> QED BY <3>2, <3>3, <3>4
    <2>4. u \notin edited' => \E i \in Installers :
            state'[i][u] = "recovery_conflict" \/ (status'[i] = "active" /\ Broken(i, u)')
      BY <1>3, <2>1, <2>3 DEF Halved
    <2> QED BY <2>2, <2>4 DEF Halved
  <1> QED BY <1>3, <1>5, <1>6, <1>7, <1>8, <1>9, <1>10, <1>11 DEF InstallInv, Touches

\* Where a step leads.
LEMMA VisitFacts ==
  ASSUME InstallInv, NEW p \in Installers, NEW s \in Steps, NEW a \in 0 .. Last, Visit(p, s, a)
  PROVE  /\ pc'[p] = s /\ at'[p] = a /\ of' = of /\ tries' = tries /\ fromPost' = fromPost
         /\ \A q \in Installers \ {p} : pc'[q] = pc[q] /\ of'[q] = of[q]
         /\ pc' \in [Installers -> Steps] /\ at' \in [Installers -> 0 .. Last]
         /\ of \in [Installers -> Installers] /\ fromPost \subseteq Installers
         /\ tries \in [Installers -> 1 .. 2]
  BY DEF Visit, Goto, InstallInv, Types, ControlTypes

LEMMA MoveFacts ==
  ASSUME InstallInv, NEW p \in Installers, NEW s \in Steps, Move(p, s)
  PROVE  Visit(p, s, at[p]) /\ at[p] \in 0 .. Last
  BY DEF Move, InstallInv, Types, ControlTypes

\* An installation is about its own transaction, which is active.
LEMMA ForwardFacts ==
  ASSUME InstallInv, NEW p \in Installers, pc[p] \in Forward
  PROVE  /\ of[p] = p /\ status[p] = "active" /\ token[p] = p /\ Owns(p)
         /\ pc[p] # "advancing" => at[p] \in Targets
         /\ \A t \in Targets : state[p][t] = Going(p, t)
         /\ \A t \in Targets \ edited : ForwardFits(p, t) /\ DiskFits(p, t)
         /\ StepFits(p) /\ MineAt(p) /\ at[p] \in 0 .. Last
  <1>1. PlaceFits(p) /\ pc[p] \in Inside  BY DEF InstallInv, Inside
  <1>2. pc[p] # "advancing" => pc[p] \in (Forward \cup Undoing) \ {"advancing"}  OBVIOUS
  <1>3. of[p] = p /\ status[p] = "active" /\ token[p] = p  BY <1>1 DEF PlaceFits, OwnerFits
  <1>4. Owns(p)  BY <1>1 DEF InstallInv, LockFits
  <1>5. ASSUME NEW t \in Targets \ edited  PROVE DiskFits(p, t)
    <2>1. DiskFits(p, t) \/ Broken(p, t)  BY <1>3 DEF InstallInv
    <2>2. pre[p][t] = Original(t)  BY <1>1 DEF PlaceFits, ForwardFits
    <2> QED BY <2>1, <2>2 DEF Broken, Original
  <1> QED BY <1>1, <1>2, <1>3, <1>4, <1>5
       DEF PlaceFits, OwnerFits, JournalFits, InstallInv, Types, ControlTypes

\* A step that changes neither the disk nor the journal: what remains to be shown.
LEMMA ControlFits ==
  ASSUME InstallInv, NEW p \in Installers, NEW s \in Steps, NEW a \in 0 .. Last, Visit(p, s, a),
         \/ pc[p] \in Forward /\ s \in Forward
         \/ pc[p] \in Undoing /\ s \in Undoing,
         s = "advancing" \/ a \in Targets,
         UNCHANGED <<paths, journal, lock, user>>,
         JournalFits(p)', StepFits(p)', MineAt(p)',
         pc[p] \in Forward => \A u \in Targets \ edited : ForwardFits(p, u)',
         pc[p] \in Undoing /\ at'[p] \notin edited => UndoFits(p)'
  PROVE  InstallInv'
  <1>0. PICK j \in Installers : j = of[p]  BY DEF InstallInv, Types, ControlTypes
  <1>1. Types'
    BY VisitFacts DEF InstallInv, Types, DiskTypes, JournalTypes, ControlTypes, UserTypes, paths, journal, user
  <1>2. 1 \in Targets  BY InstallAssumption DEF Targets
  <1>3. Works(p)  BY VisitFacts DEF Works, Inside
  <1>4. Touches(p, j, 1)  BY <1>0, <1>1, <1>3, VisitFacts DEF Touches, paths, journal
  <1>5. UNCHANGED <<live, spare, displaced, evidence, backup, state, status, pre, plan, edited, raced, halved>>
    BY DEF paths, journal, user
  <1>6. PlaceFits(p)  BY DEF InstallInv
  <1>7. status[j] = "active"  BY <1>0, <1>6, VisitFacts DEF PlaceFits, OwnerFits, Undoing
  <1>8. Kept(1) /\ Own(1) /\ MineSaved(j, 1) /\ state[j][1] # "none" /\ (state[j][1] = "recovery_conflict" => 1 \in edited \cup halved)
        /\ (1 \notin edited => DiskFits(j, 1) \/ Broken(j, 1))
    BY <1>0, <1>2, <1>7 DEF InstallInv
  <1>9. Kept(1)' /\ Own(1)'  BY <1>5, <1>8 DEF Kept, Own, Original
  <1>10. MineSaved(j, 1)' /\ state'[j][1] # "none" /\ (state'[j][1] = "recovery_conflict" => 1 \in edited \cup halved)
    BY <1>5, <1>8 DEF MineSaved
  <1>11. 1 \notin edited => DiskFits(j, 1)' \/ Broken(j, 1)'
    <2>1. DiskFits(j, 1) => DiskFits(j, 1)'
      BY <1>5 DEF DiskFits, Between, Original, Post, IsFile
    <2>2. Broken(j, 1) => Broken(j, 1)'  BY <1>5 DEF Broken
    <2> QED BY <1>8, <2>1, <2>2
  <1> QED BY <1>0, <1>2, <1>4, <1>9, <1>10, <1>11, TouchFits

LEMMA CheckFits ==
  ASSUME InstallInv, NEW p \in Installers, Check(p)
  PROVE  InstallInv'
  <1> DEFINE t == at[p]
  <1>1. pc[p] = "checking" /\ ~Refuses(p) /\ Move(p, "saving") /\ UNCHANGED <<paths, journal, lock, user>>
    BY DEF Check, Step
  <1>2. pc[p] \in Forward /\ "saving" \in Steps /\ "saving" \in Forward
    BY <1>1 DEF Forward, Inside, Steps
  <1>3. t \in Targets /\ of[p] = p  BY <1>1, <1>2, ForwardFacts
  <1>4. Visit(p, "saving", t) /\ t \in 0 .. Last  BY <1>1, <1>2, MoveFacts
  <1>5. pc'[p] = "saving" /\ at'[p] = t /\ of' = of  BY <1>2, <1>4, VisitFacts
  <1>6. live[t] = pre[p][t]  BY <1>1, <1>3 DEF Refuses, Changed
  <1>7. UNCHANGED <<live, evidence, displaced, backup, state, pre, plan, edited, raced, halved>>
    BY <1>1 DEF paths, journal, user
  <1>8. JournalFits(p)'
    BY <1>1, <1>2, <1>5, <1>7, ForwardFacts DEF JournalFits, Going, Undoing
  <1>9. StepFits(p)' /\ MineAt(p)'
    BY <1>1, <1>2, <1>3, <1>5, <1>6, <1>7, ForwardFacts DEF StepFits, MineAt, Drafting
  <1>10. ASSUME NEW u \in Targets \ edited PROVE ForwardFits(p, u)'
    BY <1>2, <1>5, <1>7, ForwardFacts DEF ForwardFits, Drafting, Post, Original
  <1>11. pc[p] \notin Undoing  BY <1>1 DEF Undoing
  <1> QED BY <1>1, <1>2, <1>3, <1>4, <1>8, <1>9, <1>10, <1>11, ControlFits

LEMMA AdvanceFits ==
  ASSUME InstallInv, NEW p \in Installers, Advance(p)
  PROVE  InstallInv'
  <1>1. /\ pc[p] = "advancing" /\ UNCHANGED <<paths, journal, lock, user>>
        /\ CASE at[p] = 0    -> Visit(p, "checking", 1)
             [] at[p] = Last -> Move(p, "committing")
             [] OTHER        -> Visit(p, "beginning", at[p] + 1)
    BY DEF Advance
  <1>2. pc[p] \in Forward /\ pc[p] \notin Undoing /\ Last \in Nat \ {0}
    BY <1>1, InstallAssumption DEF Forward, Undoing
  <1>3. at[p] \in 0 .. Last /\ of[p] = p /\ \A u \in Targets : state[p][u] = Going(p, u)
    BY <1>2, ForwardFacts
  <1>4. UNCHANGED <<live, evidence, displaced, backup, state, pre, plan, edited, raced, halved>>
    BY <1>1 DEF paths, journal, user
  <1>5. PICK s \in {"checking", "committing", "beginning"}, a \in Targets :
          /\ Visit(p, s, a)
          /\ s = "checking" => at[p] = 0 /\ a = 1
          /\ s = "committing" => at[p] = Last
          /\ s = "beginning" => at[p] # 0 /\ a = at[p] + 1
    <2>1. CASE at[p] = 0  BY <1>1, <1>2, <2>1 DEF Targets
    <2>2. CASE at[p] = Last
      <3>1. Visit(p, "committing", Last)  BY <1>1, <1>2, <2>2 DEF Move
      <3> QED BY <1>2, <2>2, <3>1 DEF Targets
    <2>3. CASE at[p] # 0 /\ at[p] # Last
      <3>1. Visit(p, "beginning", at[p] + 1)  BY <1>1, <2>3
      <3> QED BY <1>2, <1>3, <2>3, <3>1 DEF Targets
    <2> QED BY <2>1, <2>2, <2>3
  <1>6. s \in Forward /\ s \in Steps /\ a \in 0 .. Last  BY <1>2 DEF Forward, Inside, Steps, Targets
  <1>7. pc'[p] = s /\ at'[p] = a /\ of' = of  BY <1>5, <1>6, VisitFacts
  <1>8. JournalFits(p)'
    <2>1. \A u \in Targets : u \in 1 .. Last  BY DEF Targets
    <2>2. \A u \in Targets : Going(p, u)' = Going(p, u)
      BY <1>1, <1>2, <1>3, <1>5, <1>7, <2>1 DEF Going
    <2> QED BY <1>3, <1>4, <1>6, <1>7, <2>2 DEF JournalFits, Undoing
  <1>9. StepFits(p)' /\ MineAt(p)'
    BY <1>2, <1>4, <1>7, ForwardFacts DEF StepFits, MineAt, Drafting
  <1>10. ASSUME NEW u \in Targets \ edited PROVE ForwardFits(p, u)'
    BY <1>2, <1>4, <1>7, ForwardFacts DEF ForwardFits, Drafting, Post, Original
  <1> QED BY <1>1, <1>2, <1>5, <1>6, <1>8, <1>9, <1>10, ControlFits

LEMMA RecheckFits ==
  ASSUME InstallInv, NEW p \in Installers, Recheck(p)
  PROVE  InstallInv'
  <1> DEFINE t == at[p]
             s == IF Displaces(p, t) THEN "displacing" ELSE "placing"
  <1>1. pc[p] = "rechecking" /\ ~Refuses(p) /\ Move(p, s) /\ UNCHANGED <<paths, journal, lock, user>>
    BY DEF Recheck, Step
  <1>2. pc[p] \in Forward /\ pc[p] \notin Undoing /\ s \in Steps /\ s \in Forward
    BY <1>1 DEF Forward, Undoing, Inside, Steps
  <1>3. t \in Targets /\ of[p] = p  BY <1>1, <1>2, ForwardFacts
  <1>4. Visit(p, s, t) /\ t \in 0 .. Last  BY <1>1, <1>2, MoveFacts
  <1>5. pc'[p] = s /\ at'[p] = t /\ of' = of  BY <1>2, <1>4, VisitFacts
  <1>6. live[t] = pre[p][t]  BY <1>1, <1>3 DEF Refuses, Changed
  <1>7. UNCHANGED <<live, evidence, displaced, backup, state, pre, plan, edited, raced, halved>>
    BY <1>1 DEF paths, journal, user
  <1>8. JournalFits(p)'
    BY <1>1, <1>2, <1>5, <1>7, ForwardFacts DEF JournalFits, Going, Undoing
  <1>9. StepFits(p)'
    <2>1. s = "placing" => Post(t) = "new"  BY <1>3, PlanFacts DEF InstallInv, Displaces
    <2> QED BY <1>3, <1>5, <1>7, <2>1 DEF StepFits, Displaces, Post, IsFile
  <1>10. MineAt(p)'
    BY <1>1, <1>2, <1>3, <1>5, <1>6, <1>7, ForwardFacts DEF MineAt, Drafting, IsFile
  <1>11. ASSUME NEW u \in Targets \ edited PROVE ForwardFits(p, u)'
    BY <1>1, <1>2, <1>3, <1>5, <1>7, ForwardFacts DEF ForwardFits, Drafting, Post, Original, Displaces, IsFile
  <1> QED BY <1>1, <1>2, <1>3, <1>4, <1>8, <1>9, <1>10, <1>11, ControlFits

LEMMA CommitFits ==
  ASSUME InstallInv, NEW p \in Installers, Commit(p)
  PROVE  InstallInv'
  <1> DEFINE t == at[p]
  <1>1. pc[p] = "committing" /\ Move(p, "sealing") /\ UNCHANGED <<paths, journal, lock, user>>
    BY DEF Commit, Step
  <1>2. pc[p] \in Forward /\ pc[p] \notin Undoing /\ "sealing" \in Steps /\ "sealing" \in Forward
    BY <1>1 DEF Forward, Undoing, Inside, Steps
  <1>3. t \in Targets /\ of[p] = p  BY <1>1, <1>2, ForwardFacts
  <1>4. Visit(p, "sealing", t) /\ t \in 0 .. Last  BY <1>1, <1>2, MoveFacts
  <1>5. pc'[p] = "sealing" /\ at'[p] = t /\ of' = of  BY <1>2, <1>4, VisitFacts
  <1>6. UNCHANGED <<live, evidence, displaced, backup, state, pre, plan, edited, raced, halved>>
    BY <1>1 DEF paths, journal, user
  <1>7. JournalFits(p)'
    BY <1>1, <1>2, <1>5, <1>6, ForwardFacts DEF JournalFits, Going, Undoing
  <1>8. StepFits(p)' /\ MineAt(p)'
    BY <1>2, <1>5, <1>6, ForwardFacts DEF StepFits, MineAt, Drafting
  <1>9. ASSUME NEW u \in Targets \ edited PROVE ForwardFits(p, u)'
    BY <1>2, <1>5, <1>6, ForwardFacts DEF ForwardFits, Drafting, Post, Original
  <1> QED BY <1>1, <1>2, <1>3, <1>4, <1>7, <1>8, <1>9, ControlFits

\* A rollback is about an active transaction; its own, or an earlier one.
LEMMA UndoFacts ==
  ASSUME InstallInv, NEW p \in Installers, pc[p] \in Undoing
  PROVE  \E j \in Installers, t \in Targets :
           /\ of[p] = j /\ at[p] = t /\ status[j] = "active"
           /\ t \in 0 .. Last /\ Owns(p) /\ pc[p] \notin Forward
           /\ \A u \in Targets : u > t \/ pc[p] = "finishing" => state[j][u] \in Closed
           /\ pc[p] \notin {"rolling", "finishing"} => ~Untouched(state[j][t])
           /\ state[j][t] # "none" /\ (state[j][t] = "recovery_conflict" => t \in edited \cup halved)
           /\ StepFits(p) /\ MineAt(p) /\ MineSaved(j, t) /\ Kept(t) /\ Own(t)
           /\ t \notin edited => UndoFits(p)
           /\ \A u \in Targets \ edited : DiskFits(j, u) \/ Broken(j, u)
           /\ pc[p] \notin {"rolling", "finishing"} /\ t \notin edited => DiskFits(j, t)
           /\ state[j][t] \in States /\ pre[j][t] \in Contents /\ live[t] \in Contents
  <1>1. PlaceFits(p) /\ pc[p] \in Inside  BY DEF InstallInv, Inside
  <1>2. pc[p] \in (Forward \cup Undoing) \ {"advancing"} /\ pc[p] \notin Forward
    BY DEF Forward, Undoing
  <1>3. of[p] \in Installers /\ at[p] \in Targets /\ status[of[p]] = "active" /\ at[p] \in 0 .. Last
    BY <1>1, <1>2 DEF PlaceFits, OwnerFits, InstallInv, Types, ControlTypes
  <1>4. Owns(p)  BY <1>1 DEF InstallInv, LockFits
  <1>5. \A u \in Targets \ edited : DiskFits(of[p], u) \/ Broken(of[p], u)  BY <1>3 DEF InstallInv
  <1>6. /\ MineSaved(of[p], at[p]) /\ Kept(at[p]) /\ Own(at[p])
        /\ state[of[p]][at[p]] # "none" /\ (state[of[p]][at[p]] = "recovery_conflict" => at[p] \in edited \cup halved)
    BY <1>3 DEF InstallInv
  <1>7. state[of[p]][at[p]] \in States /\ pre[of[p]][at[p]] \in Contents /\ live[at[p]] \in Contents
    BY <1>3 DEF InstallInv, Types, JournalTypes, DiskTypes, Places
  <1>8. ASSUME pc[p] \notin {"rolling", "finishing"}, at[p] \notin edited  PROVE DiskFits(of[p], at[p])
    <2>1. StepFits(p) /\ UndoFits(p)  BY <1>1, <1>8 DEF PlaceFits
    <2>2. Post(at[p]) \in {"absent", "new"} /\ (at[p] \in halved => Original(at[p]) = "part")
      BY <1>3, PlanFacts DEF InstallInv
    <2>3. ASSUME Broken(of[p], at[p])  PROVE FALSE
      <3>1. pre[of[p]][at[p]] = "absent" /\ live[at[p]] = "part" /\ Original(at[p]) = "part"
        BY <2>2, <2>3 DEF Broken
      <3>2. pc[p] \notin {"retiring", "evicting", "returning", "dismissing"}
        BY <2>1, <3>1 DEF StepFits
      <3>3. pc[p] \notin {"puttingBack", "settling"}  BY <2>1, <3>1 DEF UndoFits
      <3>4. pc[p] # "restoring"  BY <2>1, <2>2, <3>1 DEF UndoFits, Retired
      <3> QED BY <1>8, <3>2, <3>3, <3>4 DEF Undoing
    <2> QED BY <1>3, <1>5, <1>8, <2>3
  <1> QED BY <1>1, <1>2, <1>3, <1>4, <1>5, <1>6, <1>7, <1>8 DEF PlaceFits, JournalFits

LEMMA RetireFits ==
  ASSUME InstallInv, NEW p \in Installers, Retire(p)
  PROVE  InstallInv'
  <1>1. /\ pc[p] = "retiring" /\ ~Refuses(p) /\ UNCHANGED <<paths, journal, lock, user>>
        /\ Move(p, IF live[at[p]] = "absent" THEN "returning" ELSE "evicting")
    BY DEF Retire, Step
  <1>2. pc[p] \in Undoing /\ pc[p] \notin Forward  BY <1>1 DEF Forward, Undoing
  <1>3. PICK j \in Installers, t \in Targets :
           /\ of[p] = j /\ at[p] = t /\ status[j] = "active"
           /\ t \in 0 .. Last
           /\ \A u \in Targets : u > t \/ pc[p] = "finishing" => state[j][u] \in Closed
           /\ pc[p] \notin {"rolling", "finishing"} => ~Untouched(state[j][t])
           /\ StepFits(p) /\ MineAt(p)
           /\ t \notin edited => UndoFits(p)
    BY <1>2, UndoFacts
  <1> DEFINE s == IF live[t] = "absent" THEN "returning" ELSE "evicting"
  <1>4. s \in Steps /\ s \in Undoing /\ Move(p, s)  BY <1>1, <1>3 DEF Undoing, Inside, Steps
  <1>5. Visit(p, s, t)  BY <1>3, <1>4, MoveFacts
  <1>6. pc'[p] = s /\ at'[p] = t /\ of' = of  BY <1>3, <1>4, <1>5, VisitFacts
  <1>7. \/ live[t] = Post(t) /\ evidence[j][t] = "absent"
        \/ live[t] = "absent" /\ evidence[j][t] = Post(t)
    BY <1>1, <1>3 DEF Refuses
  <1>8. UNCHANGED <<live, spare, evidence, displaced, backup, state, pre, plan, edited, raced, halved>>
    BY <1>1 DEF paths, journal, user
  <1>9. JournalFits(p)'
    BY <1>1, <1>3, <1>6, <1>8 DEF JournalFits, Forward, Untouched
  <1>10. StepFits(p)' /\ MineAt(p)'
    BY <1>1, <1>3, <1>6, <1>7, <1>8 DEF StepFits, MineAt, Forward, Drafting, IsFile, Post
  <1>11. t \notin edited => UndoFits(p)'
    BY <1>1, <1>3, <1>6, <1>7, <1>8 DEF UndoFits, Post, IsFile
  <1> QED BY <1>1, <1>2, <1>3, <1>4, <1>5, <1>6, <1>8, <1>9, <1>10, <1>11, ControlFits DEF user

-----------------------------------------------------------------------------
(* The steps of an installation that change a target *)

LEMMA SetFacts ==
  ASSUME InstallInv, NEW j \in Installers, NEW t \in Targets, NEW s \in States, SetState(j, t, s)
  PROVE  /\ state' \in [Installers -> [Targets -> States]] /\ state'[j][t] = s
         /\ \A k \in Installers, u \in Targets : k # j \/ u # t => state'[k][u] = state[k][u]
  <1>1. state \in [Installers -> [Targets -> States]]  BY DEF InstallInv, Types, JournalTypes
  <1>2. state' = [state EXCEPT ![j][t] = s]  BY DEF SetState
  <1> QED BY <1>1, <1>2

Acting == {"beginning", "copying", "rechecking", "displacing", "placing", "clearing", "activated"}

\* A step of the activation of target t.
Acts(p, t, s) ==
  /\ pc[p] \in Acting /\ s \in (Acting \ {"beginning"}) \cup {"advancing"}
  /\ at[p] = t /\ Move(p, s)
  /\ UNCHANGED <<backup, evidence, status, pre, token, lock, user>>
  /\ DiskTypes' /\ state' \in [Installers -> [Targets -> States]]
  /\ state'[p][t] = IF s = "advancing" THEN "active" ELSE "activating"
  /\ \A u \in Targets \ {t} : live'[u] = live[u] /\ spare'[u] = spare[u]
  /\ \A k \in Installers, u \in Targets : k # p \/ u # t =>
       displaced'[k][u] = displaced[k][u] /\ state'[k][u] = state[k][u]

LEMMA ActsFacts ==
  ASSUME InstallInv, NEW p \in Installers, NEW t \in Targets, NEW s, Acts(p, t, s)
  PROVE  /\ pc[p] \in Forward /\ pc[p] \notin Undoing /\ s \in Steps /\ s \in Forward /\ of[p] = p
         /\ t \in 0 .. Last
         /\ pc'[p] = s /\ at'[p] = t /\ of' = of /\ Touches(p, p, t)
         /\ UNCHANGED <<plan, edited, raced, halved, overlapped>>
         /\ \A u \in Targets : state[p][u] = Going(p, u) /\ state'[p][u] = Going(p, u)'
         /\ state[p][t] \in {"snapshotted", "activating"}
  <1>1. pc[p] \in Forward /\ pc[p] \notin Undoing /\ s \in Steps /\ s \in Forward /\ s \in Inside /\ pc[p] \in Inside
        /\ pc[p] # "advancing"
    BY DEF Acts, Acting, Forward, Undoing, Inside, Steps
  <1>2. of[p] = p /\ at[p] = t /\ t \in 0 .. Last  BY <1>1, ForwardFacts DEF Acts
  <1>3. Visit(p, s, t)  BY <1>1, <1>2, MoveFacts DEF Acts
  <1>4. /\ pc'[p] = s /\ at'[p] = t /\ of' = of /\ tries' = tries /\ fromPost' = fromPost
        /\ \A q \in Installers \ {p} : pc'[q] = pc[q] /\ of'[q] = of[q]
        /\ pc' \in [Installers -> Steps] /\ at' \in [Installers -> 0 .. Last]
    BY <1>1, <1>2, <1>3, VisitFacts
  <1>5. UNCHANGED <<plan, edited, raced, halved, overlapped>>  BY DEF Acts, user
  <1>6. Types'
    <2>1. DiskTypes'  BY DEF Acts
    <2>2. JournalTypes'  BY DEF Acts, InstallInv, Types, JournalTypes
    <2>3. ControlTypes'  BY <1>4 DEF Acts, InstallInv, Types, ControlTypes
    <2>4. UserTypes'  BY <1>5 DEF InstallInv, Types, UserTypes
    <2> QED BY <2>1, <2>2, <2>3, <2>4 DEF Types
  <1>7. Works(p)  BY <1>1, <1>4 DEF Works, Acts
  <1>8. Touches(p, p, t)
    <2>1. UNCHANGED <<status, pre, token, backup, evidence>>  BY DEF Acts
    <2>2. \A u \in Targets \ {t} : live'[u] = live[u] /\ spare'[u] = spare[u]  BY DEF Acts
    <2>3. \A k \in Installers, u \in Targets : k # p \/ u # t =>
            displaced'[k][u] = displaced[k][u] /\ state'[k][u] = state[k][u]
      BY DEF Acts
    <2> QED BY <1>1, <1>2, <1>4, <1>6, <1>7, <2>1, <2>2, <2>3 DEF Touches
  <1>9. ASSUME NEW u \in Targets  PROVE state[p][u] = Going(p, u) /\ state'[p][u] = Going(p, u)'
    <2>1. \A w \in Targets : state[p][w] = Going(p, w)  BY <1>1, ForwardFacts
    <2>2. u \in 1 .. Last /\ t \in 1 .. Last  BY DEF Targets
    <2>3. CASE u = t
      <3>1. Going(p, u)' = IF s = "advancing" THEN "active" ELSE "activating"
        BY <1>4, <2>2, <2>3 DEF Going, Acts, Acting
      <3> QED BY <2>1, <2>3, <3>1 DEF Acts
    <2>4. CASE u # t
      <3>0. Going(p, u) = IF u < t THEN "active" ELSE "snapshotted"
        BY <1>2, <2>2, <2>4 DEF Going, Acts, Acting
      <3>1. Going(p, u)' = IF u < t THEN "active" ELSE "snapshotted"
        <4>1. CASE s = "advancing"
          BY <1>2, <1>4, <2>2, <2>4, <4>1 DEF Going
        <4>2. CASE s # "advancing"
          BY <1>2, <1>4, <2>2, <2>4, <4>2 DEF Going, Acts, Acting
        <4> QED BY <4>1, <4>2
      <3>2. state'[p][u] = state[p][u]  BY <2>4 DEF Acts
      <3> QED BY <2>1, <3>0, <3>1, <3>2
    <2> QED BY <2>3, <2>4
  <1>10. state[p][t] \in {"snapshotted", "activating"}
    BY <1>2, <1>9 DEF Going, Acts, Acting
  <1> QED BY <1>1, <1>2, <1>4, <1>5, <1>8, <1>9, <1>10

LEMMA ActFits ==
  ASSUME InstallInv, NEW p \in Installers, NEW t \in Targets, NEW s, Acts(p, t, s), StepFits(p)',
         s \in Drafting => displaced'[p][t] = "absent",
         s = "placing" /\ IsFile(t) => live'[t] = pre[p][t] \/ t \in raced,
         t \notin edited => ForwardFits(p, t)' /\ Between(p, t)',
         Kept(t)', Own(t)'
  PROVE  InstallInv'
  <1>1. /\ pc[p] \in Forward /\ pc[p] \notin Undoing /\ s \in Steps /\ s \in Forward /\ of[p] = p
        /\ pc'[p] = s /\ at'[p] = t /\ of' = of /\ Touches(p, p, t)
        /\ UNCHANGED <<plan, edited, raced, halved, overlapped>>
        /\ \A u \in Targets : state[p][u] = Going(p, u) /\ state'[p][u] = Going(p, u)'
        /\ state[p][t] \in {"snapshotted", "activating"}
    BY ActsFacts
  <1>2. s \notin Undoing /\ s \notin {"saving", "puttingBack", "restoring", "returning"}
    BY DEF Acts, Acting, Undoing
  <1>3. UNCHANGED <<backup, evidence, pre>> /\ state'[p][t] \in {"activating", "active"}  BY DEF Acts
  <1>4. \A u \in Targets \ {t} : live'[u] = live[u] /\ displaced'[p][u] = displaced[p][u]
                                 /\ state'[p][u] = state[p][u]
    BY DEF Acts
  <1>5. JournalFits(p)'  BY <1>1, <1>2 DEF JournalFits
  <1>6. MineAt(p)'
    <2>1. ASSUME NEW u \in Targets
          PROVE  /\ state'[p][u] \in {"staged", "snapshotted"} => displaced'[p][u] = "absent"
                 /\ state'[p][u] = "staged" => backup'[p][u] = "absent"
      BY <1>1, <1>3, <1>4, ForwardFacts DEF MineAt
    <2> QED BY <1>1, <1>2, <1>3, <2>1 DEF MineAt, IsFile
  <1>7. ASSUME NEW u \in Targets \ edited  PROVE ForwardFits(p, u)'
    <2>1. CASE u = t  BY <2>1
    <2>2. CASE u # t
      BY <1>1, <1>3, <1>4, <2>2, ForwardFacts DEF ForwardFits, Post, Original
    <2> QED BY <2>1, <2>2
  <1>8. MineSaved(p, t)'
    <2>1. MineSaved(p, t)  BY DEF InstallInv
    <2> QED BY <1>1, <1>3, <2>1 DEF MineSaved
  <1>9. t \notin edited => DiskFits(p, t)'
    <2>1. t \notin edited => DiskFits(p, t)  BY <1>1, ForwardFacts
    <2> QED BY <1>1, <1>3, <2>1 DEF DiskFits, Original
  <1>10. state'[p][t] # "none" /\ (state'[p][t] = "recovery_conflict" => t \in edited \cup halved)  BY <1>3
  <1>11. pc[p] \in Undoing /\ at'[p] \notin edited => UndoFits(p)'  BY <1>1
  <1>12. \A u \in Targets \ edited : ForwardFits(p, u)'  BY <1>7
  <1> HIDE DEF Kept, Own
  <1> QED BY <1>1, <1>5, <1>6, <1>8, <1>9, <1>10, <1>11, <1>12, TouchFits

LEMMA BeginActivationFits ==
  ASSUME InstallInv, NEW p \in Installers, BeginActivation(p)
  PROVE  InstallInv'
  <1>1. PICK t \in Targets, s \in {"rechecking", "copying"} :
          /\ pc[p] = "beginning" /\ at[p] = t /\ of[p] = p /\ Move(p, s) /\ live[t] = pre[p][t]
          /\ s = "copying" => Post(t) # "absent"
          /\ SetState(p, t, "activating") /\ UNCHANGED <<paths, status, pre, token, lock, user>>
    <2>1. pc[p] = "beginning" /\ ~Refuses(p)  BY DEF BeginActivation, Step
    <2>2. at[p] \in Targets /\ of[p] = p  BY <2>1, ForwardFacts DEF Forward
    <2> QED BY <2>1, <2>2 DEF BeginActivation, Step, Refuses, Changed
  <1>2. /\ state' \in [Installers -> [Targets -> States]] /\ state'[p][t] = "activating"
        /\ \A k \in Installers, u \in Targets : k # p \/ u # t => state'[k][u] = state[k][u]
    BY <1>1, SetFacts DEF States
  <1>3. UNCHANGED <<live, temp, spare, displaced, backup, evidence>>  BY <1>1 DEF paths
  <1>4. DiskTypes'  BY <1>3 DEF InstallInv, Types, DiskTypes
  <1>5. Acts(p, t, s)  BY <1>1, <1>2, <1>3, <1>4 DEF Acts, Acting
  <1>6. /\ pc[p] \in Forward /\ pc'[p] = s /\ at'[p] = t /\ UNCHANGED <<plan, edited, raced, halved>>
        /\ state[p][t] = Going(p, t)
    BY <1>5, ActsFacts
  <1>7. state[p][t] = "snapshotted"  BY <1>1, <1>6 DEF Going, Targets
  <1>8. displaced[p][t] = "absent"  BY <1>6, <1>7, ForwardFacts DEF MineAt
  <1>9. Post(t) \in {"absent", "new"}  BY PlanFacts DEF InstallInv
  <1>10. StepFits(p)'  BY <1>1, <1>6, <1>9 DEF StepFits, Post
  <1>11. ASSUME t \notin edited  PROVE ForwardFits(p, t)' /\ Between(p, t)'
    <2>1. live[t] = Original(t) /\ evidence[p][t] = "absent"
      BY <1>6, <1>7, <1>11, ForwardFacts DEF DiskFits
    <2>2. Original(t) # Post(t)  BY PlanFacts DEF InstallInv
    <2>3. ForwardFits(p, t)'
      BY <1>1, <1>2, <1>3, <1>6, <1>8, <2>1 DEF ForwardFits, Original, Post
    <2>4. Between(p, t)'
      BY <1>3, <1>6, <1>8, <2>1, <2>2 DEF Between, Original, Post, IsFile
    <2> QED BY <2>3, <2>4
  <1>12. Kept(t)' /\ Own(t)'
    BY <1>3, <1>6 DEF InstallInv, Kept, Own, Original
  <1>13. displaced'[p][t] = "absent" /\ s # "placing"  BY <1>1, <1>3, <1>8
  <1> QED BY <1>5, <1>10, <1>11, <1>12, <1>13, ActFits

LEMMA CopyStagedFits ==
  ASSUME InstallInv, NEW p \in Installers, CopyStaged(p)
  PROVE  InstallInv'
  <1>1. PICK t \in Targets :
          /\ pc[p] = "copying" /\ at[p] = t /\ of[p] = p /\ Move(p, "rechecking")
          /\ temp' = [temp EXCEPT ![t] = "new"]
          /\ UNCHANGED <<live, spare, displaced, backup, evidence, journal, lock, user>>
    <2>1. pc[p] = "copying"  BY DEF CopyStaged, Step
    <2>2. at[p] \in Targets /\ of[p] = p  BY <2>1, ForwardFacts DEF Forward
    <2> QED BY <2>1, <2>2 DEF CopyStaged, Step
  <1>2. pc[p] \in Forward  BY <1>1 DEF Forward
  <1>3. UNCHANGED <<status, state, pre, token>>  BY <1>1 DEF journal
  <1>4. DiskTypes'  BY <1>1 DEF InstallInv, Types, DiskTypes
  <1>5. state[p][t] = "activating"  BY <1>1, <1>2, ForwardFacts DEF Going, Targets
  <1>6. state' \in [Installers -> [Targets -> States]]  BY <1>3 DEF InstallInv, Types, JournalTypes
  <1>7. Acts(p, t, "rechecking")  BY <1>1, <1>3, <1>4, <1>5, <1>6 DEF Acts, Acting
  <1>8. pc'[p] = "rechecking" /\ at'[p] = t /\ UNCHANGED <<plan, edited, raced, halved>>
    BY <1>7, ActsFacts
  <1>9. displaced[p][t] = "absent"  BY <1>1, <1>2, ForwardFacts DEF MineAt, Drafting
  <1>10. StepFits(p)'  BY <1>8 DEF StepFits
  <1>11. ASSUME t \notin edited  PROVE ForwardFits(p, t)' /\ Between(p, t)'
    <2>1. ForwardFits(p, t) /\ DiskFits(p, t)  BY <1>2, <1>11, ForwardFacts
    <2>2. ForwardFits(p, t)'
      BY <1>1, <1>3, <1>8, <2>1 DEF ForwardFits, Drafting, Original, Post
    <2>3. Between(p, t)'
      BY <1>1, <1>3, <1>5, <1>8, <2>1 DEF DiskFits, Between, Original, Post, IsFile
    <2> QED BY <2>2, <2>3
  <1>12. Kept(t)' /\ Own(t)'
    BY <1>1, <1>8 DEF InstallInv, Kept, Own, Original
  <1> QED BY <1>1, <1>7, <1>9, <1>10, <1>11, <1>12, ActFits

LEMMA DisplaceFits ==
  ASSUME InstallInv, NEW p \in Installers, Displace(p)
  PROVE  InstallInv'
  <1>1. PICK t \in Targets, s \in {"clearing", "placing"} :
          /\ pc[p] = "displacing" /\ at[p] = t /\ of[p] = p /\ Move(p, s)
          /\ s = IF Post(t) = "absent" THEN "clearing" ELSE "placing"
          /\ displaced' = [displaced EXCEPT ![p][t] = live[t]] /\ live' = [live EXCEPT ![t] = "absent"]
          /\ UNCHANGED <<temp, spare, backup, evidence, journal, lock, user>>
    <2>1. pc[p] = "displacing"  BY DEF Displace, Step
    <2>2. at[p] \in Targets /\ of[p] = p  BY <2>1, ForwardFacts DEF Forward
    <2> QED BY <2>1, <2>2 DEF Displace, Step
  <1>2. pc[p] \in Forward  BY <1>1 DEF Forward
  <1>3. UNCHANGED <<status, state, pre, token>>  BY <1>1 DEF journal
  <1>4. live \in [Targets -> Contents] /\ displaced \in Places  BY DEF InstallInv, Types, DiskTypes
  <1>5. /\ displaced' \in Places /\ displaced'[p][t] = live[t]
        /\ \A k \in Installers, u \in Targets : k # p \/ u # t => displaced'[k][u] = displaced[k][u]
    <2>1. live[t] \in Contents  BY <1>4
    <2> QED BY <1>1, <1>4, <2>1 DEF Places
  <1>6. live' \in [Targets -> Contents] /\ live'[t] = "absent" /\ \A u \in Targets \ {t} : live'[u] = live[u]
    BY <1>1, <1>4 DEF Contents
  <1>7. DiskTypes'  BY <1>1, <1>5, <1>6 DEF InstallInv, Types, DiskTypes
  <1>8. state[p][t] = "activating"  BY <1>1, <1>2, ForwardFacts DEF Going, Targets
  <1>9. state' \in [Installers -> [Targets -> States]]  BY <1>3 DEF InstallInv, Types, JournalTypes
  <1>10. Acts(p, t, s)  BY <1>1, <1>3, <1>5, <1>6, <1>7, <1>8, <1>9 DEF Acts, Acting
  <1>11. pc'[p] = s /\ at'[p] = t /\ UNCHANGED <<plan, edited, raced, halved>>
    BY <1>10, ActsFacts
  <1>12. displaced[p][t] = "absent" /\ Displaces(p, t)
    BY <1>1, <1>2, ForwardFacts DEF MineAt, Drafting, StepFits
  <1>13. Post(t) \in {"absent", "new"} /\ Original(t) \in {"absent", "old", "part"} /\ Original(t) # Post(t)
    BY PlanFacts DEF InstallInv
  <1>14. StepFits(p)'  BY <1>1, <1>11, <1>13 DEF StepFits, Post
  <1>15. s = "placing" => ~IsFile(t)  BY <1>1, <1>12 DEF Displaces
  <1>16. ASSUME t \notin edited  PROVE ForwardFits(p, t)' /\ Between(p, t)'
    <2>1. ForwardFits(p, t) /\ pre[p][t] = Original(t)  BY <1>2, <1>16, ForwardFacts DEF DiskFits
    <2>2. live[t] = Original(t) /\ evidence[p][t] = "absent"
      BY <1>1, <2>1 DEF ForwardFits, Drafting
    <2>3. ForwardFits(p, t)'
      <3>1. evidence'[p][t] = "absent" /\ state'[p][t] # "active"  BY <1>1, <1>3, <1>8, <2>2
      <3>2. s = "placing" => live'[t] = "absent" /\ displaced'[p][t] = Original(t)' /\ Displaces(p, t)'
        BY <1>3, <1>5, <1>6, <1>11, <1>12, <2>2 DEF Original, Displaces, Post, IsFile
      <3>3. s = "clearing" => live'[t] = Post(t)'  BY <1>1, <1>6, <1>11 DEF Post
      <3>4. pre'[p][t] = Original(t)' /\ displaced'[p][t] = Original(t)'
        BY <1>3, <1>5, <1>11, <2>1, <2>2 DEF Original
      <3> QED BY <1>1, <1>11, <3>1, <3>2, <3>3, <3>4 DEF ForwardFits, Drafting
    <2>4. Between(p, t)'
      <3>1. Original(t)' = Original(t) /\ Post(t)' = Post(t) /\ IsFile(t)' = IsFile(t)
        BY <1>11 DEF Original, Post, IsFile
      <3> QED BY <1>1, <1>3, <1>5, <1>6, <1>8, <1>13, <1>15, <2>2, <3>1 DEF Between
    <2> QED BY <2>3, <2>4
  <1>17. Kept(t)'
    <2>1. ASSUME t \in edited \ raced
          PROVE  live[t] = "mine" \/ \E j \in Installers : "mine" \in {displaced[j][t], evidence[j][t], backup[j][t]}
      BY <2>1 DEF InstallInv, Kept
    <2> QED BY <1>1, <1>5, <1>11, <1>12, <2>1 DEF Kept
  <1>18. Own(t)'
    <2>1. Own(t)  BY DEF InstallInv
    <2> QED BY <1>1, <1>6, <1>11, <2>1 DEF Own, Original
  <1> QED BY <1>1, <1>10, <1>14, <1>15, <1>16, <1>17, <1>18, ActFits DEF Drafting

LEMMA PlaceActFits ==
  ASSUME InstallInv, NEW p \in Installers, Place(p)
  PROVE  InstallInv'
  <1>1. PICK t \in Targets :
          /\ pc[p] = "placing" /\ at[p] = t /\ of[p] = p /\ Move(p, "clearing") /\ ~Occupied(t)
          /\ live' = [live EXCEPT ![t] = "new"] /\ temp' = [temp EXCEPT ![t] = "absent"]
          /\ UNCHANGED <<spare, displaced, backup, evidence, journal, lock, user>>
    <2>1. pc[p] = "placing" /\ ~Refuses(p)  BY DEF Place, Step
    <2>2. at[p] \in Targets /\ of[p] = p  BY <2>1, ForwardFacts DEF Forward
    <2> QED BY <2>1, <2>2 DEF Place, Step, Refuses
  <1>2. pc[p] \in Forward  BY <1>1 DEF Forward
  <1>3. UNCHANGED <<status, state, pre, token>>  BY <1>1 DEF journal
  <1>4. live' \in [Targets -> Contents] /\ live'[t] = "new" /\ \A u \in Targets \ {t} : live'[u] = live[u]
    BY <1>1 DEF InstallInv, Types, DiskTypes, Contents
  <1>5. DiskTypes'  BY <1>1, <1>4 DEF InstallInv, Types, DiskTypes
  <1>6. state[p][t] = "activating"  BY <1>1, <1>2, ForwardFacts DEF Going, Targets
  <1>7. state' \in [Installers -> [Targets -> States]]  BY <1>3 DEF InstallInv, Types, JournalTypes
  <1>8. Acts(p, t, "clearing")  BY <1>1, <1>3, <1>4, <1>5, <1>6, <1>7 DEF Acts, Acting
  <1>9. pc'[p] = "clearing" /\ at'[p] = t /\ UNCHANGED <<plan, edited, raced, halved>>
    BY <1>8, ActsFacts
  <1>10. StepFits(p)'  BY <1>9 DEF StepFits
  <1>11. Post(t) = "new" /\ StepFits(p) /\ MineAt(p)  BY <1>1, <1>2, ForwardFacts DEF StepFits
  <1>12. ASSUME t \notin edited  PROVE ForwardFits(p, t)' /\ Between(p, t)'
    <2>1. ForwardFits(p, t) /\ DiskFits(p, t)  BY <1>2, <1>12, ForwardFacts
    <2>2. Original(t)' = Original(t) /\ Post(t)' = Post(t) /\ IsFile(t)' = IsFile(t)
      BY <1>9 DEF Original, Post, IsFile
    <2>3. evidence[p][t] = "absent" /\ displaced[p][t] \in {"absent", Original(t)} /\ pre[p][t] = Original(t)
      BY <2>1 DEF ForwardFits
    <2>4. ForwardFits(p, t)'
      BY <1>1, <1>3, <1>4, <1>6, <1>9, <1>11, <2>2, <2>3 DEF ForwardFits, Drafting
    <2>5. Between(p, t)'
      BY <1>1, <1>3, <1>4, <1>11, <2>2, <2>3 DEF Between
    <2> QED BY <2>4, <2>5
  <1>13. Kept(t)'
    <2>1. ASSUME t \in edited \ raced
          PROVE  \E j \in Installers : "mine" \in {displaced[j][t], evidence[j][t], backup[j][t]}
      <3>1. live[t] = "mine" \/ \E j \in Installers : "mine" \in {displaced[j][t], evidence[j][t], backup[j][t]}
        BY <2>1 DEF InstallInv, Kept
      <3>2. CASE live[t] = "mine"
        <4>1. IsFile(t)  BY <1>1, <3>2 DEF Occupied
        <4>2. pre[p][t] = "mine"  BY <1>1, <1>11, <2>1, <3>2, <4>1 DEF MineAt
        <4>3. backup[p][t] = "mine"  BY <1>6, <4>2 DEF InstallInv, MineSaved
        <4> QED BY <4>3
      <3> QED BY <3>1, <3>2
    <2> QED BY <1>1, <1>9, <2>1 DEF Kept
  <1>14. Own(t)'
    <2>1. Own(t)  BY DEF InstallInv
    <2> QED BY <1>1, <1>4, <1>9, <2>1 DEF Own, Original
  <1> QED BY <1>8, <1>10, <1>12, <1>13, <1>14, ActFits DEF Drafting

LEMMA ClearFits ==
  ASSUME InstallInv, NEW p \in Installers, Clear(p)
  PROVE  InstallInv'
  <1>1. PICK t \in Targets :
          /\ pc[p] = "clearing" /\ at[p] = t /\ of[p] = p /\ Move(p, "activated")
          /\ displaced[p][t] \in {"absent", pre[p][t]}
          /\ displaced' = [displaced EXCEPT ![p][t] = "absent"]
          /\ UNCHANGED <<live, temp, spare, backup, evidence, journal, lock, user>>
    <2>1. pc[p] = "clearing" /\ ~Refuses(p)  BY DEF Clear, Step
    <2>2. at[p] \in Targets /\ of[p] = p  BY <2>1, ForwardFacts DEF Forward
    <2> QED BY <2>1, <2>2 DEF Clear, Step, Refuses
  <1>2. pc[p] \in Forward  BY <1>1 DEF Forward
  <1>3. UNCHANGED <<status, state, pre, token>>  BY <1>1 DEF journal
  <1>4. /\ displaced' \in Places /\ displaced'[p][t] = "absent"
        /\ \A k \in Installers, u \in Targets : k # p \/ u # t => displaced'[k][u] = displaced[k][u]
    <2>1. displaced \in Places /\ "absent" \in Contents  BY DEF InstallInv, Types, DiskTypes, Contents
    <2> QED BY <1>1, <2>1 DEF Places
  <1>5. DiskTypes'  BY <1>1, <1>4 DEF InstallInv, Types, DiskTypes
  <1>6. state[p][t] = "activating"  BY <1>1, <1>2, ForwardFacts DEF Going, Targets
  <1>7. state' \in [Installers -> [Targets -> States]]  BY <1>3 DEF InstallInv, Types, JournalTypes
  <1>8. Acts(p, t, "activated")  BY <1>1, <1>3, <1>4, <1>5, <1>6, <1>7 DEF Acts, Acting
  <1>9. pc'[p] = "activated" /\ at'[p] = t /\ UNCHANGED <<plan, edited, raced, halved>>
    BY <1>8, ActsFacts
  <1>10. StepFits(p)'  BY <1>9 DEF StepFits
  <1>11. ASSUME t \notin edited  PROVE ForwardFits(p, t)' /\ Between(p, t)'
    <2>1. ForwardFits(p, t) /\ DiskFits(p, t)  BY <1>2, <1>11, ForwardFacts
    <2>2. Original(t)' = Original(t) /\ Post(t)' = Post(t) /\ IsFile(t)' = IsFile(t)
      BY <1>9 DEF Original, Post, IsFile
    <2>3. evidence[p][t] = "absent" /\ live[t] = Post(t) /\ pre[p][t] = Original(t)
      BY <1>1, <2>1 DEF ForwardFits
    <2>4. ForwardFits(p, t)'
      BY <1>1, <1>3, <1>4, <1>6, <1>9, <2>2, <2>3 DEF ForwardFits, Drafting
    <2>5. Between(p, t)'
      BY <1>1, <1>4, <2>2, <2>3 DEF Between
    <2> QED BY <2>4, <2>5
  <1>12. Kept(t)'
    <2>1. displaced[p][t] = "mine" => backup[p][t] = "mine"
      BY <1>1, <1>6 DEF InstallInv, MineSaved
    <2>2. ASSUME t \in edited \ raced
          PROVE  live[t] = "mine" \/ \E j \in Installers : "mine" \in {displaced[j][t], evidence[j][t], backup[j][t]}
      BY <2>2 DEF InstallInv, Kept
    <2> QED BY <1>1, <1>4, <1>9, <2>1, <2>2 DEF Kept
  <1>13. Own(t)'  BY <1>1, <1>9 DEF InstallInv, Own, Original
  <1> QED BY <1>8, <1>10, <1>11, <1>12, <1>13, ActFits DEF Drafting

LEMMA ActivatedFits ==
  ASSUME InstallInv, NEW p \in Installers, Activated(p)
  PROVE  InstallInv'
  <1>1. PICK t \in Targets :
          /\ pc[p] = "activated" /\ at[p] = t /\ of[p] = p /\ Move(p, "advancing")
          /\ SetState(p, t, "active") /\ UNCHANGED <<paths, status, pre, token, lock, user>>
    <2>1. pc[p] = "activated"  BY DEF Activated, Step
    <2>2. at[p] \in Targets /\ of[p] = p  BY <2>1, ForwardFacts DEF Forward
    <2> QED BY <2>1, <2>2 DEF Activated, Step
  <1>2. pc[p] \in Forward  BY <1>1 DEF Forward
  <1>3. /\ state' \in [Installers -> [Targets -> States]] /\ state'[p][t] = "active"
        /\ \A k \in Installers, u \in Targets : k # p \/ u # t => state'[k][u] = state[k][u]
    BY <1>1, SetFacts DEF States
  <1>4. UNCHANGED <<live, temp, spare, displaced, backup, evidence>>  BY <1>1 DEF paths
  <1>5. DiskTypes'  BY <1>4 DEF InstallInv, Types, DiskTypes
  <1>6. Acts(p, t, "advancing")  BY <1>1, <1>3, <1>4, <1>5 DEF Acts, Acting
  <1>7. pc'[p] = "advancing" /\ at'[p] = t /\ UNCHANGED <<plan, edited, raced, halved>>
    BY <1>6, ActsFacts
  <1>8. StepFits(p)'  BY <1>7 DEF StepFits
  <1>9. state[p][t] = "activating"  BY <1>1, <1>2, ForwardFacts DEF Going, Targets
  <1>10. ASSUME t \notin edited  PROVE ForwardFits(p, t)' /\ Between(p, t)'
    <2>1. ForwardFits(p, t) /\ DiskFits(p, t)  BY <1>2, <1>10, ForwardFacts
    <2>2. Original(t)' = Original(t) /\ Post(t)' = Post(t) /\ IsFile(t)' = IsFile(t)
      BY <1>7 DEF Original, Post, IsFile
    <2>3. evidence[p][t] = "absent" /\ live[t] = Post(t) /\ displaced[p][t] \in {"absent", Original(t)}
          /\ pre[p][t] = Original(t)
      BY <1>1, <2>1 DEF ForwardFits
    <2>4. ForwardFits(p, t)'
      BY <1>1, <1>4, <1>7, <2>2, <2>3 DEF ForwardFits, Drafting
    <2>5. Between(p, t)'  BY <1>4, <2>2, <2>3 DEF Between
    <2> QED BY <2>4, <2>5
  <1>11. Kept(t)' /\ Own(t)'
    BY <1>4, <1>7 DEF InstallInv, Kept, Own, Original
  <1> QED BY <1>6, <1>8, <1>10, <1>11, ActFits DEF Drafting

LEMMA SaveFits ==
  ASSUME InstallInv, NEW p \in Installers, Save(p)
  PROVE  InstallInv'
  <1>1. pc[p] = "saving" /\ pc[p] \in Forward /\ pc[p] \notin Undoing /\ pc[p] \in Inside /\ Last \in Nat \ {0}
    BY InstallAssumption DEF Save, Forward, Undoing, Inside
  <1>2. PICK t \in Targets :
          /\ at[p] = t /\ of[p] = p
          /\ IF t = Last THEN Visit(p, "beginning", 1) ELSE Visit(p, "checking", t + 1)
          /\ backup' = [backup EXCEPT ![p][t] = IF pre[p][t] = "absent" THEN "absent" ELSE live[t]]
          /\ SetState(p, t, "snapshotted")
          /\ UNCHANGED <<live, temp, spare, displaced, evidence, status, pre, token, lock, user>>
    <2>1. at[p] \in Targets /\ of[p] = p  BY <1>1, ForwardFacts
    <2> QED BY <2>1 DEF Save
  <1>3. PICK s \in {"beginning", "checking"}, a \in Targets :
          /\ Visit(p, s, a)
          /\ s = "beginning" => a = 1 /\ t = Last
          /\ s = "checking" => a = t + 1
    <2>1. CASE t = Last  BY <1>1, <1>2, <2>1 DEF Targets
    <2>2. CASE t # Last  BY <1>1, <1>2, <2>2 DEF Targets
    <2> QED BY <2>1, <2>2
  <1>4. s \in Steps /\ s \in Forward /\ s \in Inside /\ a \in 0 .. Last
    BY <1>1 DEF Steps, Forward, Inside, Targets
  <1>5. /\ pc'[p] = s /\ at'[p] = a /\ of' = of /\ tries' = tries /\ fromPost' = fromPost
        /\ \A q \in Installers \ {p} : pc'[q] = pc[q] /\ of'[q] = of[q]
        /\ pc' \in [Installers -> Steps] /\ at' \in [Installers -> 0 .. Last]
    BY <1>3, <1>4, VisitFacts
  <1>6. /\ state' \in [Installers -> [Targets -> States]] /\ state'[p][t] = "snapshotted"
        /\ \A k \in Installers, u \in Targets : k # p \/ u # t => state'[k][u] = state[k][u]
    BY <1>2, SetFacts DEF States
  <1>7. /\ backup' \in Places /\ backup'[p][t] = IF pre[p][t] = "absent" THEN "absent" ELSE live[t]
        /\ \A k \in Installers, u \in Targets : k # p \/ u # t => backup'[k][u] = backup[k][u]
    <2>1. backup \in Places /\ live[t] \in Contents /\ "absent" \in Contents
      BY DEF InstallInv, Types, DiskTypes, Contents
    <2> QED BY <1>2, <2>1 DEF Places
  <1>8. UNCHANGED <<plan, edited, raced, halved, overlapped>>  BY <1>2 DEF user
  <1>9. Types'
    BY <1>2, <1>5, <1>6, <1>7, <1>8
    DEF InstallInv, Types, DiskTypes, JournalTypes, ControlTypes, UserTypes
  <1>10. Works(p)  BY <1>1, <1>2, <1>4, <1>5 DEF Works
  <1>11. Touches(p, p, t)
    BY <1>1, <1>2, <1>4, <1>5, <1>6, <1>7, <1>9, <1>10 DEF Touches
  <1>12. /\ \A u \in Targets : state[p][u] = IF u < t THEN "snapshotted" ELSE "staged"
         /\ MineAt(p)
         /\ \A u \in Targets \ edited : ForwardFits(p, u) /\ DiskFits(p, u)
    <2>1. \A u \in Targets : Going(p, u) = IF u < t THEN "snapshotted" ELSE "staged"
      BY <1>1, <1>2 DEF Going
    <2> QED BY <1>1, <2>1, ForwardFacts
  <1>13. state[p][t] = "staged"  BY <1>12 DEF Targets
  <1>14. JournalFits(p)'
    <2>1. ASSUME NEW u \in Targets  PROVE state'[p][u] = Going(p, u)'
      <3>1. u \in 1 .. Last /\ t \in 1 .. Last /\ u \in Int /\ t \in Int  BY <1>1 DEF Targets
      <3>2. state'[p][u] = IF u <= t THEN "snapshotted" ELSE "staged"
        BY <1>6, <1>12, <3>1
      <3>3. CASE s = "beginning"
        BY <1>1, <1>3, <1>5, <3>1, <3>2, <3>3 DEF Going
      <3>4. CASE s = "checking"
        BY <1>1, <1>3, <1>5, <3>1, <3>2, <3>4 DEF Going
      <3> QED BY <3>3, <3>4
    <2> QED BY <1>3, <1>5, <2>1 DEF JournalFits, Undoing
  <1>15. StepFits(p)'  BY <1>3, <1>5 DEF StepFits
  <1>16. MineAt(p)'
    <2>1. ASSUME NEW u \in Targets
          PROVE  /\ state'[p][u] \in {"staged", "snapshotted"} => displaced'[p][u] = "absent"
                 /\ state'[p][u] = "staged" => backup'[p][u] = "absent"
      BY <1>1, <1>2, <1>6, <1>7, <1>12 DEF MineAt
    <2> QED BY <1>3, <1>5, <2>1 DEF MineAt, Drafting
  <1>17. ASSUME NEW u \in Targets \ edited  PROVE ForwardFits(p, u)'
    <2>1. state'[p][u] # "active"  BY <1>6, <1>12
    <2>2. Original(u)' = Original(u)  BY <1>8 DEF Original
    <2> QED BY <1>2, <1>3, <1>5, <1>12, <2>1, <2>2 DEF ForwardFits, Drafting
  <1>18. Kept(t)'
    <2>1. backup[p][t] = "absent"  BY <1>1, <1>12, <1>13 DEF MineAt
    <2>2. ASSUME t \in edited \ raced
          PROVE  live[t] = "mine" \/ \E j \in Installers : "mine" \in {displaced[j][t], evidence[j][t], backup[j][t]}
      BY <2>2 DEF InstallInv, Kept
    <2> QED BY <1>2, <1>7, <1>8, <2>1, <2>2 DEF Kept
  <1>19. Own(t)'  BY <1>2, <1>8 DEF InstallInv, Own, Original
  <1>20. MineSaved(p, t)'
    <2>1. MineSaved(p, t)  BY DEF InstallInv
    <2> QED BY <1>1, <1>2, <1>7, <1>8, <1>12, <2>1 DEF MineSaved, MineAt
  <1>21. ASSUME t \notin edited  PROVE DiskFits(p, t)'
    <2>1. DiskFits(p, t)  BY <1>12, <1>21
    <2>2. Original(t)' = Original(t)  BY <1>8 DEF Original
    <2> QED BY <1>2, <1>6, <1>7, <1>13, <2>1, <2>2 DEF DiskFits
  <1>22. \A u \in Targets \ edited : ForwardFits(p, u)'  BY <1>17
  <1> QED BY <1>1, <1>6, <1>11, <1>14, <1>15, <1>16, <1>18, <1>19, <1>20, <1>21, <1>22, TouchFits

-----------------------------------------------------------------------------
(* The steps of a rollback that change a target *)

\* A step of the rollback of target t of transaction j.
Undoes(p, j, t) ==
  /\ pc[p] \in Undoing /\ of[p] = j /\ at[p] = t
  /\ pc'[p] \in Undoing /\ at'[p] \in Targets /\ of' = of /\ tries' = tries /\ fromPost' \subseteq Installers
  /\ pc' \in [Installers -> Steps] /\ at' \in [Installers -> 0 .. Last]
  /\ \A q \in Installers \ {p} : pc'[q] = pc[q]
  /\ UNCHANGED <<backup, status, pre, token, lock, user>>
  /\ DiskTypes' /\ state' \in [Installers -> [Targets -> States]]
  /\ \A u \in Targets \ {t} : live'[u] = live[u] /\ spare'[u] = spare[u]
  /\ \A k \in Installers, u \in Targets : k # j \/ u # t =>
       /\ displaced'[k][u] = displaced[k][u] /\ evidence'[k][u] = evidence[k][u]
       /\ state'[k][u] = state[k][u]

LEMMA UndoesFits ==
  ASSUME InstallInv, NEW p \in Installers, NEW j \in Installers, NEW t \in Targets, Undoes(p, j, t),
         JournalFits(p)', StepFits(p)', MineAt(p)', at'[p] \notin edited => UndoFits(p)',
         state'[j][t] \notin {"none", "staged"} => state[j][t] \notin {"none", "staged"},
         Kept(t)', Own(t)', state'[j][t] # "none", state'[j][t] = "recovery_conflict" => t \in edited \cup halved,
         t \notin edited => DiskFits(j, t)' \/ Broken(j, t)'
  PROVE  InstallInv'
  <1>1. UNCHANGED <<plan, edited, raced, halved, overlapped>> /\ UNCHANGED <<backup, status, pre, token>>
    BY DEF Undoes, user
  <1>2. Types'
    <2>1. DiskTypes'  BY DEF Undoes
    <2>2. JournalTypes'  BY <1>1 DEF Undoes, InstallInv, Types, JournalTypes
    <2>3. ControlTypes'  BY DEF Undoes, InstallInv, Types, ControlTypes
    <2>4. UserTypes'  BY <1>1 DEF InstallInv, Types, UserTypes
    <2> QED BY <2>1, <2>2, <2>3, <2>4 DEF Types
  <1>3. pc[p] \notin Forward /\ pc[p] \in Undoing  BY DEF Undoes, Forward, Undoing
  <1>4. Works(p)  BY DEF Works, Undoes, Inside
  <1>5. Touches(p, j, t)  BY <1>1, <1>2, <1>4 DEF Touches, Undoes
  <1>6. MineSaved(j, t)'
    <2>1. MineSaved(j, t)  BY DEF InstallInv
    <2> QED BY <1>1, <2>1 DEF MineSaved
  <1> HIDE DEF Kept, Own, Undoes
  <1> QED BY <1>3, <1>5, <1>6, TouchFits

\* The rollback goes on with the same target.
LEMMA ContinueFits ==
  ASSUME InstallInv, NEW p \in Installers, NEW j \in Installers, NEW t \in Targets, Undoes(p, j, t),
         pc'[p] \notin {"rolling", "finishing"}, at'[p] = t, state' = state,
         ~Untouched(state[j][t]), StepFits(p)',
         pc'[p] \in {"puttingBack", "restoring", "returning"} /\ IsFile(t) => live'[t] # "mine" \/ t \in raced,
         pc'[p] = "restoring" /\ pre[j][t] = "absent" => live'[t] # "mine" \/ t \in raced,
         t \notin edited => UndoFits(p)' /\ DiskFits(j, t)',
         Kept(t)', Own(t)'
  PROVE  InstallInv'
  <1>1. PICK k \in Installers, u \in Targets :
           /\ of[p] = k /\ at[p] = u
           /\ \A w \in Targets : w > u \/ pc[p] = "finishing" => state[k][w] \in Closed
           /\ state[k][u] # "none" /\ (state[k][u] = "recovery_conflict" => u \in edited \cup halved)
    BY UndoFacts DEF Undoes
  <1>2. k = j /\ u = t /\ UNCHANGED <<of, pre, plan, edited, raced, halved>> /\ pc'[p] \in Undoing
    BY <1>1 DEF Undoes, user
  <1>3. pc'[p] \notin Forward /\ pc'[p] \notin Drafting /\ pc'[p] \notin {"saving", "placing"}
    BY <1>2 DEF Forward, Undoing, Drafting
  <1>4. JournalFits(p)'  BY <1>1, <1>2, <1>3 DEF JournalFits
  <1>5. MineAt(p)'
    BY <1>1, <1>2, <1>3 DEF MineAt, IsFile
  <1>6. at'[p] \notin edited => UndoFits(p)'  OBVIOUS
  <1>7. /\ state'[j][t] \notin {"none", "staged"} => state[j][t] \notin {"none", "staged"}
        /\ state'[j][t] # "none" /\ (state'[j][t] = "recovery_conflict" => t \in edited \cup halved)
    BY <1>1, <1>2
  <1> HIDE DEF Kept, Own, Undoes
  <1> QED BY <1>4, <1>5, <1>6, <1>7, UndoesFits

\* The target is dealt with.
Passed(p, t) ==
  IF t = 1 THEN pc'[p] = "finishing" /\ at'[p] = t ELSE pc'[p] = "rolling" /\ at'[p] = t - 1

LEMMA PassedFacts ==
  ASSUME InstallInv, NEW p \in Installers, NEW t \in Targets, at[p] = t, Next1(p)
  PROVE  /\ Passed(p, t) /\ pc'[p] \in Undoing /\ at'[p] \in Targets /\ of' = of /\ tries' = tries
         /\ pc' \in [Installers -> Steps] /\ at' \in [Installers -> 0 .. Last]
         /\ \A q \in Installers \ {p} : pc'[q] = pc[q]
  <1>1. pc \in [Installers -> Steps] /\ at \in [Installers -> 0 .. Last] /\ Last \in Nat \ {0}
    BY InstallAssumption DEF InstallInv, Types, ControlTypes
  <1>2. t \in 1 .. Last  BY DEF Targets
  <1>3. "finishing" \in Steps /\ "rolling" \in Steps /\ "finishing" \in Undoing /\ "rolling" \in Undoing
    BY DEF Steps, Inside, Undoing
  <1> QED BY <1>1, <1>2, <1>3 DEF Next1, Goto, Passed, Targets

LEMMA SettledFits ==
  ASSUME InstallInv, NEW p \in Installers, NEW j \in Installers, NEW t \in Targets, Undoes(p, j, t),
         Passed(p, t), state'[j][t] \in Closed,
         state'[j][t] \notin {"none", "staged"} => state[j][t] \notin {"none", "staged"},
         state'[j][t] = "recovery_conflict" => t \in edited \cup halved,
         t \notin edited => DiskFits(j, t)' \/ Broken(j, t)',
         Kept(t)', Own(t)'
  PROVE  InstallInv'
  <1>1. PICK k \in Installers, u \in Targets :
           /\ of[p] = k /\ at[p] = u
           /\ \A w \in Targets : w > u \/ pc[p] = "finishing" => state[k][w] \in Closed
    BY UndoFacts DEF Undoes
  <1>2. k = j /\ u = t /\ of' = of  BY <1>1 DEF Undoes
  <1>3. t \in 1 .. Last /\ Last \in Nat  BY InstallAssumption DEF Targets
  <1>4. pc'[p] \in {"rolling", "finishing"} /\ pc'[p] \notin Forward \cup Drafting
    BY DEF Passed, Forward, Drafting
  <1>5. ASSUME NEW w \in Targets, w > at'[p] \/ pc'[p] = "finishing"  PROVE state'[j][w] \in Closed
    <2>1. w = t \/ w > t  BY <1>3, <1>5 DEF Passed, Targets
    <2>2. CASE w = t  BY <2>2
    <2>3. CASE w > t /\ w # t
      BY <1>1, <1>2, <2>3 DEF Undoes
    <2> QED BY <1>3, <2>1, <2>2, <2>3 DEF Targets
  <1>6. JournalFits(p)'  BY <1>1, <1>2, <1>4, <1>5 DEF JournalFits
  <1>7. StepFits(p)' /\ MineAt(p)' /\ UndoFits(p)'
    BY <1>4 DEF StepFits, MineAt, UndoFits
  <1>8. state'[j][t] # "none"  BY DEF Closed
  <1> HIDE DEF Kept, Own, Undoes
  <1> QED BY <1>6, <1>7, <1>8, UndoesFits

\* What holds of a target that a rollback is to undo, when the user left it alone.
LEMMA UndoneFacts ==
  ASSUME InstallInv, NEW j \in Installers, NEW t \in Targets, DiskFits(j, t), ~Untouched(state[j][t])
  PROVE  /\ pre[j][t] = Original(t) /\ state[j][t] \in {"snapshotted", "activating", "active"}
         /\ backup[j][t] = Original(t)
         /\ displaced[j][t] \in {"absent", "torn", Original(t)} /\ evidence[j][t] \in {"absent", "torn", Post(t)}
         /\ state[j][t] = "snapshotted" => live[t] = Original(t) /\ displaced[j][t] = "absent" /\ evidence[j][t] = "absent"
         /\ state[j][t] # "snapshotted" => Between(j, t)
         /\ live[t] \in {Original(t), Post(t), "absent"}
  <1>1. state[j][t] \in States  BY DEF InstallInv, Types, JournalTypes
  <1>2. state[j][t] \in {"snapshotted", "activating", "active"}
    BY <1>1 DEF DiskFits, Untouched, States
  <1> QED BY <1>2 DEF DiskFits, Between

\* A copy of what the journal requires, when the user saved it, is in the backup.
LEMMA BackupFacts ==
  ASSUME InstallInv, NEW j \in Installers, NEW t \in Targets, state[j][t] # "none", ~Untouched(state[j][t]),
         pre[j][t] = "mine"
  PROVE  backup[j][t] = "mine"
  BY DEF InstallInv, MineSaved, Untouched

LEMMA WithoutFacts ==
  ASSUME NEW f \in Places, NEW j \in Installers, NEW t \in Targets, NEW c
  PROVE  /\ Without(f, j, t, c) \in Places /\ Without(f, j, t, c)[j][t] \in {"absent", f[j][t]}
         /\ Without(f, j, t, c)[j][t] # f[j][t] => f[j][t] = c
         /\ \A k \in Installers, u \in Targets : k # j \/ u # t => Without(f, j, t, c)[k][u] = f[k][u]
  BY DEF Without, Places, Contents

LEMMA ExamineFits ==
  ASSUME InstallInv, NEW p \in Installers, Examine(p)
  PROVE  InstallInv'
  <1>1. pc[p] = "rolling" /\ pc[p] \in Undoing  BY DEF Examine, Undoing
  <1>2. PICK j \in Installers, t \in Targets :
           /\ of[p] = j /\ at[p] = t /\ status[j] = "active" /\ t \in 0 .. Last
           /\ state[j][t] # "none" /\ (state[j][t] = "recovery_conflict" => t \in edited \cup halved)
           /\ MineSaved(j, t) /\ Kept(t) /\ Own(t)
           /\ t \notin edited => DiskFits(j, t) \/ Broken(j, t)
           /\ state[j][t] \in States /\ pre[j][t] \in Contents /\ live[t] \in Contents
    BY <1>1, UndoFacts
  <1>3. UNCHANGED <<live, spare, backup, status, pre, token, lock, user>>  BY DEF Examine
  <1>4. UNCHANGED <<plan, edited, raced, halved>>  BY <1>3 DEF user
  <1>5. displaced \in Places /\ evidence \in Places /\ temp \in [Targets -> {"absent", "new", "torn"}]
        /\ state \in [Installers -> [Targets -> States]] /\ fromPost \subseteq Installers /\ of \in [Installers -> Installers]
    BY DEF InstallInv, Types, DiskTypes, JournalTypes, ControlTypes
  <1>6. Original(t)' = Original(t) /\ Post(t)' = Post(t) /\ IsFile(t)' = IsFile(t)
    BY <1>4 DEF Original, Post, IsFile
  <1>7. Own(t)'  BY <1>2, <1>3, <1>4, <1>6 DEF Own
  <1>8. Post(t) \in {"absent", "new"} /\ Original(t) \in {"absent", "old", "part"} /\ Original(t) # Post(t)
    BY PlanFacts DEF InstallInv
  <1>9. CASE Untouched(state[j][t])
    <2>1. Next1(p) /\ UNCHANGED <<temp, displaced, evidence, state, fromPost>>
      BY <1>2, <1>9 DEF Examine
    <2>2. /\ Passed(p, t) /\ pc'[p] \in Undoing /\ at'[p] \in Targets /\ of' = of /\ tries' = tries
          /\ pc' \in [Installers -> Steps] /\ at' \in [Installers -> 0 .. Last]
          /\ \A q \in Installers \ {p} : pc'[q] = pc[q]
      BY <1>2, <2>1, PassedFacts
    <2>3. Undoes(p, j, t)
      <3>1. DiskTypes'  BY <1>3, <2>1 DEF InstallInv, Types, DiskTypes
      <3> QED BY <1>1, <1>2, <1>3, <1>5, <2>1, <2>2, <3>1 DEF Undoes
    <2>4. state'[j][t] \in Closed /\ state' = state  BY <1>9, <2>1 DEF Closed, Untouched
    <2>5. Kept(t)'  BY <1>2, <1>3, <1>4, <2>1 DEF Kept
    <2>6. t \notin edited => DiskFits(j, t)' \/ Broken(j, t)'
      <3>1. DiskFits(j, t) => DiskFits(j, t)'  BY <1>2, <1>3, <1>6, <2>1 DEF DiskFits, Between
      <3>2. Broken(j, t) => Broken(j, t)'  BY <1>3, <1>4, <2>1 DEF Broken
      <3> QED BY <1>2, <3>1, <3>2
    <2> HIDE DEF Kept, Own, Passed, Undoes
    <2> QED BY <1>2, <1>7, <2>2, <2>3, <2>4, <2>5, <2>6, SettledFits
  <1>10. CASE ~Untouched(state[j][t])
    <2>1. /\ temp' = IF temp[t] = Post(t) THEN [temp EXCEPT ![t] = "absent"] ELSE temp
          /\ IF live[t] = pre[j][t]
             THEN /\ displaced' = Without(displaced, j, t, pre[j][t])
                  /\ evidence' = Without(evidence, j, t, Post(t))
                  /\ Settle(p, "rolled_back")
             ELSE /\ UNCHANGED <<displaced, evidence>>
                  /\ IF Retired(j, t) THEN Move(p, "restoring") /\ UNCHANGED state
                     ELSE IF state[j][t] = "activating" /\ live[t] = "absent" /\ pre[j][t] # "absent"
                             /\ displaced[j][t] = pre[j][t]
                     THEN Move(p, "puttingBack") /\ UNCHANGED state
                     ELSE IF live[t] # Post(t) THEN Settle(p, "recovery_conflict")
                     ELSE /\ Goto(p, "restoring") /\ fromPost' = fromPost \cup {p}
                          /\ UNCHANGED <<state, at, of, tries>>
      BY <1>2, <1>10 DEF Examine
    <2>2. temp' \in [Targets -> {"absent", "new", "torn"}]  BY <1>5, <2>1
    <2>3. CASE live[t] = pre[j][t]
      <3>1. /\ displaced' = Without(displaced, j, t, pre[j][t])
            /\ evidence' = Without(evidence, j, t, Post(t))
            /\ SetState(j, t, "rolled_back") /\ Next1(p) /\ fromPost' = fromPost \ {p}
        BY <1>2, <2>1, <2>3 DEF Settle
      <3>2. /\ Passed(p, t) /\ pc'[p] \in Undoing /\ at'[p] \in Targets /\ of' = of /\ tries' = tries
            /\ pc' \in [Installers -> Steps] /\ at' \in [Installers -> 0 .. Last]
            /\ \A q \in Installers \ {p} : pc'[q] = pc[q]
        BY <1>2, <3>1, PassedFacts
      <3>3. /\ state' \in [Installers -> [Targets -> States]] /\ state'[j][t] = "rolled_back"
            /\ \A k \in Installers, u \in Targets : k # j \/ u # t => state'[k][u] = state[k][u]
        BY <3>1, SetFacts DEF States
      <3>4. /\ displaced' \in Places /\ displaced'[j][t] \in {"absent", displaced[j][t]}
            /\ displaced'[j][t] # displaced[j][t] => displaced[j][t] = pre[j][t]
            /\ \A k \in Installers, u \in Targets : k # j \/ u # t => displaced'[k][u] = displaced[k][u]
        BY <1>5, <3>1, WithoutFacts
      <3>5. /\ evidence' \in Places /\ evidence'[j][t] \in {"absent", evidence[j][t]}
            /\ evidence'[j][t] # evidence[j][t] => evidence[j][t] = Post(t)
            /\ \A k \in Installers, u \in Targets : k # j \/ u # t => evidence'[k][u] = evidence[k][u]
        BY <1>5, <3>1, WithoutFacts
      <3>6. Undoes(p, j, t)
        <4>1. DiskTypes'  BY <1>3, <2>2, <3>4, <3>5 DEF InstallInv, Types, DiskTypes
        <4>2. fromPost' \subseteq Installers  BY <1>5, <3>1
        <4> QED BY <1>1, <1>2, <1>3, <3>2, <3>3, <3>4, <3>5, <4>1, <4>2 DEF Undoes
      <3>7. Kept(t)'
        <4>1. pre[j][t] = "mine" => backup[j][t] = "mine"  BY <1>2, <1>10, BackupFacts
        <4>2. ASSUME t \in edited \ raced
              PROVE  live[t] = "mine" \/ \E k \in Installers : "mine" \in {displaced[k][t], evidence[k][t], backup[k][t]}
          BY <1>2, <4>2 DEF Kept
        <4> QED BY <1>3, <1>4, <1>8, <3>4, <3>5, <4>1, <4>2 DEF Kept
      <3>8. t \notin edited => DiskFits(j, t)'
        <4>1. ASSUME t \notin edited  PROVE DiskFits(j, t)
          <5>1. ~Broken(j, t)  BY <2>3 DEF Broken
          <5> QED BY <1>2, <4>1, <5>1
        <4> QED BY <1>2, <1>3, <1>6, <2>3, <3>3, <4>1 DEF DiskFits
      <3>9. state[j][t] \notin {"none", "staged"}  BY <1>2, <1>10 DEF Untouched
      <3>10. state'[j][t] \in Closed /\ state'[j][t] # "recovery_conflict"  BY <3>3 DEF Closed
      <3> HIDE DEF Kept, Own, Passed, Undoes
      <3> QED BY <1>7, <3>2, <3>6, <3>7, <3>8, <3>9, <3>10, SettledFits
    <2>4. CASE live[t] # pre[j][t]
      <3>1. UNCHANGED <<displaced, evidence>>  BY <2>1, <2>4
      <3>2. Kept(t)'  BY <1>2, <1>3, <1>4, <3>1 DEF Kept
      <3>3. DiskTypes'  BY <1>3, <2>2, <3>1 DEF InstallInv, Types, DiskTypes
      <3> DEFINE aside == state[j][t] = "activating" /\ live[t] = "absent" /\ pre[j][t] # "absent"
                          /\ displaced[j][t] = pre[j][t]
      <3>4. CASE ~Retired(j, t) /\ ~aside /\ live[t] # Post(t)
        <4>1. SetState(j, t, "recovery_conflict") /\ Next1(p) /\ fromPost' = fromPost \ {p}
          BY <1>2, <2>1, <2>4, <3>4 DEF Settle
        <4>2. /\ Passed(p, t) /\ pc'[p] \in Undoing /\ at'[p] \in Targets /\ of' = of /\ tries' = tries
              /\ pc' \in [Installers -> Steps] /\ at' \in [Installers -> 0 .. Last]
              /\ \A q \in Installers \ {p} : pc'[q] = pc[q]
          BY <1>2, <4>1, PassedFacts
        <4>3. /\ state' \in [Installers -> [Targets -> States]] /\ state'[j][t] = "recovery_conflict"
              /\ \A k \in Installers, u \in Targets : k # j \/ u # t => state'[k][u] = state[k][u]
          BY <4>1, SetFacts DEF States
        <4>4. Undoes(p, j, t)
          <5>1. fromPost' \subseteq Installers  BY <1>5, <4>1
          <5> QED BY <1>1, <1>2, <1>3, <3>1, <3>3, <4>2, <4>3, <5>1 DEF Undoes
        <4>5. t \notin edited => Broken(j, t)
          <5>1. ASSUME t \notin edited, ~Broken(j, t)  PROVE FALSE
            <6>1. /\ pre[j][t] = Original(t) /\ state[j][t] \in {"snapshotted", "activating", "active"}
                  /\ state[j][t] = "snapshotted" => live[t] = Original(t)
                  /\ state[j][t] # "snapshotted" => Between(j, t)
                  /\ live[t] \in {Original(t), Post(t), "absent"}
              BY <1>2, <1>10, <5>1, UndoneFacts
            <6>2. live[t] = "absent" /\ Original(t) # "absent" /\ Post(t) # "absent" /\ Between(j, t)
              BY <2>4, <3>4, <6>1
            <6>3. ~IsFile(t) /\ (evidence[j][t] = Post(t) \/ (state[j][t] = "activating" /\ displaced[j][t] = Original(t)))
              BY <6>2 DEF Between
            <6> QED BY <3>4, <6>1, <6>2, <6>3 DEF Retired
          <5> QED BY <5>1
        <4>6. state[j][t] \notin {"none", "staged"} /\ state'[j][t] \in Closed
          BY <1>2, <1>10, <4>3 DEF Untouched, Closed
        <4>7. /\ t \notin edited => Broken(j, t)'
              /\ t \in edited \cup halved
          BY <1>3, <1>4, <4>3, <4>5 DEF Broken
        <4> HIDE DEF Kept, Own, Passed, Undoes
        <4> QED BY <1>7, <3>2, <4>2, <4>4, <4>6, <4>7, SettledFits
      <3>5. CASE Retired(j, t) \/ aside \/ live[t] = Post(t)
        <4>1. PICK s \in {"restoring", "puttingBack"} :
                /\ pc' = [pc EXCEPT ![p] = s] /\ UNCHANGED <<state, of, tries>>
                /\ at' = [at EXCEPT ![p] = t] \/ at' = at
                /\ fromPost' = fromPost \/ fromPost' = fromPost \cup {p}
                /\ s = "restoring" => Retired(j, t) \/ live[t] = Post(t)
                /\ s = "puttingBack" => aside
          BY <1>2, <2>1, <2>4, <3>5 DEF Move, Visit, Goto
        <4>2. pc \in [Installers -> Steps] /\ at \in [Installers -> 0 .. Last]
          BY DEF InstallInv, Types, ControlTypes
        <4>3. s \in Steps /\ s \in Undoing  BY DEF Steps, Inside, Undoing
        <4>4. pc'[p] = s /\ at'[p] = t /\ pc' \in [Installers -> Steps] /\ at' \in [Installers -> 0 .. Last]
              /\ \A q \in Installers \ {p} : pc'[q] = pc[q]
          BY <1>2, <4>1, <4>2, <4>3
        <4>5. Undoes(p, j, t)
          <5>1. fromPost' \subseteq Installers  BY <1>5, <4>1
          <5> QED BY <1>1, <1>2, <1>3, <1>5, <3>1, <3>3, <4>1, <4>3, <4>4, <5>1 DEF Undoes
        <4>6. StepFits(p)'  BY <4>4 DEF StepFits
        <4>7. s \in {"puttingBack", "restoring"} /\ IsFile(t) => live'[t] # "mine"
          BY <1>3, <1>8, <4>1 DEF Retired
        <4>8. s = "restoring" /\ pre[j][t] = "absent" => live'[t] # "mine"
          BY <1>3, <1>8, <4>1 DEF Retired
        <4>9. ASSUME t \notin edited  PROVE UndoFits(p)' /\ DiskFits(j, t)'
          <5>0. DiskFits(j, t)
            <6>1. ~Broken(j, t)  BY <1>8, <3>5 DEF Broken, Retired
            <6> QED BY <1>2, <4>9, <6>1
          <5>1. DiskFits(j, t)'
            BY <1>2, <1>3, <1>6, <3>1, <4>1, <5>0 DEF DiskFits, Between
          <5>2. pre[j][t] = Original(t)  BY <5>0 DEF DiskFits
          <5>3. UndoFits(p)'
            BY <1>2, <1>3, <1>6, <3>1, <4>1, <4>4, <5>2 DEF UndoFits, Retired
          <5> QED BY <5>1, <5>3
        <4>10. state' = state /\ pc'[p] \notin {"rolling", "finishing"}  BY <4>1, <4>4
        <4> HIDE DEF Kept, Own, Undoes
        <4> QED BY <1>7, <1>10, <3>2, <4>4, <4>5, <4>6, <4>7, <4>8, <4>9, <4>10, ContinueFits
      <3> QED BY <3>4, <3>5
    <2> QED BY <2>3, <2>4
  <1> QED BY <1>9, <1>10

LEMMA UndoMoveFacts ==
  ASSUME InstallInv, NEW p \in Installers, NEW t \in Targets, at[p] = t, NEW s \in Undoing, Move(p, s)
  PROVE  /\ pc'[p] = s /\ at'[p] = t /\ of' = of /\ tries' = tries /\ fromPost' \subseteq Installers
         /\ pc'[p] \in Undoing /\ at'[p] \in Targets
         /\ pc' \in [Installers -> Steps] /\ at' \in [Installers -> 0 .. Last]
         /\ \A q \in Installers \ {p} : pc'[q] = pc[q]
  <1>1. s \in Steps  BY DEF Steps, Inside
  <1>2. Visit(p, s, t) /\ t \in 0 .. Last  BY <1>1, MoveFacts
  <1> QED BY <1>1, <1>2, VisitFacts

LEMMA RestoreFits ==
  ASSUME InstallInv, NEW p \in Installers, Restore(p)
  PROVE  InstallInv'
  <1>1. pc[p] = "restoring" /\ pc[p] \in Undoing  BY DEF Restore, Step, Undoing
  <1>2. PICK j \in Installers, t \in Targets :
           /\ of[p] = j /\ at[p] = t /\ status[j] = "active" /\ t \in 0 .. Last
           /\ ~Untouched(state[j][t]) /\ state[j][t] # "none"
           /\ StepFits(p) /\ MineAt(p) /\ Kept(t) /\ Own(t)
           /\ t \notin edited => UndoFits(p) /\ DiskFits(j, t)
           /\ pre[j][t] \in Contents /\ live[t] \in Contents
    BY <1>1, UndoFacts
  <1>3. UNCHANGED <<temp, displaced, backup, evidence, journal, lock, user>>  BY DEF Restore
  <1>4. UNCHANGED <<plan, edited, raced, halved, status, state, pre, token>>  BY <1>3 DEF user, journal
  <1>5. Original(t)' = Original(t) /\ Post(t)' = Post(t) /\ IsFile(t)' = IsFile(t)
    BY <1>4 DEF Original, Post, IsFile
  <1>6. Post(t) \in {"absent", "new"} /\ Original(t) \in {"absent", "old", "part"} /\ Original(t) # Post(t)
    BY PlanFacts DEF InstallInv
  <1>7. /\ displaced \in Places /\ evidence \in Places /\ live \in [Targets -> Contents]
        /\ spare \in [Targets -> Contents] /\ state \in [Installers -> [Targets -> States]]
        /\ fromPost \subseteq Installers /\ "absent" \in Contents
    BY DEF InstallInv, Types, DiskTypes, JournalTypes, ControlTypes, Contents
  <1>8. PICK s \in {"settling", "retiring", "returning"} :
          /\ s = IF pre[j][t] = "absent" THEN "settling"
                 ELSE IF ~IsFile(t) /\ Post(t) # "absent" THEN "retiring" ELSE "returning"
          /\ Move(p, s)
          /\ IF pre[j][t] = "absent"
             THEN live' = [live EXCEPT ![t] = "absent"] /\ UNCHANGED spare
             ELSE spare' = [spare EXCEPT ![t] = pre[j][t]] /\ UNCHANGED live
    BY <1>2 DEF Restore, Step
  <1>9. s \in Undoing  BY DEF Undoing
  <1>10. /\ pc'[p] = s /\ at'[p] = t /\ of' = of /\ tries' = tries /\ fromPost' \subseteq Installers
         /\ pc'[p] \in Undoing /\ at'[p] \in Targets
         /\ pc' \in [Installers -> Steps] /\ at' \in [Installers -> 0 .. Last]
         /\ \A q \in Installers \ {p} : pc'[q] = pc[q]
    BY <1>2, <1>8, <1>9, UndoMoveFacts
  <1>11. live' \in [Targets -> Contents] /\ spare' \in [Targets -> Contents]
         /\ \A u \in Targets \ {t} : live'[u] = live[u] /\ spare'[u] = spare[u]
    BY <1>2, <1>7, <1>8
  <1>12. \/ pre[j][t] = "absent" /\ live'[t] = "absent" /\ spare'[t] = spare[t] /\ s = "settling"
         \/ /\ pre[j][t] # "absent" /\ live'[t] = live[t] /\ spare'[t] = pre[j][t]
            /\ s = IF ~IsFile(t) /\ Post(t) # "absent" THEN "retiring" ELSE "returning"
    BY <1>7, <1>8
  <1>13. Undoes(p, j, t)
    <2>1. DiskTypes'  BY <1>3, <1>11 DEF InstallInv, Types, DiskTypes
    <2>2. state' \in [Installers -> [Targets -> States]]  BY <1>4, <1>7
    <2> QED BY <1>1, <1>2, <1>3, <1>4, <1>10, <1>11, <2>1, <2>2 DEF Undoes
  <1>14. StepFits(p)'  BY <1>2, <1>4, <1>5, <1>10, <1>12 DEF StepFits
  <1>15. IsFile(t) \/ pre[j][t] = "absent" => live[t] # "mine" \/ t \in raced
    BY <1>1, <1>2 DEF MineAt
  <1>16. Kept(t)'
    BY <1>2, <1>3, <1>4, <1>12, <1>15 DEF Kept
  <1>17. Own(t)'
    <2>1. t \notin edited => pre[j][t] = Original(t)  BY <1>2 DEF DiskFits
    <2> QED BY <1>2, <1>4, <1>5, <1>12, <2>1 DEF Own
  <1>18. ASSUME t \notin edited  PROVE UndoFits(p)' /\ DiskFits(j, t)'
    <2>1. /\ pre[j][t] = Original(t) /\ state[j][t] \in {"snapshotted", "activating", "active"}
          /\ backup[j][t] = Original(t)
          /\ displaced[j][t] \in {"absent", "torn", Original(t)} /\ evidence[j][t] \in {"absent", "torn", Post(t)}
          /\ state[j][t] = "snapshotted" => live[t] = Original(t) /\ displaced[j][t] = "absent" /\ evidence[j][t] = "absent"
          /\ state[j][t] # "snapshotted" => Between(j, t)
      BY <1>2, <1>18, UndoneFacts
    <2>2. live[t] = Post(t) \/ Retired(j, t)  BY <1>1, <1>2, <1>18 DEF UndoFits
    <2>3. UNCHANGED <<displaced, backup, evidence>>  BY <1>3
    <2>4. CASE pre[j][t] = "absent"
      <3>1. live'[t] = Original(t) /\ s = "settling" /\ Original(t) = "absent" /\ live'[t] # Post(t)
        BY <1>6, <1>12, <2>1, <2>4
      <3>2. DiskFits(j, t)'
        BY <1>4, <1>5, <2>1, <2>3, <3>1 DEF DiskFits, Between
      <3>3. pre'[j][t] = Original(t)'  BY <1>4, <1>5, <2>1
      <3>4. pc'[p] = "settling" /\ at'[p] = t /\ of'[p] = j  BY <1>2, <1>10, <3>1
      <3>5. live'[t] = Original(t)'  BY <1>5, <3>1
      <3> QED BY <3>2, <3>3, <3>4, <3>5 DEF UndoFits
    <2>5. CASE pre[j][t] # "absent"
      <3>1. live'[t] = live[t]  BY <1>12, <2>5
      <3>2. DiskFits(j, t)'
        BY <1>2, <1>4, <1>5, <1>18, <2>3, <3>1 DEF DiskFits, Between
      <3>3. Retired(j, t) => Retired(j, t)' /\ live[t] = "absent"
        BY <1>4, <1>5, <2>3, <3>1 DEF Retired
      <3>4. UndoFits(p)'
        BY <1>2, <1>4, <1>5, <1>10, <1>12, <2>2, <2>5, <3>1, <3>3 DEF UndoFits
      <3> QED BY <3>2, <3>4
    <2> QED BY <2>4, <2>5
  <1>19. pc'[p] \in {"puttingBack", "restoring", "returning"} /\ IsFile(t) => live'[t] # "mine" \/ t \in raced
    BY <1>10, <1>12, <1>15
  <1>20. pc'[p] \notin {"rolling", "finishing"} /\ pc'[p] # "restoring" /\ state' = state
    BY <1>4, <1>10
  <1> HIDE DEF Kept, Own, Undoes
  <1> QED BY <1>2, <1>10, <1>13, <1>14, <1>16, <1>17, <1>18, <1>19, <1>20, ContinueFits

LEMMA EvictFits ==
  ASSUME InstallInv, NEW p \in Installers, Evict(p)
  PROVE  InstallInv'
  <1>1. pc[p] = "evicting" /\ pc[p] \in Undoing  BY DEF Evict, Step, Undoing
  <1>2. PICK j \in Installers, t \in Targets :
           /\ of[p] = j /\ at[p] = t /\ status[j] = "active" /\ t \in 0 .. Last
           /\ ~Untouched(state[j][t]) /\ state[j][t] # "none"
           /\ StepFits(p) /\ MineAt(p) /\ Kept(t) /\ Own(t)
           /\ t \notin edited => UndoFits(p) /\ DiskFits(j, t)
           /\ pre[j][t] \in Contents /\ live[t] \in Contents
    BY <1>1, UndoFacts
  <1>3. UNCHANGED <<temp, spare, displaced, backup, journal, lock, user>>  BY DEF Evict
  <1>4. UNCHANGED <<plan, edited, raced, halved, status, state, pre, token>>  BY <1>3 DEF user, journal
  <1>5. Original(t)' = Original(t) /\ Post(t)' = Post(t) /\ IsFile(t)' = IsFile(t)
    BY <1>4 DEF Original, Post, IsFile
  <1>6. Post(t) \in {"absent", "new"} /\ Original(t) \in {"absent", "old", "part"} /\ Original(t) # Post(t)
    BY PlanFacts DEF InstallInv
  <1>7. /\ displaced \in Places /\ evidence \in Places /\ live \in [Targets -> Contents]
        /\ spare \in [Targets -> Contents] /\ state \in [Installers -> [Targets -> States]]
        /\ fromPost \subseteq Installers /\ "absent" \in Contents
    BY DEF InstallInv, Types, DiskTypes, JournalTypes, ControlTypes, Contents
  <1>8. /\ Move(p, "returning")
        /\ evidence' = [evidence EXCEPT ![j][t] = live[t]] /\ live' = [live EXCEPT ![t] = "absent"]
    BY <1>2 DEF Evict, Step
  <1>9. "returning" \in Undoing  BY DEF Undoing
  <1>10. /\ pc'[p] = "returning" /\ at'[p] = t /\ of' = of /\ tries' = tries /\ fromPost' \subseteq Installers
         /\ pc'[p] \in Undoing /\ at'[p] \in Targets
         /\ pc' \in [Installers -> Steps] /\ at' \in [Installers -> 0 .. Last]
         /\ \A q \in Installers \ {p} : pc'[q] = pc[q]
    BY <1>2, <1>8, <1>9, UndoMoveFacts
  <1>11. live' \in [Targets -> Contents] /\ live'[t] = "absent" /\ \A u \in Targets \ {t} : live'[u] = live[u]
    BY <1>7, <1>8
  <1>12. /\ evidence' \in Places /\ evidence'[j][t] = live[t]
         /\ \A k \in Installers, u \in Targets : k # j \/ u # t => evidence'[k][u] = evidence[k][u]
    BY <1>2, <1>7, <1>8 DEF Places
  <1>13. Undoes(p, j, t)
    <2>1. DiskTypes'  BY <1>3, <1>11, <1>12 DEF InstallInv, Types, DiskTypes
    <2>2. state' \in [Installers -> [Targets -> States]]  BY <1>4, <1>7
    <2> QED BY <1>1, <1>2, <1>3, <1>4, <1>10, <1>11, <1>12, <2>1, <2>2 DEF Undoes
  <1>14. /\ evidence[j][t] = "absent" /\ pre[j][t] # "absent" /\ ~IsFile(t) /\ Post(t) # "absent"
         /\ spare[t] = pre[j][t]
    BY <1>1, <1>2 DEF StepFits
  <1>15. StepFits(p)'  BY <1>2, <1>3, <1>4, <1>10, <1>14 DEF StepFits
  <1>16. Kept(t)'
    BY <1>2, <1>3, <1>4, <1>12, <1>14 DEF Kept
  <1>17. Own(t)'  BY <1>2, <1>3, <1>4, <1>5, <1>11 DEF Own
  <1>18. ASSUME t \notin edited  PROVE UndoFits(p)' /\ DiskFits(j, t)'
    <2>1. /\ pre[j][t] = Original(t) /\ state[j][t] \in {"snapshotted", "activating", "active"}
          /\ backup[j][t] = Original(t)
          /\ displaced[j][t] \in {"absent", "torn", Original(t)} /\ evidence[j][t] \in {"absent", "torn", Post(t)}
          /\ state[j][t] = "snapshotted" => live[t] = Original(t)
      BY <1>2, <1>18, UndoneFacts
    <2>2. live[t] = Post(t)  BY <1>1, <1>2, <1>18 DEF UndoFits
    <2>3. state[j][t] # "snapshotted"  BY <1>6, <2>1, <2>2
    <2>4. evidence'[j][t] = Post(t) /\ live'[t] = "absent" /\ UNCHANGED <<displaced, backup>>
      BY <1>3, <1>11, <1>12, <2>2
    <2>5. Between(j, t)'  BY <1>5, <1>14, <2>1, <2>4 DEF Between
    <2>6. DiskFits(j, t)'
      BY <1>4, <1>5, <2>1, <2>3, <2>4, <2>5 DEF DiskFits
    <2>7. UndoFits(p)'  BY <1>2, <1>5, <1>10, <2>4 DEF UndoFits
    <2> QED BY <2>6, <2>7
  <1>19. pc'[p] \notin {"rolling", "finishing"} /\ pc'[p] # "restoring" /\ state' = state
    BY <1>4, <1>10
  <1> HIDE DEF Kept, Own, Undoes
  <1> QED BY <1>2, <1>10, <1>13, <1>14, <1>15, <1>16, <1>17, <1>18, <1>19, ContinueFits

LEMMA ReturnFits ==
  ASSUME InstallInv, NEW p \in Installers, Return(p)
  PROVE  InstallInv'
  <1>1. pc[p] = "returning" /\ pc[p] \in Undoing /\ ~Refuses(p)  BY DEF Return, Step, Undoing
  <1>2. PICK j \in Installers, t \in Targets :
           /\ of[p] = j /\ at[p] = t /\ status[j] = "active" /\ t \in 0 .. Last
           /\ ~Untouched(state[j][t]) /\ state[j][t] # "none"
           /\ StepFits(p) /\ MineAt(p) /\ Kept(t) /\ Own(t)
           /\ t \notin edited => UndoFits(p) /\ DiskFits(j, t)
           /\ pre[j][t] \in Contents /\ live[t] \in Contents
    BY <1>1, UndoFacts
  <1>3. UNCHANGED <<temp, displaced, backup, evidence, journal, lock, user>>  BY DEF Return
  <1>4. UNCHANGED <<plan, edited, raced, halved, status, state, pre, token>>  BY <1>3 DEF user, journal
  <1>5. Original(t)' = Original(t) /\ Post(t)' = Post(t) /\ IsFile(t)' = IsFile(t)
    BY <1>4 DEF Original, Post, IsFile
  <1>6. Post(t) \in {"absent", "new"} /\ Original(t) \in {"absent", "old", "part"} /\ Original(t) # Post(t)
    BY PlanFacts DEF InstallInv
  <1>7. /\ displaced \in Places /\ evidence \in Places /\ live \in [Targets -> Contents]
        /\ spare \in [Targets -> Contents] /\ state \in [Installers -> [Targets -> States]]
        /\ fromPost \subseteq Installers /\ "absent" \in Contents
    BY DEF InstallInv, Types, DiskTypes, JournalTypes, ControlTypes, Contents
  <1>8. PICK s \in {"dismissing", "settling"} :
          /\ s = IF ~IsFile(t) /\ Post(t) # "absent" THEN "dismissing" ELSE "settling"
          /\ Move(p, s) /\ ~Occupied(t)
          /\ live' = [live EXCEPT ![t] = spare[t]] /\ spare' = [spare EXCEPT ![t] = "absent"]
    BY <1>1, <1>2 DEF Return, Step, Refuses
  <1>9. s \in Undoing  BY DEF Undoing
  <1>10. /\ pc'[p] = s /\ at'[p] = t /\ of' = of /\ tries' = tries /\ fromPost' \subseteq Installers
         /\ pc'[p] \in Undoing /\ at'[p] \in Targets
         /\ pc' \in [Installers -> Steps] /\ at' \in [Installers -> 0 .. Last]
         /\ \A q \in Installers \ {p} : pc'[q] = pc[q]
    BY <1>2, <1>8, <1>9, UndoMoveFacts
  <1>11. /\ live' \in [Targets -> Contents] /\ spare' \in [Targets -> Contents]
         /\ \A u \in Targets \ {t} : live'[u] = live[u] /\ spare'[u] = spare[u]
         /\ live'[t] = spare[t] /\ spare'[t] = "absent"
    BY <1>7, <1>8
  <1>12. pre[j][t] # "absent" /\ spare[t] = pre[j][t]  BY <1>1, <1>2 DEF StepFits
  <1>13. Undoes(p, j, t)
    <2>1. DiskTypes'  BY <1>3, <1>11 DEF InstallInv, Types, DiskTypes
    <2>2. state' \in [Installers -> [Targets -> States]]  BY <1>4, <1>7
    <2> QED BY <1>1, <1>2, <1>3, <1>4, <1>10, <1>11, <2>1, <2>2 DEF Undoes
  <1>14. StepFits(p)'  BY <1>2, <1>4, <1>5, <1>8, <1>10, <1>12 DEF StepFits
  <1>15. live[t] = "mine" => t \in raced
    BY <1>1, <1>2, <1>8 DEF MineAt, Occupied
  <1>16. Kept(t)'
    BY <1>2, <1>3, <1>4, <1>11, <1>15 DEF Kept
  <1>17. t \notin edited => pre[j][t] = Original(t)  BY <1>2 DEF DiskFits
  <1>18. Own(t)'  BY <1>4, <1>5, <1>6, <1>11, <1>12, <1>17 DEF Own
  <1>19. ASSUME t \notin edited  PROVE UndoFits(p)' /\ DiskFits(j, t)'
    <2>1. /\ pre[j][t] = Original(t) /\ state[j][t] \in {"snapshotted", "activating", "active"}
          /\ backup[j][t] = Original(t)
          /\ displaced[j][t] \in {"absent", "torn", Original(t)} /\ evidence[j][t] \in {"absent", "torn", Post(t)}
          /\ state[j][t] = "snapshotted" => displaced[j][t] = "absent" /\ evidence[j][t] = "absent"
      BY <1>2, <1>19, UndoneFacts
    <2>2. live'[t] = Original(t) /\ Original(t) # "absent"  BY <1>11, <1>12, <2>1
    <2>3. UNCHANGED <<displaced, backup, evidence>>  BY <1>3
    <2>4. Between(j, t)'  BY <1>5, <1>6, <2>1, <2>2, <2>3 DEF Between
    <2>5. DiskFits(j, t)'  BY <1>4, <1>5, <2>1, <2>2, <2>3, <2>4 DEF DiskFits
    <2>6. UndoFits(p)'
      <3>1. pre'[j][t] = Original(t)'  BY <1>4, <1>5, <2>1
      <3>2. pc'[p] = "dismissing" => evidence[j][t] \in {"absent", Post(t)}
        BY <1>1, <1>2, <1>8, <1>10, <1>19 DEF UndoFits
      <3> QED BY <1>2, <1>5, <1>10, <2>2, <2>3, <3>1, <3>2 DEF UndoFits
    <2> QED BY <2>5, <2>6
  <1>20. pc'[p] \notin {"rolling", "finishing", "puttingBack", "restoring", "returning"} /\ state' = state
    BY <1>4, <1>10
  <1> HIDE DEF Kept, Own, Undoes
  <1> QED BY <1>2, <1>10, <1>13, <1>14, <1>16, <1>18, <1>19, <1>20, ContinueFits

LEMMA DismissFits ==
  ASSUME InstallInv, NEW p \in Installers, Dismiss(p)
  PROVE  InstallInv'
  <1>1. pc[p] = "dismissing" /\ pc[p] \in Undoing /\ ~Refuses(p)  BY DEF Dismiss, Step, Undoing
  <1>2. PICK j \in Installers, t \in Targets :
           /\ of[p] = j /\ at[p] = t /\ status[j] = "active" /\ t \in 0 .. Last
           /\ ~Untouched(state[j][t]) /\ state[j][t] # "none"
           /\ StepFits(p) /\ MineAt(p) /\ Kept(t) /\ Own(t)
           /\ t \notin edited => UndoFits(p) /\ DiskFits(j, t)
           /\ pre[j][t] \in Contents /\ live[t] \in Contents
    BY <1>1, UndoFacts
  <1>3. UNCHANGED <<live, temp, spare, displaced, backup, journal, lock, user>>  BY DEF Dismiss
  <1>4. UNCHANGED <<plan, edited, raced, halved, status, state, pre, token>>  BY <1>3 DEF user, journal
  <1>5. Original(t)' = Original(t) /\ Post(t)' = Post(t) /\ IsFile(t)' = IsFile(t)
    BY <1>4 DEF Original, Post, IsFile
  <1>6. Post(t) \in {"absent", "new"} /\ Original(t) \in {"absent", "old", "part"} /\ Original(t) # Post(t)
    BY PlanFacts DEF InstallInv
  <1>7. /\ displaced \in Places /\ evidence \in Places /\ live \in [Targets -> Contents]
        /\ spare \in [Targets -> Contents] /\ state \in [Installers -> [Targets -> States]]
        /\ fromPost \subseteq Installers /\ "absent" \in Contents
    BY DEF InstallInv, Types, DiskTypes, JournalTypes, ControlTypes, Contents
  <1>8. Move(p, "settling") /\ evidence' = [evidence EXCEPT ![j][t] = "absent"] /\ evidence[j][t] \in {"absent", Post(t)}
    BY <1>1, <1>2 DEF Dismiss, Step, Refuses
  <1>9. "settling" \in Undoing  BY DEF Undoing
  <1>10. /\ pc'[p] = "settling" /\ at'[p] = t /\ of' = of /\ tries' = tries /\ fromPost' \subseteq Installers
         /\ pc'[p] \in Undoing /\ at'[p] \in Targets
         /\ pc' \in [Installers -> Steps] /\ at' \in [Installers -> 0 .. Last]
         /\ \A q \in Installers \ {p} : pc'[q] = pc[q]
    BY <1>2, <1>8, <1>9, UndoMoveFacts
  <1>11. /\ evidence' \in Places /\ evidence'[j][t] = "absent"
         /\ \A k \in Installers, u \in Targets : k # j \/ u # t => evidence'[k][u] = evidence[k][u]
    BY <1>7, <1>8 DEF Places
  <1>12. Undoes(p, j, t)
    <2>1. DiskTypes'  BY <1>3, <1>11 DEF InstallInv, Types, DiskTypes
    <2>2. state' \in [Installers -> [Targets -> States]]  BY <1>4, <1>7
    <2> QED BY <1>1, <1>2, <1>3, <1>4, <1>10, <1>11, <2>1, <2>2 DEF Undoes
  <1>13. StepFits(p)'  BY <1>10 DEF StepFits
  <1>14. Kept(t)'
    BY <1>2, <1>3, <1>4, <1>6, <1>8, <1>11 DEF Kept
  <1>15. Own(t)'  BY <1>2, <1>3, <1>4, <1>5 DEF Own
  <1>16. ASSUME t \notin edited  PROVE UndoFits(p)' /\ DiskFits(j, t)'
    <2>1. /\ pre[j][t] = Original(t) /\ state[j][t] \in {"snapshotted", "activating", "active"}
          /\ backup[j][t] = Original(t) /\ displaced[j][t] \in {"absent", "torn", Original(t)}
          /\ state[j][t] = "snapshotted" => displaced[j][t] = "absent"
      BY <1>2, <1>16, UndoneFacts
    <2>2. live[t] = Original(t)  BY <1>1, <1>2, <1>16 DEF UndoFits
    <2>3. UNCHANGED <<live, displaced, backup>> /\ evidence'[j][t] = "absent"  BY <1>3, <1>11
    <2>4. Between(j, t)'  BY <1>5, <1>6, <2>1, <2>2, <2>3 DEF Between
    <2>5. DiskFits(j, t)'  BY <1>4, <1>5, <2>1, <2>2, <2>3, <2>4 DEF DiskFits
    <2>6. UndoFits(p)'
      <3>1. pre'[j][t] = Original(t)'  BY <1>4, <1>5, <2>1
      <3> QED BY <1>2, <1>5, <1>10, <2>2, <2>3, <3>1 DEF UndoFits
    <2> QED BY <2>5, <2>6
  <1>17. pc'[p] \notin {"rolling", "finishing", "puttingBack", "restoring", "returning"} /\ state' = state
    BY <1>4, <1>10
  <1> HIDE DEF Kept, Own, Undoes
  <1> QED BY <1>2, <1>10, <1>12, <1>13, <1>14, <1>15, <1>16, <1>17, ContinueFits

LEMMA PutBackFits ==
  ASSUME InstallInv, NEW p \in Installers, PutBack(p)
  PROVE  InstallInv'
  <1>1. pc[p] = "puttingBack" /\ pc[p] \in Undoing /\ ~Refuses(p)  BY DEF PutBack, Undoing
  <1>2. PICK j \in Installers, t \in Targets :
           /\ of[p] = j /\ at[p] = t /\ status[j] = "active" /\ t \in 0 .. Last
           /\ ~Untouched(state[j][t]) /\ state[j][t] # "none"
           /\ StepFits(p) /\ MineAt(p) /\ Kept(t) /\ Own(t)
           /\ t \notin edited => UndoFits(p) /\ DiskFits(j, t)
           /\ pre[j][t] \in Contents /\ live[t] \in Contents
    BY <1>1, UndoFacts
  <1>3. UNCHANGED <<temp, spare, backup, evidence, status, pre, token, lock, user>>  BY DEF PutBack
  <1>4. UNCHANGED <<plan, edited, raced, halved>>  BY <1>3 DEF user
  <1>5. Original(t)' = Original(t) /\ Post(t)' = Post(t) /\ IsFile(t)' = IsFile(t)
    BY <1>4 DEF Original, Post, IsFile
  <1>6. Post(t) \in {"absent", "new"} /\ Original(t) \in {"absent", "old", "part"} /\ Original(t) # Post(t)
    BY PlanFacts DEF InstallInv
  <1>7. /\ displaced \in Places /\ evidence \in Places /\ live \in [Targets -> Contents]
        /\ spare \in [Targets -> Contents] /\ state \in [Installers -> [Targets -> States]]
        /\ fromPost \subseteq Installers /\ "absent" \in Contents
    BY DEF InstallInv, Types, DiskTypes, JournalTypes, ControlTypes, Contents
  <1>8. /\ SetState(j, t, "rolled_back") /\ Next1(p) /\ fromPost' = fromPost \ {p} /\ ~Occupied(t)
        /\ live' = [live EXCEPT ![t] = displaced[j][t]] /\ displaced' = [displaced EXCEPT ![j][t] = "absent"]
    BY <1>1, <1>2 DEF PutBack, Settle, Refuses
  <1>9. /\ Passed(p, t) /\ pc'[p] \in Undoing /\ at'[p] \in Targets /\ of' = of /\ tries' = tries
        /\ pc' \in [Installers -> Steps] /\ at' \in [Installers -> 0 .. Last]
        /\ \A q \in Installers \ {p} : pc'[q] = pc[q]
    BY <1>2, <1>8, PassedFacts
  <1>10. /\ state' \in [Installers -> [Targets -> States]] /\ state'[j][t] = "rolled_back"
         /\ \A k \in Installers, u \in Targets : k # j \/ u # t => state'[k][u] = state[k][u]
    BY <1>8, SetFacts DEF States
  <1>11. /\ displaced' \in Places /\ displaced'[j][t] = "absent" /\ displaced[j][t] \in Contents
         /\ \A k \in Installers, u \in Targets : k # j \/ u # t => displaced'[k][u] = displaced[k][u]
    BY <1>7, <1>8 DEF Places
  <1>12. live' \in [Targets -> Contents] /\ live'[t] = displaced[j][t] /\ \A u \in Targets \ {t} : live'[u] = live[u]
    BY <1>7, <1>8, <1>11
  <1>13. Undoes(p, j, t)
    <2>1. DiskTypes'  BY <1>3, <1>11, <1>12 DEF InstallInv, Types, DiskTypes
    <2>2. fromPost' \subseteq Installers  BY <1>7, <1>8
    <2> QED BY <1>1, <1>2, <1>3, <1>9, <1>10, <1>11, <1>12, <2>1, <2>2 DEF Undoes
  <1>14. live[t] = "mine" => t \in raced
    BY <1>1, <1>2, <1>8 DEF MineAt, Occupied
  <1>15. Kept(t)'
    BY <1>2, <1>3, <1>4, <1>11, <1>12, <1>14 DEF Kept
  <1>16. t \notin edited => live'[t] = Original(t) /\ pre[j][t] = Original(t)
    BY <1>1, <1>2, <1>12 DEF UndoFits, DiskFits
  <1>17. Own(t)'  BY <1>2, <1>3, <1>4, <1>5, <1>6, <1>16 DEF Own
  <1>18. t \notin edited => DiskFits(j, t)'
    BY <1>3, <1>5, <1>10, <1>16 DEF DiskFits
  <1>19. state[j][t] \notin {"none", "staged"} /\ state'[j][t] \in Closed /\ state'[j][t] # "recovery_conflict"
    BY <1>2, <1>10 DEF Untouched, Closed
  <1> HIDE DEF Kept, Own, Passed, Undoes
  <1> QED BY <1>9, <1>13, <1>15, <1>17, <1>18, <1>19, SettledFits

LEMMA SettleTargetFits ==
  ASSUME InstallInv, NEW p \in Installers, SettleTarget(p)
  PROVE  InstallInv'
  <1>1. pc[p] = "settling" /\ pc[p] \in Undoing  BY DEF SettleTarget, Undoing
  <1>2. PICK j \in Installers, t \in Targets :
           /\ of[p] = j /\ at[p] = t /\ status[j] = "active" /\ t \in 0 .. Last
           /\ ~Untouched(state[j][t]) /\ state[j][t] # "none"
           /\ StepFits(p) /\ MineAt(p) /\ Kept(t) /\ Own(t)
           /\ t \notin edited => UndoFits(p) /\ DiskFits(j, t)
           /\ pre[j][t] \in Contents /\ live[t] \in Contents
    BY <1>1, UndoFacts
  <1>3. UNCHANGED <<live, temp, spare, backup, evidence, status, pre, token, lock, user>>  BY DEF SettleTarget
  <1>4. UNCHANGED <<plan, edited, raced, halved>>  BY <1>3 DEF user
  <1>5. Original(t)' = Original(t) /\ Post(t)' = Post(t) /\ IsFile(t)' = IsFile(t)
    BY <1>4 DEF Original, Post, IsFile
  <1>6. Post(t) \in {"absent", "new"} /\ Original(t) \in {"absent", "old", "part"} /\ Original(t) # Post(t)
    BY PlanFacts DEF InstallInv
  <1>7. /\ displaced \in Places /\ evidence \in Places /\ live \in [Targets -> Contents]
        /\ spare \in [Targets -> Contents] /\ state \in [Installers -> [Targets -> States]]
        /\ fromPost \subseteq Installers /\ "absent" \in Contents
    BY DEF InstallInv, Types, DiskTypes, JournalTypes, ControlTypes, Contents
  <1>8. /\ SetState(j, t, "rolled_back") /\ Next1(p) /\ fromPost' = fromPost \ {p}
        /\ displaced' = Without(displaced, j, t, pre[j][t]) \/ displaced' = displaced
    BY <1>1, <1>2 DEF SettleTarget, Settle
  <1>9. /\ Passed(p, t) /\ pc'[p] \in Undoing /\ at'[p] \in Targets /\ of' = of /\ tries' = tries
        /\ pc' \in [Installers -> Steps] /\ at' \in [Installers -> 0 .. Last]
        /\ \A q \in Installers \ {p} : pc'[q] = pc[q]
    BY <1>2, <1>8, PassedFacts
  <1>10. /\ state' \in [Installers -> [Targets -> States]] /\ state'[j][t] = "rolled_back"
         /\ \A k \in Installers, u \in Targets : k # j \/ u # t => state'[k][u] = state[k][u]
    BY <1>8, SetFacts DEF States
  <1>11. /\ displaced' \in Places /\ displaced'[j][t] \in {"absent", displaced[j][t]}
         /\ displaced'[j][t] # displaced[j][t] => displaced[j][t] = pre[j][t]
         /\ \A k \in Installers, u \in Targets : k # j \/ u # t => displaced'[k][u] = displaced[k][u]
    <2>1. CASE displaced' = displaced  BY <1>7, <2>1
    <2>2. CASE displaced' = Without(displaced, j, t, pre[j][t])  BY <1>7, <2>2, WithoutFacts
    <2> QED BY <1>8, <2>1, <2>2
  <1>12. Undoes(p, j, t)
    <2>1. DiskTypes'  BY <1>3, <1>11 DEF InstallInv, Types, DiskTypes
    <2>2. fromPost' \subseteq Installers  BY <1>7, <1>8
    <2> QED BY <1>1, <1>2, <1>3, <1>9, <1>10, <1>11, <2>1, <2>2 DEF Undoes
  <1>13. pre[j][t] = "mine" => backup[j][t] = "mine"  BY <1>2, BackupFacts
  <1>14. Kept(t)'
    <2>1. ASSUME t \in edited \ raced
          PROVE  live[t] = "mine" \/ \E k \in Installers : "mine" \in {displaced[k][t], evidence[k][t], backup[k][t]}
      BY <1>2, <2>1 DEF Kept
    <2> QED BY <1>3, <1>4, <1>11, <1>13, <2>1 DEF Kept
  <1>15. t \notin edited => live[t] = Original(t) /\ pre[j][t] = Original(t)
    BY <1>1, <1>2 DEF UndoFits, DiskFits
  <1>16. Own(t)'  BY <1>2, <1>3, <1>4, <1>5 DEF Own
  <1>17. t \notin edited => DiskFits(j, t)'
    BY <1>3, <1>5, <1>10, <1>15 DEF DiskFits
  <1>18. state[j][t] \notin {"none", "staged"} /\ state'[j][t] \in Closed /\ state'[j][t] # "recovery_conflict"
    BY <1>2, <1>10 DEF Untouched, Closed
  <1> HIDE DEF Kept, Own, Passed, Undoes
  <1> QED BY <1>9, <1>12, <1>14, <1>16, <1>17, <1>18, SettledFits

-----------------------------------------------------------------------------
(* Steps that change neither what is on the disk nor what a journal says of a target *)

Untouching ==
  UNCHANGED <<live, displaced, backup, evidence, status, state, pre, plan, edited, raced, halved>>

\* Nothing changes for an installer that does nothing.
LEMMA OtherFits ==
  ASSUME NEW q \in Installers, PlaceFits(q), Untouching, token'[q] = token[q],
         pc'[q] = pc[q], at'[q] = at[q], of'[q] = of[q],
         spare' = spare \/ pc[q] \notin Inside,
         pc[q] = "relocking" => (Owns(q)' \/ ~overlapped' => Owns(q) \/ ~overlapped)
  PROVE  PlaceFits(q)'
  <1>1. UNCHANGED <<live, displaced, backup, evidence, status, state, pre, plan, edited, raced, halved>>
    BY DEF Untouching
  <1>2. Ahead(q)' <=> Ahead(q)  BY DEF Ahead
  <1>3. Unused(q)' <=> Unused(q)  BY <1>1 DEF Unused
  <1>4. Active' = Active  BY <1>1 DEF Active
  <1>5. OwnerFits(q)'
    BY <1>1, <1>2, <1>3, <1>4 DEF PlaceFits, OwnerFits
  <1>6. JournalFits(q)'
    <2>1. \A t \in Targets : Going(q, t)' = Going(q, t)  BY DEF Going
    <2> QED BY <1>1, <2>1 DEF PlaceFits, JournalFits
  <1>7. StepFits(q)'
    <2>1. CASE spare' = spare
      BY <1>1, <2>1 DEF PlaceFits, StepFits, Displaces, Post, IsFile
    <2>2. CASE pc[q] \notin Inside
      <3>1. pc'[q] \notin {"copying", "placing", "displacing", "retiring", "evicting", "dismissing", "returning"}
        BY <2>2 DEF Inside, Forward, Undoing
      <3> QED BY <3>1 DEF StepFits
    <2> QED BY <2>1, <2>2
  <1>8. MineAt(q)'  BY <1>1 DEF PlaceFits, MineAt, IsFile
  <1>9. pc'[q] \in Forward => \A t \in Targets \ edited' : ForwardFits(q, t)'
    BY <1>1 DEF PlaceFits, ForwardFits, Displaces, Original, Post, IsFile
  <1>10. pc'[q] \in Undoing /\ at'[q] \notin edited' => UndoFits(q)'
    BY <1>1 DEF PlaceFits, UndoFits, Retired, Original, Post, IsFile
  <1>11. pc'[q] = "creating" => \A t \in Targets \ edited' : pre'[q][t] = Original(t)'
    BY <1>1 DEF PlaceFits, Original
  <1> QED BY <1>5, <1>6, <1>7, <1>8, <1>9, <1>10, <1>11 DEF PlaceFits

Settings == {"idle", "ended", "dead", "relocking", "recovering", "planning", "releasing", "rolling"} \cup Acquiring

\* An installer that begins, ends, or changes over to the rollback.
LEMMA LeavesFits ==
  ASSUME InstallInv, NEW p \in Installers, Untouching, pc'[p] \in Settings, of'[p] \in Installers,
         pc'[p] \in {"recovering", "planning"} \cup Acquiring => Ahead(p),
         pc'[p] # "idle",
         pc'[p] = "planning" => Active = {},
         pc'[p] = "relocking" => of'[p] = p /\ status[p] = "active",
         pc'[p] = "rolling" => status[of'[p]] = "active" /\ at'[p] = Last /\ (of'[p] # p => Ahead(p))
  PROVE  PlaceFits(p)'
  <1>1. UNCHANGED <<live, displaced, backup, evidence, status, state, pre, plan, edited, raced, halved>>
    BY DEF Untouching
  <1>2. pc'[p] \notin Forward /\ (pc'[p] \in Undoing => pc'[p] = "rolling")
        /\ pc'[p] \notin {"creating", "saving", "placing"} \cup Drafting
    BY DEF Settings, Acquiring, Forward, Undoing, Drafting
  <1>3. Unused(p)' <=> Unused(p)  BY <1>1 DEF Unused
  <1>4. Active' = Active  BY <1>1 DEF Active
  <1>5. Last \in Targets /\ \A t \in Targets : ~(t > Last)  BY InstallAssumption DEF Targets
  <1>6. Ahead(p) => Unused(p)  BY DEF InstallInv, PlaceFits, OwnerFits
  <1>7. Ahead(p)' => Unused(p)'
    BY <1>2, <1>3, <1>6 DEF Ahead, Settings
  <1>8. OwnerFits(p)'
    BY <1>1, <1>2, <1>4, <1>5, <1>7 DEF OwnerFits
  <1>9. JournalFits(p)'  BY <1>2, <1>5 DEF JournalFits
  <1>10. StepFits(p)' /\ MineAt(p)' /\ UndoFits(p)'
    BY <1>2 DEF StepFits, MineAt, UndoFits, Settings, Acquiring
  <1> QED BY <1>2, <1>8, <1>9, <1>10 DEF PlaceFits

LEMMA QuietFits ==
  ASSUME InstallInv, Untouching, Types', LockFits',
         \A q \in Installers : PlaceFits(q)',
         \A t \in Targets : spare'[t] \in {spare[t], "torn"}
  PROVE  InstallInv'
  <1>1. UNCHANGED <<live, displaced, backup, evidence, status, state, pre, plan, edited, raced, halved>>
    BY DEF Untouching
  <1>2. OneActive' /\ Active' = Active  BY <1>1 DEF InstallInv, OneActive, Active
  <1>3. \A t \in Targets : Original(t)' = Original(t) /\ Post(t)' = Post(t) /\ IsFile(t)' = IsFile(t)
    BY <1>1 DEF Original, Post, IsFile
  <1>4. ASSUME NEW t \in Targets  PROVE Kept(t)' /\ Own(t)' /\ (t \in halved' => Halved(t)')
    <2>1. Kept(t) /\ Own(t) /\ (t \in halved => Halved(t))  BY DEF InstallInv
    <2>2. Kept(t)' /\ Own(t)'  BY <1>1, <1>3, <2>1 DEF Kept, Own
    <2>3. \A j \in Installers : Broken(j, t)' <=> Broken(j, t)  BY <1>1 DEF Broken
    <2>4. Halved(t) => Halved(t)'  BY <1>1, <1>3, <2>3 DEF Halved
    <2> QED BY <1>1, <2>1, <2>2, <2>4
  <1>5. ASSUME NEW j \in Installers, NEW t \in Targets
        PROVE  /\ MineSaved(j, t)' /\ (state'[j][t] = "recovery_conflict" => t \in edited' \cup halved')
               /\ status'[j] = "active" => state'[j][t] # "none" /\ (t \notin edited' => DiskFits(j, t)' \/ Broken(j, t)')
    <2>1. /\ MineSaved(j, t) /\ (state[j][t] = "recovery_conflict" => t \in edited \cup halved)
          /\ status[j] = "active" => state[j][t] # "none" /\ (t \notin edited => DiskFits(j, t) \/ Broken(j, t))
      BY DEF InstallInv
    <2>2. MineSaved(j, t)'  BY <1>1, <2>1 DEF MineSaved
    <2>3. DiskFits(j, t) => DiskFits(j, t)'  BY <1>1, <1>3 DEF DiskFits, Between
    <2>4. Broken(j, t) => Broken(j, t)'  BY <1>1 DEF Broken
    <2> QED BY <1>1, <2>1, <2>2, <2>3, <2>4
  <1>6. Active' = {} => \A t \in Targets \ edited' : Installed(t)'
    BY <1>1, <1>2, <1>3 DEF InstallInv, Installed
  <1> QED BY <1>2, <1>4, <1>5, <1>6 DEF InstallInv

\* Who goes on with the lock he has, or gives up, takes nothing from another.
LEMMA HoldsFits ==
  ASSUME InstallInv, NEW p \in Installers, UNCHANGED <<lock, overlapped>>, Alive(p),
         \A q \in Installers \ {p} : pc'[q] = pc[q],
         pc'[p] \notin {"writing", "reclaiming"}, pc'[p] \in Inside => pc[p] \in Inside
  PROVE  LockFits'
  <1>1. \A q \in Installers : Alive(q)' => Alive(q)  BY DEF Alive
  <1>2. lock # None => lock.by \in Installers  BY DEF InstallInv, Types, ControlTypes
  <1>3. Stale => Stale'  BY <1>1, <1>2 DEF Stale
  <1>4. ASSUME NEW q \in Installers
        PROVE  /\ pc'[q] \in Inside => Owns(q)'
               /\ pc'[q] = "writing" => lock' = [by |-> q, whole |-> FALSE]
               /\ ~overlapped' /\ pc'[q] = "reclaiming" => Stale'
    <2>1. /\ pc[q] \in Inside => Owns(q)
          /\ pc[q] = "writing" => lock = [by |-> q, whole |-> FALSE]
          /\ ~overlapped /\ pc[q] = "reclaiming" => Stale
      BY DEF InstallInv, LockFits
    <2> QED BY <1>3, <2>1 DEF Owns
  <1>5. ~overlapped => \A x, y \in Installers : Alive(x) /\ Alive(y) => x = y
    BY DEF InstallInv, LockFits
  <1>6. ~overlapped' => \A x, y \in Installers : Alive(x)' /\ Alive(y)' => x = y
    BY <1>1, <1>5
  <1> QED BY <1>4, <1>6 DEF LockFits

\* Nobody else is inside, or about to write the lock.
LEMMA AloneFits ==
  ASSUME InstallInv, NEW p \in Installers, Alive(p), overlapped' = overlapped,
         \A q \in Installers \ {p} : pc'[q] = pc[q] /\ pc[q] \notin Inside /\ pc[q] # "writing",
         pc'[p] \in Inside => Owns(p)',
         pc'[p] = "writing" => lock' = [by |-> p, whole |-> FALSE], pc'[p] # "reclaiming"
  PROVE  LockFits'
  <1>1. \A q \in Installers : Alive(q)' => Alive(q)  BY DEF Alive
  <1>2. ~overlapped => \A x, y \in Installers : Alive(x) /\ Alive(y) => x = y
    BY DEF InstallInv, LockFits
  <1>3. ~overlapped' => \A x, y \in Installers : Alive(x)' /\ Alive(y)' => x = y
    BY <1>1, <1>2
  <1>4. ASSUME NEW q \in Installers, q # p
        PROVE  pc'[q] \notin Inside /\ pc'[q] # "writing" /\ (~overlapped' => pc'[q] # "reclaiming")
    <2>1. pc[q] = "reclaiming" => Alive(q)  BY DEF Alive
    <2> QED BY <1>2, <1>4, <2>1
  <1> QED BY <1>3, <1>4 DEF LockFits

-----------------------------------------------------------------------------
(* The lock *)

\* The types, after a step that leaves disk and journal alone.
LEMMA QuietTypes ==
  ASSUME InstallInv, Untouching, UNCHANGED <<temp, token>>,
         spare' \in [Targets -> Contents], lock' \in [by : Installers, whole : BOOLEAN] \cup {None},
         pc' \in [Installers -> Steps], at' \in [Installers -> 0 .. Last], of' \in [Installers -> Installers],
         tries' \in [Installers -> 1 .. 2], fromPost' \subseteq Installers, overlapped' \in BOOLEAN
  PROVE  Types'
  BY DEF Untouching, InstallInv, Types, DiskTypes, JournalTypes, ControlTypes, UserTypes

LEMMA StartFits ==
  ASSUME InstallInv, NEW p \in Installers, Start(p)
  PROVE  InstallInv'
  <1>1. /\ pc[p] = "idle" /\ Move(p, "opening") /\ UNCHANGED <<paths, journal, lock, plan, edited, raced, halved>>
        /\ overlapped' = (overlapped \/ \E q \in Installers : Alive(q))
    BY DEF Start
  <1>2. "opening" \in Steps /\ "opening" \in Settings /\ "opening" \in Acquiring
    BY DEF Steps, Settings, Acquiring
  <1>3. /\ pc'[p] = "opening" /\ of' = of /\ at'[p] = at[p] /\ tries' = tries /\ fromPost' = fromPost
        /\ \A q \in Installers \ {p} : pc'[q] = pc[q]
        /\ pc' \in [Installers -> Steps] /\ at' \in [Installers -> 0 .. Last]
        /\ of \in [Installers -> Installers] /\ fromPost \subseteq Installers /\ tries \in [Installers -> 1 .. 2]
    BY <1>1, <1>2, MoveFacts, VisitFacts
  <1>4. \A q \in Installers : at'[q] = at[q]
    BY <1>1 DEF Move, Visit, InstallInv, Types, ControlTypes
  <1>5. Untouching /\ UNCHANGED <<temp, token, spare>>  BY <1>1 DEF Untouching, paths, journal
  <1>6. overlapped' \in BOOLEAN  BY <1>1 DEF InstallInv, Types, UserTypes
  <1>7. Types'
    <2>1. spare \in [Targets -> Contents] /\ lock \in [by : Installers, whole : BOOLEAN] \cup {None}
      BY DEF InstallInv, Types, DiskTypes, ControlTypes
    <2> QED BY <1>1, <1>3, <1>5, <1>6, <2>1, QuietTypes
  <1>8. \A q \in Installers \ {p} : Alive(q)' = Alive(q)  BY <1>3 DEF Alive
  <1>9. LockFits'
    <2>1. CASE overlapped'
      <3>1. ASSUME NEW q \in Installers
            PROVE  /\ pc'[q] \in Inside => Owns(q)'
                   /\ pc'[q] = "writing" => lock' = [by |-> q, whole |-> FALSE]
        BY <1>1, <1>3 DEF InstallInv, LockFits, Owns, Inside, Forward, Undoing
      <3> QED BY <2>1, <3>1 DEF LockFits
    <2>2. CASE ~overlapped'
      <3>1. \A q \in Installers : ~Alive(q)  BY <1>1, <2>2
      <3>2. ASSUME NEW q \in Installers \ {p}
            PROVE  ~Alive(q)' /\ pc'[q] \notin Inside /\ pc'[q] # "writing" /\ pc'[q] # "reclaiming"
        BY <1>3, <1>8, <3>1 DEF Alive, Inside, Forward, Undoing
      <3>3. pc'[p] \notin Inside /\ pc'[p] # "writing" /\ pc'[p] # "reclaiming"
        BY <1>3 DEF Inside, Forward, Undoing
      <3> QED BY <3>2, <3>3 DEF LockFits
    <2> QED BY <2>1, <2>2
  <1>10. PlaceFits(p)'
    <2>1. Ahead(p)  BY <1>1 DEF Ahead
    <2> QED BY <1>2, <1>3, <1>5, <2>1, LeavesFits
  <1>11. ASSUME NEW q \in Installers, q # p  PROVE PlaceFits(q)'
    <2>1. PlaceFits(q)  BY DEF InstallInv
    <2>2. Owns(q)' \/ ~overlapped' => Owns(q) \/ ~overlapped
      BY <1>1 DEF Owns, InstallInv, Types, UserTypes
    <2> QED BY <1>3, <1>4, <1>5, <1>11, <2>1, <2>2, OtherFits
  <1> QED BY <1>5, <1>7, <1>9, <1>10, <1>11, QuietFits

\* Steps of the lock: what remains to be shown.
LEMMA LockStepFits ==
  ASSUME InstallInv, NEW p \in Installers, NEW s \in Steps, NEW a \in 0 .. Last, Visit(p, s, a),
         UNCHANGED <<paths, journal, user>>, lock' \in [by : Installers, whole : BOOLEAN] \cup {None},
         LockFits', PlaceFits(p)',
         \A q \in Installers \ {p} : pc[q] = "relocking" => (Owns(q)' => Owns(q))
  PROVE  InstallInv'
  <1>1. /\ pc'[p] = s /\ of' = of /\ tries' = tries /\ fromPost' = fromPost
        /\ \A q \in Installers \ {p} : pc'[q] = pc[q]
        /\ pc' \in [Installers -> Steps] /\ at' \in [Installers -> 0 .. Last]
        /\ of \in [Installers -> Installers] /\ fromPost \subseteq Installers /\ tries \in [Installers -> 1 .. 2]
    BY VisitFacts
  <1>2. \A q \in Installers \ {p} : at'[q] = at[q]
    BY DEF Visit, InstallInv, Types, ControlTypes
  <1>3. Untouching /\ UNCHANGED <<temp, token, spare, overlapped>>
    BY DEF Untouching, paths, journal, user
  <1>4. Types'
    <2>1. spare \in [Targets -> Contents] /\ overlapped \in BOOLEAN
      BY DEF InstallInv, Types, DiskTypes, UserTypes
    <2> QED BY <1>1, <1>3, <2>1, QuietTypes
  <1>5. ASSUME NEW q \in Installers, q # p  PROVE PlaceFits(q)'
    <2>1. PlaceFits(q)  BY DEF InstallInv
    <2> QED BY <1>1, <1>2, <1>3, <1>5, <2>1, OtherFits
  <1> QED BY <1>3, <1>4, <1>5, QuietFits

\* To be exact about who is outside.
LEMMA AbsentFacts ==
  ASSUME InstallInv, NEW p \in Installers,
         \/ lock = None
         \/ Stale
         \/ lock = [by |-> p, whole |-> TRUE] \/ lock = [by |-> p, whole |-> FALSE]
         \/ ~overlapped /\ Alive(p)
  PROVE  \A q \in Installers \ {p} : pc[q] \notin Inside /\ pc[q] # "writing"
  <1>1. SUFFICES ASSUME NEW q \in Installers, q # p, pc[q] \in Inside \/ pc[q] = "writing"
                 PROVE  FALSE
    OBVIOUS
  <1>2. Alive(q)  BY <1>1 DEF Alive, Inside, Forward, Undoing
  <1>3. lock = [by |-> q, whole |-> TRUE] \/ lock = [by |-> q, whole |-> FALSE]
    BY <1>1 DEF InstallInv, LockFits, Owns
  <1>4. lock \in [by : Installers, whole : BOOLEAN] /\ lock.by = q
    <2>1. CASE lock = [by |-> q, whole |-> TRUE]  BY <2>1
    <2>2. CASE lock = [by |-> q, whole |-> FALSE]  BY <2>2
    <2> QED BY <1>3, <2>1, <2>2
  <1>5. lock # None  BY <1>4, InstallAssumption
  <1>6. ~Stale  BY <1>2, <1>4 DEF Stale
  <1>7. lock # [by |-> p, whole |-> TRUE] /\ lock # [by |-> p, whole |-> FALSE]
    <2>1. [by |-> p, whole |-> TRUE].by = p /\ [by |-> p, whole |-> FALSE].by = p  OBVIOUS
    <2> QED BY <1>1, <1>4, <2>1
  <1>8. ~overlapped => ~Alive(p)  BY <1>1, <1>2 DEF InstallInv, LockFits
  <1> QED BY <1>5, <1>6, <1>7, <1>8

LEMMA OpenLockFits ==
  ASSUME InstallInv, NEW p \in Installers, OpenLock(p)
  PROVE  InstallInv'
  <1>1. PICK s \in {"writing", "reclaiming", "ended"} :
          /\ pc[p] = "opening" /\ Move(p, s) /\ UNCHANGED <<paths, journal, user>>
          /\ s = "writing" => lock = None /\ lock' = [by |-> p, whole |-> FALSE]
          /\ s = "reclaiming" => Stale /\ lock' = lock
          /\ s = "ended" => lock' = lock
    BY DEF OpenLock, Step
  <1>2. s \in Steps /\ s \in Settings /\ s # "idle" /\ Alive(p)
    BY <1>1 DEF Steps, Settings, Acquiring, Alive
  <1>3. at[p] \in 0 .. Last /\ Visit(p, s, at[p])  BY <1>1, <1>2, MoveFacts
  <1>4. pc'[p] = s /\ of' = of /\ \A q \in Installers \ {p} : pc'[q] = pc[q]
    BY <1>2, <1>3, VisitFacts
  <1>5. of \in [Installers -> Installers] /\ lock \in [by : Installers, whole : BOOLEAN] \cup {None}
    BY DEF InstallInv, Types, ControlTypes
  <1>6. Untouching /\ overlapped' = overlapped  BY <1>1 DEF Untouching, paths, journal, user
  <1>7. PlaceFits(p)'
    <2>1. Ahead(p)  BY <1>1 DEF Ahead, Acquiring
    <2>2. s \notin {"planning", "relocking", "rolling"}  OBVIOUS
    <2> QED BY <1>2, <1>4, <1>5, <1>6, <2>1, <2>2, LeavesFits
  <1>8. LockFits'
    <2>1. CASE s = "writing"
      <3>1. \A q \in Installers \ {p} : pc[q] \notin Inside /\ pc[q] # "writing"
        BY <1>1, <2>1, AbsentFacts
      <3>2. "writing" \notin Inside  BY DEF Inside, Forward, Undoing
      <3> QED BY <1>1, <1>2, <1>4, <1>6, <2>1, <3>1, <3>2, AloneFits
    <2>2. CASE s = "reclaiming"
      <3>1. \A q \in Installers : Alive(q)' <=> Alive(q)  BY <1>2, <1>4, <2>2 DEF Alive
      <3>2. Stale'  BY <1>1, <1>5, <2>2, <3>1 DEF Stale
      <3>3. ~overlapped => \A x, y \in Installers : Alive(x) /\ Alive(y) => x = y
        BY DEF InstallInv, LockFits
      <3>4. ~overlapped' => \A x, y \in Installers : Alive(x)' /\ Alive(y)' => x = y
        BY <1>6, <3>1, <3>3
      <3>5. ASSUME NEW q \in Installers
            PROVE  /\ pc'[q] \in Inside => Owns(q)'
                   /\ pc'[q] = "writing" => lock' = [by |-> q, whole |-> FALSE]
        BY <1>1, <1>4, <2>2 DEF InstallInv, LockFits, Owns, Inside, Forward, Undoing
      <3> QED BY <3>2, <3>4, <3>5 DEF LockFits
    <2>3. CASE s = "ended"
      <3>1. "ended" \notin Inside  BY DEF Inside, Forward, Undoing
      <3> QED BY <1>1, <1>2, <1>4, <1>6, <2>3, <3>1, HoldsFits
    <2> QED BY <2>1, <2>2, <2>3
  <1>9. ASSUME NEW q \in Installers, q # p  PROVE Owns(q)' => Owns(q)
    <2>1. CASE s = "writing"
      <3>1. [by |-> p, whole |-> FALSE].whole = FALSE /\ [by |-> q, whole |-> TRUE].whole = TRUE  OBVIOUS
      <3> QED BY <1>1, <2>1, <3>1 DEF Owns
    <2>2. CASE s # "writing"  BY <1>1, <2>2 DEF Owns
    <2> QED BY <2>1, <2>2
  <1>10. lock' \in [by : Installers, whole : BOOLEAN] \cup {None}
    <2>1. CASE s = "writing"
      <3>1. [by |-> p, whole |-> FALSE] \in [by : Installers, whole : BOOLEAN]  OBVIOUS
      <3> QED BY <1>1, <2>1, <3>1
    <2>2. CASE s # "writing"  BY <1>1, <1>5, <2>2
    <2> QED BY <2>1, <2>2
  <1> QED BY <1>1, <1>2, <1>3, <1>7, <1>8, <1>9, <1>10, LockStepFits

LEMMA WriteLockFits ==
  ASSUME InstallInv, NEW p \in Installers, WriteLock(p)
  PROVE  InstallInv'
  <1>1. /\ pc[p] = "writing" /\ Move(p, "recovering") /\ UNCHANGED <<paths, journal, user>>
        /\ lock' = IF lock = [by |-> p, whole |-> FALSE] THEN [by |-> p, whole |-> TRUE] ELSE lock
    BY DEF WriteLock, Step
  <1>2. "recovering" \in Steps /\ "recovering" \in Settings /\ Alive(p)
    BY <1>1 DEF Steps, Settings, Inside, Alive
  <1>3. at[p] \in 0 .. Last /\ Visit(p, "recovering", at[p])  BY <1>1, <1>2, MoveFacts
  <1>4. pc'[p] = "recovering" /\ of' = of /\ \A q \in Installers \ {p} : pc'[q] = pc[q]
    BY <1>2, <1>3, VisitFacts
  <1>5. lock = [by |-> p, whole |-> FALSE]  BY <1>1 DEF InstallInv, LockFits
  <1>6. lock' = [by |-> p, whole |-> TRUE]  BY <1>1, <1>5
  <1>7. Untouching /\ overlapped' = overlapped  BY <1>1 DEF Untouching, paths, journal, user
  <1>8. PlaceFits(p)'
    <2>1. Ahead(p) /\ of \in [Installers -> Installers]  BY <1>1 DEF Ahead, Acquiring, InstallInv, Types, ControlTypes
    <2> QED BY <1>2, <1>4, <1>7, <2>1, LeavesFits
  <1>9. LockFits'
    <2>1. \A q \in Installers \ {p} : pc[q] \notin Inside /\ pc[q] # "writing"
      BY <1>5, AbsentFacts
    <2>2. Owns(p)'  BY <1>6 DEF Owns
    <2> QED BY <1>2, <1>4, <1>7, <2>1, <2>2, AloneFits
  <1>10. ASSUME NEW q \in Installers, q # p  PROVE ~Owns(q)'
    <2>1. [by |-> p, whole |-> TRUE].by = p /\ [by |-> q, whole |-> TRUE].by = q  OBVIOUS
    <2> QED BY <1>6, <1>10, <2>1 DEF Owns
  <1>11. lock' \in [by : Installers, whole : BOOLEAN] \cup {None}  BY <1>6
  <1> QED BY <1>1, <1>2, <1>3, <1>8, <1>9, <1>10, <1>11, LockStepFits

\* Renaming a stale lock away takes it from nobody.
LEMMA ReclaimFits ==
  ASSUME InstallInv, NEW p \in Installers, Reclaim(p), Stale
  PROVE  InstallInv'
  <1>1. PICK s \in {"opening", "ended"} :
          /\ pc[p] = "reclaiming" /\ lock' = None /\ pc' = [pc EXCEPT ![p] = s]
          /\ tries' = [tries EXCEPT ![p] = 2] /\ UNCHANGED <<paths, journal, at, of, fromPost, user>>
    BY DEF Reclaim, Goto
  <1>2. s \in Steps /\ s \in Settings /\ s # "idle" /\ Alive(p)
    BY <1>1 DEF Steps, Settings, Acquiring, Alive
  <1>3. /\ pc \in [Installers -> Steps] /\ at \in [Installers -> 0 .. Last] /\ of \in [Installers -> Installers]
        /\ tries \in [Installers -> 1 .. 2] /\ fromPost \subseteq Installers
        /\ spare \in [Targets -> Contents] /\ overlapped \in BOOLEAN
    BY DEF InstallInv, Types, DiskTypes, ControlTypes, UserTypes
  <1>4. pc'[p] = s /\ pc' \in [Installers -> Steps] /\ \A q \in Installers \ {p} : pc'[q] = pc[q]
    BY <1>1, <1>2, <1>3
  <1>5. Untouching /\ UNCHANGED <<overlapped, temp, spare, token>>
    BY <1>1 DEF Untouching, paths, journal, user
  <1>6. Types'
    <2>1. tries' \in [Installers -> 1 .. 2]  BY <1>1, <1>3
    <2> QED BY <1>1, <1>3, <1>4, <1>5, <2>1, QuietTypes
  <1>7. PlaceFits(p)'
    <2>1. Ahead(p)  BY <1>1 DEF Ahead, Acquiring
    <2>2. s \notin {"planning", "relocking", "rolling"}  OBVIOUS
    <2> QED BY <1>1, <1>2, <1>3, <1>4, <1>5, <2>1, <2>2, LeavesFits
  <1>8. LockFits'
    <2>1. \A q \in Installers \ {p} : pc[q] \notin Inside /\ pc[q] # "writing"  BY AbsentFacts
    <2>2. s \notin Inside  BY DEF Inside, Forward, Undoing
    <2> QED BY <1>2, <1>4, <1>5, <2>1, <2>2, AloneFits
  <1>9. ASSUME NEW q \in Installers, q # p  PROVE PlaceFits(q)'
    <2>1. ~Owns(q)'
      <3>1. [by |-> q, whole |-> TRUE] \in [by : Installers, whole : BOOLEAN]  OBVIOUS
      <3> QED BY <1>1, <3>1, InstallAssumption DEF Owns
    <2>2. PlaceFits(q)  BY DEF InstallInv
    <2> QED BY <1>1, <1>4, <1>5, <1>9, <2>1, <2>2, OtherFits
  <1> QED BY <1>5, <1>6, <1>7, <1>8, <1>9, QuietFits

LEMMA ReleaseFits ==
  ASSUME InstallInv, NEW p \in Installers, Release(p)
  PROVE  InstallInv'
  <1>1. /\ pc[p] = "releasing" /\ Move(p, "ended") /\ UNCHANGED <<paths, journal, user>>
        /\ lock' = IF Owns(p) THEN None ELSE lock
    BY DEF Release, Step
  <1>2. "ended" \in Steps /\ "ended" \in Settings /\ pc[p] \in Inside
    BY <1>1 DEF Steps, Settings, Inside
  <1>3. at[p] \in 0 .. Last /\ Visit(p, "ended", at[p])  BY <1>1, <1>2, MoveFacts
  <1>4. pc'[p] = "ended" /\ of' = of /\ \A q \in Installers \ {p} : pc'[q] = pc[q]
    BY <1>2, <1>3, VisitFacts
  <1>5. Alive(p) /\ Owns(p) /\ \A q \in Installers \ {p} : pc[q] \notin Inside /\ pc[q] # "writing"
    BY <1>2, LockFacts DEF Owns
  <1>6. lock' = None  BY <1>1, <1>5
  <1>7. Untouching /\ overlapped' = overlapped  BY <1>1 DEF Untouching, paths, journal, user
  <1>8. PlaceFits(p)'
    <2>1. of \in [Installers -> Installers] /\ "ended" \notin Acquiring  BY DEF InstallInv, Types, ControlTypes, Acquiring
    <2> QED BY <1>2, <1>4, <1>7, <2>1, LeavesFits
  <1>9. LockFits'
    <2>1. "ended" \notin Inside  BY DEF Inside, Forward, Undoing
    <2> QED BY <1>4, <1>5, <1>7, <2>1, AloneFits
  <1>10. ASSUME NEW q \in Installers  PROVE ~Owns(q)'
    <2>1. [by |-> q, whole |-> TRUE] \in [by : Installers, whole : BOOLEAN]  OBVIOUS
    <2> QED BY <1>6, <2>1, InstallAssumption DEF Owns
  <1> QED BY <1>1, <1>2, <1>3, <1>6, <1>8, <1>9, <1>10, LockStepFits

\* A rollback that still has its lock, or finds no other installer.
LEMMA RelockFits ==
  ASSUME InstallInv, NEW p \in Installers, Relock(p), Owns(p) \/ ~overlapped
  PROVE  InstallInv'
  <1>1. /\ pc[p] = "relocking" /\ Visit(p, "rolling", Last) /\ UNCHANGED <<paths, journal, user>>
        /\ lock' = [by |-> p, whole |-> TRUE]
    BY DEF Relock
  <1>2. "rolling" \in Steps /\ "rolling" \in Settings /\ Alive(p) /\ Last \in 0 .. Last
    BY <1>1, InstallAssumption DEF Steps, Settings, Inside, Undoing, Alive
  <1>3. pc'[p] = "rolling" /\ at'[p] = Last /\ of' = of /\ \A q \in Installers \ {p} : pc'[q] = pc[q]
    BY <1>1, <1>2, VisitFacts
  <1>4. Untouching /\ overlapped' = overlapped  BY <1>1 DEF Untouching, paths, journal, user
  <1>5. of[p] = p /\ status[p] = "active"
    BY <1>1 DEF InstallInv, PlaceFits, OwnerFits
  <1>6. PlaceFits(p)'
    <2>1. "rolling" \notin Acquiring  BY DEF Acquiring
    <2> QED BY <1>2, <1>3, <1>4, <1>5, <2>1, LeavesFits
  <1>7. LockFits'
    <2>1. \A q \in Installers \ {p} : pc[q] \notin Inside /\ pc[q] # "writing"
      BY <1>2, AbsentFacts DEF Owns
    <2>2. Owns(p)'  BY <1>1 DEF Owns
    <2> QED BY <1>2, <1>3, <1>4, <2>1, <2>2, AloneFits
  <1>8. ASSUME NEW q \in Installers, q # p  PROVE ~Owns(q)'
    <2>1. [by |-> p, whole |-> TRUE].by = p /\ [by |-> q, whole |-> TRUE].by = q  OBVIOUS
    <2> QED BY <1>1, <1>8, <2>1 DEF Owns
  <1>9. lock' \in [by : Installers, whole : BOOLEAN] \cup {None}  BY <1>1
  <1> QED BY <1>1, <1>2, <1>6, <1>7, <1>8, <1>9, LockStepFits

LEMMA RecoveredFits ==
  ASSUME InstallInv, NEW p \in Installers, Recovered(p)
  PROVE  InstallInv'
  <1>1. PICK s \in {"releasing", "planning"} :
          pc[p] = "recovering" /\ Move(p, s) /\ UNCHANGED <<paths, journal, lock, user>> /\ Active = {}
    BY DEF Recovered, Step
  <1>2. s \in Steps /\ s \in Settings /\ pc[p] \in Inside
    BY <1>1 DEF Steps, Settings, Inside
  <1>3. at[p] \in 0 .. Last /\ Visit(p, s, at[p])  BY <1>1, <1>2, MoveFacts
  <1>4. pc'[p] = s /\ of' = of /\ \A q \in Installers \ {p} : pc'[q] = pc[q]
    BY <1>2, <1>3, VisitFacts
  <1>5. Untouching /\ overlapped' = overlapped  BY <1>1 DEF Untouching, paths, journal, user
  <1>6. PlaceFits(p)'
    <2>1. Ahead(p) /\ of \in [Installers -> Installers]  BY <1>1 DEF Ahead, InstallInv, Types, ControlTypes
    <2>2. s \notin {"relocking", "rolling", "idle"}  OBVIOUS
    <2> QED BY <1>1, <1>2, <1>4, <1>5, <2>1, <2>2, LeavesFits
  <1>7. LockFits'
    <2>1. Alive(p)  BY <1>2, LockFacts
    <2> QED BY <1>1, <1>2, <1>4, <1>5, <2>1, HoldsFits
  <1>8. lock' \in [by : Installers, whole : BOOLEAN] \cup {None}  BY <1>1 DEF InstallInv, Types, ControlTypes
  <1>9. \A q \in Installers : Owns(q)' => Owns(q)  BY <1>1 DEF Owns
  <1> QED BY <1>1, <1>2, <1>3, <1>6, <1>7, <1>8, <1>9, LockStepFits

-----------------------------------------------------------------------------
(* Where an installer stops *)

LEMMA HandlerFacts ==
  ASSUME InstallInv, NEW p \in Installers, Alive(p)
  PROVE  /\ Handler(p) \in {"relocking", "ended", "releasing"} /\ Handler(p) \in Steps /\ Handler(p) \in Settings
         /\ Handler(p) = "relocking" => pc[p] \in Forward
         /\ Handler(p) = "releasing" => pc[p] \in Inside
  <1>1. Acquiring \cap Forward = {} /\ Acquiring \cap Undoing = {} /\ Forward \cap Undoing = {}
    BY DEF Acquiring, Forward, Undoing
  <1>2. /\ "relocking" \notin Forward \cup Undoing \cup Acquiring
        /\ "releasing" \notin Forward \cup Undoing \cup Acquiring
    BY DEF Acquiring, Forward, Undoing
  <1>3. pc[p] \in Steps /\ pc[p] \notin {"idle", "ended", "dead"}
    BY DEF InstallInv, Types, ControlTypes, Alive
  <1>4. CASE pc[p] \in Forward
    <2>1. Handler(p) = "relocking"  BY <1>1, <1>2, <1>4 DEF Handler
    <2> QED BY <1>4, <2>1 DEF Steps, Settings
  <1>5. CASE pc[p] \in Acquiring \cup {"relocking", "releasing"}
    <2>1. Handler(p) = "ended"  BY <1>1, <1>2, <1>5 DEF Handler
    <2> QED BY <2>1 DEF Steps, Settings
  <1>6. CASE pc[p] \in Undoing
    <2>1. Handler(p) = IF of[p] = p THEN "ended" ELSE "releasing"
      BY <1>1, <1>2, <1>6 DEF Handler
    <2> QED BY <1>6, <2>1 DEF Steps, Settings, Inside
  <1>7. CASE pc[p] \notin Forward \cup Undoing \cup Acquiring \cup {"relocking", "releasing"}
    <2>1. Handler(p) = "releasing"  BY <1>7 DEF Handler
    <2> QED BY <1>3, <1>7, <2>1 DEF Steps, Settings, Inside
  <1> QED BY <1>4, <1>5, <1>6, <1>7

\* Stopping leaves the lock as it is, or gives it up; a copy may be left torn.
LEMMA StopFits ==
  ASSUME InstallInv, NEW p \in Installers, Alive(p), NEW s \in {"relocking", "ended", "releasing", "dead"},
         Move(p, s), Untouching, UNCHANGED <<token, overlapped>>,
         temp' \in [Targets -> {"absent", "new", "torn"}],
         \A t \in Targets : spare'[t] \in {spare[t], "torn"}, spare' \in [Targets -> Contents],
         spare' = spare \/ pc[p] \in Inside,
         s = "relocking" => pc[p] \in Forward, s = "releasing" => pc[p] \in Inside,
         lock' = lock \/ (lock' = None /\ s = "relocking")
  PROVE  InstallInv'
  <1>1. s \in Steps /\ s \in Settings /\ s \notin {"recovering", "planning", "rolling", "idle"} \cup Acquiring
        /\ "relocking" \notin Inside /\ "ended" \notin Inside /\ "dead" \notin Inside
    BY DEF Steps, Settings, Inside, Acquiring, Forward, Undoing
  <1>2. at[p] \in 0 .. Last /\ Visit(p, s, at[p])  BY <1>1, MoveFacts
  <1>3. /\ pc'[p] = s /\ of' = of /\ tries' = tries /\ fromPost' = fromPost
        /\ \A q \in Installers \ {p} : pc'[q] = pc[q]
        /\ pc' \in [Installers -> Steps] /\ at' \in [Installers -> 0 .. Last]
        /\ of \in [Installers -> Installers] /\ fromPost \subseteq Installers /\ tries \in [Installers -> 1 .. 2]
    BY <1>1, <1>2, VisitFacts
  <1>4. \A q \in Installers \ {p} : at'[q] = at[q]
    BY <1>2 DEF Visit, InstallInv, Types, ControlTypes
  <1>5. Types'
    BY <1>3 DEF Untouching, InstallInv, Types, DiskTypes, JournalTypes, ControlTypes, UserTypes
  <1>6. pc[p] \in Inside => Owns(p) /\ \A q \in Installers \ {p} : pc[q] \notin Inside /\ pc[q] # "writing"
    BY LockFacts DEF Owns
  <1>7. LockFits'
    <2>1. CASE lock' = lock
      BY <1>1, <1>3, <2>1, HoldsFits
    <2>2. CASE lock' = None /\ s = "relocking"
      <3>1. pc[p] \in Inside  BY <2>2 DEF Inside
      <3> QED BY <1>1, <1>3, <1>6, <2>2, <3>1, AloneFits
    <2> QED BY <2>1, <2>2
  <1>8. PlaceFits(p)'
    <2>1. s = "relocking" => of[p] = p /\ status[p] = "active"  BY ForwardFacts
    <2> QED BY <1>1, <1>3, <2>1, LeavesFits
  <1>9. ASSUME NEW q \in Installers, q # p  PROVE PlaceFits(q)'
    <2>1. PlaceFits(q)  BY DEF InstallInv
    <2>2. Owns(q)' => Owns(q)
      <3>1. [by |-> q, whole |-> TRUE] \in [by : Installers, whole : BOOLEAN]  OBVIOUS
      <3> QED BY <3>1, InstallAssumption DEF Owns
    <2>3. spare' = spare \/ pc[q] \notin Inside  BY <1>6, <1>9
    <2> QED BY <1>3, <1>4, <1>9, <2>1, <2>2, <2>3, OtherFits DEF Untouching
  <1> QED BY <1>5, <1>7, <1>8, <1>9, QuietFits

LEMMA DropTempFacts ==
  ASSUME InstallInv, NEW p \in Installers, DropTemp(p)
  PROVE  temp' \in [Targets -> {"absent", "new", "torn"}]
  BY DEF DropTemp, InstallInv, Types, DiskTypes

LEMMA TornCopyFacts ==
  ASSUME InstallInv, NEW p \in Installers, TornCopy(p)
  PROVE  /\ temp' \in [Targets -> {"absent", "new", "torn"}] /\ spare' \in [Targets -> Contents]
         /\ \A t \in Targets : spare'[t] \in {spare[t], "torn"}
         /\ pc[p] \in Inside
  <1>1. temp \in [Targets -> {"absent", "new", "torn"}] /\ spare \in [Targets -> Contents]
    BY DEF InstallInv, Types, DiskTypes
  <1>2. CASE pc[p] = "copying" /\ temp' = [temp EXCEPT ![at[p]] = "torn"] /\ UNCHANGED spare
    BY <1>1, <1>2 DEF Inside, Forward
  <1>3. CASE pc[p] = "restoring" /\ spare' = [spare EXCEPT ![at[p]] = "torn"] /\ UNCHANGED temp
    BY <1>1, <1>3 DEF Inside, Undoing, Contents
  <1> QED BY <1>2, <1>3 DEF TornCopy

\* A step is cut off while it removes something of target t.
Breaks(p, j, t) ==
  /\ pc[p] \in Inside /\ status[j] = "active" /\ DiskTypes'
  /\ UNCHANGED <<spare, backup, journal, lock, plan, edited, raced, overlapped>>
  /\ halved' \subseteq Targets /\ halved \subseteq halved'
  /\ \A u \in Targets \ {t} : live'[u] = live[u] /\ (u \in halved' => u \in halved)
  /\ \A k \in Installers, u \in Targets : k # j \/ u # t =>
       displaced'[k][u] = displaced[k][u] /\ evidence'[k][u] = evidence[k][u]

LEMMA BreakFits ==
  ASSUME InstallInv, NEW p \in Installers, NEW j \in Installers, NEW t \in Targets, Breaks(p, j, t),
         NEW s \in {"relocking", "ended", "releasing", "dead"}, Move(p, s),
         s = "relocking" => pc[p] \in Forward,
         Kept(t)', Own(t)', t \in halved' => Halved(t)',
         t \notin edited => DiskFits(j, t)' \/ Broken(j, t)'
  PROVE  InstallInv'
  <1>1. s \in Steps /\ s \notin Forward \cup Undoing \cup Acquiring \cup {"idle", "recovering", "planning", "creating"}
        /\ s # "writing" /\ s # "reclaiming"
    BY DEF Steps, Inside, Acquiring, Forward, Undoing
  <1>2. UNCHANGED <<spare, backup, status, state, pre, token, lock, plan, edited, raced, overlapped>>
    BY DEF Breaks, journal
  <1>3. /\ pc'[p] = s /\ of' = of /\ tries' = tries /\ fromPost' = fromPost
        /\ \A q \in Installers \ {p} : pc'[q] = pc[q]
        /\ pc' \in [Installers -> Steps] /\ at' \in [Installers -> 0 .. Last]
        /\ of \in [Installers -> Installers] /\ fromPost \subseteq Installers /\ tries \in [Installers -> 1 .. 2]
    <2>1. at[p] \in 0 .. Last /\ Visit(p, s, at[p])  BY <1>1, MoveFacts
    <2> QED BY <1>1, <2>1, VisitFacts
  <1>4. Types'
    BY <1>2, <1>3 DEF Breaks, InstallInv, Types, JournalTypes, ControlTypes, UserTypes
  <1>5. pc[p] \in Inside /\ Alive(p) /\ \A q \in Installers \ {p} : ~Owns(q) /\ pc[q] \notin Inside /\ (Alive(q) => overlapped)
    <2>1. pc[p] \in Inside  BY DEF Breaks
    <2> QED BY <2>1, LockFacts
  <1>6. LockFits'  BY <1>1, <1>2, <1>3, <1>5, HoldsFits
  <1>7. status[j] = "active" /\ \A k \in Installers : status[k] = "active" => k = j
    BY DEF Breaks, InstallInv, OneActive
  <1>8. PlaceFits(p)'
    <2>1. s = "relocking" => of[p] = p /\ status[p] = "active"  BY ForwardFacts
    <2>2. OwnerFits(p)' /\ JournalFits(p)'
      BY <1>1, <1>2, <1>3, <2>1 DEF OwnerFits, Ahead, JournalFits
    <2>3. StepFits(p)' /\ MineAt(p)'
      <3>1. s \notin {"copying", "placing", "displacing", "retiring", "evicting", "dismissing",
                      "returning", "saving", "rechecking", "puttingBack", "restoring"}  OBVIOUS
      <3> QED BY <1>1, <1>3, <3>1 DEF StepFits, MineAt, Drafting
    <2> QED BY <1>1, <1>3, <2>2, <2>3 DEF PlaceFits
  <1>9. ASSUME NEW q \in Installers, q # p  PROVE PlaceFits(q)'
    <2>1. PlaceFits(q) /\ pc[q] \notin Inside /\ ~Owns(q) /\ (Alive(q) => overlapped)  BY <1>5, <1>9 DEF InstallInv
    <2>2. Unused(q) => Unused(q)'  BY <1>2, <1>7 DEF Unused, Breaks
    <2>3. ~Owns(q)' /\ (pc[q] = "relocking" => overlapped')  BY <1>2, <2>1 DEF Owns, Alive
    <2>4. pc'[q] = pc[q] /\ of'[q] = of[q]  BY <1>3, <1>9
    <2> QED BY <2>1, <2>2, <2>3, <2>4, OutsideFits
  <1>10. \A u \in Targets : Post(u)' = Post(u) /\ IsFile(u)' = IsFile(u) /\ (u # t => Original(u)' = Original(u))
    BY <1>2 DEF Post, IsFile, Original, Breaks
  <1>11. ASSUME NEW u \in Targets  PROVE Kept(u)' /\ Own(u)' /\ (u \in halved' => Halved(u)')
    <2>1. CASE u = t  BY <2>1
    <2>2. CASE u # t
      <3>1. Kept(u) /\ Own(u) /\ (u \in halved => Halved(u))  BY DEF InstallInv
      <3>2. /\ live'[u] = live[u] /\ (u \in halved' <=> u \in halved)
            /\ \A k \in Installers : displaced'[k][u] = displaced[k][u] /\ evidence'[k][u] = evidence[k][u]
        BY <2>2 DEF Breaks
      <3>3. Kept(u)'  BY <1>2, <3>1, <3>2 DEF Kept
      <3>4. Own(u)'  BY <1>2, <1>10, <2>2, <3>1, <3>2 DEF Own
      <3>5. \A k \in Installers : Broken(k, u)' <=> Broken(k, u)  BY <1>2, <3>2 DEF Broken
      <3>6. Halved(u) => Halved(u)'  BY <1>2, <1>10, <3>5 DEF Halved
      <3> QED BY <3>1, <3>2, <3>3, <3>4, <3>6
    <2> QED BY <2>1, <2>2
  <1>12. ASSUME NEW k \in Installers, NEW u \in Targets
         PROVE  /\ MineSaved(k, u)' /\ (state'[k][u] = "recovery_conflict" => u \in edited' \cup halved')
                /\ status'[k] = "active" => state'[k][u] # "none" /\ (u \notin edited' => DiskFits(k, u)' \/ Broken(k, u)')
    <2>1. /\ MineSaved(k, u) /\ (state[k][u] = "recovery_conflict" => u \in edited \cup halved)
          /\ status[k] = "active" => state[k][u] # "none" /\ (u \notin edited => DiskFits(k, u) \/ Broken(k, u))
      BY DEF InstallInv
    <2>2. MineSaved(k, u)'  BY <1>2, <2>1 DEF MineSaved
    <2>3. halved \subseteq halved'  BY DEF Breaks
    <2>4. ASSUME status'[k] = "active", u \notin edited'  PROVE DiskFits(k, u)' \/ Broken(k, u)'
      <3>1. k = j  BY <1>2, <1>7, <2>4
      <3>2. CASE u = t  BY <1>2, <2>4, <3>1, <3>2
      <3>3. CASE u # t
        <4>1. /\ live'[u] = live[u] /\ (u \in halved' <=> u \in halved)
              /\ displaced'[k][u] = displaced[k][u] /\ evidence'[k][u] = evidence[k][u]
          BY <3>3 DEF Breaks
        <4>2. DiskFits(k, u) => DiskFits(k, u)'  BY <1>2, <1>10, <3>3, <4>1 DEF DiskFits, Between
        <4>3. Broken(k, u) => Broken(k, u)'  BY <1>2, <4>1 DEF Broken
        <4> QED BY <1>2, <2>1, <2>4, <4>2, <4>3
      <3> QED BY <3>2, <3>3
    <2> QED BY <1>2, <2>1, <2>2, <2>3, <2>4
  <1>13. OneActive' /\ j \in Active'  BY <1>2, <1>7 DEF InstallInv, OneActive, Active
  <1> QED BY <1>4, <1>6, <1>8, <1>9, <1>11, <1>12, <1>13 DEF InstallInv

\* What an installer that removes something is about.
LEMMA CutFacts ==
  ASSUME InstallInv, NEW p \in Installers,
         pc[p] \in {"rolling", "clearing", "settling", "dismissing", "restoring", "rechecking", "displacing", "placing"}
  PROVE  /\ pc[p] \in Inside /\ at[p] \in Targets /\ of[p] \in Installers /\ status[of[p]] = "active"
         /\ StepFits(p) /\ MineAt(p)
         /\ at[p] \notin edited => DiskFits(of[p], at[p]) \/ Broken(of[p], at[p])
         /\ pc[p] \notin Undoing => of[p] = p /\ state[p][at[p]] = "activating"
                                    /\ (at[p] \notin edited => ForwardFits(p, at[p]))
         /\ pc[p] \in Undoing /\ pc[p] # "rolling" => ~Untouched(state[of[p]][at[p]])
         /\ pc[p] \in Undoing /\ at[p] \notin edited => UndoFits(p)
  <1>1. pc[p] \in Forward \cup Undoing /\ pc[p] \in Inside /\ pc[p] # "advancing" /\ pc[p] # "finishing"
    BY DEF Forward, Undoing, Inside
  <1>2. PlaceFits(p) /\ of[p] \in Installers  BY DEF InstallInv, Types, ControlTypes
  <1>3. at[p] \in Targets  BY <1>1, <1>2 DEF PlaceFits, OwnerFits
  <1>4. status[of[p]] = "active"  BY <1>1, <1>2 DEF PlaceFits, OwnerFits
  <1>5. at[p] \notin edited => DiskFits(of[p], at[p]) \/ Broken(of[p], at[p])
    BY <1>2, <1>3, <1>4 DEF InstallInv
  <1>6. pc[p] \notin Undoing => of[p] = p /\ state[p][at[p]] = "activating" /\ (at[p] \notin edited => ForwardFits(p, at[p]))
    <2>1. SUFFICES ASSUME pc[p] \notin Undoing
                   PROVE  of[p] = p /\ state[p][at[p]] = "activating" /\ (at[p] \notin edited => ForwardFits(p, at[p]))
      OBVIOUS
    <2>2. pc[p] \in Forward  BY <1>1, <2>1
    <2>3. of[p] = p /\ state[p][at[p]] = Going(p, at[p]) /\ (at[p] \notin edited => ForwardFits(p, at[p]))
      BY <1>3, <2>2, ForwardFacts
    <2>4. pc[p] \in {"clearing", "rechecking", "displacing", "placing"}  BY <2>1 DEF Undoing
    <2>5. at[p] \in Int  BY <1>3, InstallAssumption DEF Targets
    <2>6. Going(p, at[p]) = "activating"  BY <2>4, <2>5 DEF Going
    <2> QED BY <2>3, <2>6
  <1>7. pc[p] \in Undoing /\ pc[p] # "rolling" => ~Untouched(state[of[p]][at[p]])
    BY <1>1, <1>2 DEF PlaceFits, JournalFits
  <1>8. StepFits(p) /\ MineAt(p) /\ (pc[p] \in Undoing /\ at[p] \notin edited => UndoFits(p))
    BY <1>2 DEF PlaceFits
  <1> QED BY <1>1, <1>2, <1>3, <1>4, <1>5, <1>6, <1>7, <1>8

\* A created directory goes in part: it is neither what it was nor what was installed.
LEMMA TornTargetFits ==
  ASSUME InstallInv, NEW p \in Installers, TornTarget(p),
         NEW s \in {"relocking", "ended", "releasing", "dead"}, Move(p, s),
         s = "relocking" => pc[p] \in Forward,
         UNCHANGED <<backup, journal, lock, plan, edited, raced, overlapped>>
  PROVE  InstallInv'
  <1>1. pc[p] = "restoring" /\ pc[p] \in Undoing  BY DEF TornTarget, Undoing
  <1>2. PICK j \in Installers, t \in Targets :
           /\ of[p] = j /\ at[p] = t /\ status[j] = "active" /\ pc[p] \in Inside
           /\ MineAt(p) /\ ~Untouched(state[j][t])
           /\ t \notin edited => UndoFits(p) /\ (DiskFits(j, t) \/ Broken(j, t))
    BY <1>1, CutFacts
  <1>3. /\ pre[j][t] = "absent" /\ ~IsFile(t) /\ live[t] # "absent"
        /\ live' = [live EXCEPT ![t] = "part"] /\ halved' = halved \cup {t}
        /\ UNCHANGED <<temp, spare, displaced, evidence, backup, status, state, pre, plan, edited, raced>>
    BY <1>2 DEF TornTarget, journal
  <1>4. /\ live \in [Targets -> Contents] /\ live'[t] = "part" /\ live' \in [Targets -> Contents]
        /\ \A u \in Targets \ {t} : live'[u] = live[u]
    BY <1>3 DEF InstallInv, Types, DiskTypes, Contents
  <1>5. Breaks(p, j, t)
    <2>1. DiskTypes'  BY <1>3, <1>4 DEF InstallInv, Types, DiskTypes
    <2>2. halved' \subseteq Targets /\ halved \subseteq halved' /\ \A u \in Targets \ {t} : u \in halved' => u \in halved
      BY <1>3 DEF InstallInv, Types, UserTypes
    <2> QED BY <1>2, <1>3, <1>4, <2>1, <2>2 DEF Breaks
  <1>6. Kept(t) /\ Own(t)  BY DEF InstallInv
  <1>7. Kept(t)'
    <2>1. live[t] # "mine" \/ t \in raced  BY <1>1, <1>2, <1>3 DEF MineAt
    <2> QED BY <1>3, <1>6, <2>1 DEF Kept
  <1>8. ASSUME t \notin edited  PROVE Broken(j, t)' /\ Original(t) = "absent" /\ Original(t)' = "part"
    <2>1. live[t] = Post(t) \/ Retired(j, t)  BY <1>1, <1>2, <1>8 DEF UndoFits
    <2>2. live[t] = Post(t)  BY <1>3, <2>1 DEF Retired
    <2>3. Post(t) \in {"absent", "new"} /\ Original(t) # Post(t)  BY PlanFacts DEF InstallInv
    <2>4. DiskFits(j, t)  BY <1>2, <1>8, <2>2, <2>3 DEF Broken
    <2>5. state[j][t] \in States  BY <1>2 DEF InstallInv, Types, JournalTypes
    <2>6. state[j][t] \in {"activating", "active"}
      BY <1>2, <2>2, <2>3, <2>4, <2>5 DEF DiskFits, States, Untouched
    <2>7. Broken(j, t)'  BY <1>3, <1>4, <2>6 DEF Broken
    <2> QED BY <1>3, <2>4, <2>7 DEF DiskFits, Original
  <1>9. Own(t)'  BY <1>3, <1>4, <1>6, <1>8 DEF Own
  <1>10. Halved(t)'
    <2>1. ~IsFile(t)' /\ status'[j] = "active"  BY <1>2, <1>3 DEF IsFile
    <2> QED BY <1>3, <1>8, <2>1 DEF Halved
  <1> QED BY <1>2, <1>5, <1>7, <1>8, <1>9, <1>10, BreakFits

\* What lies beside a target goes in part.
LEMMA TornRemovalFits ==
  ASSUME InstallInv, NEW p \in Installers, TornRemoval(p),
         NEW s \in {"relocking", "ended", "releasing", "dead"}, Move(p, s),
         s = "relocking" => pc[p] \in Forward,
         UNCHANGED <<backup, journal, lock, plan, edited, raced, overlapped>>
  PROVE  InstallInv'
  <1>1. pc[p] \in {"rolling", "clearing", "settling", "dismissing", "rechecking", "displacing", "placing"}
    BY DEF TornRemoval, Tidies
  <1>2. PICK j \in Installers, t \in Targets :
           /\ of[p] = j /\ at[p] = t /\ status[j] = "active" /\ pc[p] \in Inside
           /\ t \notin edited => DiskFits(j, t) \/ Broken(j, t)
           /\ pc[p] \notin Undoing => state[j][t] = "activating" /\ (t \notin edited => ForwardFits(p, t))
           /\ pc[p] \in Undoing /\ pc[p] # "rolling" => ~Untouched(state[j][t])
           /\ pc[p] \in Undoing /\ t \notin edited => UndoFits(p)
    BY <1>1, CutFacts
  <1> DEFINE rolls == pc[p] = "rolling" /\ ~Untouched(state[j][t])
  <1>3. PICK x \in Cut(t, temp[t], Post(t)), y \in Cut(t, displaced[j][t], pre[j][t]),
             z \in Cut(t, evidence[j][t], Post(t)) :
          /\ y = displaced[j][t] \/ pc[p] = "clearing" \/ pc[p] = "settling" \/ (rolls /\ live[t] = pre[j][t])
          /\ z = evidence[j][t] \/ pc[p] = "dismissing" \/ (rolls /\ live[t] = pre[j][t])
          /\ temp' = [temp EXCEPT ![t] = x] /\ displaced' = [displaced EXCEPT ![j][t] = y]
          /\ evidence' = [evidence EXCEPT ![j][t] = z]
    <2> DEFINE u == at[p]
               k == of[p]
               back == pc[p] = "rolling" /\ ~Untouched(state[k][u])
    <2>1. PICK x \in Cut(u, temp[u], Post(u)), y \in Cut(u, displaced[k][u], pre[k][u]),
               z \in Cut(u, evidence[k][u], Post(u)) :
            /\ x = temp[u] \/ back \/ Tidies(p)
            /\ \/ y = displaced[k][u] \/ pc[p] = "clearing" \/ (pc[p] = "settling" /\ p \in fromPost)
               \/ back /\ live[u] = pre[k][u] /\ x = Removed(temp[u], Post(u))
            /\ \/ z = evidence[k][u] \/ pc[p] = "dismissing"
               \/ /\ back /\ live[u] = pre[k][u]
                  /\ x = Removed(temp[u], Post(u)) /\ y = Removed(displaced[k][u], pre[k][u])
            /\ temp' = [temp EXCEPT ![u] = x] /\ displaced' = [displaced EXCEPT ![k][u] = y]
            /\ evidence' = [evidence EXCEPT ![k][u] = z]
      BY Zenon DEF TornRemoval
    <2>2. u = t /\ k = j  BY <1>2
    <2> HIDE DEF u, k
    <2>3. /\ x \in Cut(t, temp[t], Post(t)) /\ y \in Cut(t, displaced[j][t], pre[j][t])
          /\ z \in Cut(t, evidence[j][t], Post(t))
      BY <2>2
    <2>4. temp' = [temp EXCEPT ![t] = x] /\ displaced' = [displaced EXCEPT ![j][t] = y]
          /\ evidence' = [evidence EXCEPT ![j][t] = z]
      BY <2>1, <2>2
    <2>5. back => rolls /\ pre[k][u] = pre[j][t] /\ live[u] = live[t]  BY <2>2
    <2>6. y = displaced[j][t] \/ pc[p] = "clearing" \/ pc[p] = "settling" \/ (rolls /\ live[t] = pre[j][t])
      BY <2>1, <2>2, <2>5
    <2>7. z = evidence[j][t] \/ pc[p] = "dismissing" \/ (rolls /\ live[t] = pre[j][t])
      BY <2>1, <2>2, <2>5
    <2> HIDE DEF rolls, back
    <2> QED BY <2>3, <2>4, <2>6, <2>7
  <1>4. UNCHANGED <<live, spare, halved, backup, status, state, pre, plan, edited, raced>>
    BY DEF TornRemoval, journal
  <1>5. Post(t) \in {"absent", "new"} /\ Original(t) # Post(t)  BY PlanFacts DEF InstallInv
  <1>6. /\ x \in {temp[t], "absent", "torn"}
        /\ y = displaced[j][t] \/ (y \in {"absent", "torn"} /\ displaced[j][t] = pre[j][t] /\ pre[j][t] # "absent")
        /\ z = evidence[j][t] \/ (z \in {"absent", "torn"} /\ evidence[j][t] = Post(t) /\ Post(t) # "absent")
    BY DEF Cut
  <1>7. /\ displaced'[j][t] = y /\ evidence'[j][t] = z
        /\ \A k \in Installers, u \in Targets : k # j \/ u # t =>
             displaced'[k][u] = displaced[k][u] /\ evidence'[k][u] = evidence[k][u]
        /\ DiskTypes'
    <2>1. /\ temp \in [Targets -> {"absent", "new", "torn"}]
          /\ displaced \in Places /\ evidence \in Places
      BY DEF InstallInv, Types, DiskTypes
    <2>2. y \in Contents /\ z \in Contents  BY <1>6, <2>1 DEF Contents, Places
    <2>3. displaced' \in Places /\ evidence' \in Places  BY <1>3, <2>1, <2>2 DEF Places
    <2>4. temp' \in [Targets -> {"absent", "new", "torn"}]  BY <1>3, <1>6, <2>1
    <2>5. DiskTypes'  BY <1>4, <2>3, <2>4 DEF InstallInv, Types, DiskTypes
    <2> QED BY <1>3, <2>1, <2>5 DEF Places
  <1>8. Breaks(p, j, t)
    <2>1. halved \subseteq Targets  BY DEF InstallInv, Types, UserTypes
    <2> QED BY <1>2, <1>4, <1>7, <2>1 DEF Breaks
  <1>9. Kept(t) /\ Own(t) /\ (t \in halved => Halved(t)) /\ MineSaved(j, t)  BY DEF InstallInv
  <1>10. Kept(t)'
    <2>1. CASE y = displaced[j][t]
      <3>1. evidence[j][t] = "mine" => evidence'[j][t] = "mine"  BY <1>5, <1>6, <1>7
      <3> QED BY <1>4, <1>7, <1>9, <2>1, <3>1 DEF Kept
    <2>2. CASE y # displaced[j][t]
      <3>1. ~Untouched(state[j][t])
        <4>1. pc[p] = "clearing" => pc[p] \notin Undoing  BY DEF Undoing
        <4>2. pc[p] = "settling" => pc[p] \in Undoing  BY DEF Undoing
        <4> QED BY <1>2, <1>3, <2>2, <4>1, <4>2 DEF Untouched
      <3>2. state[j][t] # "none"  BY <1>2 DEF InstallInv
      <3>3. displaced[j][t] = "mine" => backup[j][t] = "mine"
        BY <1>6, <1>9, <2>2, <3>1, <3>2 DEF MineSaved, Untouched
      <3>4. evidence[j][t] = "mine" => evidence'[j][t] = "mine"  BY <1>5, <1>6, <1>7
      <3> QED BY <1>4, <1>7, <1>9, <3>3, <3>4 DEF Kept
    <2> QED BY <2>1, <2>2
  <1>11. Original(t)' = Original(t) /\ Post(t)' = Post(t) /\ IsFile(t)' = IsFile(t)  BY <1>4 DEF Original, Post, IsFile
  <1>12. Own(t)'  BY <1>4, <1>9, <1>11 DEF Own
  <1>13. \A k \in Installers : Broken(k, t)' <=> Broken(k, t)  BY <1>4 DEF Broken
  <1>14. t \in halved' => Halved(t)'  BY <1>4, <1>9, <1>11, <1>13 DEF Halved
  <1>15. ASSUME t \notin edited, DiskFits(j, t)  PROVE DiskFits(j, t)'
    <2>1. pre[j][t] = Original(t)  BY <1>15 DEF DiskFits
    <2>2. z # evidence[j][t] => live[t] = Original(t)
      <3>1. pc[p] = "dismissing" => live[t] = Original(t)  BY <1>2, <1>15 DEF UndoFits, Undoing
      <3> QED BY <1>3, <2>1, <3>1
    <2>3. y # displaced[j][t] => live[t] = Original(t) \/ live[t] = Post(t)
      <3>1. pc[p] = "settling" => live[t] = Original(t)  BY <1>2, <1>15 DEF UndoFits, Undoing
      <3>2. pc[p] = "clearing" => live[t] = Post(t)
        <4>1. pc[p] = "clearing" => pc[p] \notin Undoing  BY DEF Undoing
        <4> QED BY <1>2, <1>15, <4>1 DEF ForwardFits
      <3> QED BY <1>3, <2>1, <3>1, <3>2
    <2>4. state[j][t] \in {"staged", "snapshotted"} => y = "absent" /\ z = "absent"
      BY <1>6, <1>15 DEF DiskFits
    <2>5. Between(j, t) => Between(j, t)'
      BY <1>4, <1>5, <1>6, <1>7, <1>11, <2>1, <2>2, <2>3 DEF Between
    <2> QED BY <1>4, <1>7, <1>11, <1>15, <2>4, <2>5 DEF DiskFits
  <1>16. t \notin edited => DiskFits(j, t)' \/ Broken(j, t)'  BY <1>2, <1>13, <1>15
  <1> QED BY <1>2, <1>8, <1>10, <1>12, <1>14, <1>16, BreakFits

LEMMA ConflictFits ==
  ASSUME InstallInv, NEW p \in Installers, Conflict(p)
  PROVE  InstallInv'
  <1>1. /\ Refuses(p) /\ Move(p, Handler(p)) /\ DropTemp(p)
        /\ UNCHANGED <<live, spare, displaced, backup, evidence, journal, lock, user>>
    BY DEF Conflict
  <1>2. Alive(p)
    <2>1. pc[p] \notin {"idle", "ended", "dead"}  BY <1>1 DEF Refuses
    <2> QED BY <2>1 DEF Alive
  <1>3. /\ Handler(p) \in {"relocking", "ended", "releasing"}
        /\ Handler(p) = "relocking" => pc[p] \in Forward
        /\ Handler(p) = "releasing" => pc[p] \in Inside
    BY <1>2, HandlerFacts
  <1>4. Untouching /\ UNCHANGED <<token, overlapped>>  BY <1>1 DEF Untouching, journal, user
  <1>5. temp' \in [Targets -> {"absent", "new", "torn"}]  BY <1>1, DropTempFacts
  <1>6. spare' = spare /\ spare \in [Targets -> Contents]  BY <1>1 DEF InstallInv, Types, DiskTypes
  <1> QED BY <1>1, <1>2, <1>3, <1>4, <1>5, <1>6, StopFits

LEMMA FailFits ==
  ASSUME InstallInv, NEW p \in Installers, Fail(p)
  PROVE  InstallInv'
  <1>1. /\ Alive(p) /\ Move(p, Handler(p))
        /\ \/ ~Refuses(p) /\ UNCHANGED <<live, spare, displaced, evidence, halved>> /\ DropTemp(p)
           \/ CutOff(p)
        /\ lock' = IF pc[p] = "sealing" /\ Owns(p) THEN None ELSE lock
        /\ UNCHANGED <<backup, journal, plan, edited, raced, overlapped>>
    BY DEF Fail
  <1>2. /\ Handler(p) \in {"relocking", "ended", "releasing"}
        /\ Handler(p) = "relocking" => pc[p] \in Forward
        /\ Handler(p) = "releasing" => pc[p] \in Inside
    BY <1>1, HandlerFacts
  <1>3. lock' = lock \/ (lock' = None /\ Handler(p) = "relocking")
    <2>1. pc[p] = "sealing" => Handler(p) = "relocking"
      BY DEF Handler, Forward, Acquiring, Undoing
    <2> QED BY <1>1, <2>1
  <1>4. CASE UNCHANGED <<live, spare, displaced, evidence, halved>> /\ DropTemp(p)
    <2>1. Untouching /\ UNCHANGED <<token, overlapped>>  BY <1>1, <1>4 DEF Untouching, journal
    <2>2. temp' \in [Targets -> {"absent", "new", "torn"}]  BY <1>4, DropTempFacts
    <2>3. spare' = spare /\ spare \in [Targets -> Contents]  BY <1>4 DEF InstallInv, Types, DiskTypes
    <2> QED BY <1>1, <1>2, <1>3, <2>1, <2>2, <2>3, StopFits
  <1>5. CASE TornCopy(p)
    <2>1. Untouching /\ UNCHANGED <<token, overlapped>>  BY <1>1, <1>5 DEF TornCopy, Untouching, journal
    <2> QED BY <1>1, <1>2, <1>3, <1>5, <2>1, TornCopyFacts, StopFits
  <1>6. CASE TornTarget(p) \/ TornRemoval(p)
    <2>1. pc[p] # "sealing"  BY <1>6 DEF TornTarget, TornRemoval, Tidies
    <2>2. UNCHANGED <<backup, journal, lock, plan, edited, raced, overlapped>>  BY <1>1, <2>1
    <2> QED BY <1>1, <1>2, <1>6, <2>2, TornTargetFits, TornRemovalFits
  <1> QED BY <1>1, <1>4, <1>5, <1>6 DEF CutOff

LEMMA CrashFits ==
  ASSUME InstallInv, NEW p \in Installers, Crash(p)
  PROVE  InstallInv'
  <1>1. /\ Alive(p) /\ Move(p, "dead")
        /\ UNCHANGED <<live, temp, spare, displaced, evidence, halved>> \/ CutOff(p)
        /\ UNCHANGED <<backup, journal, lock, plan, edited, raced, overlapped>>
    BY DEF Crash
  <1>2. CASE UNCHANGED <<live, temp, spare, displaced, evidence, halved>>
    <2>1. Untouching /\ UNCHANGED <<token, overlapped>>  BY <1>1, <1>2 DEF Untouching, journal
    <2>2. /\ temp' \in [Targets -> {"absent", "new", "torn"}]
          /\ spare' = spare /\ spare \in [Targets -> Contents] /\ lock' = lock
      BY <1>1, <1>2 DEF InstallInv, Types, DiskTypes
    <2> QED BY <1>1, <2>1, <2>2, StopFits
  <1>3. CASE TornCopy(p)
    <2>1. Untouching /\ UNCHANGED <<token, overlapped, lock>>  BY <1>1, <1>3 DEF TornCopy, Untouching, journal
    <2> QED BY <1>1, <1>3, <2>1, TornCopyFacts, StopFits
  <1>4. CASE TornTarget(p) \/ TornRemoval(p)
    BY <1>1, <1>4, TornTargetFits, TornRemovalFits
  <1> QED BY <1>1, <1>2, <1>3, <1>4 DEF CutOff

-----------------------------------------------------------------------------
(* Where a transaction begins and ends *)

LEMMA RecoverFits ==
  ASSUME InstallInv, NEW p \in Installers, NEW j \in Installers, Recover(p, j)
  PROVE  InstallInv'
  <1>1. /\ pc[p] = "recovering" /\ status[j] = "active"
        /\ pc' = [pc EXCEPT ![p] = "rolling"] /\ at' = [at EXCEPT ![p] = Last] /\ of' = [of EXCEPT ![p] = j]
        /\ token' = [token EXCEPT ![j] = p]
        /\ UNCHANGED <<paths, status, state, pre, lock, tries, fromPost, user, bounds>>
    BY DEF Recover
  <1>2. /\ pc \in [Installers -> Steps] /\ at \in [Installers -> 0 .. Last] /\ of \in [Installers -> Installers]
        /\ token \in [Installers -> Installers \cup {None}] /\ Last \in 0 .. Last
    BY InstallAssumption DEF InstallInv, Types, JournalTypes, ControlTypes
  <1>3. "rolling" \in Steps /\ "rolling" \in Inside /\ "rolling" \in Settings /\ pc[p] \in Inside /\ "rolling" \notin Acquiring
    BY <1>1 DEF Steps, Inside, Undoing, Settings, Acquiring
  <1>4. /\ pc'[p] = "rolling" /\ at'[p] = Last /\ of'[p] = j
        /\ \A q \in Installers \ {p} : pc'[q] = pc[q] /\ of'[q] = of[q]
        /\ pc' \in [Installers -> Steps] /\ at' \in [Installers -> 0 .. Last] /\ of' \in [Installers -> Installers]
        /\ token' \in [Installers -> Installers \cup {None}]
    BY <1>1, <1>2, <1>3
  <1>5. Works(p)  BY <1>1, <1>3, <1>4 DEF Works
  <1>6. Untouching /\ UNCHANGED <<temp, spare>>  BY <1>1 DEF Untouching, paths, user
  <1>7. Types'
    BY <1>1, <1>4, <1>6 DEF Untouching, user, InstallInv, Types, DiskTypes, JournalTypes, ControlTypes, UserTypes
  <1>8. \A q \in Installers : Unused(q) => Unused(q)'  BY <1>6 DEF Unused, Untouching
  <1>9. LockFits' /\ \A q \in Installers \ {p} : PlaceFits(q)'  BY <1>5, <1>8, WorkFits
  <1>10. PlaceFits(p)'
    <2>1. Ahead(p)  BY <1>1 DEF Ahead
    <2> QED BY <1>1, <1>3, <1>4, <1>6, <2>1, LeavesFits
  <1>11. \A t \in Targets : spare'[t] \in {spare[t], "torn"}  BY <1>6
  <1>12. \A q \in Installers : PlaceFits(q)'  BY <1>9, <1>10
  <1> QED BY <1>6, <1>7, <1>9, <1>11, <1>12, QuietFits

\* What the lock gives: nobody else is about a transaction.
LEMMA WorkedFits ==
  ASSUME InstallInv, NEW p \in Installers, NEW s \in Steps, pc[p] \in Inside, s \in Inside,
         pc' = [pc EXCEPT ![p] = s], \A q \in Installers \ {p} : of'[q] = of[q],
         at' \in [Installers -> 0 .. Last], of' \in [Installers -> Installers],
         UNCHANGED <<paths, lock, tries, fromPost, user>>, JournalTypes',
         \A q \in Installers \ {p} : Unused(q) => Unused(q)',
         PlaceFits(p)', OneActive',
         \A k \in Installers, t \in Targets :
           /\ MineSaved(k, t)' /\ (state'[k][t] = "recovery_conflict" => t \in edited \cup halved)
           /\ status'[k] = "active" => state'[k][t] # "none" /\ (t \notin edited => DiskFits(k, t)' \/ Broken(k, t)'),
         \A t \in halved : Halved(t)',
         Active' = {} => \A t \in Targets \ edited : Installed(t)'
  PROVE  InstallInv'
  <1>1. pc \in [Installers -> Steps]  BY DEF InstallInv, Types, ControlTypes
  <1>2. pc'[p] = s /\ pc' \in [Installers -> Steps] /\ \A q \in Installers \ {p} : pc'[q] = pc[q]
    BY <1>1
  <1>3. Works(p)  BY <1>2 DEF Works
  <1>4. LockFits' /\ \A q \in Installers \ {p} : PlaceFits(q)'  BY <1>3, WorkFits
  <1>5. UNCHANGED <<live, temp, spare, displaced, backup, evidence, plan, edited, raced, halved, overlapped>>
    BY DEF paths, user
  <1>6. Types'
    BY <1>2, <1>5 DEF InstallInv, Types, DiskTypes, ControlTypes, UserTypes
  <1>7. ASSUME NEW t \in Targets  PROVE Kept(t)' /\ Own(t)'
    BY <1>5 DEF InstallInv, Kept, Own, Original
  <1>8. \A q \in Installers : PlaceFits(q)'  BY <1>4
  <1> HIDE DEF Kept, Own, MineSaved, DiskFits, Installed, PlaceFits, Broken, Halved
  <1> QED BY <1>4, <1>5, <1>6, <1>7, <1>8 DEF InstallInv

LEMMA CapturePreStatesFits ==
  ASSUME InstallInv, NEW p \in Installers, CapturePreStates(p)
  PROVE  InstallInv'
  <1>1. /\ pc[p] = "planning" /\ UNCHANGED <<paths, status, state, token, lock, user>>
        /\ \/ Move(p, "releasing") /\ UNCHANGED pre
           \/ /\ Move(p, "creating") /\ \A j \in Installers : status[j] # "committed"
              /\ pre' = [pre EXCEPT ![p] = live]
    BY DEF CapturePreStates, Step
  <1>2. /\ pc \in [Installers -> Steps] /\ at \in [Installers -> 0 .. Last] /\ of \in [Installers -> Installers]
        /\ pre \in Places /\ live \in [Targets -> Contents]
    BY DEF InstallInv, Types, DiskTypes, JournalTypes, ControlTypes
  <1>3. PICK s \in {"releasing", "creating"} :
          /\ pc' = [pc EXCEPT ![p] = s] /\ at' = [at EXCEPT ![p] = at[p]] /\ UNCHANGED <<of, tries, fromPost>>
          /\ s = "releasing" => pre' = pre
          /\ s = "creating" => pre' = [pre EXCEPT ![p] = live] /\ \A j \in Installers : status[j] # "committed"
    BY <1>1 DEF Move, Visit, Goto
  <1>4. s \in Steps /\ s \in Inside /\ pc[p] \in Inside  BY <1>1 DEF Steps, Inside
  <1>5. PlaceFits(p) /\ Ahead(p)  BY <1>1 DEF InstallInv, Ahead
  <1>6. Unused(p) /\ Active = {}  BY <1>1, <1>5 DEF PlaceFits, OwnerFits
  <1>7. UNCHANGED <<live, spare, displaced, backup, evidence, plan, edited, raced, halved>>  BY <1>1 DEF paths, user
  <1>8. \A q \in Installers : Unused(q) => Unused(q)'  BY <1>1, <1>7 DEF Unused
  <1>9. pc'[p] = s /\ at'[p] = at[p] /\ at' \in [Installers -> 0 .. Last]  BY <1>2, <1>3, <1>4
  <1>10. Active' = Active /\ OneActive'  BY <1>1 DEF Active, OneActive, InstallInv
  <1>11. JournalTypes'
    <2>1. pre' \in Places  BY <1>2, <1>3 DEF Places
    <2> QED BY <1>1, <2>1 DEF InstallInv, Types, JournalTypes
  <1>12. \A t \in Targets : Original(t)' = Original(t) /\ Post(t)' = Post(t)
    BY <1>7 DEF Original, Post
  <1>13. PlaceFits(p)'
    <2>1. pc'[p] \notin Forward \cup Undoing \cup {"planning", "relocking"}
      BY <1>9 DEF Forward, Undoing
    <2>2. OwnerFits(p)'
      BY <1>1, <1>3, <1>6, <1>8, <1>9, <1>10, <2>1 DEF OwnerFits
    <2>3. JournalFits(p)' /\ StepFits(p)' /\ MineAt(p)'
      BY <1>9, <2>1 DEF JournalFits, StepFits, MineAt, Forward, Undoing, Drafting
    <2>4. ASSUME pc'[p] = "creating", NEW t \in Targets \ edited'  PROVE pre'[p][t] = Original(t)'
      <3>1. pre'[p] = live /\ \A j \in Installers : status[j] # "committed"  BY <1>2, <1>3, <1>9, <2>4 DEF Places
      <3>2. Installed(t)  BY <1>6, <1>7, <2>4 DEF InstallInv
      <3> QED BY <1>12, <3>1, <3>2 DEF Installed
    <2> QED BY <2>1, <2>2, <2>3, <2>4 DEF PlaceFits
  <1>14. ASSUME NEW k \in Installers, NEW t \in Targets
         PROVE  /\ MineSaved(k, t)' /\ (state'[k][t] = "recovery_conflict" => t \in edited \cup halved)
                /\ status'[k] # "active"
    <2>1. MineSaved(k, t) /\ (state[k][t] = "recovery_conflict" => t \in edited \cup halved)  BY DEF InstallInv
    <2>2. status'[k] # "active"  BY <1>1, <1>6 DEF Active
    <2>3. CASE k = p /\ s = "creating"
      <3>1. pre'[p][t] = live[t] /\ state'[p][t] = "none"  BY <1>1, <1>2, <1>3, <1>6, <2>3 DEF Unused, Places
      <3>2. live[t] = "mine" => t \in edited  BY DEF InstallInv, Own
      <3> QED BY <1>7, <2>1, <2>2, <2>3, <3>1, <3>2 DEF MineSaved
    <2>4. CASE ~(k = p /\ s = "creating")
      <3>1. pre'[k] = pre[k]  BY <1>2, <1>3, <2>4 DEF Places
      <3> QED BY <1>1, <1>7, <2>1, <2>2, <3>1 DEF MineSaved
    <2> QED BY <2>3, <2>4
  <1>15. Active' = {} => \A t \in Targets \ edited : Installed(t)'
    BY <1>1, <1>7, <1>10, <1>12 DEF InstallInv, Installed
  <1>16. ASSUME NEW t \in halved  PROVE Halved(t)'
    <2>1. t \in Targets /\ Halved(t)  BY DEF InstallInv, Types, UserTypes
    <2>2. t \notin edited => \E k \in Installers : state[k][t] = "recovery_conflict"
      BY <1>6, <2>1 DEF Halved, Active
    <2> QED BY <1>1, <1>7, <2>1, <2>2 DEF Halved, IsFile
  <1> HIDE DEF PlaceFits, OneActive, MineSaved, DiskFits, Installed, Unused, Broken, Halved
  <1> QED BY <1>1, <1>2, <1>3, <1>4, <1>8, <1>9, <1>10, <1>11, <1>13, <1>14, <1>15, <1>16, WorkedFits

LEMMA CreateJournalFits ==
  ASSUME InstallInv, NEW p \in Installers, CreateJournal(p)
  PROVE  InstallInv'
  <1>1. /\ pc[p] = "creating" /\ pc' = [pc EXCEPT ![p] = "advancing"]
        /\ at' = [at EXCEPT ![p] = 0] /\ of' = [of EXCEPT ![p] = p]
        /\ status' = [status EXCEPT ![p] = "active"] /\ state' = [state EXCEPT ![p] = Same("staged")]
        /\ token' = [token EXCEPT ![p] = p]
        /\ UNCHANGED <<paths, pre, lock, tries, fromPost, user>>
    BY DEF CreateJournal, Goto
  <1>2. /\ pc \in [Installers -> Steps] /\ at \in [Installers -> 0 .. Last] /\ of \in [Installers -> Installers]
        /\ JournalTypes /\ 0 \in 0 .. Last
    BY InstallAssumption DEF InstallInv, Types, ControlTypes
  <1>3. "advancing" \in Steps /\ "advancing" \in Inside /\ "advancing" \in Forward /\ pc[p] \in Inside
    BY <1>1 DEF Steps, Inside, Forward
  <1>4. PlaceFits(p) /\ Ahead(p)  BY <1>1 DEF InstallInv, Ahead
  <1>5. /\ Unused(p) /\ Active = {} /\ \A j \in Installers : status[j] # "committed"
        /\ \A t \in Targets \ edited : pre[p][t] = Original(t)
    BY <1>1, <1>4 DEF PlaceFits, OwnerFits
  <1>6. UNCHANGED <<live, spare, displaced, backup, evidence, plan, edited, raced, halved>>  BY <1>1 DEF paths, user
  <1>7. /\ pc'[p] = "advancing" /\ at'[p] = 0 /\ of'[p] = p /\ status'[p] = "active" /\ token'[p] = p
        /\ \A t \in Targets : state'[p][t] = "staged"
        /\ at' \in [Installers -> 0 .. Last] /\ of' \in [Installers -> Installers]
        /\ \A q \in Installers \ {p} : of'[q] = of[q] /\ status'[q] = status[q] /\ state'[q] = state[q]
    BY <1>1, <1>2, <1>3 DEF JournalTypes, Same
  <1>8. JournalTypes'
    <2>1. Same("staged") \in [Targets -> States]  BY DEF Same, States
    <2>2. state' \in [Installers -> [Targets -> States]]  BY <1>1, <1>2, <2>1 DEF JournalTypes
    <2>3. status' \in [Installers -> {"none", "active", "committed", "rolled_back", "recovery_conflict"}]
      BY <1>1, <1>2 DEF JournalTypes
    <2>4. token' \in [Installers -> Installers \cup {None}]  BY <1>1, <1>2 DEF JournalTypes
    <2> QED BY <1>1, <1>2, <2>2, <2>3, <2>4 DEF JournalTypes
  <1>9. \A q \in Installers \ {p} : Unused(q) => Unused(q)'  BY <1>6, <1>7 DEF Unused
  <1>10. \A q \in Installers \ {p} : status'[q] # "active" /\ status'[q] # "committed"
    BY <1>5, <1>7 DEF Active
  <1>11. OneActive' /\ p \in Active'  BY <1>7, <1>10 DEF OneActive, Active
  <1>12. PlaceFits(p)'
    <2>1. pc'[p] \notin Undoing \cup {"idle", "recovering", "planning", "creating", "relocking"} \cup Acquiring
      BY <1>7 DEF Undoing, Acquiring
    <2>2. OwnerFits(p)'
      <3>1. ~Ahead(p)'  BY <2>1 DEF Ahead
      <3> QED BY <1>7, <2>1, <3>1 DEF OwnerFits
    <2>3. JournalFits(p)'  BY <1>7, <2>1 DEF JournalFits, Going
    <2>4. StepFits(p)' /\ MineAt(p)'
      BY <1>5, <1>6, <1>7 DEF StepFits, MineAt, Drafting, Unused
    <2>5. ASSUME NEW t \in Targets \ edited  PROVE ForwardFits(p, t)'
      <3>1. t # 0  BY DEF Targets
      <3>2. pre'[p][t] = Original(t)'  BY <1>1, <1>5, <1>6 DEF Original
      <3> QED BY <1>5, <1>6, <1>7, <3>1, <3>2 DEF ForwardFits, Unused
    <2> QED BY <1>6, <1>7, <2>1, <2>2, <2>3, <2>4, <2>5 DEF PlaceFits
  <1>13. ASSUME NEW k \in Installers, NEW t \in Targets
         PROVE  /\ MineSaved(k, t)' /\ (state'[k][t] = "recovery_conflict" => t \in edited \cup halved)
                /\ status'[k] = "active" => state'[k][t] # "none" /\ (t \notin edited => DiskFits(k, t)')
    <2>1. MineSaved(k, t) /\ (state[k][t] = "recovery_conflict" => t \in edited \cup halved)  BY DEF InstallInv
    <2>2. CASE k # p  BY <1>1, <1>6, <1>7, <1>10, <2>1, <2>2 DEF MineSaved
    <2>3. CASE k = p
      <3>1. MineSaved(p, t)' /\ state'[p][t] = "staged"  BY <1>1, <1>6, <1>7, <2>1, <2>3 DEF MineSaved
      <3>2. ASSUME t \notin edited  PROVE DiskFits(p, t)'
        <4>1. Installed(t)  BY <1>5, <3>2 DEF InstallInv
        <4>2. live[t] = Original(t) /\ pre[p][t] = Original(t)  BY <1>5, <3>2, <4>1 DEF Installed
        <4>3. displaced[p][t] = "absent" /\ evidence[p][t] = "absent"  BY <1>5 DEF Unused
        <4> QED BY <1>1, <1>6, <3>1, <4>2, <4>3 DEF DiskFits, Original
      <3> QED BY <2>3, <3>1, <3>2
    <2> QED BY <2>2, <2>3
  <1>14. ASSUME NEW t \in halved  PROVE Halved(t)'
    <2>1. t \in Targets /\ Halved(t)  BY DEF InstallInv, Types, UserTypes
    <2>2. t \notin edited => \E k \in Installers : state[k][t] = "recovery_conflict"
      BY <1>5, <2>1 DEF Halved, Active
    <2>3. state[p][t] # "recovery_conflict"  BY <1>5, <2>1 DEF Unused
    <2>4. t \notin edited => \E k \in Installers : state'[k][t] = "recovery_conflict"
      BY <1>7, <2>2, <2>3
    <2> QED BY <1>6, <2>1, <2>4 DEF Halved, IsFile
  <1>15. Active' = {} => \A t \in Targets \ edited : Installed(t)'  BY <1>11
  <1> HIDE DEF PlaceFits, OneActive, MineSaved, DiskFits, Installed, Unused, Broken, Halved, JournalTypes, Active
  <1>16. UNCHANGED <<paths, lock, tries, fromPost, user>>  BY <1>1
  <1>17. \A q \in Installers \ {p} : of'[q] = of[q]  BY <1>7
  <1>18. at' \in [Installers -> 0 .. Last] /\ of' \in [Installers -> Installers]  BY <1>7
  <1>19. \A k \in Installers, t \in Targets :
           /\ MineSaved(k, t)' /\ (state'[k][t] = "recovery_conflict" => t \in edited \cup halved)
           /\ status'[k] = "active" => state'[k][t] # "none" /\ (t \notin edited => DiskFits(k, t)' \/ Broken(k, t)')
    BY <1>13
  <1>20. OneActive' /\ pc' = [pc EXCEPT ![p] = "advancing"]  BY <1>1, <1>11
  <1>21. \A t \in halved : Halved(t)'  BY <1>14
  <1> QED BY <1>3, <1>8, <1>9, <1>12, <1>15, <1>16, <1>17, <1>18, <1>19, <1>20, <1>21, WorkedFits

LEMMA SealFits ==
  ASSUME InstallInv, NEW p \in Installers, Seal(p)
  PROVE  InstallInv'
  <1>1. /\ pc[p] = "sealing" /\ Move(p, "releasing") /\ status' = [status EXCEPT ![p] = "committed"]
        /\ UNCHANGED <<paths, state, pre, token, lock, user>>
    BY DEF Seal, Step
  <1>2. pc[p] \in Forward /\ pc[p] \in Inside /\ "releasing" \in Steps /\ "releasing" \in Inside
    BY <1>1 DEF Forward, Inside, Steps
  <1>3. /\ pc' = [pc EXCEPT ![p] = "releasing"] /\ UNCHANGED <<of, tries, fromPost>>
        /\ at' = [at EXCEPT ![p] = at[p]]
    BY <1>1 DEF Move, Visit, Goto
  <1>4. /\ pc \in [Installers -> Steps] /\ at \in [Installers -> 0 .. Last] /\ of \in [Installers -> Installers]
        /\ JournalTypes
    BY DEF InstallInv, Types, ControlTypes
  <1>5. status[p] = "active" /\ \A t \in Targets \ edited : live[t] = Post(t) /\ pre[p][t] = Original(t)
    <2>1. status[p] = "active" /\ (\A t \in Targets : state[p][t] = Going(p, t))
          /\ \A t \in Targets \ edited : ForwardFits(p, t)
      BY <1>2, ForwardFacts
    <2>2. \A t \in Targets : state[p][t] = "active"  BY <1>1, <2>1 DEF Going
    <2> QED BY <2>1, <2>2 DEF ForwardFits
  <1>6. \A k \in Installers : k # p => status[k] # "active" /\ status[k] # "committed"
    BY <1>5 DEF InstallInv, OneActive
  <1>7. status'[p] = "committed" /\ \A k \in Installers \ {p} : status'[k] = status[k]
    BY <1>1, <1>4 DEF JournalTypes
  <1>8. JournalTypes'  BY <1>1, <1>4 DEF JournalTypes
  <1>9. \A k \in Installers : status'[k] # "active"  BY <1>6, <1>7
  <1>10. OneActive'  BY <1>9 DEF OneActive
  <1>11. UNCHANGED <<live, displaced, backup, evidence, plan, edited, raced, halved>>  BY <1>1 DEF paths, user
  <1>12. \A q \in Installers \ {p} : Unused(q) => Unused(q)'  BY <1>1, <1>7, <1>11 DEF Unused
  <1>13. PlaceFits(p)'
    <2>1. pc'[p] = "releasing"  BY <1>3, <1>4
    <2>2. pc'[p] \notin Forward \cup Undoing \cup Acquiring \cup {"idle", "recovering", "planning", "creating", "relocking"}
      BY <2>1 DEF Forward, Undoing, Acquiring
    <2>3. OwnerFits(p)'  BY <2>2 DEF OwnerFits, Ahead
    <2>4. JournalFits(p)' /\ StepFits(p)' /\ MineAt(p)'
      BY <2>1, <2>2 DEF JournalFits, StepFits, MineAt, Drafting
    <2> QED BY <2>2, <2>3, <2>4 DEF PlaceFits
  <1>14. ASSUME NEW k \in Installers, NEW t \in Targets
         PROVE  MineSaved(k, t)' /\ (state'[k][t] = "recovery_conflict" => t \in edited \cup halved)
    BY <1>1, <1>11 DEF InstallInv, MineSaved
  <1>15. ASSUME NEW t \in Targets \ edited  PROVE Installed(t)'
    BY <1>5, <1>7, <1>11 DEF Installed, Post
  <1>16. at' \in [Installers -> 0 .. Last]  BY <1>3, <1>4
  <1>17. ASSUME NEW t \in halved  PROVE Halved(t)'
    <2>1. t \in Targets /\ Halved(t)  BY DEF InstallInv, Types, UserTypes
    <2>2. ASSUME t \notin edited, NEW k \in Installers, status[k] = "active", Broken(k, t)  PROVE FALSE
      <3>1. k = p /\ pre[p][t] = "part"  BY <1>5, <1>6, <2>1, <2>2 DEF Original
      <3> QED BY <2>2, <3>1 DEF Broken
    <2>3. t \notin edited => \E k \in Installers : state[k][t] = "recovery_conflict"
      BY <2>1, <2>2 DEF Halved
    <2> QED BY <1>1, <1>11, <2>1, <2>3 DEF Halved, IsFile
  <1> HIDE DEF PlaceFits, OneActive, MineSaved, DiskFits, Installed, Unused, Broken, Halved
  <1> QED BY <1>1, <1>2, <1>3, <1>4, <1>8, <1>9, <1>10, <1>12, <1>13, <1>14, <1>15, <1>16, <1>17, WorkedFits

LEMMA FinishFits ==
  ASSUME InstallInv, NEW p \in Installers, Finish(p)
  PROVE  InstallInv'
  <1>1. /\ pc[p] = "finishing" /\ UNCHANGED <<paths, state, pre, token, lock, user>>
        /\ Move(p, IF of[p] = p THEN "releasing" ELSE "recovering")
        /\ status' = [status EXCEPT ![of[p]] =
             IF \E t \in Targets : state[of[p]][t] = "recovery_conflict" THEN "recovery_conflict" ELSE "rolled_back"]
    BY DEF Finish, Step
  <1>2. pc[p] \in Undoing /\ pc[p] \in Inside  BY <1>1 DEF Undoing, Inside
  <1>3. PICK j \in Installers, u \in Targets :
           /\ of[p] = j /\ status[j] = "active"
           /\ \A w \in Targets : state[j][w] \in Closed
           /\ \A w \in Targets \ edited : DiskFits(j, w) \/ Broken(j, w)
    <2>1. \E j \in Installers, t \in Targets :
           /\ of[p] = j /\ status[j] = "active"
           /\ \A w \in Targets : w > t \/ pc[p] = "finishing" => state[j][w] \in Closed
           /\ \A w \in Targets \ edited : DiskFits(j, w) \/ Broken(j, w)
      BY <1>2, UndoFacts
    <2> QED BY <1>1, <2>1
  <1>4. PICK s \in {"releasing", "recovering"}, e \in {"recovery_conflict", "rolled_back"} :
          /\ s = "recovering" => j # p
          /\ Move(p, s) /\ status' = [status EXCEPT ![j] = e]
    BY <1>1, <1>3
  <1>5. s \in Steps /\ s \in Inside  BY DEF Steps, Inside
  <1>6. /\ pc' = [pc EXCEPT ![p] = s] /\ UNCHANGED <<of, tries, fromPost>>
        /\ at' = [at EXCEPT ![p] = at[p]]
    BY <1>4 DEF Move, Visit, Goto
  <1>7. /\ pc \in [Installers -> Steps] /\ at \in [Installers -> 0 .. Last] /\ of \in [Installers -> Installers]
        /\ JournalTypes
    BY DEF InstallInv, Types, ControlTypes
  <1>8. \A k \in Installers : (k # j => status[k] # "active") /\ status[k] # "committed"
    BY <1>3 DEF InstallInv, OneActive
  <1>9. status'[j] = e /\ \A k \in Installers \ {j} : status'[k] = status[k]
    BY <1>4, <1>7 DEF JournalTypes
  <1>10. JournalTypes'  BY <1>1, <1>4, <1>7 DEF JournalTypes
  <1>11. \A k \in Installers : status'[k] # "active" /\ status'[k] # "committed"  BY <1>8, <1>9
  <1>12. OneActive'  BY <1>11 DEF OneActive
  <1>13. UNCHANGED <<live, displaced, backup, evidence, plan, edited, raced, halved>>  BY <1>1 DEF paths, user
  <1>14. \A q \in Installers : Unused(q) => Unused(q)'
    BY <1>1, <1>3, <1>9, <1>13 DEF Unused
  <1>15. PlaceFits(p)'
    <2>1. pc'[p] = s  BY <1>6, <1>7
    <2>2. pc'[p] \notin Forward \cup Undoing \cup Acquiring \cup {"idle", "planning", "creating", "relocking"}
      BY <2>1 DEF Forward, Undoing, Acquiring
    <2>3. s = "recovering" => Ahead(p)  BY <1>2, <1>3, <1>4 DEF Ahead
    <2>4. PlaceFits(p)  BY DEF InstallInv
    <2>5. s = "recovering" => Unused(p)'  BY <1>14, <2>3, <2>4 DEF PlaceFits, OwnerFits
    <2>6. Ahead(p)' => s = "recovering"  BY <2>1, <2>2 DEF Ahead
    <2>7. OwnerFits(p)'  BY <2>2, <2>5, <2>6 DEF OwnerFits
    <2>8. JournalFits(p)' /\ StepFits(p)' /\ MineAt(p)'
      BY <2>1, <2>2 DEF JournalFits, StepFits, MineAt, Drafting
    <2> QED BY <2>2, <2>7, <2>8 DEF PlaceFits
  <1>16. ASSUME NEW k \in Installers, NEW t \in Targets
         PROVE  MineSaved(k, t)' /\ (state'[k][t] = "recovery_conflict" => t \in edited \cup halved)
    BY <1>1, <1>13 DEF InstallInv, MineSaved
  <1>17. ASSUME NEW t \in Targets \ edited  PROVE Installed(t)'
    <2>1. live[t] = Original(t)
      <3>1. CASE DiskFits(j, t)  BY <1>3, <3>1 DEF DiskFits, Closed
      <3>2. CASE Broken(j, t)  BY <3>2 DEF Broken, Original
      <3> QED BY <1>3, <3>1, <3>2
    <2> QED BY <1>11, <1>13, <2>1 DEF Installed, Original
  <1>18. at' \in [Installers -> 0 .. Last]  BY <1>6, <1>7
  <1>19. ASSUME NEW t \in halved  PROVE Halved(t)'
    <2>1. t \in Targets /\ Halved(t)  BY DEF InstallInv, Types, UserTypes
    <2>2. ASSUME NEW k \in Installers, status[k] = "active", Broken(k, t)  PROVE state[k][t] = "recovery_conflict"
      <3>1. k = j  BY <1>8, <2>2
      <3> QED BY <1>3, <2>1, <2>2, <3>1 DEF Broken, Closed
    <2>3. t \notin edited => \E k \in Installers : state[k][t] = "recovery_conflict"
      BY <2>1, <2>2 DEF Halved
    <2> QED BY <1>1, <1>13, <2>1, <2>3 DEF Halved, IsFile
  <1> HIDE DEF PlaceFits, OneActive, MineSaved, DiskFits, Installed, Unused, Broken, Halved
  <1> QED BY <1>1, <1>2, <1>5, <1>6, <1>7, <1>10, <1>11, <1>12, <1>14, <1>15, <1>16, <1>17, <1>18, <1>19, WorkedFits

-----------------------------------------------------------------------------
(* The user, and every step *)

LEMMA EditFits ==
  ASSUME InstallInv, NEW t \in Targets, Edit(t)
  PROVE  InstallInv'
  <1>1. /\ edited' = edited \cup {t} /\ live' = [live EXCEPT ![t] = "mine"]
        /\ raced' = IF \E p \in Installers : Window(p, t) THEN raced \cup {t} ELSE raced
        /\ UNCHANGED <<temp, spare, displaced, backup, evidence, status, state, pre, token, lock,
                       pc, at, of, tries, fromPost, plan, halved, overlapped>>
    BY DEF Edit, journal, control
  <1>2. edited \subseteq Targets /\ raced \subseteq edited /\ live \in [Targets -> Contents]
    BY DEF InstallInv, Types, DiskTypes, UserTypes
  <1>3. /\ live'[t] = "mine" /\ live' \in [Targets -> Contents] /\ \A u \in Targets \ {t} : live'[u] = live[u]
        /\ raced \subseteq raced' /\ raced' \subseteq raced \cup {t} /\ t \in edited'
    BY <1>1, <1>2 DEF Contents
  <1>4. Types'
    BY <1>1, <1>2, <1>3 DEF InstallInv, Types, DiskTypes, JournalTypes, ControlTypes, UserTypes
  <1>5. LockFits'  BY <1>1 DEF InstallInv, LockFits, Owns, Stale, Alive
  <1>6. OneActive' /\ Active' = Active  BY <1>1 DEF InstallInv, OneActive, Active
  <1>7. \A u \in Targets : Original(u)' = Original(u) /\ Post(u)' = Post(u) /\ IsFile(u)' = IsFile(u)
    BY <1>1 DEF Original, Post, IsFile
  <1>8. ASSUME NEW q \in Installers  PROVE PlaceFits(q)'
    <2>1. PlaceFits(q)  BY DEF InstallInv
    <2>2. Ahead(q)' = Ahead(q) /\ Unused(q)' = Unused(q) /\ Owns(q)' = Owns(q)
      BY <1>1 DEF Ahead, Unused, Owns
    <2>3. OwnerFits(q)'  BY <1>1, <1>6, <2>1, <2>2 DEF PlaceFits, OwnerFits
    <2>4. JournalFits(q)'
      <3>1. \A u \in Targets : Going(q, u)' = Going(q, u)  BY <1>1 DEF Going
      <3> QED BY <1>1, <2>1, <3>1 DEF PlaceFits, JournalFits
    <2>5. StepFits(q)'
      BY <1>1, <2>1 DEF PlaceFits, StepFits, Displaces, Post, IsFile
    <2>6. MineAt(q)'
      <3>1. Window(q, t) => t \in raced'  BY <1>1
      <3>2. at[q] \in Targets \/ pc[q] \notin {"saving", "placing", "puttingBack", "restoring", "returning"}
        <4>1. pc[q] \in {"saving", "placing", "puttingBack", "restoring", "returning"} =>
                pc[q] \in (Forward \cup Undoing) \ {"advancing"}
          BY DEF Forward, Undoing
        <4> QED BY <2>1, <4>1 DEF PlaceFits, OwnerFits
      <3>3. CASE at[q] = t
        BY <1>1, <1>3, <2>1, <3>1, <3>2, <3>3 DEF PlaceFits, MineAt, Window, IsFile
      <3>4. CASE at[q] # t
        BY <1>1, <1>3, <2>1, <3>2, <3>4 DEF PlaceFits, MineAt, IsFile
      <3> QED BY <3>3, <3>4
    <2>7. ASSUME NEW u \in Targets \ edited', pc'[q] \in Forward  PROVE ForwardFits(q, u)'
      <3>1. u # t /\ u \notin edited  BY <1>1, <2>7
      <3>2. live'[u] = live[u] /\ ForwardFits(q, u)  BY <1>1, <1>3, <2>1, <2>7, <3>1 DEF PlaceFits
      <3> QED BY <1>1, <3>2 DEF ForwardFits, Displaces, Original, Post, IsFile
    <2>8. ASSUME pc'[q] \in Undoing, at'[q] \notin edited'  PROVE UndoFits(q)'
      <3>1. at[q] \in Targets
        <4>1. pc[q] \in (Forward \cup Undoing) \ {"advancing"}  BY <1>1, <2>8 DEF Undoing
        <4> QED BY <2>1, <4>1 DEF PlaceFits, OwnerFits
      <3>2. live'[at[q]] = live[at[q]] /\ UndoFits(q)  BY <1>1, <1>3, <2>1, <2>8, <3>1 DEF PlaceFits
      <3> QED BY <1>1, <3>2 DEF UndoFits, Retired, Original, Post, IsFile
    <2>9. pc'[q] = "creating" => \A u \in Targets \ edited' : pre'[q][u] = Original(u)'
      BY <1>1, <1>7, <2>1 DEF PlaceFits
    <2> QED BY <2>3, <2>4, <2>5, <2>6, <2>7, <2>8, <2>9 DEF PlaceFits
  <1>9. ASSUME NEW u \in Targets  PROVE Kept(u)' /\ Own(u)' /\ (u \in halved' => Halved(u)')
    <2>1. CASE u = t
      <3>1. u \in halved => Halved(u)  BY DEF InstallInv
      <3> QED BY <1>1, <1>3, <1>7, <2>1, <3>1 DEF Kept, Own, Halved
    <2>2. CASE u # t
      <3>1. Kept(u) /\ Own(u) /\ (u \in halved => Halved(u))  BY DEF InstallInv
      <3>2. live'[u] = live[u] /\ (u \in edited' <=> u \in edited) /\ (u \in raced' <=> u \in raced)
        BY <1>1, <1>3, <2>2
      <3>3. \A k \in Installers : Broken(k, u)' <=> Broken(k, u)  BY <1>1, <3>2 DEF Broken
      <3>4. u \in halved' => Halved(u)'  BY <1>1, <1>7, <3>1, <3>2, <3>3 DEF Halved
      <3>5. Kept(u)' /\ Own(u)'  BY <1>1, <1>7, <3>1, <3>2 DEF Kept, Own
      <3> QED BY <3>4, <3>5
    <2> QED BY <2>1, <2>2
  <1>10. ASSUME NEW j \in Installers, NEW u \in Targets
         PROVE  /\ MineSaved(j, u)' /\ (state'[j][u] = "recovery_conflict" => u \in edited' \cup halved')
                /\ status'[j] = "active" => state'[j][u] # "none" /\ (u \notin edited' => DiskFits(j, u)' \/ Broken(j, u)')
    <2>1. /\ MineSaved(j, u) /\ (state[j][u] = "recovery_conflict" => u \in edited \cup halved)
          /\ status[j] = "active" => state[j][u] # "none" /\ (u \notin edited => DiskFits(j, u) \/ Broken(j, u))
      BY DEF InstallInv
    <2>2. MineSaved(j, u)' /\ (state'[j][u] = "recovery_conflict" => u \in edited' \cup halved')
      BY <1>1, <2>1 DEF MineSaved
    <2>3. ASSUME status'[j] = "active", u \notin edited'  PROVE DiskFits(j, u)' \/ Broken(j, u)'
      <3>1. live'[u] = live[u] /\ (DiskFits(j, u) \/ Broken(j, u))  BY <1>1, <1>3, <2>1, <2>3
      <3>2. DiskFits(j, u) => DiskFits(j, u)'  BY <1>1, <1>7, <3>1 DEF DiskFits, Between
      <3>3. Broken(j, u) => Broken(j, u)'  BY <1>1, <3>1 DEF Broken
      <3> QED BY <3>1, <3>2, <3>3
    <2> QED BY <1>1, <2>1, <2>2, <2>3
  <1>11. Active' = {} => \A u \in Targets \ edited' : Installed(u)'
    <2>1. ASSUME Active' = {}, NEW u \in Targets \ edited'  PROVE Installed(u)'
      <3>1. live'[u] = live[u] /\ Installed(u)  BY <1>1, <1>3, <1>6, <2>1 DEF InstallInv
      <3> QED BY <1>1, <1>7, <3>1 DEF Installed
    <2> QED BY <2>1
  <1> HIDE DEF PlaceFits, OneActive, MineSaved, DiskFits, Installed, Unused, LockFits, Types, Kept, Own, Broken, Halved
  <1> QED BY <1>4, <1>5, <1>6, <1>8, <1>9, <1>10, <1>11 DEF InstallInv

LEMMA InitFits == Init => InstallInv
  <1> SUFFICES ASSUME Init  PROVE InstallInv
    OBVIOUS
  <1>1. /\ plan \in Plans /\ live = [t \in Targets |-> plan[t].original]
        /\ temp = Same("absent") /\ spare = Same("absent")
        /\ displaced = Nowhere /\ backup = Nowhere /\ evidence = Nowhere /\ pre = Nowhere
        /\ status = [p \in Installers |-> "none"] /\ state = [p \in Installers |-> Same("none")]
        /\ token = [p \in Installers |-> None] /\ lock = None
        /\ pc = [p \in Installers |-> "idle"] /\ at = [p \in Installers |-> 1]
        /\ of = [p \in Installers |-> p] /\ tries = [p \in Installers |-> 1] /\ fromPost = {}
        /\ edited = {} /\ raced = {} /\ halved = {} /\ overlapped = FALSE
    BY DEF Init
  <1>2. plan \in Plan /\ Last \in Nat \ {0}  BY <1>1, InstallAssumption
  <1>3. \A t \in Targets : plan[t].original \in {"absent", "old"}  BY <1>2 DEF Plan
  <1>4. \A p \in Installers, t \in Targets :
          /\ displaced[p][t] = "absent" /\ backup[p][t] = "absent" /\ evidence[p][t] = "absent"
          /\ pre[p][t] = "absent" /\ state[p][t] = "none"
    BY <1>1 DEF Nowhere, Same
  <1>5. Types
    <2>1. Nowhere \in Places  BY DEF Nowhere, Same, Places, Contents
    <2>2. DiskTypes  BY <1>1, <1>3, <2>1 DEF DiskTypes, Same, Contents
    <2>3. JournalTypes  BY <1>1, <2>1 DEF JournalTypes, Same, States
    <2>4. ControlTypes  BY <1>1, <1>2 DEF ControlTypes, Steps
    <2>5. UserTypes  BY <1>1 DEF UserTypes
    <2> QED BY <2>2, <2>3, <2>4, <2>5 DEF Types
  <1>6. \A p \in Installers : pc[p] = "idle" /\ status[p] = "none"  BY <1>1
  <1>7. LockFits  BY <1>6 DEF LockFits, Alive, Inside, Forward, Undoing
  <1>8. OneActive  BY <1>6 DEF OneActive
  <1>9. ASSUME NEW p \in Installers  PROVE PlaceFits(p)
    <2>1. pc[p] \notin Forward \cup Undoing \cup {"relocking", "planning", "creating"}
      BY <1>6 DEF Forward, Undoing
    <2>2. OwnerFits(p)  BY <1>4, <1>6, <2>1 DEF OwnerFits, Unused
    <2>3. JournalFits(p) /\ StepFits(p) /\ MineAt(p)
      BY <1>6, <2>1 DEF JournalFits, StepFits, MineAt, Drafting
    <2> QED BY <2>1, <2>2, <2>3 DEF PlaceFits
  <1>10. \A t \in Targets : Kept(t) /\ Own(t) /\ t \notin halved
    BY <1>1, <1>3 DEF Kept, Own, Same
  <1>11. \A j \in Installers, t \in Targets :
           MineSaved(j, t) /\ state[j][t] # "recovery_conflict" /\ status[j] # "active"
    BY <1>4, <1>6 DEF MineSaved
  <1>12. \A t \in Targets : Installed(t)
    BY <1>1, <1>6 DEF Installed, Original
  <1> HIDE DEF PlaceFits, OneActive, MineSaved, DiskFits, Installed, Unused, LockFits, Types, Kept, Own
  <1> QED BY <1>5, <1>7, <1>8, <1>9, <1>10, <1>11, <1>12 DEF InstallInv

LEMMA InstallStep == InstallInv /\ [Next /\ Careful]_vars => InstallInv'
  <1> SUFFICES ASSUME InstallInv, [Next /\ Careful]_vars  PROVE InstallInv'
    OBVIOUS
  <1>1. CASE UNCHANGED vars
    <2>1. UNCHANGED <<paths, journal, lock, control, user>>  BY <1>1 DEF vars
    <2>2. UNCHANGED <<live, temp, spare, displaced, backup, evidence, status, state, pre, token, lock,
                      pc, at, of, tries, fromPost, plan, edited, raced, halved, overlapped>>
      BY <2>1 DEF paths, journal, control, user
    <2>3. Untouching  BY <2>2 DEF Untouching
    <2>4. Types'
      BY <2>2 DEF InstallInv, Types, DiskTypes, JournalTypes, ControlTypes, UserTypes
    <2>5. LockFits'  BY <2>2 DEF InstallInv, LockFits, Owns, Stale, Alive
    <2>6. ASSUME NEW q \in Installers  PROVE PlaceFits(q)'
      <3>1. PlaceFits(q) /\ Owns(q)' = Owns(q)  BY <2>2 DEF InstallInv, Owns
      <3> QED BY <2>2, <2>3, <3>1, OtherFits
    <2>7. \A t \in Targets : spare'[t] \in {spare[t], "torn"}  BY <2>2
    <2> QED BY <2>3, <2>4, <2>5, <2>6, <2>7, QuietFits
  <1>2. CASE Next /\ Careful
    <2>1. CASE \E t \in Targets : Edit(t)  BY <2>1, EditFits
    <2>2. ASSUME NEW p \in Installers, Start(p) \/ Installs(p) \/ Fail(p) \/ Crash(p)
          PROVE  InstallInv'
      <3>1. CASE Start(p)  BY <3>1, StartFits
      <3>2. CASE Fail(p)  BY <3>2, FailFits
      <3>3. CASE Crash(p)  BY <3>3, CrashFits
      <3>4. CASE Conflict(p)  BY <3>4, ConflictFits
      <3>5. CASE OpenLock(p) \/ WriteLock(p) \/ Release(p)
        BY <3>5, OpenLockFits, WriteLockFits, ReleaseFits
      <3>6. CASE Reclaim(p)
        <4>1. Stale  BY <1>2, <3>6 DEF Careful
        <4> QED BY <3>6, <4>1, ReclaimFits
      <3>7. CASE Relock(p)
        <4>1. Owns(p) \/ ~overlapped  BY <1>2, <3>7 DEF Careful
        <4> QED BY <3>7, <4>1, RelockFits
      <3>8. CASE \E j \in Installers : Recover(p, j)  BY <3>8, RecoverFits
      <3>9. CASE Recovered(p) \/ CapturePreStates(p) \/ CreateJournal(p)
        BY <3>9, RecoveredFits, CapturePreStatesFits, CreateJournalFits
      <3>10. CASE Advance(p) \/ Check(p) \/ Save(p) \/ BeginActivation(p) \/ CopyStaged(p) \/ Recheck(p)
        BY <3>10, AdvanceFits, CheckFits, SaveFits, BeginActivationFits, CopyStagedFits, RecheckFits
      <3>11. CASE Displace(p) \/ Place(p) \/ Clear(p) \/ Activated(p) \/ Commit(p) \/ Seal(p)
        BY <3>11, DisplaceFits, PlaceActFits, ClearFits, ActivatedFits, CommitFits, SealFits
      <3>12. CASE Examine(p) \/ PutBack(p) \/ Restore(p) \/ Retire(p)
        BY <3>12, ExamineFits, PutBackFits, RestoreFits, RetireFits
      <3>13. CASE Evict(p) \/ Return(p) \/ Dismiss(p) \/ SettleTarget(p) \/ Finish(p)
        BY <3>13, EvictFits, ReturnFits, DismissFits, SettleTargetFits, FinishFits
      <3> QED BY <2>2, <3>1, <3>2, <3>3, <3>4, <3>5, <3>6, <3>7, <3>8, <3>9, <3>10, <3>11, <3>12, <3>13
           DEF Installs
    <2> QED BY <1>2, <2>1, <2>2 DEF Next
  <1> QED BY <1>1, <1>2

\* One installer at a time is careful: a lock that is stale stays so, and
\* nobody can have recovered the journal of a rollback.
LEMMA AloneStep ==
  (~overlapped => InstallInv) /\ [Next]_vars => (~overlapped => InstallInv)'
  <1> SUFFICES ASSUME ~overlapped => InstallInv, [Next]_vars, ~overlapped'  PROVE InstallInv'
    OBVIOUS
  <1>1. ~overlapped
    <2>1. CASE Next
      <3>1. CASE \E t \in Targets : Edit(t)  BY <3>1 DEF Edit
      <3>2. ASSUME NEW p \in Installers, Start(p)  PROVE ~overlapped  BY <3>2 DEF Start
      <3>3. ASSUME NEW p \in Installers, Fail(p) \/ Crash(p)  PROVE ~overlapped
        BY <3>3 DEF Fail, Crash, user
      <3>4. ASSUME NEW p \in Installers, Installs(p)  PROVE UNCHANGED user
        BY <3>4 DEF Installs, OpenLock, WriteLock, Reclaim, Release, Recover, Recovered, CapturePreStates,
                    CreateJournal, Advance, Check, Save, BeginActivation, CopyStaged, Recheck, Displace,
                    Place, Clear, Activated, Commit, Seal, Relock, Examine, PutBack, Restore, Retire,
                    Evict, Return, Dismiss, SettleTarget, Finish, Conflict
      <3>5. ASSUME NEW p \in Installers, Installs(p)  PROVE ~overlapped
        BY <3>4, <3>5 DEF user
      <3> QED BY <2>1, <3>1, <3>2, <3>3, <3>5 DEF Next
    <2>2. CASE UNCHANGED vars  BY <2>2 DEF vars, user
    <2> QED BY <2>1, <2>2
  <1>2. InstallInv  BY <1>1
  <1>3. Careful
    <2>1. ASSUME NEW p \in Installers, Reclaim(p)  PROVE Stale
      BY <1>1, <1>2, <2>1 DEF Reclaim, InstallInv, LockFits
    <2> QED BY <1>1, <2>1 DEF Careful
  <1> QED BY <1>2, <1>3, InstallStep

-----------------------------------------------------------------------------
(* Theorems *)

\* The invariant holds of installers that follow one another, and of careful
\* ones that overlap.
THEOREM InstallInvariant ==
  /\ Spec => [](~overlapped => InstallInv)
  /\ Spec /\ [][Careful]_vars => []InstallInv
  <1>1. Spec => [](~overlapped => InstallInv)
    BY InitFits, AloneStep, PTL DEF Spec
  <1>2. InstallInv /\ [Next]_vars /\ [Careful]_vars => InstallInv'
    <2>1. [Next]_vars /\ [Careful]_vars => [Next /\ Careful]_vars  OBVIOUS
    <2> QED BY <2>1, InstallStep
  <1>3. Spec /\ [][Careful]_vars => []InstallInv
    BY InitFits, <1>2, PTL DEF Spec
  <1> QED BY <1>1, <1>3

\* Between taking the lock and giving it back an installer is alone, and the
\* lock file is its own (acquireBlenderInstallLock, releaseBlenderInstallLock).
THEOREM OneInstallerWorks ==
  /\ Spec => [](~overlapped => LockExcludes)
  /\ Spec /\ [][Careful]_vars => []LockExcludes
  <1>1. InstallInv => LockExcludes
    <2>1. ASSUME InstallInv, NEW p \in Installers, pc[p] \in Inside
          PROVE  Owns(p) /\ \A q \in Installers \ {p} : pc[q] \notin Inside
      BY <2>1, LockFacts DEF Owns
    <2> QED BY <2>1 DEF LockExcludes
  <1> QED BY <1>1, InstallInvariant, PTL

\* When no transaction is active, each target the user left alone is as it was
\* or, after a commit, as installed - whatever failed or died, and wherever
\* (activateBlenderTransaction, rollbackBlenderInstall).  A directory whose
\* removal was cut off is there in part, with a conflict reported on it.
THEOREM InstalledOrRestored ==
  /\ Spec => [](~overlapped => AllOrNothing)
  /\ Spec /\ [][Careful]_vars => []AllOrNothing
  <1>1. InstallInv => AllOrNothing
    <2>1. ASSUME InstallInv, Active = {}, NEW t \in Targets \ edited
          PROVE  /\ live[t] = IF \E p \in Installers : status[p] = "committed" THEN Post(t) ELSE Original(t)
                 /\ t \in halved => \E p \in Installers : state[p][t] = "recovery_conflict"
      <3>1. Installed(t) /\ (t \in halved => Halved(t))  BY <2>1 DEF InstallInv
      <3>2. Halved(t) => \E p \in Installers : state[p][t] = "recovery_conflict"
        BY <2>1 DEF Halved, Active
      <3> QED BY <3>1, <3>2 DEF Installed
    <2> QED BY <2>1 DEF AllOrNothing
  <1> QED BY <1>1, InstallInvariant, PTL

\* What the user saved is in its place, or in a backup, or was moved aside; the
\* checks of the activation and of the rollback lose only what is saved between
\* a check and the rename or removal after it.
THEOREM NothingSavedIsLost ==
  /\ Spec => [](~overlapped => MineIsKept)
  /\ Spec /\ [][Careful]_vars => []MineIsKept
  <1>1. InstallInv => MineIsKept
    <2>1. ASSUME InstallInv, NEW t \in edited \ raced
          PROVE  live[t] = "mine" \/ \E j \in Installers : "mine" \in {displaced[j][t], evidence[j][t], backup[j][t]}
      <3>1. t \in Targets  BY <2>1 DEF InstallInv, Types, UserTypes
      <3> QED BY <2>1, <3>1 DEF InstallInv, Kept
    <2> QED BY <2>1 DEF MineIsKept
  <1> QED BY <1>1, InstallInvariant, PTL

\* Where a step of an installation refuses, the user saved the target or its
\* copy is torn.
LEMMA ForwardRefuses ==
  ASSUME InstallInv, NEW p \in Installers, pc[p] \in Forward, Refuses(p)
  PROVE  IF pc[p] = "committing" THEN edited # {}
         ELSE at[p] \in edited \/ "torn" \in {temp[at[p]], spare[at[p]]}
  <1>1. /\ token[p] = p /\ Owns(p) /\ (pc[p] # "advancing" => at[p] \in Targets)
        /\ \A t \in Targets : state[p][t] = Going(p, t)
        /\ \A t \in Targets \ edited : ForwardFits(p, t) /\ DiskFits(p, t)
        /\ at[p] \in 0 .. Last
    BY ForwardFacts
  <1>2. pc[p] # "advancing"  BY <1>1 DEF Refuses
  <1>3. PICK t \in Targets : t = at[p]  BY <1>1, <1>2
  <1>4. t \in 1 .. Last  BY DEF Targets
  <1>5. ASSUME t \notin edited, pc[p] # "committing"  PROVE "torn" \in {temp[t], spare[t]}
    <2>1. ForwardFits(p, t) /\ DiskFits(p, t) /\ state[p][t] = Going(p, t)  BY <1>1, <1>5
    <2>2. CASE pc[p] = "checking"
      <3>1. state[p][t] = "staged"  BY <1>3, <1>4, <2>1, <2>2 DEF Going
      <3> QED BY <1>3, <2>1, <2>2, <3>1 DEF DiskFits, Refuses, Changed
    <2>3. CASE pc[p] = "beginning"
      <3>1. state[p][t] = "snapshotted"  BY <1>3, <1>4, <2>1, <2>3 DEF Going
      <3> QED BY <1>3, <2>1, <2>3, <3>1 DEF DiskFits, Refuses, Changed
    <2>4. CASE pc[p] = "rechecking"
      BY <1>3, <2>1, <2>4 DEF DiskFits, ForwardFits, Drafting, Refuses, Changed
    <2>5. CASE pc[p] = "copying"
      <3>1. temp[t] \in {"absent", "new", "torn"}  BY DEF InstallInv, Types, DiskTypes
      <3> QED BY <1>3, <2>5, <3>1 DEF Refuses
    <2>6. CASE pc[p] = "placing"
      <3>1. ~IsFile(t) /\ live[t] # "absent" /\ pre[p][t] = Original(t)
        BY <1>3, <2>1, <2>6 DEF Refuses, Occupied, DiskFits
      <3>2. Displaces(p, t) => live[t] = "absent"  BY <1>3, <2>1, <2>6 DEF ForwardFits
      <3>3. ~Displaces(p, t) => live[t] = Original(t)  BY <1>3, <2>1, <2>6 DEF ForwardFits
      <3> QED BY <3>1, <3>2, <3>3 DEF Displaces
    <2>7. CASE pc[p] = "clearing"
      BY <1>3, <2>1, <2>7 DEF Refuses, ForwardFits
    <2> QED BY <1>2, <1>5, <2>2, <2>3, <2>4, <2>5, <2>6, <2>7 DEF Refuses, Forward
  <1>6. ASSUME pc[p] = "committing"  PROVE edited # {}
    <2>1. PICK u \in Targets : live[u] # Post(u)  BY <1>6 DEF Refuses
    <2>2. state[p][u] = "active"  BY <1>1, <1>6 DEF Going
    <2> QED BY <1>1, <2>1, <2>2 DEF ForwardFits
  <1> QED BY <1>3, <1>5, <1>6

\* ... and of a rollback.
LEMMA UndoRefuses ==
  ASSUME InstallInv, NEW p \in Installers, pc[p] \in Undoing, Refuses(p)
  PROVE  at[p] \in edited \/ "torn" \in {temp[at[p]], spare[at[p]]}
  <1>1. PICK j \in Installers, t \in Targets :
           /\ of[p] = j /\ at[p] = t
           /\ pc[p] \notin {"rolling", "finishing"} => ~Untouched(state[j][t])
           /\ StepFits(p) /\ Own(t)
           /\ t \notin edited => UndoFits(p)
           /\ pc[p] \notin {"rolling", "finishing"} /\ t \notin edited => DiskFits(j, t)
    BY UndoFacts
  <1>2. SUFFICES ASSUME t \notin edited  PROVE "torn" \in {temp[t], spare[t]}
    BY <1>1
  <1>3. pc[p] \in {"puttingBack", "restoring", "retiring", "returning", "dismissing"}
    BY DEF Refuses, Undoing
  <1>4. /\ pre[j][t] = Original(t) /\ backup[j][t] = Original(t)
        /\ state[j][t] = "snapshotted" => live[t] = Original(t)
        /\ state[j][t] # "snapshotted" => Between(j, t)
    BY <1>1, <1>2, <1>3, UndoneFacts
  <1>5. UndoFits(p)  BY <1>1, <1>2
  <1>6. Original(t) # Post(t)  BY PlanFacts DEF InstallInv
  <1>7. CASE pc[p] = "puttingBack"  BY <1>1, <1>5, <1>7 DEF UndoFits, Refuses, Occupied
  <1>8. CASE pc[p] = "restoring"
    <2>1. pre[j][t] # "absent" /\ spare[t] \notin {"absent", pre[j][t]}
      BY <1>1, <1>4, <1>8 DEF Refuses
    <2>2. spare[t] \in {"absent", "torn", Original(t)}  BY <1>1, <1>2 DEF Own
    <2> QED BY <1>4, <2>1, <2>2
  <1>9. CASE pc[p] = "retiring"
    <2>1. Post(t) # "absent"  BY <1>1, <1>9 DEF StepFits
    <2>2. live[t] = Post(t) \/ (live[t] = "absent" /\ evidence[j][t] = Post(t))
      BY <1>1, <1>5, <1>9 DEF UndoFits, Retired
    <2>3. live[t] = Post(t) => evidence[j][t] = "absent"
      BY <1>4, <1>6, <2>1 DEF Between
    <2> QED BY <1>1, <1>9, <2>2, <2>3 DEF Refuses
  <1>10. CASE pc[p] = "returning"  BY <1>1, <1>5, <1>10 DEF UndoFits, Refuses, Occupied
  <1>11. CASE pc[p] = "dismissing"  BY <1>1, <1>5, <1>11 DEF UndoFits, Refuses
  <1> QED BY <1>3, <1>7, <1>8, <1>9, <1>10, <1>11

\* A conflict is reported only where the user saved a target or an earlier
\* rollback removed it in part, and an installation or a rollback gives up only
\* where the user saved a target or a copy, or the removal of one, was cut off:
\* the disk tells every other phase of an interrupted transaction apart.
THEOREM ConflictsHaveACause ==
  /\ Spec => [](~overlapped => ConflictsAreReal)
  /\ Spec /\ [][Careful]_vars => []ConflictsAreReal
  <1>1. InstallInv => ConflictsAreReal
    <2>1. ASSUME InstallInv, NEW p \in Installers, NEW t \in Targets
          PROVE  /\ state[p][t] = "recovery_conflict" => t \in edited \cup halved
                 /\ Refuses(p) /\ pc[p] \in {"committing", "relocking"} => edited # {} \/ ~Owns(p)
                 /\ Refuses(p) /\ pc[p] \notin {"committing", "relocking"} =>
                      at[p] \in edited \/ "torn" \in {temp[at[p]], spare[at[p]]}
      <3>1. state[p][t] = "recovery_conflict" => t \in edited \cup halved  BY <2>1 DEF InstallInv
      <3>2. CASE ~Refuses(p)  BY <3>1, <3>2
      <3>3. CASE Refuses(p) /\ pc[p] \in Forward
        <4>1. pc[p] # "relocking"  BY <3>3 DEF Forward
        <4> QED BY <2>1, <3>1, <3>3, <4>1, ForwardRefuses
      <3>4. CASE Refuses(p) /\ pc[p] \in Undoing
        <4>1. pc[p] \notin {"relocking", "committing"}  BY <3>4 DEF Undoing
        <4> QED BY <2>1, <3>1, <3>4, <4>1, UndoRefuses
      <3>5. CASE Refuses(p) /\ pc[p] = "relocking"  BY <3>1, <3>5 DEF Refuses
      <3>6. Refuses(p) => pc[p] \in Forward \cup Undoing \cup {"relocking"}
        BY DEF Refuses, Forward, Undoing
      <3> QED BY <3>2, <3>3, <3>4, <3>5, <3>6
    <2> QED BY <2>1 DEF ConflictsAreReal
  <1> QED BY <1>1, InstallInvariant, PTL
=============================================================================

-------------------------- MODULE InstallTransaction --------------------------
(***************************************************************************)
(* The journalled installation of the Blender integration                  *)
(* (setup/blender): the lock file, the recovery of interrupted             *)
(* transactions, the snapshots, the activation of one target after the     *)
(* other, commit and rollback.                                             *)
(*                                                                         *)
(* A target is a file or a directory that the transaction creates,         *)
(* replaces or removes; what a path holds is compared by its hash, so a    *)
(* content is one of a few values.  An installer is a process; it creates  *)
(* at most one transaction, which is known by its name.  A process can die *)
(* and an operation can fail between any two of the steps below, and in    *)
(* the middle of a copy or of the removal of a directory; the user can     *)
(* save a target at any time.                                              *)
(***************************************************************************)
EXTENDS Integers, FiniteSets

CONSTANTS
  Installers,  \* processes that install
  Last,        \* number of targets, numbered in the order of their phases
  Plans,       \* what a transaction may be about
  Budgets,     \* bounds: installers, overlap, edits, failing operations, deaths
  None

Targets  == 1 .. Last
\* "torn" is a copy or a removal that was cut off; "part" is a target that was.
Contents == {"absent", "old", "new", "mine", "torn", "part"}
Plan     == [Targets -> [kind : {"file", "directory"}, original : {"absent", "old"}, post : {"absent", "new"}]]

ASSUME InstallAssumption ==
  /\ Last \in Nat \ {0} /\ Plans \subseteq Plan
  /\ None \notin Installers \cup [by : Installers, whole : BOOLEAN]
  /\ \A plan \in Plans : \A t \in Targets : ~(plan[t].original = "absent" /\ plan[t].post = "absent")
  /\ Budgets \subseteq [installers : SUBSET Installers, overlap : BOOLEAN,
                       edits : Nat, faults : Nat, crashes : Nat]

VARIABLES
  plan,       \* the targets' kinds, first contents and expected contents
  live,       \* target -> what its path holds
  temp,       \* target -> what its .installing path holds
  spare,      \* target -> what its .restoring path holds
  displaced,  \* transaction -> target -> what its .displaced path holds
  backup,     \* transaction -> target -> what its backup holds
  evidence,   \* transaction -> target -> what its rollback-evidence path holds
  status,     \* transaction -> status of its journal
  state,      \* transaction -> target -> status of the target in the journal
  pre,        \* transaction -> target -> pre-state the journal requires
  token,      \* transaction -> the installer whose lock the journal names
  lock,       \* the lock file: who created it, and whether it was written
  pc,         \* installer -> the step it is about to take
  at,         \* installer -> the target that step is about
  of,         \* installer -> the transaction it rolls back
  tries,      \* installer -> attempts to take the lock
  fromPost,   \* installers that restore a target whose replacement they found in place
  edited,     \* targets the user has saved
  raced,      \* ... between a check of the code and the step that relies on it
  halved,     \* directories an installation created, and a rollback removed in part
  overlapped, \* two installers were running at one time
  faults, crashes

paths    == <<live, temp, spare, displaced, backup, evidence>>
journal  == <<status, state, pre, token>>
control  == <<pc, at, of, tries, fromPost>>
user     == <<plan, edited, raced, halved, overlapped>>
bounds   == <<faults, crashes>>
vars == <<paths, journal, lock, control, user, bounds>>

Acquiring == {"opening", "writing", "reclaiming"}
Forward   == {"advancing", "checking", "saving", "beginning", "copying", "rechecking",
              "displacing", "placing", "clearing", "activated", "committing", "sealing"}
Undoing   == {"rolling", "puttingBack", "restoring", "retiring", "evicting", "returning",
              "dismissing", "settling", "finishing"}
Inside    == Forward \cup Undoing \cup {"recovering", "planning", "creating", "releasing"}

Alive(p) == pc[p] \notin {"idle", "ended", "dead"}
Post(t) == plan[t].post
IsFile(t) == plan[t].kind = "file"
Owns(p) == lock = [by |-> p, whole |-> TRUE]
\* Faulty variant: only the contents of the lock are looked at.
StaleWhole == lock # None /\ lock.whole

\* A lock that can be read and whose process is gone.
Stale == lock # None /\ lock.whole /\ ~Alive(lock.by)

Active == {j \in Installers : status[j] = "active"}

\* A target that goes, or a directory that is replaced, is first moved aside.
Displaces(p, t) == Post(t) = "absent" \/ (~IsFile(t) /\ pre[p][t] # "absent")

Within(edits, fails, halts) ==
  \E b \in Budgets :
    /\ {p \in Installers : pc'[p] # "idle"} \subseteq b.installers
    /\ (overlapped' => b.overlap)
    /\ edits <= b.edits /\ fails <= b.faults /\ halts <= b.crashes

Same(value) == [t \in Targets |-> value]
Nowhere == [p \in Installers |-> Same("absent")]

Init ==
  /\ plan \in Plans /\ live = [t \in Targets |-> plan[t].original]
  /\ temp = Same("absent") /\ spare = Same("absent")
  /\ displaced = Nowhere /\ backup = Nowhere /\ evidence = Nowhere
  /\ status = [p \in Installers |-> "none"] /\ state = [p \in Installers |-> Same("none")]
  /\ pre = Nowhere /\ token = [p \in Installers |-> None]
  /\ lock = None
  /\ pc = [p \in Installers |-> "idle"] /\ at = [p \in Installers |-> 1]
  /\ of = [p \in Installers |-> p] /\ tries = [p \in Installers |-> 1] /\ fromPost = {}
  /\ edited = {} /\ raced = {} /\ halved = {} /\ overlapped = FALSE /\ faults = 0 /\ crashes = 0

Goto(p, next) == pc' = [pc EXCEPT ![p] = next]
Visit(p, next, t) == Goto(p, next) /\ at' = [at EXCEPT ![p] = t] /\ UNCHANGED <<of, tries, fromPost>>
Move(p, next) == Visit(p, next, at[p])

-----------------------------------------------------------------------------
(* When a step throws a conflict instead *)

\* Faulty variant: what the target held when the activation began is enough.
ChangedBefore(p, t) == pc[p] = "beginning" /\ live[t] # pre[p][t]

\* The target is not what the journal says it was.
Changed(p, t) == live[t] # pre[p][t]

\* A directory cannot be renamed over another one.
Occupied(t) == ~IsFile(t) /\ live[t] # "absent"

Refuses(p) ==
  LET t == at[p]
      j == of[p]
  IN CASE pc[p] \in {"checking", "beginning", "rechecking"} -> Changed(p, t)
       [] pc[p] = "advancing"   -> ~(Owns(p) /\ token[p] = p)
       [] pc[p] = "copying"     -> temp[t] \notin {"absent", "new"}
       [] pc[p] = "placing"     -> Occupied(t)
       [] pc[p] = "clearing"    -> displaced[p][t] \notin {"absent", pre[p][t]}
       [] pc[p] = "committing"  -> \E u \in Targets : live[u] # Post(u)
       [] pc[p] = "relocking"   -> ~Owns(p) /\ lock # None /\ ~Stale
       [] pc[p] = "puttingBack" -> Occupied(t)
       [] pc[p] = "restoring"   -> pre[j][t] # "absent"
                                   /\ (backup[j][t] # pre[j][t] \/ spare[t] \notin {"absent", pre[j][t]})
       [] pc[p] = "retiring"    -> ~(\/ live[t] = Post(t) /\ evidence[j][t] = "absent"
                                     \/ live[t] = "absent" /\ evidence[j][t] = Post(t))
       [] pc[p] = "returning"   -> Occupied(t)
       [] pc[p] = "dismissing"  -> evidence[j][t] \notin {"absent", Post(t)}
       [] OTHER -> FALSE

\* Faulty variant: a rollback that fails is begun again.
HandlerAgain(p) == IF pc[p] \in Forward \cup Undoing THEN "relocking" ELSE "releasing"

\* Where an error leads: a transaction of one's own is rolled back; when that
\* fails too the lock stays behind.  Everything else gives the lock back.
Handler(p) ==
  CASE pc[p] \in Forward -> "relocking"
    [] pc[p] \in Acquiring \cup {"relocking", "releasing"} -> "ended"
    [] pc[p] \in Undoing /\ of[p] = p -> "ended"
    [] OTHER -> "releasing"

\* The finally clause of the activation.
Tidies(p) == pc[p] \in {"rechecking", "displacing", "placing", "clearing"} /\ temp[at[p]] = "new"
DropTemp(p) == temp' = IF Tidies(p) THEN [temp EXCEPT ![at[p]] = "absent"] ELSE temp

Conflict(p) ==
  /\ Refuses(p) /\ Move(p, Handler(p)) /\ DropTemp(p)
  /\ UNCHANGED <<live, spare, displaced, backup, evidence, journal, lock, user, bounds>>

Step(p, from, to) == pc[p] = from /\ ~Refuses(p) /\ Move(p, to)

-----------------------------------------------------------------------------
(* The lock: acquireBlenderInstallLock, releaseBlenderInstallLock *)

Start(p) ==
  /\ pc[p] = "idle" /\ Move(p, "opening")
  /\ overlapped' = (overlapped \/ \E q \in Installers : Alive(q))
  /\ Within(Cardinality(edited), faults, crashes)
  /\ UNCHANGED <<paths, journal, lock, plan, edited, raced, halved, bounds>>

OpenLock(p) ==
  /\ \/ lock = None /\ Step(p, "opening", "writing") /\ lock' = [by |-> p, whole |-> FALSE]
     \/ Stale /\ Step(p, "opening", "reclaiming") /\ UNCHANGED lock
     \/ lock # None /\ ~Stale /\ Step(p, "opening", "ended") /\ UNCHANGED lock
  /\ UNCHANGED <<paths, journal, user, bounds>>

\* What is written goes to the file that was opened, also when it was renamed away since.
WriteLock(p) ==
  /\ Step(p, "writing", "recovering")
  /\ lock' = IF lock = [by |-> p, whole |-> FALSE] THEN [by |-> p, whole |-> TRUE] ELSE lock
  /\ UNCHANGED <<paths, journal, user, bounds>>

\* The lock file is renamed away, whoever's it is by now, and opening is tried once more.
Reclaim(p) ==
  /\ pc[p] = "reclaiming" /\ lock' = None
  /\ Goto(p, IF tries[p] = 1 THEN "opening" ELSE "ended") /\ tries' = [tries EXCEPT ![p] = 2]
  /\ UNCHANGED <<paths, journal, at, of, fromPost, user, bounds>>

Release(p) ==
  /\ Step(p, "releasing", "ended") /\ lock' = IF Owns(p) THEN None ELSE lock
  /\ UNCHANGED <<paths, journal, user, bounds>>

-----------------------------------------------------------------------------
(* installBlenderIntegration up to the journal *)

\* Another transaction is still active: its journal gets the token of our lock.
Recover(p, j) ==
  /\ pc[p] = "recovering" /\ status[j] = "active"
  /\ pc' = [pc EXCEPT ![p] = "rolling"] /\ at' = [at EXCEPT ![p] = Last] /\ of' = [of EXCEPT ![p] = j]
  /\ token' = [token EXCEPT ![j] = p]
  /\ UNCHANGED <<paths, status, state, pre, lock, tries, fromPost, user, bounds>>

\* None is: a recovery that met a conflict ends the installation.
Recovered(p) ==
  /\ Active = {}
  /\ IF \E j \in Installers : token[j] = p /\ status[j] = "recovery_conflict"
     THEN Step(p, "recovering", "releasing") ELSE Step(p, "recovering", "planning")
  /\ UNCHANGED <<paths, journal, lock, user, bounds>>

\* The pre-states are captured - or the integration is installed already, or
\* something forbids the installation.
CapturePreStates(p) ==
  /\ \/ Step(p, "planning", "releasing") /\ UNCHANGED pre
     \/ /\ Step(p, "planning", "creating") /\ \A j \in Installers : status[j] # "committed"
        /\ pre' = [pre EXCEPT ![p] = live]
  /\ UNCHANGED <<paths, status, state, token, lock, user, bounds>>

\* Everything is staged, then the journal is written.
CreateJournal(p) ==
  /\ pc[p] = "creating" /\ Goto(p, "advancing") /\ at' = [at EXCEPT ![p] = 0] /\ of' = [of EXCEPT ![p] = p]
  /\ status' = [status EXCEPT ![p] = "active"] /\ state' = [state EXCEPT ![p] = Same("staged")]
  /\ token' = [token EXCEPT ![p] = p]
  /\ UNCHANGED <<paths, pre, lock, tries, fromPost, user, bounds>>

-----------------------------------------------------------------------------
(* Snapshots, activation and commit; the target 0 stands for the phases before them *)

SetState(j, t, s) == state' = [state EXCEPT ![j][t] = s]

Advance(p) ==
  /\ pc[p] = "advancing" /\ ~Refuses(p)
  /\ CASE at[p] = 0    -> Visit(p, "checking", 1)
       [] at[p] = Last -> Move(p, "committing")
       [] OTHER        -> Visit(p, "beginning", at[p] + 1)
  /\ UNCHANGED <<paths, journal, lock, user, bounds>>

Check(p) == Step(p, "checking", "saving") /\ UNCHANGED <<paths, journal, lock, user, bounds>>

Save(p) ==
  /\ pc[p] = "saving"
  /\ IF at[p] = Last THEN Visit(p, "beginning", 1) ELSE Visit(p, "checking", at[p] + 1)
  /\ backup' = [backup EXCEPT ![p][at[p]] = IF pre[p][at[p]] = "absent" THEN "absent" ELSE live[at[p]]]
  /\ SetState(p, at[p], "snapshotted")
  /\ UNCHANGED <<live, temp, spare, displaced, evidence, status, pre, token, lock, user, bounds>>

BeginActivation(p) ==
  /\ Step(p, "beginning", IF Post(at[p]) = "absent" THEN "rechecking" ELSE "copying")
  /\ SetState(p, at[p], "activating")
  /\ UNCHANGED <<paths, status, pre, token, lock, user, bounds>>

CopyStaged(p) ==
  /\ Step(p, "copying", "rechecking") /\ temp' = [temp EXCEPT ![at[p]] = "new"]
  /\ UNCHANGED <<live, spare, displaced, backup, evidence, journal, lock, user, bounds>>

Recheck(p) ==
  /\ Step(p, "rechecking", IF Displaces(p, at[p]) THEN "displacing" ELSE "placing")
  /\ UNCHANGED <<paths, journal, lock, user, bounds>>

Displace(p) ==
  /\ Step(p, "displacing", IF Post(at[p]) = "absent" THEN "clearing" ELSE "placing")
  /\ displaced' = [displaced EXCEPT ![p][at[p]] = live[at[p]]] /\ live' = [live EXCEPT ![at[p]] = "absent"]
  /\ UNCHANGED <<temp, spare, backup, evidence, journal, lock, user, bounds>>

Place(p) ==
  /\ Step(p, "placing", "clearing")
  /\ live' = [live EXCEPT ![at[p]] = "new"] /\ temp' = [temp EXCEPT ![at[p]] = "absent"]
  /\ UNCHANGED <<spare, displaced, backup, evidence, journal, lock, user, bounds>>

Clear(p) ==
  /\ Step(p, "clearing", "activated") /\ displaced' = [displaced EXCEPT ![p][at[p]] = "absent"]
  /\ UNCHANGED <<live, temp, spare, backup, evidence, journal, lock, user, bounds>>

Activated(p) ==
  /\ Step(p, "activated", "advancing") /\ SetState(p, at[p], "active")
  /\ UNCHANGED <<paths, status, pre, token, lock, user, bounds>>

Commit(p) == Step(p, "committing", "sealing") /\ UNCHANGED <<paths, journal, lock, user, bounds>>

Seal(p) ==
  /\ Step(p, "sealing", "releasing") /\ status' = [status EXCEPT ![p] = "committed"]
  /\ UNCHANGED <<paths, state, pre, token, lock, user, bounds>>

-----------------------------------------------------------------------------
(* rollbackBlenderInstall: the targets in reverse order *)

\* ensureJournalLock for one's own transaction: the lock is still held, or it
\* was given up by a failing commit and is taken again (a stale one is replaced).
Relock(p) ==
  /\ pc[p] = "relocking" /\ ~Refuses(p) /\ Visit(p, "rolling", Last)
  /\ lock' = [by |-> p, whole |-> TRUE]
  /\ UNCHANGED <<paths, journal, user, bounds>>

\* The target that p is about is dealt with.
Next1(p) ==
  /\ IF at[p] = 1 THEN Goto(p, "finishing") /\ UNCHANGED at
     ELSE Goto(p, "rolling") /\ at' = [at EXCEPT ![p] = @ - 1]
  /\ UNCHANGED <<of, tries>>

Settle(p, s) == SetState(of[p], at[p], s) /\ Next1(p) /\ fromPost' = fromPost \ {p}

Without(place, j, t, content) ==
  IF place[j][t] = content THEN [place EXCEPT ![j][t] = "absent"] ELSE place

\* Faulty variant: what was moved aside by an earlier rollback is not looked for.
RetiredNever(j, t) == FALSE

\* An earlier rollback of this directory was interrupted after the replacement
\* had been moved aside.  (For a directory that goes this is always the case.)
Retired(j, t) ==
  live[t] = "absent" /\ ~IsFile(t) /\ pre[j][t] # "absent" /\ evidence[j][t] = Post(t)

\* Faulty variant: an activation that was interrupted is left alone.
UntouchedOpen(s) == s \in {"staged", "activating", "rolled_back"}

\* Nothing was done to the target, or everything is undone.
Untouched(s) == s \in {"staged", "rolled_back"}

\* What is to be done with a target is told from what is found on the disk.
Examine(p) ==
  LET t == at[p]
      j == of[p]
      wanted == pre[j][t]
      aside == state[j][t] = "activating" /\ live[t] = "absent" /\ wanted # "absent"
               /\ displaced[j][t] = wanted
  IN /\ pc[p] = "rolling"
     /\ IF Untouched(state[j][t])
        THEN Next1(p) /\ UNCHANGED <<temp, displaced, evidence, state, fromPost>>
        ELSE /\ temp' = IF temp[t] = Post(t) THEN [temp EXCEPT ![t] = "absent"] ELSE temp
             /\ IF live[t] = wanted
                THEN /\ displaced' = Without(displaced, j, t, wanted)
                     /\ evidence' = Without(evidence, j, t, Post(t))
                     /\ Settle(p, "rolled_back")
                ELSE /\ UNCHANGED <<displaced, evidence>>
                     /\ IF Retired(j, t) THEN Move(p, "restoring") /\ UNCHANGED state
                        ELSE IF aside THEN Move(p, "puttingBack") /\ UNCHANGED state
                        ELSE IF live[t] # Post(t) THEN Settle(p, "recovery_conflict")
                        ELSE /\ Goto(p, "restoring") /\ fromPost' = fromPost \cup {p}
                             /\ UNCHANGED <<state, at, of, tries>>
     /\ UNCHANGED <<live, spare, backup, status, pre, token, lock, user, bounds>>

PutBack(p) ==
  /\ pc[p] = "puttingBack" /\ ~Refuses(p) /\ Settle(p, "rolled_back")
  /\ live' = [live EXCEPT ![at[p]] = displaced[of[p]][at[p]]]
  /\ displaced' = [displaced EXCEPT ![of[p]][at[p]] = "absent"]
  /\ UNCHANGED <<temp, spare, backup, evidence, status, pre, token, lock, user, bounds>>

\* restoreBackup: what was created goes, else the backup is copied next to the target.
Restore(p) ==
  LET t == at[p]
      wanted == pre[of[p]][t]
      replaces == ~IsFile(t) /\ Post(t) # "absent"
  IN /\ Step(p, "restoring", IF wanted = "absent" THEN "settling"
                             ELSE IF replaces THEN "retiring" ELSE "returning")
     /\ IF wanted = "absent"
        THEN live' = [live EXCEPT ![t] = "absent"] /\ UNCHANGED spare
        ELSE spare' = [spare EXCEPT ![t] = wanted] /\ UNCHANGED live
     /\ UNCHANGED <<temp, displaced, backup, evidence, journal, lock, user, bounds>>

Retire(p) ==
  /\ Step(p, "retiring", IF live[at[p]] = "absent" THEN "returning" ELSE "evicting")
  /\ UNCHANGED <<paths, journal, lock, user, bounds>>

Evict(p) ==
  /\ Step(p, "evicting", "returning")
  /\ evidence' = [evidence EXCEPT ![of[p]][at[p]] = live[at[p]]] /\ live' = [live EXCEPT ![at[p]] = "absent"]
  /\ UNCHANGED <<temp, spare, displaced, backup, journal, lock, user, bounds>>

Return(p) ==
  /\ Step(p, "returning", IF ~IsFile(at[p]) /\ Post(at[p]) # "absent" THEN "dismissing" ELSE "settling")
  /\ live' = [live EXCEPT ![at[p]] = spare[at[p]]] /\ spare' = [spare EXCEPT ![at[p]] = "absent"]
  /\ UNCHANGED <<temp, displaced, backup, evidence, journal, lock, user, bounds>>

Dismiss(p) ==
  /\ Step(p, "dismissing", "settling") /\ evidence' = [evidence EXCEPT ![of[p]][at[p]] = "absent"]
  /\ UNCHANGED <<live, temp, spare, displaced, backup, journal, lock, user, bounds>>

SettleTarget(p) ==
  /\ pc[p] = "settling" /\ Settle(p, "rolled_back")
  /\ displaced' = IF p \in fromPost THEN Without(displaced, of[p], at[p], pre[of[p]][at[p]]) ELSE displaced
  /\ UNCHANGED <<live, temp, spare, backup, evidence, status, pre, token, lock, user, bounds>>

Finish(p) ==
  /\ Step(p, "finishing", IF of[p] = p THEN "releasing" ELSE "recovering")
  /\ status' = [status EXCEPT ![of[p]] =
       IF \E t \in Targets : state[of[p]][t] = "recovery_conflict" THEN "recovery_conflict" ELSE "rolled_back"]
  /\ UNCHANGED <<paths, state, pre, token, lock, user, bounds>>

-----------------------------------------------------------------------------
(* The user, failing operations, the end of a process *)

\* Between a check and the step that overwrites or removes what was checked.
Window(p, t) ==
  at[p] = t /\ \/ IsFile(t) /\ pc[p] \in {"placing", "puttingBack", "restoring", "returning"}
               \/ pc[p] = "restoring" /\ pre[of[p]][t] = "absent"

Edit(t) ==
  /\ t \notin edited /\ edited' = edited \cup {t} /\ live' = [live EXCEPT ![t] = "mine"]
  /\ raced' = IF \E p \in Installers : Window(p, t) THEN raced \cup {t} ELSE raced
  /\ UNCHANGED <<temp, spare, displaced, backup, evidence, journal, lock, control, plan, halved, overlapped, bounds>>
  /\ Within(Cardinality(edited'), faults, crashes)

\* What may be left of a path that is removed if it holds what it should.
Cut(t, found, owned) ==
  IF found # owned \/ owned = "absent" THEN {found}
  ELSE {found, "absent"} \cup (IF IsFile(t) THEN {} ELSE {"torn"})

Removed(found, owned) == IF found = owned THEN "absent" ELSE found

\* A copy that does not come to its end leaves a part of it.
TornCopy(p) ==
  LET t == at[p]
  IN /\ ~Refuses(p) /\ UNCHANGED <<live, displaced, evidence, halved>>
     /\ \/ pc[p] = "copying" /\ temp' = [temp EXCEPT ![t] = "torn"] /\ UNCHANGED spare
        \/ /\ pc[p] = "restoring" /\ pre[of[p]][t] # "absent" /\ spare[t] = "absent"
           /\ spare' = [spare EXCEPT ![t] = "torn"] /\ UNCHANGED temp

\* So does the removal of a directory that the transaction created.
TornTarget(p) ==
  LET t == at[p]
  IN /\ pc[p] = "restoring" /\ pre[of[p]][t] = "absent" /\ ~IsFile(t) /\ live[t] # "absent"
     /\ live' = [live EXCEPT ![t] = "part"] /\ halved' = halved \cup {t}
     /\ UNCHANGED <<temp, spare, displaced, evidence>>

\* So do the removals of what lies beside a target, one after the other.
TornRemoval(p) ==
  LET t == at[p]
      j == of[p]
      wanted == pre[j][t]
      rolls == pc[p] = "rolling" /\ ~Untouched(state[j][t])
  IN /\ rolls \/ Tidies(p) \/ pc[p] \in {"clearing", "settling", "dismissing"}
     /\ \E x \in Cut(t, temp[t], Post(t)), y \in Cut(t, displaced[j][t], wanted),
           z \in Cut(t, evidence[j][t], Post(t)) :
          /\ x = temp[t] \/ rolls \/ Tidies(p)
          /\ \/ y = displaced[j][t] \/ pc[p] = "clearing" \/ (pc[p] = "settling" /\ p \in fromPost)
             \/ rolls /\ live[t] = wanted /\ x = Removed(temp[t], Post(t))
          /\ \/ z = evidence[j][t] \/ pc[p] = "dismissing"
             \/ /\ rolls /\ live[t] = wanted
                /\ x = Removed(temp[t], Post(t)) /\ y = Removed(displaced[j][t], wanted)
          /\ temp' = [temp EXCEPT ![t] = x] /\ displaced' = [displaced EXCEPT ![j][t] = y]
          /\ evidence' = [evidence EXCEPT ![j][t] = z]
     /\ UNCHANGED <<live, spare, halved>>

CutOff(p) == TornCopy(p) \/ TornTarget(p) \/ TornRemoval(p)

\* An operation fails.  A commit that fails gives the lock back at once.
Fail(p) ==
  /\ Alive(p) /\ faults' = faults + 1 /\ Move(p, Handler(p))
  /\ \/ ~Refuses(p) /\ UNCHANGED <<live, spare, displaced, evidence, halved>> /\ DropTemp(p)
     \/ CutOff(p)
  /\ lock' = IF pc[p] = "sealing" /\ Owns(p) THEN None ELSE lock
  /\ UNCHANGED <<backup, journal, plan, edited, raced, overlapped, crashes>>
  /\ Within(Cardinality(edited), faults', crashes)

Crash(p) ==
  /\ Alive(p) /\ crashes' = crashes + 1 /\ Move(p, "dead")
  /\ UNCHANGED <<live, temp, spare, displaced, evidence, halved>> \/ CutOff(p)
  /\ UNCHANGED <<backup, journal, lock, plan, edited, raced, overlapped, faults>>
  /\ Within(Cardinality(edited), faults, crashes')

-----------------------------------------------------------------------------
Installs(p) ==
  \/ OpenLock(p) \/ WriteLock(p) \/ Reclaim(p) \/ Release(p)
  \/ \E j \in Installers : Recover(p, j)
  \/ Recovered(p) \/ CapturePreStates(p) \/ CreateJournal(p) \/ Advance(p)
  \/ Check(p) \/ Save(p) \/ BeginActivation(p) \/ CopyStaged(p) \/ Recheck(p)
  \/ Displace(p) \/ Place(p) \/ Clear(p) \/ Activated(p) \/ Commit(p) \/ Seal(p)
  \/ Relock(p) \/ Examine(p) \/ PutBack(p) \/ Restore(p) \/ Retire(p) \/ Evict(p)
  \/ Return(p) \/ Dismiss(p) \/ SettleTarget(p) \/ Finish(p)
  \/ Conflict(p)

Next ==
  \/ \E p \in Installers : Start(p) \/ Installs(p) \/ Fail(p) \/ Crash(p)
  \/ \E t \in Targets : Edit(t)

Spec == Init /\ [][Next]_vars

\* An installer that runs takes its next step.
FairSpec == Spec /\ \A p \in Installers : WF_vars(Installs(p))

-----------------------------------------------------------------------------
(* Properties *)

\* What a target holds as long as nothing is installed: what it held at first,
\* or what is left of it where a rollback was cut off in its removal.
Original(t) == IF t \in halved THEN "part" ELSE plan[t].original

\* Once no transaction is active, every target the user left alone holds what
\* it held before the first installation, or, after a commit, what was installed:
\* also when processes died, operations failed and recoveries were interrupted.
\* Only a directory that the installation created and whose removal was cut off
\* may be there in part, and then a rollback has reported a conflict on it.
AllOrNothing ==
  Active = {} =>
    \A t \in Targets \ edited :
      /\ live[t] = IF \E p \in Installers : status[p] = "committed" THEN Post(t) ELSE Original(t)
      /\ t \in halved => \E p \in Installers : state[p][t] = "recovery_conflict"

\* The rollback is transactional: what the user left alone is as it was at first
\* or as it was installed, whenever the rollback was cut off.
RollbackRestores ==
  Active = {} =>
    \A t \in Targets \ edited :
      live[t] = IF \E p \in Installers : status[p] = "committed" THEN Post(t) ELSE plan[t].original

\* What the user saved is still somewhere, unless it was saved between a check
\* and the rename or removal that relies on it.
MineIsKept ==
  \A t \in edited \ raced :
    \/ live[t] = "mine"
    \/ \E j \in Installers : "mine" \in {displaced[j][t], evidence[j][t], backup[j][t]}

\* Only one installer is between taking and giving back the lock, and the lock
\* file is its own.
LockExcludes ==
  \A p \in Installers :
    pc[p] \in Inside =>
      /\ Owns(p)
      /\ \A q \in Installers \ {p} : pc[q] \notin Inside

\* A rollback tells every phase apart by what is on the disk: it reports a
\* conflict only where the user saved a target or an earlier rollback was cut
\* off while it removed the target; an installation or a rollback gives up only
\* where the user saved a target or a copy, or the removal of one, was cut off.
ConflictsAreReal ==
  \A p \in Installers : \A t \in Targets :
    /\ state[p][t] = "recovery_conflict" => t \in edited \cup halved
    /\ Refuses(p) /\ pc[p] \in {"committing", "relocking"} => edited # {} \/ ~Owns(p)
    /\ Refuses(p) /\ pc[p] \notin {"committing", "relocking"} =>
         at[p] \in edited \/ "torn" \in {temp[at[p]], spare[at[p]]}

\* Every installer comes to an end.
EveryInstallerEnds ==
  \A p \in Installers : pc[p] = "opening" ~> ~Alive(p)
=============================================================================
